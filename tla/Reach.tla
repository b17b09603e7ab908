------------------------------- MODULE Reach --------------------------------
(***************************************************************************)
(* Parallel breadth-first reachability (pins2lts-mc/algorithm/reach.c,     *)
(* strategies bfs and sbfs): every worker explores the states on its       *)
(* in_stack, puts the successors that are new in the shared state store on *)
(* its out_stack, and shares its states with idle workers through the load *)
(* balancer, which is module LoadBalancer with the load of a worker given  *)
(* by its stacks.  The actions of the balancer are used as they are; the   *)
(* ones that run code of the client are conjoined with what that code does *)
(* to the stacks.                                                          *)
(*                                                                         *)
(* The insertion into the state store is atomic here (module DbsLL).  A    *)
(* worker's stacks are private while it explores, so the pop of the state  *)
(* and the pushes of its new successors are one step, at the end.          *)
(***************************************************************************)
EXTENDS Integers, Sequences, FiniteSets, FiniteSetsExt, Functions

CONSTANTS
    W, Granularity, MaxHandoff, \* as in LoadBalancer
    State,     \* the states of the models that are explored
    Initial,   \* their initial state
    Jobs       \* what the tool may be asked to do

Thread == 0 .. W - 1

ASSUME WorkerAssumption == W \in Nat \ {0} /\ MaxHandoff \in Nat

ASSUME ModelAssumption ==
    /\ Initial \in State
    /\ Jobs \subseteq [succ : [State -> SUBSET State], error : SUBSET State,
                        strategy : {"bfs", "sbfs"}, max_level : Nat]

VARIABLES
    job,       \* the successor function of the model, the deadlocks or invariant
               \* violations looked for, strategy[0] and max_level
    stopped, all_done, idle, requests, received, my_load, oid, wait_reply,
    todo, given, pc,     \* the balancer
    visited,   \* the state store
    explored,  \* history: the states whose successors were generated
    in_stack,  \* sm->in_stack
    out_stack, \* sm->out_stack
    level,     \* ctx->counters->level_cur
    cur,       \* the state being explored, a set with at most one element
    trans,     \* its successors that permute_trans has still to hand over
    new        \* its successors found new, in the order they are pushed

lbvars == <<stopped, all_done, idle, requests, received, my_load, oid,
            wait_reply, todo, given, pc>>
reachvars == <<visited, explored, in_stack, out_stack, level, cur, trans, new>>
vars == <<job, lbvars, reachvars>>

\* A stack is a sequence with its top at the end: dfs_stack_pop returns the
\* top and leaves the rest.
Top(s) == s[Len(s)]
Pop(s) == SubSeq(s, 1, Len(s) - 1)

\* bfs_load, in_load
Load(t) == Len(in_stack[t]) + (IF job.strategy = "bfs" THEN Len(out_stack[t]) ELSE 0)
loads == [t \in Thread |-> Load(t)]

\* The states no worker has had on its stacks yet, as the balancer counts them.
unloaded == Cardinality(State) - Cardinality(explored) - SumFunction(loads)

LB == INSTANCE LoadBalancer WITH
         load <- loads,
         fresh <- unloaded,
         MaxLoad <- Cardinality(State),
         MayStop <- TRUE

\* reach_run: worker 0 puts the initial state on its out_stack.
Init ==
    /\ job \in Jobs
    /\ visited = {Initial}
    /\ explored = {}
    /\ in_stack = [t \in Thread |-> <<>>]
    /\ out_stack = [t \in Thread |-> IF t = 0 THEN <<Initial>> ELSE <<>>]
    /\ level = [t \in Thread |-> 0]
    /\ cur = [t \in Thread |-> {}]
    /\ trans = [t \in Thread |-> {}]
    /\ new = [t \in Thread |-> <<>>]
    /\ stopped = FALSE
    /\ all_done = FALSE
    /\ idle = [t \in Thread |-> FALSE]
    /\ requests = [t \in Thread |-> {}]
    /\ received = [t \in Thread |-> 0]
    /\ my_load = [t \in Thread |-> IF t = 0 /\ job.strategy = "bfs" THEN 1 ELSE 0]
    /\ oid = [t \in Thread |-> 0]
    /\ wait_reply = [t \in Thread |-> FALSE]
    /\ todo = [t \in Thread |-> {}]
    /\ given = [t \in Thread |-> 0]
    /\ pc = [t \in Thread |-> "balance"]

-----------------------------------------------------------------------------
(* The body of the loops of bfs and sbfs                                   *)

\* dfs_stack_pop gives a state; explore_state checks the level and the
\* properties, and stops the run on an error.
Begin(t) ==
    /\ pc[t] = "client"
    /\ cur[t] = {}
    /\ in_stack[t] # <<>>
    /\ UNCHANGED <<visited, explored, in_stack, out_stack, level, new>>
    /\ LET s == Top(in_stack[t])
           deep == level[t] >= job.max_level
       IN  /\ cur' = [cur EXCEPT ![t] = {s}]
           /\ trans' = [trans EXCEPT ![t] = IF deep THEN {} ELSE job.succ[s]]
           /\ IF s \in job.error /\ ~deep THEN LB!FindError(t)
                                      ELSE UNCHANGED lbvars

\* Mutant of Visit: a successor counts as seen only once it is explored.
VisitUnexplored(t) ==
    /\ pc[t] \in {"client", "explore"}
    /\ \E s \in trans[t] :
          /\ trans' = [trans EXCEPT ![t] = @ \ {s}]
          /\ visited' = visited \cup {s}
          /\ new' = [new EXCEPT ![t] = IF s \in explored THEN @ ELSE Append(@, s)]
    /\ UNCHANGED <<lbvars, explored, in_stack, out_stack, level, cur>>

\* permute_trans: find-or-put of one successor, then reach_handle.  Its search
\* for an action, which stops the run as an error state does, is left out.
Visit(t) ==
    /\ pc[t] \in {"client", "explore"}
    /\ \E s \in trans[t] :
          /\ trans' = [trans EXCEPT ![t] = @ \ {s}]
          /\ visited' = visited \cup {s}
          /\ new' = [new EXCEPT ![t] = IF s \in visited THEN @ ELSE Append(@, s)]
    /\ UNCHANGED <<lbvars, explored, in_stack, out_stack, level, cur>>

\* Mutant of Explored: new successors go on the stack being explored.
ExploredSameStack(t) ==
    /\ cur[t] # {}
    /\ trans[t] = {}
    /\ in_stack' = [in_stack EXCEPT ![t] = Pop(@) \o new[t]]
    /\ explored' = explored \cup cur[t]
    /\ cur' = [cur EXCEPT ![t] = {}]
    /\ new' = [new EXCEPT ![t] = <<>>]
    /\ UNCHANGED <<visited, level, trans, out_stack>>
    /\ LB!Explore(t)

\* The end of the iteration.
Explored(t) ==
    /\ cur[t] # {}
    /\ trans[t] = {}
    /\ in_stack' = [in_stack EXCEPT ![t] = Pop(@)]
    /\ out_stack' = [out_stack EXCEPT ![t] = @ \o new[t]]
    /\ explored' = explored \cup cur[t]
    /\ cur' = [cur EXCEPT ![t] = {}]
    /\ new' = [new EXCEPT ![t] = <<>>]
    /\ UNCHANGED <<visited, level, trans>>
    /\ LB!Explore(t)

\* The in_stack is empty: bfs swaps the stacks, sbfs tries again.
Empty(t) ==
    /\ pc[t] = "client"
    /\ in_stack[t] = <<>>
    /\ IF job.strategy = "bfs"
       THEN /\ in_stack' = [in_stack EXCEPT ![t] = out_stack[t]]
            /\ out_stack' = [out_stack EXCEPT ![t] = <<>>]
            /\ level' = [level EXCEPT ![t] = @ + 1]
       ELSE UNCHANGED <<in_stack, out_stack, level>>
    /\ UNCHANGED <<visited, explored, cur, trans, new>>
    /\ LB!Explore(t)

-----------------------------------------------------------------------------
(* split_bfs and split_sbfs                                                *)

\* Does split_bfs take the states from the out_stack of t?
FromOut(t) == job.strategy = "bfs" /\ Len(in_stack[t]) < 2

\* The number of states that go to the requestor: at most half the stack they
\* are taken from, and half the load of both.
Handoff(t) ==
    Min({Len(IF FromOut(t) THEN out_stack[t] ELSE in_stack[t]) \div 2,
         my_load[t] \div 2, MaxHandoff})

\* The states are popped one by one and pushed on the requestor's in_stack.
MoveStates(t, x) ==
    LET src   == IF FromOut(t) THEN out_stack[t] ELSE in_stack[t]
        rest  == SubSeq(src, 1, Len(src) - Handoff(t))
        moved == [i \in 1 .. Handoff(t) |-> src[Len(src) - i + 1]]
    IN  IF FromOut(t)
        THEN /\ out_stack' = [out_stack EXCEPT ![t] = rest]
             /\ in_stack' = [in_stack EXCEPT ![x] = @ \o moved]
        ELSE /\ out_stack' = out_stack
             /\ in_stack' = [in_stack EXCEPT ![t] = rest, ![x] = @ \o moved]

Split(t) ==
    /\ pc[t] = "split"
    /\ IF LB!Serve(t)
       THEN \E x \in todo[t] : LB!First(t, x) /\ MoveStates(t, x)
       ELSE UNCHANGED <<in_stack, out_stack>>
    /\ UNCHANGED <<visited, explored, level, cur, trans, new>>
    /\ LB!Split(t)

-----------------------------------------------------------------------------
(* sbfs_level: the next level is the sum of the out_stacks; after lb_reinit *)
(* every worker swaps its stacks, which are private until it asks for load  *)
(* again.  The stop flag is tested by each worker on its own (LB!TestStop). *)

SwapStacks ==
    /\ \A t \in Thread : pc[t] = "reinit_wait"
    /\ in_stack' = out_stack
    /\ out_stack' = in_stack
    /\ level' = [t \in Thread |-> level[t] + 1]
    /\ my_load' = [t \in Thread |-> Len(out_stack[t])]
    /\ IF \A t \in Thread : out_stack[t] = <<>>
       THEN pc' = [t \in Thread |-> "exit"]
       ELSE pc' = [t \in Thread |-> "test_stop"]
    /\ UNCHANGED <<stopped, all_done, idle, requests, received, oid,
                   wait_reply, todo, given, visited, explored, cur, trans, new>>

-----------------------------------------------------------------------------
\* The steps of the balancer that run no code of the client.
LBStep(t) ==
    \/ LB!TryStop(t) \/ LB!StopDone(t) \/ LB!Balance(t)
    \/ LB!CheckAllDone(t) \/ LB!Leave(t) \/ LB!UpdateIdle(t) \/ LB!Scan(t)
    \/ LB!SetAllDone(t) \/ LB!RequestRandom(t) \/ LB!Collect(t)
    \/ LB!Reply(t) \/ LB!Wake(t)
    \/ LB!WaitIdle(t) \/ LB!WaitDone(t) \/ LB!Take(t) \/ LB!Clear(t)
    \/ LB!ReinitRequests(t) \/ LB!ReinitDone(t) \/ LB!ReinitIdle(t)
    \/ LB!TestStop(t)

Balancer(t) == UNCHANGED reachvars /\ LBStep(t)

\* Only sbfs goes on after its balancer loop.
LevelReduce == job.strategy = "sbfs" /\ UNCHANGED reachvars /\ LB!LevelReduce

\* Every worker has left its search function.
Done == \A t \in Thread : pc[t] = IF job.strategy = "bfs" THEN "level" ELSE "exit"

\* ... or HREreduce has aborted the run.
Finished == (Done \/ LB!Aborted) /\ UNCHANGED vars

Step ==
    \/ \E t \in Thread : \/ Begin(t) \/ Visit(t) \/ Explored(t) \/ Empty(t)
                         \/ Split(t) \/ Balancer(t)
    \/ LevelReduce
    \/ SwapStacks

Next == (UNCHANGED job /\ Step) \/ Finished

Spec == Init /\ [][Next]_vars

-----------------------------------------------------------------------------
(* Properties                                                              *)

\* The states at most k transitions away from the initial state.
Balls ==
    [j \in Jobs |-> LET B[k \in 0 .. Cardinality(State)] ==
                           IF k = 0 THEN {Initial}
                           ELSE B[k - 1] \cup UNION {j.succ[s] : s \in B[k - 1]}
                    IN  B]
Ball == Balls[job]

Reachable == Ball[Cardinality(State)]

\* All the places a state can be: the stacks and the successors in flight.
Places == {in_stack[t] : t \in Thread} \cup {out_stack[t] : t \in Thread}
             \cup {new[t] : t \in Thread}

\* No state is lost and none is explored twice: a state in the store is
\* already explored, or it is in exactly one place, once (the handoff of
\* split_bfs and split_sbfs moves states between stacks of two workers).  The
\* state a worker explores stays on top of its in_stack, so nobody hands states
\* to a worker that explores; and a worker that takes itself for idle has no
\* states.
EachStateOnce ==
    /\ visited = explored \cup UNION {Range(p) : p \in Places}
    /\ \A p \in Places : IsInjective(p) /\ Range(p) \cap explored = {}
    /\ \A t, u \in Thread :
          /\ t # u => Range(in_stack[t]) \cap Range(in_stack[u]) = {}
          /\ t # u => Range(out_stack[t]) \cap Range(out_stack[u]) = {}
          /\ t # u => Range(new[t]) \cap Range(new[u]) = {}
          /\ Range(in_stack[t]) \cap Range(out_stack[u]) = {}
          /\ Range(new[t]) \cap (Range(in_stack[u]) \cup Range(out_stack[u])) = {}
    /\ \A t \in Thread :
          /\ cur[t] # {} => in_stack[t] # <<>> /\ cur[t] = {Top(in_stack[t])}
          /\ pc[t] \in {"scan", "request", "set_done"} => Load(t) = 0

\* A worker that lb_balance sends back to explore has the load it believes it
\* has; and when every worker has left and nobody stopped the run, every
\* reachable state was explored, and none of them is an error.
SearchComplete ==
    /\ \A t \in Thread : pc[t] = "client" => my_load[t] = Load(t)
    /\ Done /\ ~stopped /\ job.max_level > Cardinality(State) =>
          explored = Reachable /\ job.error \cap Reachable = {}

\* Until it is stopped, sbfs explores level by level: at level k every worker
\* works on states k - 1 transitions away from the initial state and finds
\* states k away; and with --max the search visits exactly the states less
\* than max_level transitions away.
LevelsExact ==
    job.strategy = "sbfs" /\ ~stopped =>
       /\ (\A u \in Thread : pc[u] \notin LB!Reinit) =>
          \A t \in Thread :
             /\ \A s \in Range(in_stack[t]) :
                   s \in Ball[level[t] - 1] /\ (level[t] > 1 => s \notin Ball[level[t] - 2])
             /\ \A s \in Range(out_stack[t]) :
                   s \in Ball[level[t]] /\ (level[t] > 0 => s \notin Ball[level[t] - 1])
       /\ Done /\ job.max_level \in 1 .. Cardinality(State) =>
             visited = Ball[job.max_level - 1]
=============================================================================
