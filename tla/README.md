# LTSmin: models, checks and proofs

LTSmin explores and checks state spaces of models written in many languages.  A
language module gives an initial state and a next-state function through PINS;
a tool explores it.  This directory has TLA+ models of the parts of LTSmin that
are hard to test:

- the **multi-core tool** (`pins2lts-mc`): worker threads share one table of
  states and one load balancer, or one union-find structure, all lock-free;
- the **symbolic tool** (`pins2lts-sym`): one process works on sets of states as
  decision diagrams, whose package collects and grows its tables in the middle of
  operations; on top of it run searches, a mu-calculus checker and a solver of
  parity games.

`PROJECT.json` names for every definition the lines of code it models, for every
run its properties, the hazards of the code, and the theorems.

## Modules

| Part of LTSmin | Modules | What is in them |
|---|---|---|
| Load balancer, `mc-lib/lb.c` | `LoadBalancer`, `LoadBalancerProofs` | The client loop around `lb_balance`, the request protocol, the scan for termination, `lb_stop`, `lb_reinit` |
| Reachability, `algorithm/reach.c` | `Reach`, `MCReach`; `ReachBalancer`, `ReachProofs` | `bfs` and `sbfs` with stacks of real states over an instance of `LoadBalancer` |
| Union-find, `mc-lib/unionfind.c` | `UnionFind`, `UFClient`, `MCUFClient`; `UnionFindProofs`, `UFSetsProofs`, `UFAnswersProofs`, `UFPassingProofs` | The forest, the cyclic lists, worker sets and marks; threads that call every operation in any order |
| UFSCC, `algorithm/ufscc.c` | `UFSCC`, `MCUFSCC` | The parallel search for components and accepting cycles over `UnionFind` |
| Hash table, `mc-lib/dbs-ll.c` | `StateSet`, `DbsLL`, `MCDbsLL`; `DbsLLProofs` | Lookup, find and the satellite bits; `StateSet` is the atomic set it implements |
| Tree table, `mc-lib/treedbs-ll.c` | `TreeDbsLL`, `MCTreeDbsLL` (and `StateSet`) | Vectors as trees of pairs, incremental lookups, satellite bits inside the word of a pair |
| List decision diagrams, `vset-lib/vset_listdd.c` | `VectorSet`, `ListDD`, `MCListDD` | Nodes, unique table, operation cache, collection, growth; `VectorSet` is the contract of `vector_set.h` |
| Symbolic tool, `pins2lts-sym`, `spg-lib`, `pins2pins-mucalc.c` | `Projections`, `SymReach`, `MuCalculus`, `ParityGame`, `MucalcLayer`, `SymTool`, `MCSymTool` | Searches, guards, saturation, traces; `--mu`, `--ctl`; parity games |

### How the code became actions

*Threads.*  In the multi-core modules each thread has a program counter `pc[t]`
and local variables, and **every access to memory that another thread reads or
writes is one action**.  An action is named after the line it stands for
(`CasEmpty`, `WriteDone`, `find_write`), and code between two such accesses, which
no other thread can see, belongs to the action before or after it.  Plain reads and
writes are steps of their own just as `cas`, `fetch_or` and `atomic_write`.  The
steps of one thread happen in program order: the code relies on the order of x86,
and effects of a weaker memory or of the compiler on its plain accesses are not
modelled.

*Calls.*  An operation that calls another one (`uf_union` calls `uf_find` and
`uf_pick_from_list`) keeps the place to return to in its locals (`fret`, `pret`).

*Sequential code.*  In `ListDD` a call of the package is one action whose effect is
computed by operators that follow the recursion of the code with an explicit state:
node table, free list, unique table, cache and protection stack.  A collection
happens exactly where `mdd_create_node` finds no free node, in the middle of the
recursion, and everything that only the recursion refers to is then lost unless the
code pushed it.  In `SymReach` an action is one step of a loop of the search (one
group, one level, one label); the parallel orders run their tasks in any order.

*Data.*  States, vectors and marks are members of small sets; a load without
identity is a number.  Machine words keep their width where it matters: the bucket
of `DbsLL` is the memoised hash, the write bit and the satellite bits, whose counter
can overflow; the word of `TreeDbsLL` is an integer of `2 * HalfBits` bits with
satellite bits in the top of both halves.  Hash functions are constants.

*History variables* record what a property speaks of and the code does not read:
`claimed`, `marked`, `merges`, `deaths` in `UFClient`; `wins`, `wip`, `fresh` in the
tables.

### Composition and refinement

`Reach` runs the balancer as `LB == INSTANCE LoadBalancer`, with the load of a
thread defined as the length of its stacks, so a handoff moves real states.
`UFClient` and `UFSCC` extend `UnionFind` with two different sets of callers.
`SymTool` puts the search, the formula checker and the game solver into one run of
the program.

`DbsLL` and `TreeDbsLL` implement `StateSet`, in which a call is decided in one step
between its beginning and its end.  For `DbsLL` a pair of bucket and vector is stored
from the moment the bucket is taken (`Holds`); for `TreeDbsLL` a vector is stored when
its root pair is.  `ListDD` implements `VectorSet`: the value of a set is the set of
vectors its diagram stands for.

## Runs

State counts are of distinct states; each passing run ends within four minutes.

| Run | Instance | States | Shows |
|---|---|---|---|
| `load_balancer` | 3 threads, 1 more state to find, one may stop the run | 277 341 | Requests are accounted for, the assertion of `handoff` holds, nobody waits in a circle, every wait ends, a stop ends the run |
| `lb_premature` | 3 threads, 3 more states | violation | The level can end while a thread has load |
| `reach` | 2 workers, two graphs of 6 states, `bfs`, `sbfs`, error, bound | 190 197 | No state is lost or explored twice, the search is complete, levels are exact |
| `union_find` | 2 threads, 4 states, 11 mixes of calls | 1 113 763 | Forest, locks, lists, marks, claims and answers are right |
| `ufscc` | 2 workers, 6 automata of 3 states | 762 806 | Components, verdicts and counts are right, and every worker finishes |
| `dbs_ll` | 3 workers, 5 vectors, 4 buckets, 4 scripts | 30 494 | Each vector stored once, satellite bits exact, calls return, atomic set |
| `tree_dbs` | 3 workers, 5 vectors of 3 slots, 4 scripts | 54 297 | The same for the tree |
| `tree_high` | a slot value with its next-to-top bit set | violation | A vector is new twice |
| `list_dd` | 3 slots, 13 nodes, 3 openings, any 2 of 25 calls | 4 414 | Tables, canonicity, cache and contract hold across collections and growth |
| `list_dd_sat` | one least fixpoint | violation | A collection frees a node in use |
| `symbolic` | all orders, saturations, guides, 4 kinds of question, mu, CTL, games | 45 617 | States, relations, verdicts, traces, formulas and games are exact, every run ends |
| `parity_deadlock` | one game where both players have dead ends | violation | The wrong winner |

`MCReach`, `MCUFClient`, ... hold the instances.  `union_find` uses the symmetry of
threads, which are interchangeable there and take part in no liveness property.

### The properties

*Load balancer.*  `HandoffToIdle` is the assertion of `handoff`.  `RequestProtocol`:
a thread has at most one request out, and one that was not answered belongs to a
thread that waits for it or gave up because the level is over.  `NoWaitCycle`: no set
of threads waits only for members of the set.  `WaitEnds`: every wait ends.  `StopEnds`:
after `lb_stop` all threads leave, or the run aborts.  The second happens in `sbfs`, where
each worker reads the stop flag on its own after the barrier (`TestStop`, `reach.c:320`): a
fast worker can be in the next level and stop the run there before a slow one has read
the flag.  The slow one leaves, and its barrier in `run_reduce_stats` meets the reduce of
`sbfs_level`, which `hre_reduce.c:31-32` answers with an abort (`Aborted`).

*Reachability.*  `EachStateOnce`: a state in the store is explored or in exactly one
place, through every handoff; nobody hands states to a worker that explores, and an idle
worker has none.  `SearchComplete`: a worker that goes back to explore has the load it
believes it has, and when all have left, everything reachable was explored.  `LevelsExact`: `sbfs` keeps its levels apart and `--max` is
exact.  With two workers `SearchComplete` holds; the premature end of `lb_premature`
needs three.

*Union-find.*  `ParentHigher`: no cycles although path halving writes without a lock.
`SetsOnlyGrow`: no write ever takes a state out of its set.  `LockedRoot`: what a
union locked stays a root, its own, until it links it.  `AnswersRight`: a yes is true
when it is given, a no when the question was asked; no two unions claim one merge; a
picked state is in the set asked for; what is said to be dead is.  `ListIsSet`,
`ListClosed`: a cyclic list has exactly the states of its set that are still to be
explored, and has no loose end.  `NothingLost`: no claim and no mark is lost when the
state it was put on stops being a root.

*UFSCC.*  `SetsInSCC`, `DeadIsComplete`, `StacksSuffice`, `VerdictRight` and
`Terminates`: states are united only on a common cycle, a set is dead only when it is
a whole component with nothing alive below it, a worker never pops an empty stack, a
lasso is reported exactly when there is one.

*Tables.*  `StoredOnce`, `NodesOnce`: racing lookups give one bucket.
`ComparesWritten`: no half-copied vector is compared.  `FullIsReal`: the table is
called full only when some vector has no bucket left.  `SatExact`: colours are won
once and the counter is the number of workers counted in (`CountExact`).  `IsStateSet`: the refinement.  `CallsReturn`: liveness.

*List decision diagrams.*  `TablesConsistent`, `Canonical` (equality of sets is
equality of node numbers), `CacheSound` (every entry a lookup can find is true of the
nodes it names, however nodes were freed and reused: entries of unions, projections and
images, and also the results of saturation and of its relational product, compared with
the closure under the relations that the entry stands for), `IsVectorSet`.  The last two
hold for clients that keep two rules, see *Known limits*.

*Symbolic tool.*  `SearchExact`, `VerdictsExact`, `TracesReal`, `MuExact`, `WinExact`
compare each order, strategy and attractor with definitions state by state of
reachability, deadlock, traces and the meaning of formulas.  `MuExact` compares
`--mu-opt`, and the default evaluator on models without guards, with the meaning of the
formula in the model.  With guards the default evaluator is compared with its meaning over
the learned relations *without* their guards, because that is what its `add_step` walks
over.  `TracesReal`: a trace is a path of the model to what was reported, and there is one
for a deadlock, and for an action taken in a state of the last saved level.  `Terminates`:
every loop of the search ends; the evaluation of a formula and the solving of a game are
one action each, so their loops are not part of it.

### Bounds

- *Load balancer*: three threads are needed for a thread to ask one that asks a third
  one, and for the scan to be overtaken.  `MaxLoad` bounds the states still to be
  discovered: one is enough for every transition of the protocol, the premature end
  needs more.
- *Union-find*: three states allow a path of length two, which halving shortens while a
  root is being linked, and two unions that overlap.  The mixes of calls (`Budgets`)
  cross unions with each other kind of call.  From the start calls name three of the four
  states (`Named`).  A pick that shortens a list and leaves live states on it, while a
  union swaps the entries of the same list, needs four: these behaviours start in `Grown(k)`,
  the state after two unions and one or two removals by one thread.
- *UFSCC*: the graphs have a cycle closed from two sides, two ways around, marks on
  different transitions and on the way into a cycle.
- *Tables*: vectors collide in bucket and in memoised hash, there are more vectors than
  buckets, and calls of three workers overlap on one of them.
- *List decision diagrams*: the tables have so few nodes that openings fill them; each
  pair of calls then runs through a collection, a growth, or an entry that an earlier
  call left.
- *Symbolic*: models in which levels overlap only with neighbours, a guard is undefined
  where another one is false, and a class inhibits another; formulas with two and three
  fixpoints of all signs.  Guards are combined with traces and with both evaluators, but
  not with inhibit classes (`JobsAssumption`).

`CHECK_DEADLOCK FALSE` is used in the `list_dd` runs, which make a bounded number of
calls, and in `parity_deadlock`.

### Fairness

Worker threads are operating system threads that keep running, hence weak fairness of
each thread's steps (`load_balancer`, `ufscc`, `dbs_ll`, `tree_dbs`).  In
`LoadBalancer` a client with load may swap its two stacks without taking a state;
`SF_vars(Pop(t))` says that it does not do so for ever, as `bfs` swaps them only when
the one it pops from is empty.  The level reduction and the barrier are entered when all
threads have come to them.  The symbolic tool is one process that goes on until it has
answered.  No fairness is assumed of the outcome of a compare and swap.

## Findings

Four runs end in a counterexample that contradicts a comment, an assertion or a manual.
Each is described under `findings` in `PROJECT.json`.

- `lb_premature` (`lb.c:175`): the idle flags are read one after another.
- `tree_high` (`treedbs-ll.c:242`): high bits of a slot share their place with satellite
  bits (in the run the next-to-top bit of the left half), so a vector whose slot next to
  the root has one of them set, as small negative numbers have, is never found.
- `list_dd_sat` (`vset_listdd.c:1384`): `apply_rel_fixpoint` reads an unprotected node
  after a collection.
- `parity_deadlock` (`spg-solve.c:192`): the priority is lowered below the least one,
  the vertices are not exchanged.

### Known limits

Where the code is right only under a condition, the condition is in the model or in the
property, and named here.  Except for the saved levels, where the code is undefined, TLC
finds the wrong result when the condition is taken away.

- *Number of a projection* (`vset_listdd.c:296`).  A cached projection survives a
  collection although the list that stands for it may have been freed.  When the last set
  with a projection is destroyed and its number is used again, a later `vset_project` can
  return a wrong set.  Rule 1 of `ListDD` (`Held`): a set is destroyed, and `copy_match`
  called, only while another set or relation has the projection.  The tool does not keep
  to it everywhere: `auxiliary/prop.c` makes and destroys such sets.
- *Key of a relational product* (`vset_listdd.c:1344`).  The result is saturated with
  the relations below, which are not part of the key.  Rule 2 (`m.fixed`): after a fixpoint
  a relation grows only through its expand callback.  A pair added between two fixpoints
  makes the second one wrong; `--guidance=directed` with `--saturation=sat` runs several.
- *Saved levels* (`sat.c:171`).  `prev_vis[nGrps]` is indexed by saturation level.
  `JobsAssumption` keeps the number of levels within the number of groups, which the default
  granularity of 10 does on ordinary models.
- *Guards with an inhibit matrix* (`bfs.c:142`).  A leaf whose guards are false everywhere
  leaves the whole set as its ancestors, which then count as enabled in their class, and
  states are lost.  No language module has both; `JobsAssumption` excludes it.
- *Traces of actions* (`chain.c:72`).  `reach_chain_prev` saves the visited states while
  it works on newer ones.  An action found more than one step into a level cannot be traced,
  and `find_trace_to` aborts where its comment says that this is impossible
  (`prop.c:174-175`).  `TracesReal` says for which actions there is a trace.
- *Default evaluator with guards* (`auxiliary.c:434`).  `EF (P1 and AX false)` on the model
  `Guarded2` gives no state, because steps whose guard is false are taken for steps.

## Proofs

The proofs are for every value of the constants: any number of threads, states, marks,
vectors and buckets.  They rest on the `ASSUME`s of the modules that declare the
constants and on nothing else:

- `LoadBalancer`: a positive number of threads and granularity, bounds in `Nat`.
- `Reach`: a positive number of workers; the initial state is a state, and a job has a
  successor function, a set of error states and a bound `--max`.  Nothing is assumed of the
  graph, and it need not be finite.
- `UnionFind`, `UFClient`: at least one state; finitely many threads (used only to count
  merges); any numbers of calls.
- `DbsLL`: at least one line of at least one bucket; hash values are numbers and the
  prime of a vector is not a multiple of the range of the memo (it is odd in the code); the counter
  is wide enough for the number of threads, of which there are finitely many, which is how
  `state-store.c:188` sizes it, and it fills the satellite bits together with the colours;
  the mark for memory not written yet is not a vector; scripts of any length.

### Load balancer (`LoadBalancerProofs`)

`Inductive`: `IInv` holds always.  It adds to the types and to `RequestProtocol` that
threads go through the barrier together (`PhaseInv`), that only a thread inside
`handoff` holds requests (`TodoInv`), that a requestor stays idle until it is answered
(`IdleInv`), and `CommitInv`: `NoWaitCycle` stated for threads from the moment they have
*collected* their own requests, not only when they wait.  That is the strengthening the
deadlock property needs: a cycle of waiting threads closes earlier, when the last one of
them collects.  From it follow `TypeCorrect`, `HandoffIsToIdle`, `OneRequest` and
`NoDeadlockedWait`.

### Reachability over the balancer (`ReachBalancer`, `ReachProofs`)

`ReachInv` has three parts.

- `BalancerInv` (in `ReachBalancer`): the protocol of the balancer, now for loads that are the lengths of real
  stacks.  It is not that of `LoadBalancerProofs`, because here the load of an idle thread
  must be known *while* a handoff is on its way: `UnservedInv` (a worker that asks for
  states has none until it is served), `AnswerInv` (the answer tells a worker that still
  waits for it of all it was handed) and `KnowsInv` (a worker has at most the load it
  believes it has, unless it is being served or gave up because the level is over).
- `SearchInv`: the state a worker explores is the top of its stack (`CurInv`), and the
  stacks of all workers, the successors in flight and the explored states are pairwise
  disjoint and without repetitions, and together are the store (`OnceInv`).  Lemmas on
  sequences say what pushing, popping and cutting a stack in two do to the states on it.
  A handoff is safe only because `SearchInv` and `BalancerInv` hold together: the target of
  `split_bfs` is idle, so it neither explores nor touches its stack.
- `FoundInv`: the store is part of every set that has the initial state and is closed under
  successors, and the successors of an explored state are in the store.

`StatesOnce` is `EachStateOnce`.  `FindsReachable` is the correctness of the search for any
number of workers: `SearchExact` says that nothing unreachable is stored, and that when
all stacks are empty and no worker came to `--max`, the store is exactly what can be
reached, all of it explored, and an error was reported if there is one.  It speaks of
empty stacks and not of workers that left, because with three workers the balancer may
send them away early (`lb_premature`); this is what the code guarantees nevertheless.

### Union-find, in four layers

`UnionFindProofs`.  `IInv` says of each place in the code what the locals hold, that a
thread which is about to halve a path does so at a state that has a parent, who holds
which lock, and that an entry of a list that has been linked once stays linked.  It gives
`NoCycle` (`ParentHigher`), `LockedIsRoot` (`LockedRoot`), `NoLooseEnd` (`ListClosed`)
and `OnceChild`.

`UFSetsProofs`.  The set of a state is given by its root, a recursive function over the
parents.  That this definition has a solution is proved, not assumed: parents are higher,
so the solution is extended from the highest state down (lemmas `Greatest` to `RootFacts`, theorem `HasRoot`:
every state has a root, not below it, which the loop of `uf_find` can reach).  `SetsInv`
adds `Knows`: what a thread knows of sets in the middle of an operation, e.g. that the
state `x` and its stale grandparent `y` in `uf_find` are in one set, or that the two
representatives of a union are those of its arguments, in some order.  A write of halving
then moves `x` below a state of its own set and changes no root (lemmas on forests), and
the link joins exactly two sets.  `SetsInductive` and `SetsGrow` (`SetsOnlyGrow`).

`UFAnswersProofs`.  `AnswersInv` adds `Serves`, which relates the locals to the question
that was asked.  The interesting case is the answer no of `uf_sameset`: it compares
roots found at different times and then asks whether the first one is still a root; as a
state that has a parent never becomes a root again (`OnceChild`), it was one all the time,
so the sets were different when the call was made.  Theorem `AnswersSets` is the conjunct
`SetAnswers` of `AnswersRight`.  `CountInv` adds the count of merges, which changes at the
link and at the return of `uf_union`; theorem `MergeOnce` is the conjunct `MergesCounted`.

`UFPassingProofs`.  A union copies the worker set and the marks of the root that it linked
to the new root without holding a lock on it, `uf_make_claim` and `uf_add_acc` climb with
what they add, and all of them stop early when they see their bits at a state that is no
root any more.  `PassInv` says who is responsible for a bit that is not at the root:
`Passed` says that every bit at a state `y` is at the root of `y`, or is carried there by
some thread from a state that is **not lower** than `y`.  The order of the states makes the
argument sound: a thread that stops early leaves its bits to one that is higher up, so no
two threads rely on each other.  `CarriersKnow` says what each program counter carries and
from where (`Tracks`), `HandedIn` relates the claims and marks of the callers to the array.
`NothingIsLost` is `NothingLost`.

### Shared hash table (`DbsLLProofs`)

The key of `IInv` is `Placed` with `Past`: a vector is in the first bucket of its probe
sequence that was free when it was put in, and the buckets that a thread has passed are
taken, and not by its vector.  Buckets are never freed, so what was passed stays passed,
and two racing insertions meet in the same bucket.  `CallInv`, `BucketInv`, `WriteInv` and
`DoneInv` say what the program counter, the write bit and the references stand for.
Satellite bits are arbitrary in the proof: they are changed by the same words, and the
proof shows that they do not disturb the rest.  Results: `VectorsStoredOnce`,
`OnlyWrittenCompared`, `FullOnlyWhenFull`, and `ImplementsStateSet`: every step is a step
of `StateSet` or a stutter, the refinement `IsStateSet` that the run checks.

The counter of workers in the satellite bits is treated by itself.  `CountInv` says that
the counter field of each bucket, the satellite bits modulo `2 ^ CountBits`, is the number
of workers in `Counted`; a `cas` of the satellite bits (`SatSwap`) that succeeds changes the
counter of one bucket by one, or not at all, as the word has not changed since it was
read, and the width of the counter excludes a carry into the colours.  `CountsWorkers` is
the conjunct `CountExact` of `SatExact`.

### Only model-checked

- Liveness (`WaitEnds`, `StopEnds`, `CallsReturn`, `Terminates`): fairness and `ENABLED`
  are out of the prover's reach.
- `ListIsSet` and the parts of `AnswersRight` about lists and dead sets: they need
  reachability along cyclic lists while a swap and a link are half done, i.e. induction
  over the length of a list.  The same holds for the properties of `UFSCC`, which add
  induction over paths of the graph.
- The colours in `SatExact` of `DbsLL`, and `NodesOnce`, `SatExact` and `IsStateSet` of
  `TreeDbsLL`: bit arithmetic with powers of two on words, sums over sets of bits, and
  recursion over trees.
- `SearchComplete` and `LevelsExact`: not true for three threads (`lb_premature`), so there
  is no theorem for every number of them; what holds for every number is `FindsReachable`.
- `ListDD`, `SymReach`, `MuCalculus`, `ParityGame`, `MucalcLayer`, `SymTool`: the code is
  recursive, the modules use `RECURSIVE` operators, and what a recursive definition
  computes needs induction over data.

## Not modelled

`PROJECT.json` lists every part with its reason.  The main ones: the nested depth-first
searches, OWCTY, Renault's and Tarjan's algorithms and the timed searches; the sequential
and the distributed tool; partial-order reduction; the language modules and the other PINS
layers, which are inputs of the models; the other decision diagram packages, which wrap
libraries or repeat this one with wider nodes; files, parsers and the runtime environment;
the reduction and comparison of LTSs.  Of the modelled parts: dfs and pbfs in `reach.c`,
the reconstruction of counterexamples in `ufscc.c` (and `uf_try_grab`, which only it calls),
the search for an action and a stop by a signal in `reach.c`, Cleary tables under the tree, the
strategies of parity games, and an allocation of memory that fails.
