---------------------------- MODULE LoadBalancer ----------------------------
(***************************************************************************)
(* The load balancer of the multi-core tool (mc-lib/lb.c, lb.h), together  *)
(* with the loop its clients run around it:                                *)
(*                                                                         *)
(*     while (lb_balance (lb, id, load, split)) explore one state;         *)
(*                                                                         *)
(* and, for the level-synchronous client (sbfs), the reduce, lb_reinit and *)
(* barrier between two levels.  Threads are numbered as in the code.  Every *)
(* access to a field another thread reads or writes is a step of its own;  *)
(* the order of the steps is the program order (the code runs its atomics  *)
(* on a strongly ordered memory).  An item of load has no identity here:   *)
(* load[t] is the number of states on the stack of t.  Module Reach gives  *)
(* the items their identity.                                               *)
(***************************************************************************)
EXTENDS Integers, FiniteSets, Functions

CONSTANTS
    W,           \* number of worker threads
    Granularity, \* lb->granularity, a power of two; lb->mask is one less
    MaxHandoff,  \* lb->max_handoff
    MaxLoad,     \* bound: the number of states the clients may still discover
    MayStop      \* may a client find an error and call lb_stop?

ASSUME WAssumption == W \in Nat \ {0}
ASSUME GranularityAssumption == Granularity \in Nat \ {0}
ASSUME MaxHandoffAssumption == MaxHandoff \in Nat
ASSUME MaxLoadAssumption == MaxLoad \in Nat
ASSUME MayStopAssumption == MayStop \in BOOLEAN

Thread == 0 .. W - 1

VARIABLES
    stopped,   \* lb->stopped
    all_done,  \* lb->all_done
    idle,      \* lb->local[t]->idle
    requests,  \* lb->local[t]->requests, the bit set as a set of threads
    received,  \* lb->local[t]->received
    load,      \* size of the stack of t
    fresh,     \* states the clients can still discover
    my_load,   \* lb_internal's my_load
    oid,       \* the scan index of lb_internal
    wait_reply,\* lb_internal's wait_reply
    todo,      \* handoff's todo[idx ..]: requestors not yet answered
    given,     \* handoff's load: what split gave to the current requestor
    pc         \* where t is

vars == <<stopped, all_done, idle, requests, received, load, fresh, my_load,
          oid, wait_reply, todo, given, pc>>

Label == {"balance", "client", "try_stop", "stop_done", "explore",
          "all_done", "leave", "upd_idle", "scan", "set_done", "request",
          "collect", "split", "reply", "wake",
          "wait_idle", "wait_done", "take", "clear",
          "level", "reinit_requests", "reinit_done", "reinit_idle",
          "reinit_wait", "test_stop", "exit"}

TypeOK ==
    /\ stopped \in BOOLEAN
    /\ all_done \in BOOLEAN
    /\ idle \in [Thread -> BOOLEAN]
    /\ requests \in [Thread -> SUBSET Thread]
    /\ received \in [Thread -> Nat]
    /\ load \in [Thread -> Nat]
    /\ fresh \in Nat
    /\ my_load \in [Thread -> Nat]
    /\ oid \in [Thread -> 0 .. W]
    /\ wait_reply \in [Thread -> BOOLEAN]
    /\ todo \in [Thread -> SUBSET Thread]
    /\ given \in [Thread -> Nat]
    /\ pc \in [Thread -> Label]

Init ==
    /\ stopped = FALSE
    /\ all_done = FALSE
    /\ idle = [t \in Thread |-> FALSE]
    /\ requests = [t \in Thread |-> {}]
    /\ received = [t \in Thread |-> 0]
    /\ load \in {[t \in Thread |-> IF t = 0 THEN n ELSE 0] : n \in {0, 1}}
    /\ fresh = MaxLoad
    /\ my_load = load
    /\ oid = [t \in Thread |-> 0]
    /\ wait_reply = [t \in Thread |-> FALSE]
    /\ todo = [t \in Thread |-> {}]
    /\ given = [t \in Thread |-> 0]
    /\ pc = [t \in Thread |-> "balance"]

Goto(t, l) == pc' = [pc EXCEPT ![t] = l]

-----------------------------------------------------------------------------
(* The client: one iteration of the search loop, and lb_stop.              *)

\* One iteration: pop a state and push the n states it discovers, or only
\* swap the stacks (bfs) or find the stack empty (sbfs); then lb_balance is
\* called with the new stack size.
Explore(t) ==
    /\ pc[t] \in {"client", "explore"}
    /\ \/ UNCHANGED <<load, fresh>>
       \/ /\ load[t] > 0
          /\ \E n \in 0 .. fresh :
                /\ load' = [load EXCEPT ![t] = @ - 1 + n]
                /\ fresh' = fresh - n
    /\ my_load' = [my_load EXCEPT ![t] = load'[t]]
    /\ Goto(t, "balance")
    /\ UNCHANGED <<stopped, all_done, idle, requests, received, oid,
                   wait_reply, todo, given>>

\* A client that finds an error while it explores stops the run ...
FindError(t) ==
    /\ MayStop
    /\ pc[t] = "client"
    /\ Goto(t, "try_stop")
    /\ UNCHANGED <<stopped, all_done, idle, requests, received, load, fresh,
                   my_load, oid, wait_reply, todo, given>>

\* Mutant of TryStop: lb_stop without set_all_done.
StopOnly(t) ==
    /\ pc[t] = "try_stop"
    /\ stopped' = TRUE
    /\ Goto(t, "explore")
    /\ UNCHANGED <<all_done, idle, requests, received, load, fresh, my_load,
                   oid, wait_reply, todo, given>>

\* ... lb_stop: the winner of the cas on stopped also sets all_done.
TryStop(t) ==
    /\ pc[t] = "try_stop"
    /\ stopped' = TRUE
    /\ Goto(t, IF stopped THEN "explore" ELSE "stop_done")
    /\ UNCHANGED <<all_done, idle, requests, received, load, fresh, my_load,
                   oid, wait_reply, todo, given>>

StopDone(t) ==
    /\ pc[t] = "stop_done"
    /\ all_done' = TRUE
    /\ Goto(t, "explore")
    /\ UNCHANGED <<stopped, idle, requests, received, load, fresh, my_load,
                   oid, wait_reply, todo, given>>

\* lb_balance: the inlined fast path.  A returned 0 ends the client's loop.
Balance(t) ==
    /\ pc[t] = "balance"
    /\ Goto(t, IF stopped THEN "level"
               ELSE IF /\ my_load[t] > 0
                       /\ my_load[t] % Granularity # Granularity - 1
                    THEN "client"
                    ELSE "all_done")
    /\ UNCHANGED <<stopped, all_done, idle, requests, received, load, fresh,
                   my_load, oid, wait_reply, todo, given>>

-----------------------------------------------------------------------------
(* lb_internal                                                             *)

CheckAllDone(t) ==
    /\ pc[t] = "all_done"
    /\ Goto(t, IF all_done THEN "leave" ELSE "upd_idle")
    /\ UNCHANGED <<stopped, all_done, idle, requests, received, load, fresh,
                   my_load, oid, wait_reply, todo, given>>

\* Mutant of Leave: a thread that leaves marks itself active.
LeaveActive(t) ==
    /\ pc[t] = "leave"
    /\ idle' = [idle EXCEPT ![t] = FALSE]
    /\ Goto(t, "level")
    /\ UNCHANGED <<stopped, all_done, requests, received, load, fresh,
                   my_load, oid, wait_reply, todo, given>>

Leave(t) ==
    /\ pc[t] = "leave"
    /\ idle' = [idle EXCEPT ![t] = TRUE]
    /\ Goto(t, "level")
    /\ UNCHANGED <<stopped, all_done, requests, received, load, fresh,
                   my_load, oid, wait_reply, todo, given>>

\* No other thread writes idle[t] here (t has no request pending, see
\* RequestProtocol), so the read and the conditional write are one step.
UpdateIdle(t) ==
    /\ pc[t] = "upd_idle"
    /\ idle' = [idle EXCEPT ![t] = (my_load[t] = 0)]
    /\ wait_reply' = [wait_reply EXCEPT ![t] = FALSE]
    /\ oid' = [oid EXCEPT ![t] = 0]
    /\ Goto(t, IF my_load[t] = 0 THEN "scan" ELSE "collect")
    /\ UNCHANGED <<stopped, all_done, requests, received, load, fresh,
                   my_load, todo, given>>

\* Mutant of Scan: the loop stops one thread too early.
ScanShort(t) ==
    /\ pc[t] = "scan"
    /\ IF oid[t] < W - 1
       THEN IF idle[oid[t]]
            THEN /\ oid' = [oid EXCEPT ![t] = @ + 1]
                 /\ UNCHANGED pc
            ELSE /\ Goto(t, "request")
                 /\ UNCHANGED oid
       ELSE /\ Goto(t, "set_done")
            /\ UNCHANGED oid
    /\ UNCHANGED <<stopped, all_done, idle, requests, received, load, fresh,
                   my_load, wait_reply, todo, given>>

\* One read of another thread's idle flag per step: the scan is not atomic.
Scan(t) ==
    /\ pc[t] = "scan"
    /\ IF oid[t] < W
       THEN IF idle[oid[t]]
            THEN /\ oid' = [oid EXCEPT ![t] = @ + 1]
                 /\ UNCHANGED pc
            ELSE /\ Goto(t, "request")
                 /\ UNCHANGED oid
       ELSE /\ Goto(t, "set_done")
            /\ UNCHANGED oid
    /\ UNCHANGED <<stopped, all_done, idle, requests, received, load, fresh,
                   my_load, wait_reply, todo, given>>

SetAllDone(t) ==
    /\ pc[t] = "set_done"
    /\ all_done' = TRUE
    /\ Goto(t, "level")
    /\ UNCHANGED <<stopped, idle, requests, received, load, fresh, my_load,
                   oid, wait_reply, todo, given>>

\* Mutant of RequestRandom: wait for the answer before collecting requests.
RequestAndWait(t) ==
    /\ pc[t] = "request"
    /\ \E res \in Thread \ {t} :
          requests' = [requests EXCEPT ![res] = @ \cup {t}]
    /\ wait_reply' = [wait_reply EXCEPT ![t] = TRUE]
    /\ Goto(t, "wait_idle")
    /\ UNCHANGED <<stopped, all_done, idle, received, load, fresh, my_load,
                   oid, todo, given>>

\* request_random: any other thread may be drawn.
RequestRandom(t) ==
    /\ pc[t] = "request"
    /\ \E res \in Thread \ {t} :
          requests' = [requests EXCEPT ![res] = @ \cup {t}]
    /\ wait_reply' = [wait_reply EXCEPT ![t] = TRUE]
    /\ Goto(t, "collect")
    /\ UNCHANGED <<stopped, all_done, idle, received, load, fresh, my_load,
                   oid, todo, given>>

\* Where lb_internal goes once every request it collected is answered.
AfterHandoff(t) ==
    IF wait_reply[t] THEN "wait_idle"
    ELSE IF my_load[t] = 0 THEN "all_done" ELSE "client"

\* Mutant of Collect: the request word is read and not cleared.
CollectKeep(t) ==
    /\ pc[t] = "collect"
    /\ todo' = [todo EXCEPT ![t] = requests[t]]
    /\ Goto(t, IF requests[t] = {} THEN AfterHandoff(t) ELSE "split")
    /\ UNCHANGED <<stopped, all_done, idle, requests, received, load, fresh,
                   my_load, oid, wait_reply, given>>

Collect(t) ==
    /\ pc[t] = "collect"
    /\ todo' = [todo EXCEPT ![t] = requests[t]]
    /\ requests' = [requests EXCEPT ![t] = {}]
    /\ Goto(t, IF requests[t] = {} THEN AfterHandoff(t) ELSE "split")
    /\ UNCHANGED <<stopped, all_done, idle, received, load, fresh, my_load,
                   oid, wait_reply, given>>

-----------------------------------------------------------------------------
(* handoff: the requestors are answered in the order of their numbers      *)

First(t, x) == x \in todo[t] /\ \A y \in todo[t] : x <= y

\* The last W/2 requestors get a share, the earlier ones are sent away.
Serve(t) == Cardinality(todo[t]) <= W \div 2

\* split is the client's callback: it moves at most the share handoff asks
\* for, and says how much it moved.  (The negative answer, for load that was
\* copied, is left out: the searches modelled here never give it.)
Split(t) ==
    /\ pc[t] = "split"
    /\ IF Serve(t)
       THEN \E x \in todo[t], n \in 0 .. my_load[t] \div 2 :
              /\ First(t, x)
              /\ n <= MaxHandoff
              /\ n <= load[t]
              /\ load' = [load EXCEPT ![t] = @ - n, ![x] = @ + n]
              /\ my_load' = [my_load EXCEPT ![t] = @ - n]
              /\ given' = [given EXCEPT ![t] = n]
              /\ Goto(t, "reply")
       ELSE /\ Goto(t, "wake")
            /\ UNCHANGED <<load, my_load, given>>
    /\ UNCHANGED <<stopped, all_done, idle, requests, received, fresh, oid,
                   wait_reply, todo>>

Reply(t) ==
    /\ pc[t] = "reply"
    /\ \E x \in todo[t] :
          /\ First(t, x)
          /\ received' = [received EXCEPT ![x] = given[t]]
    /\ Goto(t, "wake")
    /\ UNCHANGED <<stopped, all_done, idle, requests, load, fresh, my_load,
                   oid, wait_reply, todo, given>>

Wake(t) ==
    /\ pc[t] = "wake"
    /\ \E x \in todo[t] :
          /\ First(t, x)
          /\ idle' = [idle EXCEPT ![x] = FALSE]
          /\ todo' = [todo EXCEPT ![t] = @ \ {x}]
          /\ Goto(t, IF todo[t] = {x} THEN AfterHandoff(t) ELSE "split")
    /\ UNCHANGED <<stopped, all_done, requests, received, load, fresh,
                   my_load, oid, wait_reply, given>>

-----------------------------------------------------------------------------
(* The wait for the answer to a request: two reads per round of the loop   *)

WaitIdle(t) ==
    /\ pc[t] = "wait_idle"
    /\ Goto(t, IF idle[t] THEN "wait_done" ELSE "take")
    /\ UNCHANGED <<stopped, all_done, idle, requests, received, load, fresh,
                   my_load, oid, wait_reply, todo, given>>

\* Mutant of WaitDone: only an answer ends the wait.
WaitForAnswer(t) ==
    /\ pc[t] = "wait_done"
    /\ Goto(t, "wait_idle")
    /\ UNCHANGED <<stopped, all_done, idle, requests, received, load, fresh,
                   my_load, oid, wait_reply, todo, given>>

WaitDone(t) ==
    /\ pc[t] = "wait_done"
    /\ Goto(t, IF all_done THEN "take" ELSE "wait_idle")
    /\ UNCHANGED <<stopped, all_done, idle, requests, received, load, fresh,
                   my_load, oid, wait_reply, todo, given>>

Take(t) ==
    /\ pc[t] = "take"
    /\ my_load' = [my_load EXCEPT ![t] = @ + received[t]]
    /\ Goto(t, "clear")
    /\ UNCHANGED <<stopped, all_done, idle, requests, received, load, fresh,
                   oid, wait_reply, todo, given>>

Clear(t) ==
    /\ pc[t] = "clear"
    /\ received' = [received EXCEPT ![t] = 0]
    /\ Goto(t, IF my_load[t] = 0 THEN "all_done" ELSE "client")
    /\ UNCHANGED <<stopped, all_done, idle, requests, load, fresh, my_load,
                   oid, wait_reply, todo, given>>

-----------------------------------------------------------------------------
(* Between two levels: HREreduce (a barrier), lb_reinit and its barrier    *)

LevelReduce ==
    /\ \A t \in Thread : pc[t] = "level"
    /\ pc' = [t \in Thread |-> "reinit_requests"]
    /\ UNCHANGED <<stopped, all_done, idle, requests, received, load, fresh,
                   my_load, oid, wait_reply, todo, given>>

ReinitRequests(t) ==
    /\ pc[t] = "reinit_requests"
    /\ requests' = [requests EXCEPT ![t] = {}]
    /\ Goto(t, "reinit_done")
    /\ UNCHANGED <<stopped, all_done, idle, received, load, fresh, my_load,
                   oid, wait_reply, todo, given>>

ReinitDone(t) ==
    /\ pc[t] = "reinit_done"
    /\ all_done' = FALSE
    /\ Goto(t, "reinit_idle")
    /\ UNCHANGED <<stopped, idle, requests, received, load, fresh, my_load,
                   oid, wait_reply, todo, given>>

ReinitIdle(t) ==
    /\ pc[t] = "reinit_idle"
    /\ idle' = [idle EXCEPT ![t] = FALSE]
    /\ Goto(t, "reinit_wait")
    /\ UNCHANGED <<stopped, all_done, requests, received, load, fresh,
                   my_load, oid, wait_reply, todo, given>>

\* The barrier of lb_reinit opens and the threads swap their stacks, which are
\* private until a thread asks for load again.  They all know the size of the
\* next level from the reduce: an empty one ends the search.
NextLevel ==
    /\ \A t \in Thread : pc[t] = "reinit_wait"
    /\ load' \in [Thread -> 0 .. MaxLoad + 1]
    /\ fresh' \in 0 .. MaxLoad + 1
    /\ fresh' + SumFunction(load') = fresh + SumFunction(load)
    /\ my_load' = load'
    /\ pc' = [t \in Thread |-> IF SumFunction(load') = 0 THEN "exit"
                                ELSE "test_stop"]
    /\ UNCHANGED <<stopped, all_done, idle, requests, received, oid,
                   wait_reply, todo, given>>

\* Each thread tests the stop flag on its own: one of them may be in the next
\* level, and stop the run there, before another one has tested.
TestStop(t) ==
    /\ pc[t] = "test_stop"
    /\ Goto(t, IF stopped THEN "exit" ELSE "balance")
    /\ UNCHANGED <<stopped, all_done, idle, requests, received, load, fresh,
                   my_load, oid, wait_reply, todo, given>>

-----------------------------------------------------------------------------
Step(t) ==
    \/ Explore(t) \/ FindError(t) \/ TryStop(t) \/ StopDone(t) \/ Balance(t)
    \/ CheckAllDone(t) \/ Leave(t) \/ UpdateIdle(t) \/ Scan(t)
    \/ SetAllDone(t) \/ RequestRandom(t) \/ Collect(t)
    \/ Split(t) \/ Reply(t) \/ Wake(t)
    \/ WaitIdle(t) \/ WaitDone(t) \/ Take(t) \/ Clear(t)
    \/ ReinitRequests(t) \/ ReinitDone(t) \/ ReinitIdle(t) \/ TestStop(t)

\* Every thread has left the search.
Left == \A t \in Thread : pc[t] = "exit"

\* One thread is in the reduce of the next level and another one, which has
\* left, in the barrier of run_reduce_stats: HREreduce compares type and
\* operator and aborts the program when the first message of the other kind
\* comes in.  (Until it does the remaining threads run on.)
Aborted == \E t, u \in Thread : pc[t] = "level" /\ pc[u] = "exit"

Finished == (Left \/ Aborted) /\ UNCHANGED vars

Next == (\E t \in Thread : Step(t)) \/ LevelReduce \/ NextLevel \/ Finished

Spec == Init /\ [][Next]_vars

\* The iterations of Explore that take a state from the stack.
Pop(t) == Explore(t) /\ <<load, fresh>>' # <<load, fresh>>

\* Every thread keeps running, a thread that has load does not swap its stacks
\* for ever without taking a state, and a barrier all threads reached opens.
Fairness == /\ \A t \in Thread : WF_vars(Step(t)) /\ SF_vars(Pop(t))
            /\ WF_vars(LevelReduce)
            /\ WF_vars(NextLevel)

FairSpec == Spec /\ Fairness

-----------------------------------------------------------------------------
(* Properties                                                              *)

\* t waits for the answer to its request.
Waiting(t) == pc[t] \in {"wait_idle", "wait_done"}

\* t has sent a request and has not yet taken the answer.
Requesting(t) ==
    \/ Waiting(t)
    \/ wait_reply[t] /\ pc[t] \in {"collect", "split", "reply", "wake"}

\* x has a request at t, in the request word of t or already collected by t.
Pending(x, t) == x \in requests[t] \/ x \in todo[t]

\* Where a thread can be that stopped waiting because it read all_done.
Abandoned == {"take", "clear", "client", "try_stop", "stop_done", "explore",
              "balance", "all_done", "leave", "level"}

Reinit == {"reinit_requests", "reinit_done", "reinit_idle", "reinit_wait"}

\* handoff asserts "Thread reactiveated before handoff complete" (lb.c:144):
\* while a thread answers the requests it collected, every requestor it has
\* not answered yet is idle.
HandoffToIdle ==
    \A t \in Thread : pc[t] \in {"split", "reply", "wake"} =>
        \A x \in todo[t] : idle[x]

\* A thread has at most one request out (request_random, lb.c:112), and a
\* request that was not answered belongs to a thread that still waits for the
\* answer, or that gave up waiting because all_done is set, or to the level
\* that lb_reinit is about to wipe.
RequestProtocol ==
    \A x, t \in Thread : Pending(x, t) =>
       /\ x # t
       /\ \A u \in Thread : Pending(x, u) => u = t
       /\ \/ Requesting(x)
          \/ all_done /\ pc[x] \in Abandoned
          \/ pc[x] \in Reinit /\ pc[t] = "reinit_requests"

\* No set of threads waits only for members of the set: lb_internal collects
\* its own requests after it sent one and before it waits (lb.c:183-190), so
\* the threads can never all wait for one another.
NoWaitCycle ==
    \A S \in SUBSET Thread : S # {} =>
       \E t \in S : ~(Waiting(t) /\ \E v \in S : t \in requests[v])

\* The assertion "Premature termination detection" (lb.c:180), stated for all
\* threads: when the balancer itself ends a level, no thread has load left.
NoPrematureTermination ==
    all_done /\ ~stopped => \A t \in Thread : load[t] = 0

\* A thread does not wait for ever (lb.c:190): its request is answered, or the
\* run ends.
WaitEnds == \A t \in Thread : Waiting(t) ~> ~Waiting(t)

\* After lb_stop no thread is stuck, whatever it was waiting for (lb.c:72-80:
\* first stopped, then all_done): all of them leave the search, unless the stop
\* overtakes a thread that has still to test the flag between two levels
\* (reach.c:320).  That thread leaves and the others go on to the reduce of the
\* level, and the program ends in the Abort of HREreduce (hre_reduce.c:31).
StopEnds ==
    /\ stopped ~> Left \/ Aborted
    /\ stopped /\ (\A t \in Thread : pc[t] \notin {"test_stop", "exit"}) ~> Left
=============================================================================
