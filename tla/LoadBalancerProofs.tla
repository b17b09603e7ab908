------------------------- MODULE LoadBalancerProofs -------------------------
(***************************************************************************)
(* Proofs about LoadBalancer, for every number of threads: the request     *)
(* protocol of lb_internal and handoff, the assertion of handoff, and the  *)
(* absence of a cycle of waiting threads.                                  *)
(***************************************************************************)
EXTENDS LoadBalancer, TLAPS

\* From the moment a thread that sent a request has collected its own
\* requests it is committed to wait: requests that arrive later stay in its
\* request word until it is answered.
Committed(t) ==
    \/ Waiting(t)
    \/ wait_reply[t] /\ pc[t] \in {"split", "reply", "wake"}

\* The reduce and the barrier move all threads together.
PhaseInv ==
    \/ \A t \in Thread : pc[t] \in Reinit
    \/ \A t \in Thread : pc[t] \notin Reinit

\* Only a thread inside handoff has collected requests, and a request is
\* either collected or not.
TodoInv ==
    \A t \in Thread :
       /\ pc[t] \notin {"split", "reply", "wake"} => todo[t] = {}
       /\ requests[t] \cap todo[t] = {}

\* A thread that scans or is about to send a request is idle, and a requestor
\* stays idle until it is answered.
IdleInv ==
    /\ \A t \in Thread : pc[t] \in {"scan", "request", "set_done"} => idle[t]
    /\ \A x, t \in Thread : Pending(x, t) /\ pc[x] \notin Reinit => idle[x]

\* NoWaitCycle for the committed threads.
CommitInv ==
    \A S \in SUBSET Thread : S # {} =>
       \E t \in S : ~(Committed(t) /\ \E v \in S : t \in requests[v])

IInv ==
    /\ TypeOK
    /\ PhaseInv
    /\ TodoInv
    /\ RequestProtocol
    /\ IdleInv
    /\ CommitInv
-----------------------------------------------------------------------------
\* Every step keeps the types of the fields of lb_t and of the locals.
LEMMA TypeStep ==
    ASSUME TypeOK,
           [Next]_vars
    PROVE  TypeOK'
<1> USE DEF TypeOK, Label
<1>1. ASSUME NEW t \in Thread, Explore(t) PROVE TypeOK'
  <2>1. load' \in [Thread -> Nat] /\ fresh' \in Nat
    <3>1. CASE UNCHANGED <<load, fresh>>
          BY <3>1
    <3>2. CASE load[t] > 0 /\ \E n \in 0 .. fresh :
                  /\ load' = [load EXCEPT ![t] = @ - 1 + n]
                  /\ fresh' = fresh - n
          BY <3>2
    <3> QED
          BY <1>1, <3>1, <3>2 DEF Explore
  <2> QED
        BY <1>1, <2>1, Zenon DEF Explore, Goto
<1>2. ASSUME NEW t \in Thread, FindError(t) PROVE TypeOK'
      BY <1>2 DEF FindError, Goto
<1>3. ASSUME NEW t \in Thread, TryStop(t) PROVE TypeOK'
      BY <1>3 DEF TryStop, Goto
<1>4. ASSUME NEW t \in Thread, StopDone(t) PROVE TypeOK'
      BY <1>4 DEF StopDone, Goto
<1>5. ASSUME NEW t \in Thread, Balance(t) PROVE TypeOK'
      BY <1>5 DEF Balance, Goto
<1>6. ASSUME NEW t \in Thread, CheckAllDone(t) PROVE TypeOK'
      BY <1>6 DEF CheckAllDone, Goto
<1>7. ASSUME NEW t \in Thread, Leave(t) PROVE TypeOK'
      BY <1>7 DEF Leave, Goto
<1>8. ASSUME NEW t \in Thread, UpdateIdle(t) PROVE TypeOK'
  <2>1. (my_load[t] = 0) \in BOOLEAN
        OBVIOUS
  <2>2. oid' \in [Thread -> 0 .. W] /\ wait_reply' \in [Thread -> BOOLEAN]
        BY <1>8, WAssumption DEF UpdateIdle
  <2>3. idle' \in [Thread -> BOOLEAN]
        BY <1>8, <2>1 DEF UpdateIdle
  <2> QED
        BY <1>8, <2>2, <2>3 DEF UpdateIdle, Goto
<1>9. ASSUME NEW t \in Thread, Scan(t) PROVE TypeOK'
  <2>1. oid' \in [Thread -> 0 .. W]
        BY <1>9, WAssumption DEF Scan
  <2> QED
        BY <1>9, <2>1 DEF Scan, Goto
<1>10. ASSUME NEW t \in Thread, SetAllDone(t) PROVE TypeOK'
      BY <1>10 DEF SetAllDone, Goto
<1>11. ASSUME NEW t \in Thread, RequestRandom(t) PROVE TypeOK'
  <2>1. requests' \in [Thread -> SUBSET Thread]
        BY <1>11 DEF RequestRandom
  <2> QED
        BY <1>11, <2>1 DEF RequestRandom, Goto
<1>12. ASSUME NEW t \in Thread, Collect(t) PROVE TypeOK'
      BY <1>12 DEF Collect, Goto, AfterHandoff
<1>13. ASSUME NEW t \in Thread, Split(t) PROVE TypeOK'
  <2>1. CASE Serve(t)
    <3>1. PICK x \in todo[t], n \in 0 .. my_load[t] \div 2 :
             /\ n <= load[t]
             /\ load' = [load EXCEPT ![t] = @ - n, ![x] = @ + n]
             /\ my_load' = [my_load EXCEPT ![t] = @ - n]
             /\ given' = [given EXCEPT ![t] = n]
             /\ Goto(t, "reply")
          BY <1>13, <2>1 DEF Split
    <3>2. my_load[t] \in Nat /\ load[t] \in Nat
          OBVIOUS
    <3>a. n \in Nat /\ n <= my_load[t] /\ n <= load[t]
          BY <3>1, <3>2
    <3>b. my_load[t] - n \in Nat /\ load[t] - n \in Nat
          BY <3>2, <3>a
    <3>3. /\ load' \in [Thread -> Nat]
          /\ my_load' \in [Thread -> Nat]
          /\ given' \in [Thread -> Nat]
          BY <3>1, <3>2, <3>a, <3>b
    <3> QED
          BY <1>13, <3>1, <3>3 DEF Split, Goto
  <2>2. CASE ~Serve(t)
        BY <1>13, <2>2 DEF Split, Goto
  <2> QED
        BY <2>1, <2>2
<1>14. ASSUME NEW t \in Thread, Reply(t) PROVE TypeOK'
      BY <1>14 DEF Reply, Goto, First
<1>15. ASSUME NEW t \in Thread, Wake(t) PROVE TypeOK'
  <2>1. PICK x \in todo[t] :
             /\ idle' = [idle EXCEPT ![x] = FALSE]
             /\ todo' = [todo EXCEPT ![t] = @ \ {x}]
             /\ Goto(t, IF todo[t] = {x} THEN AfterHandoff(t) ELSE "split")
        BY <1>15, Zenon DEF Wake
  <2>2. /\ idle' \in [Thread -> BOOLEAN]
        /\ todo' \in [Thread -> SUBSET Thread]
        BY <2>1
  <2>3. pc' \in [Thread -> Label]
        BY <2>1 DEF Goto, AfterHandoff
  <2> QED
        BY <1>15, <2>2, <2>3 DEF Wake
<1>16. ASSUME NEW t \in Thread, WaitIdle(t) PROVE TypeOK'
      BY <1>16 DEF WaitIdle, Goto
<1>17. ASSUME NEW t \in Thread, WaitDone(t) PROVE TypeOK'
      BY <1>17 DEF WaitDone, Goto
<1>18. ASSUME NEW t \in Thread, Take(t) PROVE TypeOK'
  <2>1. my_load' \in [Thread -> Nat]
        BY <1>18 DEF Take
  <2> QED
        BY <1>18, <2>1 DEF Take, Goto
<1>19. ASSUME NEW t \in Thread, Clear(t) PROVE TypeOK'
      BY <1>19 DEF Clear, Goto
<1>20. ASSUME NEW t \in Thread, ReinitRequests(t) PROVE TypeOK'
      BY <1>20 DEF ReinitRequests, Goto
<1>21. ASSUME NEW t \in Thread, ReinitDone(t) PROVE TypeOK'
      BY <1>21, Zenon DEF ReinitDone, Goto
<1>22. ASSUME NEW t \in Thread, ReinitIdle(t) PROVE TypeOK'
      BY <1>22 DEF ReinitIdle, Goto
<1>26. ASSUME NEW t \in Thread, TestStop(t) PROVE TypeOK'
      BY <1>26 DEF TestStop, Goto
<1>23. CASE LevelReduce
      BY <1>23 DEF LevelReduce
<1>24. CASE NextLevel
  <2>1. load' \in [Thread -> Nat] /\ fresh' \in Nat /\ my_load' \in [Thread -> Nat]
        BY <1>24, MaxLoadAssumption DEF NextLevel
  <2>2. pc' \in [Thread -> Label]
        BY <1>24 DEF NextLevel
  <2> QED
        BY <1>24, <2>1, <2>2 DEF NextLevel
<1>25. CASE UNCHANGED vars
      BY <1>25 DEF vars
<1> QED
      BY <1>1, <1>2, <1>3, <1>4, <1>5, <1>6, <1>7, <1>8, <1>9, <1>10,
         <1>11, <1>12, <1>13, <1>14, <1>15, <1>16, <1>17, <1>18, <1>19, <1>20,
         <1>21, <1>22, <1>23, <1>24, <1>25, <1>26
      DEF Next, Step, Finished

\* Only the reduce and the barrier move threads into and out of lb_reinit.
LEMMA PhaseStep ==
    ASSUME TypeOK, PhaseInv,
           [Next]_vars
    PROVE  PhaseInv'
<1> USE DEF TypeOK, PhaseInv, Reinit
<1>1. ASSUME NEW t \in Thread, Explore(t) PROVE PhaseInv'
      BY <1>1 DEF Explore, Goto
<1>2. ASSUME NEW t \in Thread, FindError(t) PROVE PhaseInv'
      BY <1>2 DEF FindError, Goto
<1>3. ASSUME NEW t \in Thread, TryStop(t) PROVE PhaseInv'
      BY <1>3 DEF TryStop, Goto
<1>4. ASSUME NEW t \in Thread, StopDone(t) PROVE PhaseInv'
      BY <1>4 DEF StopDone, Goto
<1>5. ASSUME NEW t \in Thread, Balance(t) PROVE PhaseInv'
      BY <1>5 DEF Balance, Goto
<1>6. ASSUME NEW t \in Thread, CheckAllDone(t) PROVE PhaseInv'
      BY <1>6 DEF CheckAllDone, Goto
<1>7. ASSUME NEW t \in Thread, Leave(t) PROVE PhaseInv'
      BY <1>7 DEF Leave, Goto
<1>8. ASSUME NEW t \in Thread, UpdateIdle(t) PROVE PhaseInv'
      BY <1>8 DEF UpdateIdle, Goto
<1>9. ASSUME NEW t \in Thread, Scan(t) PROVE PhaseInv'
      BY <1>9 DEF Scan, Goto
<1>10. ASSUME NEW t \in Thread, SetAllDone(t) PROVE PhaseInv'
      BY <1>10 DEF SetAllDone, Goto
<1>11. ASSUME NEW t \in Thread, RequestRandom(t) PROVE PhaseInv'
      BY <1>11 DEF RequestRandom, Goto
<1>12. ASSUME NEW t \in Thread, Collect(t) PROVE PhaseInv'
      BY <1>12 DEF Collect, Goto, AfterHandoff
<1>13. ASSUME NEW t \in Thread, Split(t) PROVE PhaseInv'
      BY <1>13 DEF Split, Goto, First, Serve
<1>14. ASSUME NEW t \in Thread, Reply(t) PROVE PhaseInv'
      BY <1>14 DEF Reply, Goto, First
<1>15. ASSUME NEW t \in Thread, Wake(t) PROVE PhaseInv'
      BY <1>15 DEF Wake, Goto, AfterHandoff, First
<1>16. ASSUME NEW t \in Thread, WaitIdle(t) PROVE PhaseInv'
      BY <1>16 DEF WaitIdle, Goto
<1>17. ASSUME NEW t \in Thread, WaitDone(t) PROVE PhaseInv'
      BY <1>17 DEF WaitDone, Goto
<1>18. ASSUME NEW t \in Thread, Take(t) PROVE PhaseInv'
      BY <1>18 DEF Take, Goto
<1>19. ASSUME NEW t \in Thread, Clear(t) PROVE PhaseInv'
      BY <1>19 DEF Clear, Goto
<1>20. ASSUME NEW t \in Thread, ReinitRequests(t) PROVE PhaseInv'
      BY <1>20 DEF ReinitRequests, Goto
<1>21. ASSUME NEW t \in Thread, ReinitDone(t) PROVE PhaseInv'
      BY <1>21 DEF ReinitDone, Goto
<1>22. ASSUME NEW t \in Thread, ReinitIdle(t) PROVE PhaseInv'
      BY <1>22 DEF ReinitIdle, Goto
<1>26. ASSUME NEW t \in Thread, TestStop(t) PROVE PhaseInv'
      BY <1>26 DEF TestStop, Goto
<1>23. CASE LevelReduce
      BY <1>23 DEF LevelReduce
<1>24. CASE NextLevel
      BY <1>24 DEF NextLevel
<1>25. CASE UNCHANGED vars
      BY <1>25 DEF vars
<1> QED
      BY <1>1, <1>2, <1>3, <1>4, <1>5, <1>6, <1>7, <1>8, <1>9, <1>10,
         <1>11, <1>12, <1>13, <1>14, <1>15, <1>16, <1>17, <1>18, <1>19, <1>20,
         <1>21, <1>22, <1>23, <1>24, <1>25, <1>26
      DEF Next, Step, Finished

\* Only handoff holds collected requests.
LEMMA TodoStep ==
    ASSUME TypeOK, TodoInv, RequestProtocol,
           [Next]_vars
    PROVE  TodoInv'
<1> USE DEF TypeOK, TodoInv, RequestProtocol, Pending, Requesting, Waiting,
              Abandoned, Reinit
<1>1. ASSUME NEW t \in Thread, Explore(t) PROVE TodoInv'
      BY <1>1 DEF Explore, Goto
<1>2. ASSUME NEW t \in Thread, FindError(t) PROVE TodoInv'
      BY <1>2 DEF FindError, Goto
<1>3. ASSUME NEW t \in Thread, TryStop(t) PROVE TodoInv'
      BY <1>3 DEF TryStop, Goto
<1>4. ASSUME NEW t \in Thread, StopDone(t) PROVE TodoInv'
      BY <1>4 DEF StopDone, Goto
<1>5. ASSUME NEW t \in Thread, Balance(t) PROVE TodoInv'
      BY <1>5 DEF Balance, Goto
<1>6. ASSUME NEW t \in Thread, CheckAllDone(t) PROVE TodoInv'
      BY <1>6 DEF CheckAllDone, Goto
<1>7. ASSUME NEW t \in Thread, Leave(t) PROVE TodoInv'
      BY <1>7 DEF Leave, Goto
<1>8. ASSUME NEW t \in Thread, UpdateIdle(t) PROVE TodoInv'
      BY <1>8 DEF UpdateIdle, Goto
<1>9. ASSUME NEW t \in Thread, Scan(t) PROVE TodoInv'
      BY <1>9 DEF Scan, Goto
<1>10. ASSUME NEW t \in Thread, SetAllDone(t) PROVE TodoInv'
      BY <1>10 DEF SetAllDone, Goto
<1>11. ASSUME NEW t \in Thread, RequestRandom(t) PROVE TodoInv'
  <2>1. PICK res \in Thread \ {t} : requests' = [requests EXCEPT ![res] = @ \cup {t}]
        BY <1>11 DEF RequestRandom
  <2>2. \A u \in Thread : t \notin todo[u]
        BY <1>11 DEF RequestRandom
  <2>3. /\ todo' = todo /\ pc[t] = "request" /\ pc' = [pc EXCEPT ![t] = "collect"]
        BY <1>11 DEF RequestRandom, Goto
  <2>4. \A u \in Thread : requests'[u] \subseteq requests[u] \cup {t}
        BY <2>1
  <2>5. \A u \in Thread : requests'[u] \cap todo'[u] = {}
        BY <2>2, <2>3, <2>4
  <2>6. \A u \in Thread : pc'[u] \notin {"split", "reply", "wake"} => todo'[u] = {}
        BY <2>3
  <2> QED
        BY <2>5, <2>6
<1>12. ASSUME NEW t \in Thread, Collect(t) PROVE TodoInv'
      BY <1>12 DEF Collect, Goto, AfterHandoff
<1>13. ASSUME NEW t \in Thread, Split(t) PROVE TodoInv'
      BY <1>13 DEF Split, Goto, First, Serve
<1>14. ASSUME NEW t \in Thread, Reply(t) PROVE TodoInv'
      BY <1>14 DEF Reply, Goto, First
<1>15. ASSUME NEW t \in Thread, Wake(t) PROVE TodoInv'
      BY <1>15 DEF Wake, Goto, AfterHandoff, First
<1>16. ASSUME NEW t \in Thread, WaitIdle(t) PROVE TodoInv'
      BY <1>16 DEF WaitIdle, Goto
<1>17. ASSUME NEW t \in Thread, WaitDone(t) PROVE TodoInv'
      BY <1>17 DEF WaitDone, Goto
<1>18. ASSUME NEW t \in Thread, Take(t) PROVE TodoInv'
      BY <1>18 DEF Take, Goto
<1>19. ASSUME NEW t \in Thread, Clear(t) PROVE TodoInv'
      BY <1>19 DEF Clear, Goto
<1>20. ASSUME NEW t \in Thread, ReinitRequests(t) PROVE TodoInv'
      BY <1>20 DEF ReinitRequests, Goto
<1>21. ASSUME NEW t \in Thread, ReinitDone(t) PROVE TodoInv'
      BY <1>21 DEF ReinitDone, Goto
<1>22. ASSUME NEW t \in Thread, ReinitIdle(t) PROVE TodoInv'
      BY <1>22 DEF ReinitIdle, Goto
<1>26. ASSUME NEW t \in Thread, TestStop(t) PROVE TodoInv'
      BY <1>26 DEF TestStop, Goto
<1>23. CASE LevelReduce
      BY <1>23 DEF LevelReduce
<1>24. CASE NextLevel
      BY <1>24 DEF NextLevel
<1>25. CASE UNCHANGED vars
      BY <1>25 DEF vars
<1> QED
      BY <1>1, <1>2, <1>3, <1>4, <1>5, <1>6, <1>7, <1>8, <1>9, <1>10,
         <1>11, <1>12, <1>13, <1>14, <1>15, <1>16, <1>17, <1>18, <1>19, <1>20,
         <1>21, <1>22, <1>23, <1>24, <1>25, <1>26, Zenon
      DEF Next, Step, Finished

\* The request protocol is kept by every step.
LEMMA RequestStep ==
    ASSUME TypeOK, PhaseInv, TodoInv, RequestProtocol, IdleInv,
           [Next]_vars
    PROVE  RequestProtocol'
<1> USE DEF TypeOK, PhaseInv, TodoInv, RequestProtocol, IdleInv, Pending,
              Requesting, Waiting, Abandoned, Reinit
<1>1. ASSUME NEW t \in Thread, Explore(t) PROVE RequestProtocol'
      BY <1>1 DEF Explore, Goto
<1>2. ASSUME NEW t \in Thread, FindError(t) PROVE RequestProtocol'
      BY <1>2 DEF FindError, Goto
<1>3. ASSUME NEW t \in Thread, TryStop(t) PROVE RequestProtocol'
      BY <1>3 DEF TryStop, Goto
<1>4. ASSUME NEW t \in Thread, StopDone(t) PROVE RequestProtocol'
      BY <1>4 DEF StopDone, Goto
<1>5. ASSUME NEW t \in Thread, Balance(t) PROVE RequestProtocol'
      BY <1>5 DEF Balance, Goto
<1>6. ASSUME NEW t \in Thread, CheckAllDone(t) PROVE RequestProtocol'
      BY <1>6 DEF CheckAllDone, Goto
<1>7. ASSUME NEW t \in Thread, Leave(t) PROVE RequestProtocol'
      BY <1>7 DEF Leave, Goto
<1>8. ASSUME NEW t \in Thread, UpdateIdle(t) PROVE RequestProtocol'
      BY <1>8 DEF UpdateIdle, Goto
<1>9. ASSUME NEW t \in Thread, Scan(t) PROVE RequestProtocol'
      BY <1>9 DEF Scan, Goto
<1>10. ASSUME NEW t \in Thread, SetAllDone(t) PROVE RequestProtocol'
      BY <1>10 DEF SetAllDone, Goto
<1>11. ASSUME NEW t \in Thread, RequestRandom(t) PROVE RequestProtocol'
      BY <1>11 DEF RequestRandom, Goto
<1>12. ASSUME NEW t \in Thread, Collect(t) PROVE RequestProtocol'
      BY <1>12 DEF Collect, Goto, AfterHandoff
<1>13. ASSUME NEW t \in Thread, Split(t) PROVE RequestProtocol'
  <2>1. UNCHANGED <<requests, todo, wait_reply, all_done>>
        BY <1>13 DEF Split
  <2>2. pc[t] = "split" /\ pc' \in {[pc EXCEPT ![t] = "reply"], [pc EXCEPT ![t] = "wake"]}
        BY <1>13 DEF Split, Goto
  <2> QED
        BY <2>1, <2>2
<1>14. ASSUME NEW t \in Thread, Reply(t) PROVE RequestProtocol'
      BY <1>14 DEF Reply, Goto, First
<1>15. ASSUME NEW t \in Thread, Wake(t) PROVE RequestProtocol'
      BY <1>15 DEF Wake, Goto, AfterHandoff, First
<1>16. ASSUME NEW t \in Thread, WaitIdle(t) PROVE RequestProtocol'
      BY <1>16 DEF WaitIdle, Goto
<1>17. ASSUME NEW t \in Thread, WaitDone(t) PROVE RequestProtocol'
      BY <1>17 DEF WaitDone, Goto
<1>18. ASSUME NEW t \in Thread, Take(t) PROVE RequestProtocol'
      BY <1>18 DEF Take, Goto
<1>19. ASSUME NEW t \in Thread, Clear(t) PROVE RequestProtocol'
      BY <1>19 DEF Clear, Goto
<1>20. ASSUME NEW t \in Thread, ReinitRequests(t) PROVE RequestProtocol'
      BY <1>20 DEF ReinitRequests, Goto
<1>21. ASSUME NEW t \in Thread, ReinitDone(t) PROVE RequestProtocol'
      BY <1>21 DEF ReinitDone, Goto
<1>22. ASSUME NEW t \in Thread, ReinitIdle(t) PROVE RequestProtocol'
      BY <1>22 DEF ReinitIdle, Goto
<1>26. ASSUME NEW t \in Thread, TestStop(t) PROVE RequestProtocol'
      BY <1>26 DEF TestStop, Goto
<1>23. CASE LevelReduce
      BY <1>23 DEF LevelReduce
<1>24. CASE NextLevel
      BY <1>24, Zenon DEF NextLevel
<1>25. CASE UNCHANGED vars
      BY <1>25 DEF vars
<1> QED
      BY <1>1, <1>2, <1>3, <1>4, <1>5, <1>6, <1>7, <1>8, <1>9, <1>10,
         <1>11, <1>12, <1>13, <1>14, <1>15, <1>16, <1>17, <1>18, <1>19, <1>20,
         <1>21, <1>22, <1>23, <1>24, <1>25, <1>26, Zenon
      DEF Next, Step, Finished

\* A requestor is idle until it is answered.
LEMMA IdleStep ==
    ASSUME TypeOK, PhaseInv, TodoInv, RequestProtocol, IdleInv,
           [Next]_vars
    PROVE  IdleInv'
<1> USE DEF TypeOK, PhaseInv, TodoInv, RequestProtocol, IdleInv, Pending,
              Requesting, Waiting, Abandoned, Reinit
<1>1. ASSUME NEW t \in Thread, Explore(t) PROVE IdleInv'
      BY <1>1 DEF Explore, Goto
<1>2. ASSUME NEW t \in Thread, FindError(t) PROVE IdleInv'
      BY <1>2 DEF FindError, Goto
<1>3. ASSUME NEW t \in Thread, TryStop(t) PROVE IdleInv'
      BY <1>3 DEF TryStop, Goto
<1>4. ASSUME NEW t \in Thread, StopDone(t) PROVE IdleInv'
      BY <1>4 DEF StopDone, Goto
<1>5. ASSUME NEW t \in Thread, Balance(t) PROVE IdleInv'
      BY <1>5 DEF Balance, Goto
<1>6. ASSUME NEW t \in Thread, CheckAllDone(t) PROVE IdleInv'
      BY <1>6 DEF CheckAllDone, Goto
<1>7. ASSUME NEW t \in Thread, Leave(t) PROVE IdleInv'
      BY <1>7 DEF Leave, Goto
<1>8. ASSUME NEW t \in Thread, UpdateIdle(t) PROVE IdleInv'
  <2>1. my_load[t] = 0 => idle'[t] = TRUE
    <3>1. idle'[t] = (my_load[t] = 0)
          BY <1>8 DEF UpdateIdle
    <3> QED
          BY <3>1, Zenon
  <2>2. \A x \in Thread : ~Pending(t, x)
        BY <1>8, Zenon DEF UpdateIdle
  <2>3. \A x \in Thread : x /= t => idle'[x] = idle[x] /\ pc'[x] = pc[x]
        BY <1>8 DEF UpdateIdle, Goto
  <2>4. pc'[t] \in {"scan", "request", "set_done"} => my_load[t] = 0
        BY <1>8 DEF UpdateIdle, Goto
  <2>5. \A x, y \in Thread : (Pending(x, y))' <=> Pending(x, y)
        BY <1>8, Zenon DEF UpdateIdle
  <2> QED
        BY <2>1, <2>2, <2>3, <2>4, <2>5
<1>9. ASSUME NEW t \in Thread, Scan(t) PROVE IdleInv'
      BY <1>9 DEF Scan, Goto
<1>10. ASSUME NEW t \in Thread, SetAllDone(t) PROVE IdleInv'
      BY <1>10 DEF SetAllDone, Goto
<1>11. ASSUME NEW t \in Thread, RequestRandom(t) PROVE IdleInv'
      BY <1>11 DEF RequestRandom, Goto
<1>12. ASSUME NEW t \in Thread, Collect(t) PROVE IdleInv'
      BY <1>12 DEF Collect, Goto, AfterHandoff
<1>13. ASSUME NEW t \in Thread, Split(t) PROVE IdleInv'
      BY <1>13 DEF Split, Goto, First, Serve
<1>14. ASSUME NEW t \in Thread, Reply(t) PROVE IdleInv'
      BY <1>14 DEF Reply, Goto, First
<1>15. ASSUME NEW t \in Thread, Wake(t) PROVE IdleInv'
      BY <1>15 DEF Wake, Goto, AfterHandoff, First
<1>16. ASSUME NEW t \in Thread, WaitIdle(t) PROVE IdleInv'
      BY <1>16 DEF WaitIdle, Goto
<1>17. ASSUME NEW t \in Thread, WaitDone(t) PROVE IdleInv'
      BY <1>17 DEF WaitDone, Goto
<1>18. ASSUME NEW t \in Thread, Take(t) PROVE IdleInv'
      BY <1>18 DEF Take, Goto
<1>19. ASSUME NEW t \in Thread, Clear(t) PROVE IdleInv'
      BY <1>19 DEF Clear, Goto
<1>20. ASSUME NEW t \in Thread, ReinitRequests(t) PROVE IdleInv'
      BY <1>20 DEF ReinitRequests, Goto
<1>21. ASSUME NEW t \in Thread, ReinitDone(t) PROVE IdleInv'
      BY <1>21 DEF ReinitDone, Goto
<1>22. ASSUME NEW t \in Thread, ReinitIdle(t) PROVE IdleInv'
      BY <1>22 DEF ReinitIdle, Goto
<1>26. ASSUME NEW t \in Thread, TestStop(t) PROVE IdleInv'
      BY <1>26 DEF TestStop, Goto
<1>23. CASE LevelReduce
      BY <1>23, Zenon DEF LevelReduce
<1>24. CASE NextLevel
      BY <1>24 DEF NextLevel
<1>25. CASE UNCHANGED vars
      BY <1>25, Zenon DEF vars
<1> QED
      BY <1>1, <1>2, <1>3, <1>4, <1>5, <1>6, <1>7, <1>8, <1>9, <1>10,
         <1>11, <1>12, <1>13, <1>14, <1>15, <1>16, <1>17, <1>18, <1>19, <1>20,
         <1>21, <1>22, <1>23, <1>24, <1>25, <1>26, Zenon
      DEF Next, Step, Finished

\* A step after which every committed thread was committed before, with no
\* new request of its own, closes no cycle.
LEMMA CommitMono ==
    ASSUME CommitInv,
           \A x \in Thread : Committed(x)' =>
              Committed(x) /\ \A v \in Thread : x \in requests'[v] => x \in requests[v]
    PROVE  CommitInv'
<1> SUFFICES ASSUME NEW S \in SUBSET Thread, S # {}
             PROVE  \E t \in S :
                       ~(Committed(t)' /\ \E v \in S : t \in requests'[v])
      BY Zenon DEF CommitInv
<1>1. PICK t \in S : ~(Committed(t) /\ \E v \in S : t \in requests[v])
      BY Zenon DEF CommitInv
<1> QED
      BY <1>1, Zenon

\* Collecting the requests of t commits t but empties its request word: a
\* cycle through t would need a request in that word.
LEMMA CommitCollect ==
    ASSUME TypeOK, CommitInv, NEW t \in Thread, Collect(t)
    PROVE  CommitInv'
<1> SUFFICES ASSUME NEW S \in SUBSET Thread, S # {}
             PROVE  \E x \in S :
                       ~(Committed(x)' /\ \E v \in S : x \in requests'[v])
      BY Zenon DEF CommitInv
<1>1. /\ requests'[t] = {}
      /\ \A v \in Thread : requests'[v] \in SUBSET requests[v]
      /\ \A x \in Thread \ {t} : Committed(x)' <=> Committed(x)
      BY Zenon DEF Collect, TypeOK, Committed, Waiting, Goto
<1>2. CASE S = {t}
      BY <1>1, <1>2, Zenon
<1>3. CASE S # {t}
  <2>1. S \ {t} # {} /\ S \ {t} \in SUBSET Thread
        BY <1>3
  <2>2. PICK x \in S \ {t} :
           ~(Committed(x) /\ \E v \in S \ {t} : x \in requests[v])
        BY <2>1, Zenon DEF CommitInv
  <2> QED
        BY <1>1, <2>2, Zenon
<1> QED
      BY <1>2, <1>3, Zenon

\* No step closes a cycle of committed threads.
LEMMA CommitStep ==
    ASSUME TypeOK, CommitInv,
           [Next]_vars
    PROVE  CommitInv'
<1> USE DEF TypeOK, Committed, Waiting
<1>1. ASSUME NEW t \in Thread, Explore(t) PROVE CommitInv'
      BY <1>1, CommitMono, Zenon DEF Explore, Goto
<1>2. ASSUME NEW t \in Thread, FindError(t) PROVE CommitInv'
      BY <1>2, CommitMono, Zenon DEF FindError, Goto
<1>3. ASSUME NEW t \in Thread, TryStop(t) PROVE CommitInv'
      BY <1>3, CommitMono, Zenon DEF TryStop, Goto
<1>4. ASSUME NEW t \in Thread, StopDone(t) PROVE CommitInv'
      BY <1>4, CommitMono, Zenon DEF StopDone, Goto
<1>5. ASSUME NEW t \in Thread, Balance(t) PROVE CommitInv'
      BY <1>5, CommitMono, Zenon DEF Balance, Goto
<1>6. ASSUME NEW t \in Thread, CheckAllDone(t) PROVE CommitInv'
      BY <1>6, CommitMono, Zenon DEF CheckAllDone, Goto
<1>7. ASSUME NEW t \in Thread, Leave(t) PROVE CommitInv'
      BY <1>7, CommitMono, Zenon DEF Leave, Goto
<1>8. ASSUME NEW t \in Thread, UpdateIdle(t) PROVE CommitInv'
      BY <1>8, CommitMono, Zenon DEF UpdateIdle, Goto
<1>9. ASSUME NEW t \in Thread, Scan(t) PROVE CommitInv'
      BY <1>9, CommitMono DEF Scan, Goto
<1>10. ASSUME NEW t \in Thread, SetAllDone(t) PROVE CommitInv'
      BY <1>10, CommitMono, Zenon DEF SetAllDone, Goto
<1>11. ASSUME NEW t \in Thread, RequestRandom(t) PROVE CommitInv'
      BY <1>11, CommitMono DEF RequestRandom, Goto
<1>12. ASSUME NEW t \in Thread, Collect(t) PROVE CommitInv'
      BY <1>12, CommitCollect, Zenon
<1>13. ASSUME NEW t \in Thread, Split(t) PROVE CommitInv'
      BY <1>13, CommitMono, Zenon DEF Split, Goto
<1>14. ASSUME NEW t \in Thread, Reply(t) PROVE CommitInv'
      BY <1>14, CommitMono, Zenon DEF Reply, Goto
<1>15. ASSUME NEW t \in Thread, Wake(t) PROVE CommitInv'
      BY <1>15, CommitMono DEF Wake, Goto, AfterHandoff
<1>16. ASSUME NEW t \in Thread, WaitIdle(t) PROVE CommitInv'
      BY <1>16, CommitMono, Zenon DEF WaitIdle, Goto
<1>17. ASSUME NEW t \in Thread, WaitDone(t) PROVE CommitInv'
      BY <1>17, CommitMono, Zenon DEF WaitDone, Goto
<1>18. ASSUME NEW t \in Thread, Take(t) PROVE CommitInv'
      BY <1>18, CommitMono, Zenon DEF Take, Goto
<1>19. ASSUME NEW t \in Thread, Clear(t) PROVE CommitInv'
      BY <1>19, CommitMono, Zenon DEF Clear, Goto
<1>20. ASSUME NEW t \in Thread, ReinitRequests(t) PROVE CommitInv'
      BY <1>20, CommitMono, Zenon DEF ReinitRequests, Goto
<1>21. ASSUME NEW t \in Thread, ReinitDone(t) PROVE CommitInv'
      BY <1>21, CommitMono, Zenon DEF ReinitDone, Goto
<1>22. ASSUME NEW t \in Thread, ReinitIdle(t) PROVE CommitInv'
      BY <1>22, CommitMono DEF ReinitIdle, Goto
<1>26. ASSUME NEW t \in Thread, TestStop(t) PROVE CommitInv'
      BY <1>26, CommitMono DEF TestStop, Goto
<1>23. CASE LevelReduce
      BY <1>23, CommitMono DEF LevelReduce
<1>24. CASE NextLevel
      BY <1>24, CommitMono, Zenon DEF NextLevel
<1>25. CASE UNCHANGED vars
      BY <1>25, CommitMono DEF vars
<1> QED
      BY <1>1, <1>2, <1>3, <1>4, <1>5, <1>6, <1>7, <1>8, <1>9, <1>10,
         <1>11, <1>12, <1>13, <1>14, <1>15, <1>16, <1>17, <1>18, <1>19, <1>20,
         <1>21, <1>22, <1>23, <1>24, <1>25, <1>26, Zenon
      DEF Next, Step, Finished

\* The initial state, after lb_create_max and lb_local_init, satisfies the
\* inductive invariant.
LEMMA InitIInv == Init => IInv
<1> SUFFICES ASSUME Init PROVE IInv
      OBVIOUS
<1>1. TypeOK
  <2>1. load \in [Thread -> Nat] /\ my_load \in [Thread -> Nat]
        BY DEF Init
  <2>2. oid \in [Thread -> 0 .. W] /\ fresh \in Nat
        BY WAssumption, MaxLoadAssumption DEF Init
  <2>3. pc \in [Thread -> Label]
        BY DEF Init, Label
  <2> QED
        BY <2>1, <2>2, <2>3, Zenon DEF Init, TypeOK
<1>2. PhaseInv /\ TodoInv /\ RequestProtocol /\ IdleInv
      BY Zenon DEF Init, PhaseInv, TodoInv, RequestProtocol, IdleInv, Pending, Reinit
<1>3. CommitInv
      BY DEF Init, CommitInv, Committed, Waiting
<1> QED
      BY <1>1, <1>2, <1>3 DEF IInv

\* The inductive invariant holds in every reachable state, for every number
\* of threads, granularity, handoff limit and state space.
THEOREM Inductive == Spec => []IInv
<1>1. IInv /\ [Next]_vars => IInv'
      BY TypeStep, PhaseStep, TodoStep, RequestStep, IdleStep, CommitStep
      DEF IInv
<1> QED
      BY InitIInv, <1>1, PTL DEF Spec

\* The types of the balancer's fields and of the locals of lb_internal.
THEOREM TypeCorrect == Spec => []TypeOK
<1>1. IInv => TypeOK
      BY DEF IInv
<1> QED
      BY Inductive, <1>1, PTL

\* The assertion of handoff never fires: a requestor is idle until the
\* thread that collected its request has answered it (lb.c:144).
THEOREM HandoffIsToIdle == Spec => []HandoffToIdle
<1>1. IInv => HandoffToIdle
      BY DEF IInv, PhaseInv, IdleInv, HandoffToIdle, Pending, TypeOK, Reinit
<1> QED
      BY Inductive, <1>1, PTL

\* A thread has at most one request out, and waits for it.
THEOREM OneRequest == Spec => []RequestProtocol
<1>1. IInv => RequestProtocol
      BY DEF IInv
<1> QED
      BY Inductive, <1>1, PTL

\* The threads never all wait for one another.
THEOREM NoDeadlockedWait == Spec => []NoWaitCycle
<1>1. IInv => NoWaitCycle
  <2> SUFFICES ASSUME CommitInv, NEW S \in SUBSET Thread, S # {}
               PROVE  \E t \in S : ~(Waiting(t) /\ \E v \in S : t \in requests[v])
        BY DEF IInv, NoWaitCycle
  <2>1. PICK t \in S : ~(Committed(t) /\ \E v \in S : t \in requests[v])
        BY DEF CommitInv
  <2> QED
        BY <2>1, Zenon DEF Committed
<1> QED
      BY Inductive, <1>1, PTL
=============================================================================
