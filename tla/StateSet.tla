------------------------------ MODULE StateSet ------------------------------
(***************************************************************************)
(* What a state store promises the workers of a search: one set of states, *)
(* in which every state has one reference.  A call is decided in one step  *)
(* between the moment it is made and the moment it returns: a lookup is    *)
(* told whether the state was there and adds it when it was not, a find is *)
(* told whether it was there.  A store may also give up: it is full.       *)
(***************************************************************************)
CONSTANTS Thread, Vector, Ref

VARIABLES
    stored, \* the pairs <<reference, state>> of the set
    calls   \* the call of each thread

Asked(v, insert) ==
    [stage |-> "asked", v |-> v, insert |-> insert, answer |-> "none", ref |-> 0]

Idle == [stage |-> "idle"]

Decided(c, answer, ref) ==
    [stage |-> "decided", v |-> c.v, insert |-> c.insert,
     answer |-> answer, ref |-> ref]

Init == stored = {} /\ calls = [t \in Thread |-> Idle]

Ask(t, v, insert) ==
    /\ calls[t] = Idle
    /\ calls' = [calls EXCEPT ![t] = Asked(v, insert)]
    /\ UNCHANGED stored

Decide(t, answer, ref) ==
    /\ calls[t].stage = "asked"
    /\ calls' = [calls EXCEPT ![t] = Decided(calls[t], answer, ref)]

\* The state is new: it gets a reference nobody else has.
Add(t, b) ==
    /\ Decide(t, "new", b)
    /\ calls[t].insert
    /\ \A p \in stored : p[1] # b /\ p[2] # calls[t].v
    /\ stored' = stored \cup {<<b, calls[t].v>>}

Seen(t, b) ==
    /\ Decide(t, "seen", b)
    /\ <<b, calls[t].v>> \in stored
    /\ UNCHANGED stored

NotFound(t) ==
    /\ Decide(t, "not_found", 0)
    /\ ~ calls[t].insert
    /\ \A p \in stored : p[2] # calls[t].v
    /\ UNCHANGED stored

GiveUp(t) == Decide(t, "full", 0) /\ UNCHANGED stored

Return(t) ==
    /\ calls[t].stage = "decided"
    /\ calls' = [calls EXCEPT ![t] = Idle]
    /\ UNCHANGED stored

Next ==
    \E t \in Thread :
        \/ \E v \in Vector, insert \in BOOLEAN : Ask(t, v, insert)
        \/ \E b \in Ref : Add(t, b) \/ Seen(t, b)
        \/ NotFound(t) \/ GiveUp(t) \/ Return(t)

Spec == Init /\ [][Next]_<<stored, calls>>
=============================================================================
