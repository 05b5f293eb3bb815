---------------------------- MODULE AbstractSet ----------------------------
(***************************************************************************)
(* What the concurrent set promises: a set of values on which every        *)
(* operation takes effect in one instant between its call and its return   *)
(* (linearizability).                                                      *)
(***************************************************************************)
CONSTANTS Thread, Value, Start

VARIABLES
    members,  \* the values in the set
    open,     \* threads whose operation has been called, not yet settled
    op,       \* each thread's operation,
    val,      \* its argument,
    ans,      \* the answer of the last operation that settled,
    seen      \* and whether the argument was a member, at times since the call

vars == <<members, open, op, val, ans, seen>>

Lookups == {"contains", "get"}
Ops == {"insert", "remove"} \cup Lookups

\* Conjoined to every step: what is seen of an open operation's argument.
Watch == seen' = [t \in Thread |->
    IF t \in open'
    THEN (IF t \in open THEN seen[t] ELSE {}) \cup {val'[t] \in members'}
    ELSE {}]

Init ==
    /\ members = Start
    /\ open = {}
    /\ op \in [Thread -> Ops]
    /\ val \in [Thread -> Value]
    /\ ans \in [Thread -> BOOLEAN]
    /\ seen = [t \in Thread |-> {}]

Call(t) ==
    /\ t \notin open
    /\ open' = open \cup {t}
    /\ \E o \in Ops : op' = [op EXCEPT ![t] = o]
    /\ \E v \in Value : val' = [val EXCEPT ![t] = v]
    /\ UNCHANGED <<members, ans>>

Settle(t, a) ==
    /\ t \in open
    /\ open' = open \ {t}
    /\ ans' = [ans EXCEPT ![t] = a]
    /\ UNCHANGED <<op, val>>

\* Answers whether the value was newly inserted.
Insert(t) ==
    /\ op[t] = "insert"
    /\ members' = members \cup {val[t]}
    /\ Settle(t, val[t] \notin members)

\* Answers whether the value was there.
Remove(t) ==
    /\ op[t] = "remove"
    /\ members' = members \ {val[t]}
    /\ Settle(t, val[t] \in members)

\* Answers what has been true at some instant since the call.
Lookup(t) ==
    /\ op[t] \in Lookups
    /\ \E a \in seen[t] : Settle(t, a)
    /\ UNCHANGED members

Next == \E t \in Thread : (Call(t) \/ Insert(t) \/ Remove(t) \/ Lookup(t)) /\ Watch

Spec == Init /\ [][Next]_vars
=============================================================================
