------------------------ MODULE ConcurrentSetHistory ------------------------
(***************************************************************************)
(* ConcurrentSet with a history variable, and what the set promises to its *)
(* callers stated with it.                                                 *)
(***************************************************************************)
EXTENDS ConcurrentSet

VARIABLE
    seen   \* whether an open operation's argument was in the set, since its call

historyVars == <<vars, seen>>

HistoryInit == Init /\ seen = [t \in Thread |-> {}]

HistoryNext ==
    /\ Next
    /\ seen' = [t \in Thread |->
         IF t \in Open'
         THEN (IF t \in Open THEN seen[t] ELSE {}) \cup {val'[t] \in Members'}
         ELSE {}]

HistorySpec == HistoryInit /\ [][HistoryNext]_historyVars

Promise == INSTANCE AbstractSet WITH
    Start <- UNION {Initial[n] : n \in NodeId},
    members <- Members,
    open <- Open,
    ans <- [t \in Thread |-> pc[t] \in {"updmax", "unreach"} \/ ans[t]]

\* Every insert and remove takes effect, with a set's answer, in one step
\* between its call and its return (when the value enters or leaves a node,
\* whatever index work put_cdc or remove_cdc still has to commit), and contains
\* and get answer what was true at some instant of their call.
Linearizable == Promise!Spec
=============================================================================
