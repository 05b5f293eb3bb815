----------------------------- MODULE SetIterator -----------------------------
(***************************************************************************)
(* Iter and Range of the concurrent set (set.rs) over ConcurrentSet: a     *)
(* caller walks the set from both ends while other threads change it.      *)
(*                                                                         *)
(* The ends Front and Back count as threads, whose `node`, `key` and `pc`  *)
(* they use, and `holder` for the guard an end keeps between calls.  They   *)
(* read the index without index_lock, so that they see it in the middle of *)
(* a commit: `view`.  next and next_back are one code for either end.      *)
(***************************************************************************)
EXTENDS ConcurrentSet, Sequences

CONSTANTS
    Front, Back,  \* the ends of the iterator
    Ranges,       \* pairs of bounds to walk between; a bound
    MaxSteps      \* how often the caller calls next or next_back; a bound

Ends == {Front, Back}
Worker == Thread \ Ends

\* The index is never empty, so that CreateNode never runs.
ASSUME EndsAssumption == Front # Back /\ Ends \subseteq Thread /\ MaxSteps \in Nat

VARIABLES
    view,    \* the index as a reader without the lock sees it
    bounds,  \* the bound of each end
    rest,    \* what the slice iterator of an end still has: current_.._node_iter
    last,    \* the value an end yielded last, if any: current_.._value
    met,     \* the ends have met
    out,     \* all that each end has yielded
    stayed,  \* values in the set all the time since the iterator was made
    old,     \* values in the set when it was made
    nones,   \* the ends that have answered None
    missed   \* the iterator has met with a commit, see Complete

iterator == <<bounds, rest, last, met, out, nones>>
iterVars == <<vars, view, iterator, stayed, old, missed>>

Other(e) == IF e = Front THEN Back ELSE Front
\* a comes later than b for an iteration that starts at e.
Beyond(e, a, b) == IF e = Front THEN a > b ELSE a < b
Nearest(e, S) == IF e = Front THEN Min(S) ELSE Max(S)

Shown == {k \in Value : view[k] # NoNode}

Unbounded == <<"unbounded">>
Included(v) == <<"included", v>>
Excluded(v) == <<"excluded", v>>
Satisfies(e, x) ==
    CASE bounds[e][1] = "included" -> x = bounds[e][2] \/ Beyond(e, x, bounds[e][2])
      [] bounds[e][1] = "excluded" -> Beyond(e, x, bounds[e][2])
      [] OTHER -> TRUE
Within(x) == Satisfies(Front, x) /\ Satisfies(Back, x)

\* e locks node n, which no commit is in the middle of.
CanLock(n) ==
    /\ holder[n] = NoThread
    /\ view # index => node[writer] # n
Guards(e) == {n \in NodeId : holder[n] = e}
Unlock(e) == [n \in NodeId |-> IF holder[n] = e THEN NoThread ELSE holder[n]]

-----------------------------------------------------------------------------
(* Making an iterator *)

At(e, step) == pc[e] = step
Continue(e, step) == pc' = [pc EXCEPT ![e] = step]

\* Iter::new: index.front(), then index.back()
IterNew(e, first, then) ==
    /\ At(Front, first)
    /\ bounds = [x \in Ends |-> Unbounded]
    /\ \/ /\ Shown # {}
          /\ node' = [node EXCEPT ![e] = view[Nearest(e, Shown)]]
       \/ Shown = {} /\ UNCHANGED node
    /\ Continue(Front, then)
    /\ UNCHANGED <<structure, locks, request, key, ans, iterator>>

IterNewFront == IterNew(Front, "new", "new_back")
IterNewBack == IterNew(Back, "new_back", "rest")

\* Mutant: only what lies before the bound is skipped, an excluded bound is not.
Passed_NotTheBound(e, k) ==
    {x \in content[view[k]] : ~Satisfies(e, x) /\ x # bounds[e][2]}
\* What Range::new skips when an end starts at the node of the entry k: the
\* node's values out of bounds, or else all of the node before.
Passed(e, k) ==
    LET outside == {x \in content[view[k]] : ~Satisfies(e, x)}
        before == {j \in Shown : Beyond(e, k, j)}
    IN CASE outside # {} -> outside
         [] outside = {} /\ before # {} /\ bounds[e] # Unbounded ->
              content[view[Nearest(Other(e), before)]]
         [] OTHER -> {}

StartAt(e, k) ==
    /\ node' = [node EXCEPT ![e] = view[k]]
    /\ last' = [last EXCEPT ![e] = IF Passed(e, k) = {} THEN {}
                                   ELSE {Nearest(Other(e), Passed(e, k))}]

\* index.lower_bound(start), under index_lock.read(); only the caller's own
\* guards keep a mutex here, so that nothing waits for one.
RangeNewFront ==
    /\ At(Front, "new") /\ CanRead
    /\ bounds # [e \in Ends |-> Unbounded]
    /\ readers' = readers \cup {Front}
    /\ LET entries == {k \in Shown : Satisfies(Front, k)}
       IN IF entries = {} THEN UNCHANGED <<node, last>> ELSE StartAt(Front, Min(entries))
    /\ Continue(Front, "range_back")
    /\ UNCHANGED <<structure, writer, holder, request, key, ans,
                   bounds, rest, met, out, nones>>

\* Mutant: the back starts at the last entry below the end, not behind it.
EndEntry_Below ==
    LET below == {k \in Shown : Satisfies(Back, k)}
    IN IF below # {} THEN Max(below) ELSE Min(Shown)
\* index.upper_bound(end), then the entry behind it, or the last, or the first
EndEntry ==
    LET below == {k \in Shown : Satisfies(Back, k)}
        above == Shown \ below
    IN CASE below # {} /\ above # {} -> Min(above)
         [] below # {} /\ above = {} -> Max(Shown)
         [] OTHER -> Min(Shown)

RangeNewBack ==
    /\ At(Front, "range_back")
    /\ IF Shown = {} THEN UNCHANGED <<node, last>> ELSE StartAt(Back, EndEntry)
    /\ Continue(Front, "range_met")
    /\ UNCHANGED <<structure, locks, request, key, ans, bounds, rest, met, out, nones>>

\* A bound that leaves out everything, seen from the farthest node.
LeavesOutAll(e) ==
    /\ Shown # {}
    /\ LET far == content[view[Nearest(Other(e), Shown)]]
       IN far # {} /\ ~Satisfies(e, Nearest(Other(e), far))

RangeNewMet ==
    /\ At(Front, "range_met")
    /\ met' = (last = [e \in Ends |-> {}] /\ \E e \in Ends : LeavesOutAll(e))
    /\ ReleaseRead(Front)
    /\ Continue(Front, "rest")
    /\ UNCHANGED <<structure, request, node, key, ans, bounds, rest, last, out, nones>>

-----------------------------------------------------------------------------
(* next (e = Front) and next_back (e = Back) *)

Resting == \A e \in Ends : pc[e] = "rest"

CallNext(e) ==
    /\ Resting /\ calls[Front] < MaxSteps
    /\ calls' = [calls EXCEPT ![Front] = @ + 1]
    /\ Continue(e, "step")
    /\ UNCHANGED <<structure, locks, op, val, node, key, ans, iterator>>

\* The call answers None, and e lets go of its node if `leave`.
AnswerNone(e, leave) ==
    /\ Continue(e, "rest")
    /\ node' = IF leave THEN [node EXCEPT ![e] = NoNode] ELSE node
    /\ nones' = nones \cup {e}

NextMet(e) ==
    /\ At(e, "step") /\ met
    /\ AnswerNone(e, FALSE)
    /\ UNCHANGED <<structure, locks, request, key, ans,
                   bounds, rest, last, met, out>>

\* The end has a new node: it takes over what the other end has of it; or will
\* lock it; or, when the other end has no node, lock it and start at its edge.
Arrive(e, n) ==
    /\ node' = [node EXCEPT ![e] = n]
    /\ IF n = node[Other(e)]
       THEN /\ holder' = [holder EXCEPT ![n] = IF @ = Other(e) THEN e ELSE @]
            /\ rest' = [rest EXCEPT ![e] = rest[Other(e)], ![Other(e)] = {}]
       ELSE UNCHANGED <<holder, rest>>
    /\ Continue(e, IF node[Other(e)] = NoNode THEN "open_all" ELSE "step")

NextStart(e) ==
    /\ At(e, "step") /\ ~met /\ node[e] = NoNode
    /\ Shown # {}
    /\ Arrive(e, view[Nearest(e, Shown)])
    /\ UNCHANGED <<structure, readers, writer, request, key, ans,
                   bounds, last, met, out, nones>>

NextNothing(e) ==
    /\ At(e, "step") /\ ~met /\ node[e] = NoNode
    /\ Shown = {}
    /\ AnswerNone(e, FALSE)
    /\ UNCHANGED <<structure, locks, request, key, ans,
                   bounds, rest, last, met, out>>

\* Mutant: the other end keeps its guard.
OtherUnlocked_Kept(e) == TRUE
\* From here on the other end has no guard.
OtherUnlocked(e) == Guards(Other(e)) = {}

NextUnlockOther(e) ==
    /\ At(e, "step") /\ ~met /\ node[e] # NoNode
    /\ ~OtherUnlocked(e)
    /\ holder' = Unlock(Other(e))
    /\ rest' = [rest EXCEPT ![Other(e)] = {}]
    /\ UNCHANGED <<structure, readers, writer, request, pc, node, key, ans,
                   bounds, last, met, out, nones>>

Walking(e) == At(e, "step") /\ ~met /\ node[e] # NoNode /\ OtherUnlocked(e)
Value1(e) == Nearest(e, rest[e])

Meets(e, v) == \E w \in last[Other(e)] : ~Beyond(e, w, v)

NextYield(e) ==
    /\ Walking(e) /\ rest[e] # {} /\ ~Meets(e, Value1(e))
    /\ last' = [last EXCEPT ![e] = {Value1(e)}]
    /\ out' = [out EXCEPT ![e] = Append(@, Value1(e))]
    /\ rest' = [rest EXCEPT ![e] = @ \ {Value1(e)}]
    /\ Continue(e, "rest")
    /\ UNCHANGED <<structure, locks, request, node, key, ans, bounds, met, nones>>

NextMeet(e) ==
    /\ Walking(e) /\ rest[e] # {} /\ Meets(e, Value1(e))
    /\ met' = TRUE
    /\ AnswerNone(e, FALSE)
    /\ UNCHANGED <<structure, locks, request, key, ans, bounds, rest, last, out>>

\* The slice iterator is used up: drop the guard, look for the node's entry ...
NextExhausted(e) ==
    /\ Walking(e) /\ rest[e] = {} /\ Guards(e) # {}
    /\ holder' = Unlock(e)
    /\ Continue(e, "find")
    /\ UNCHANGED <<structure, readers, writer, request, node, key, ans, iterator>>

\* ... which ends the iteration when the index has no entry for the node ...
NextLost(e) ==
    /\ At(e, "find")
    /\ \A k \in Shown : view[k] # node[e]
    /\ AnswerNone(e, TRUE)
    /\ UNCHANGED <<structure, locks, request, key, ans,
                   bounds, rest, last, met, out>>

NextFind(e) ==
    /\ At(e, "find")
    /\ \E k \in Shown : view[k] = node[e] /\ key' = [key EXCEPT ![e] = k]
    /\ Continue(e, "move")
    /\ UNCHANGED <<structure, locks, request, node, ans, iterator>>

\* ... and from the entry go on to the next one.
NextMove(e) ==
    /\ At(e, "move")
    /\ LET ahead == {k \in Shown : Beyond(e, k, key[e])}
       IN ahead # {} /\ Arrive(e, view[Nearest(e, ahead)])
    /\ UNCHANGED <<structure, readers, writer, request, key, ans,
                   bounds, last, met, out, nones>>

NextEnd(e) ==
    /\ At(e, "move")
    /\ \A k \in Shown : ~Beyond(e, k, key[e])
    /\ AnswerNone(e, TRUE)
    /\ UNCHANGED <<structure, locks, request, key, ans,
                   bounds, rest, last, met, out>>

LockNode(e, values) ==
    /\ CanLock(node[e])
    /\ holder' = [holder EXCEPT ![node[e]] = e]
    /\ rest' = [rest EXCEPT ![e] = values]
    /\ Continue(e, "step")
    /\ UNCHANGED <<structure, readers, writer, request, node, key, ans,
                   bounds, last, met, out, nones>>

\* Mutant: the values before the one yielded last are not skipped.
ToCome_All(e) == content[node[e]]
\* rank(Excluded(last), ..), nth(rank + 1)
ToCome(e) == {x \in content[node[e]] : \A v \in last[e] : Beyond(e, x, v)}

NextOpen(e) == Walking(e) /\ rest[e] = {} /\ Guards(e) = {} /\ LockNode(e, ToCome(e))
NextOpenAll(e) == At(e, "open_all") /\ LockNode(e, content[node[e]])

\* The caller drops the iterator when it is done with it.
DropIter ==
    /\ Resting /\ calls[Front] = MaxSteps
    /\ \E e \in Ends : Guards(e) # {}
    /\ holder' = [n \in NodeId |-> IF holder[n] \in Ends THEN NoThread ELSE holder[n]]
    /\ UNCHANGED <<structure, readers, writer, request, pc, node, key, ans, iterator>>

-----------------------------------------------------------------------------
IterInit ==
    /\ content = Initial
    /\ index = [v \in Value |->
                  IF \E n \in NodeId : v \in Initial[n] /\ v = Max(Initial[n])
                  THEN CHOOSE n \in NodeId : v \in Initial[n] ELSE NoNode]
    /\ readers = {} /\ writer = NoThread
    /\ holder = [n \in NodeId |-> NoThread]
    /\ pc = [t \in Thread |-> CASE t = Front -> "new" [] t = Back -> "rest" [] OTHER -> "idle"]
    /\ op = [t \in Thread |-> "contains"]
    /\ val = [t \in Thread |-> AnyValue]
    /\ node = [t \in Thread |-> NoNode]
    /\ key = [t \in Thread |-> AnyValue]
    /\ ans = [t \in Thread |-> FALSE]
    /\ calls = [t \in Thread |-> 0]
    /\ view = index
    /\ \E r \in Ranges : bounds = [e \in Ends |-> IF e = Front THEN r[1] ELSE r[2]]
    /\ rest = [e \in Ends |-> {}]
    /\ last = [e \in Ends |-> {}]
    /\ met = FALSE
    /\ out = [e \in Ends |-> <<>>]
    /\ stayed = Members
    /\ old = Members
    /\ nones = {}
    /\ missed = FALSE

IterStep(e) ==
    \/ NextMet(e) \/ NextStart(e) \/ NextNothing(e) \/ NextUnlockOther(e)
    \/ NextYield(e) \/ NextMeet(e) \/ NextExhausted(e)
    \/ NextLost(e) \/ NextFind(e) \/ NextMove(e) \/ NextEnd(e)
    \/ NextOpen(e) \/ NextOpenAll(e)

Make == IterNewFront \/ IterNewBack \/ RangeNewFront \/ RangeNewBack \/ RangeNewMet

\* remove, then insert: a commit that registers a node anew, in between ...
Tear(t) ==
    /\ pc[t] \in {"split", "updmax"} /\ writer = t /\ MutexFree(t)
    /\ OwnsEntry(t) /\ Held(t) # {} /\ (pc[t] = "updmax" => Max(Held(t)) # key[t])
    /\ view = index
    /\ view' = [index EXCEPT ![key[t]] = NoNode]

\* ... and before the second of the two nodes of a split.
TearHigh(t) ==
    /\ pc[t] = "split" /\ writer = t /\ view = [index EXCEPT ![key[t]] = NoNode]
    /\ view # index /\ LowerHalf(Held(t)) # {}
    /\ view' = [view EXCEPT ![Max(LowerHalf(Held(t)))] = node[t]]

\* The caller is at a step that reads the index.
Reading(e) ==
    \/ pc[e] \in {"new", "new_back", "find", "move"}
    \/ pc[e] = "step" /\ node[e] = NoNode

\* The node it goes on from has lost the entry it was found under.
Unregistered(e) ==
    \/ pc[e] = "find" /\ \A k \in Value : index[k] # node[e]
    \/ pc[e] = "move" /\ index[key[e]] # node[e]

CallerNext ==
    /\ Make \/ DropIter \/ \E e \in Ends : CallNext(e) \/ IterStep(e)
    /\ UNCHANGED view
    /\ missed' = (missed \/ \E e \in Ends : Reading(e) /\ (view # index \/ Unregistered(e)))

WorkerNext(t) ==
    /\ Begin(t) \/ Step(t)
    /\ view' = IF index' = index THEN view ELSE index'
    /\ missed' = (missed \/ (pc[t] = "split" /\ pc'[t] = "idle" /\ node[t] = node[Back]))
    /\ UNCHANGED iterator

TearNext(t) == (Tear(t) \/ TearHigh(t)) /\ UNCHANGED <<vars, iterator, missed>>

Finished ==
    /\ \A t \in Worker : pc[t] = "idle" /\ calls[t] = MaxCalls
    /\ Resting /\ calls[Front] = MaxSteps /\ \A e \in Ends : Guards(e) = {}

IterNext ==
    \/ /\ CallerNext \/ \E t \in Worker : WorkerNext(t) \/ TearNext(t)
       /\ stayed' = IF pc[Front] = "new" THEN Members' ELSE stayed \cap Members'
       /\ old' = IF pc[Front] = "new" THEN Members' ELSE old
    \/ Finished /\ UNCHANGED iterVars

IterSpec == IterInit /\ [][IterNext]_iterVars

-----------------------------------------------------------------------------
(* Properties *)

Yields(e) == {out[e][i] : i \in DOMAIN out[e]}

\* next, next_back, `met`: over nodes that split, move and vanish meanwhile, each
\* end yields values strictly onwards, and the ends never cross.
InOrder ==
    nones = {} \/ ~missed =>
    /\ \A e \in Ends : \A i, j \in DOMAIN out[e] : i < j => Beyond(e, out[e][j], out[e][i])
    /\ \A a \in Yields(Front), b \in Yields(Back) : a < b

\* A value that stays in the set, and in the range, is yielded by the time that
\* either end answers None, unless the iterator has met with a commit: it read
\* the index between the remove and the insert of one, its node was no longer
\* registered, or the node that its back had come to was split.
Complete ==
    nones # {} /\ ~missed =>
      \A v \in stayed : Within(v) => v \in Yields(Front) \cup Yields(Back)

\* Range::new: a value that was in the set when the range was made, outside its
\* bounds, is never yielded.  (One that is inserted later may be.)
KeepsToRange ==
    nones = {} \/ ~missed => \A e \in Ends : \A v \in Yields(e) \cap old : Within(v)

\* next and next_back drop the other end's guard before they lock: a caller
\* never holds two mutexes, whatever commits do to the nodes it walks, so that
\* walks in opposite directions do not wait for each other.
HoldsOneNode == Cardinality({n \in NodeId : holder[n] \in Ends}) <= 1
=============================================================================
