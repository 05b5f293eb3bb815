--------------------------- MODULE ConcurrentSet ---------------------------
(***************************************************************************)
(* The concurrent BTreeSet (concurrent/set.rs, concurrent/operation.rs,    *)
(* concurrent/ref.rs): a lock-free skip map from a node's greatest value   *)
(* to the node, a reader-writer lock over the structure of that map, and a *)
(* mutex per node.  One action stands for what a thread does between two   *)
(* points where another thread can change what it will read next.          *)
(*                                                                         *)
(* A thread that takes a node's mutex works on the node and releases the   *)
(* mutex inside one action: everything it touches meanwhile is protected   *)
(* by that mutex, so the section commutes with the steps of the others.    *)
(* Only a Ref handed to the caller keeps a mutex across steps (`holder`).  *)
(***************************************************************************)
EXTENDS NodeContent

CONSTANTS
    Thread,      \* the threads sharing the set
    NodeId,      \* node allocations (Arc<Mutex<Node>>); a bound
    Capacity,    \* node_capacity
    Initial,     \* content of the nodes attached before the threads start
    InsertVals,  \* the values the threads insert,
    RemoveVals,  \* remove,
    ContainsVals,\* ask for with contains,
    GetVals,     \* and ask for with get
    MaxCalls,    \* how many operations a thread calls; a bound
    NoNode,      \* an absent index entry, a thread without a node
    NoThread     \* an unlocked lock

Value == InsertVals \cup RemoveVals \cup ContainsVals \cup GetVals
           \cup UNION {Initial[n] : n \in NodeId}

\* Two sets of values lie apart when one is wholly below the other.
Below(A, B) == \A a \in A : \A b \in B : a < b

ASSUME SizeAssumption == Capacity \in Nat /\ MaxCalls \in Nat

ASSUME NullAssumption == NoNode \notin NodeId /\ NoThread \notin Thread

ASSUME ValueAssumption ==
    /\ InsertVals \subseteq Int /\ RemoveVals \subseteq Int
    /\ ContainsVals \subseteq Int /\ GetVals \subseteq Int
    /\ Value # {}

\* Attached nodes are finite and do not interleave, as the nodes of an earlier
\* set that attach_node brings back.
ASSUME InitialAssumption ==
    /\ Initial \in [NodeId -> SUBSET Int]
    /\ \A n \in NodeId : IsFiniteSet(Initial[n])
    /\ \A m, n \in NodeId :
         m # n => Below(Initial[m], Initial[n]) \/ Below(Initial[n], Initial[m])

VARIABLES
    content,  \* the values of each node
    index,    \* the skip map: value -> the node registered under it
    readers,  \* threads that hold index_lock for reading
    writer,   \* the thread that holds index_lock for writing
    holder,   \* the thread whose Ref holds the mutex of a node
    pc,       \* where each thread is
    op,       \* the operation it runs, or ran last
    val,      \* that operation's argument
    node,     \* the node it has found (target_node_entry.value())
    key,      \* the key it goes by (target_node_entry.key(), old_max)
    ans,      \* insert: newly inserted; remove: removed; lookups: found
    calls     \* how many operations it has called

structure == <<content, index>>
locks == <<readers, writer, holder>>
request == <<op, val, calls>>
vars == <<content, index, readers, writer, holder, pc, op, val, node, key, ans, calls>>

\* "split", "updmax" and "unreach": an Operation is pending, or being
\* committed when the thread is the writer.
Pending == {"split", "updmax", "unreach"}
Ready == {"idle", "put", "rem", "find"}
Location == Ready \cup Pending \cup
            {"put_back", "put_node", "create", "create_node", "rem_node",
             "find_back", "find_front", "find_node", "ref"}
Ops == {"insert", "remove", "contains", "get"}

TypeOK ==
    /\ content \in [NodeId -> SUBSET Value]
    /\ index \in [Value -> NodeId \cup {NoNode}]
    /\ readers \subseteq Thread
    /\ writer \in Thread \cup {NoThread}
    /\ holder \in [NodeId -> Thread \cup {NoThread}]
    /\ pc \in [Thread -> Location]
    /\ op \in [Thread -> Ops]
    /\ val \in [Thread -> Value]
    /\ node \in [Thread -> NodeId \cup {NoNode}]
    /\ key \in [Thread -> Value]
    /\ ans \in [Thread -> BOOLEAN]
    /\ calls \in [Thread -> 0..MaxCalls]

-----------------------------------------------------------------------------
(* The skip map *)

Keys == {k \in Value : index[k] # NoNode}

\* index.lower_bound(Included(v)) finds the entry of k ...
IsLowerBound(k, v) == k \in Keys /\ v <= k /\ \A j \in Keys : v <= j => k <= j
\* ... or nothing.
AllKeysBelow(v) == \A j \in Keys : j < v

\* index.back() and index.front() find the entry of k.
IsLast(k) == k \in Keys /\ \A j \in Keys : j <= k
IsFirst(k) == k \in Keys /\ \A j \in Keys : k <= j

\* The nodes an operation that starts now goes to for v (locate_node).
LeadsTo(v, n) == \E k \in Value :
    /\ index[k] = n
    /\ IsLowerBound(k, v) \/ (AllKeysBelow(v) /\ IsLast(k))

Attached == {n \in NodeId : \E k \in Value : index[k] = n}
\* Allocations no thread and no entry refers to.
Free == {n \in NodeId : n \notin Attached /\ \A t \in Thread : node[t] # n}
Fresh == CHOOSE n \in Free : TRUE

(* The locks *)

CanRead == writer = NoThread
CanWrite == writer = NoThread /\ readers = {}

\* Mutant: the mutex of a node does not keep other threads out.
MutexFree_Ignored(t) == node[t] \in NodeId
MutexFree(t) == node[t] \in NodeId /\ holder[node[t]] = NoThread

\* What is in the node the thread has.
Held(t) == content[node[t]]

-----------------------------------------------------------------------------
(* Calls and answers *)

Call(t, o, v, entry) ==
    /\ pc[t] = "idle" /\ calls[t] < MaxCalls
    /\ pc' = [pc EXCEPT ![t] = entry]
    /\ op' = [op EXCEPT ![t] = o]
    /\ val' = [val EXCEPT ![t] = v]
    /\ key' = [key EXCEPT ![t] = v]
    /\ calls' = [calls EXCEPT ![t] = @ + 1]
    /\ UNCHANGED <<structure, locks, node, ans>>

CallInsert(t) == \E v \in InsertVals : Call(t, "insert", v, "put")
CallRemove(t) == \E v \in RemoveVals : Call(t, "remove", v, "rem")
CallContains(t) == \E v \in ContainsVals : Call(t, "contains", v, "find")
CallGet(t) == \E v \in GetVals : Call(t, "get", v, "find")

\* The thread is at a point of its operation where it has no node.
Restart(t, there) ==
    /\ pc' = [pc EXCEPT ![t] = there]
    /\ node' = [node EXCEPT ![t] = NoNode]
    /\ key' = [key EXCEPT ![t] = val[t]]

\* The operation returns.
Answer(t, a) == Restart(t, "idle") /\ ans' = [ans EXCEPT ![t] = a]

\* Mutant: node and key of the entry are swapped.
Take_Swapped(t, k, there) ==
    /\ pc' = [pc EXCEPT ![t] = there]
    /\ node' = [node EXCEPT ![t] = k]
    /\ key' = [key EXCEPT ![t] = index[k]]

\* The thread has the entry of k.
Take(t, k, there) ==
    /\ pc' = [pc EXCEPT ![t] = there]
    /\ node' = [node EXCEPT ![t] = index[k]]
    /\ key' = [key EXCEPT ![t] = k]

Goto(t, there) == pc' = [pc EXCEPT ![t] = there] /\ UNCHANGED <<node, key>>

\* Mutant: the guard of the read lock is dropped as soon as the entry is found.
AcquireRead_Dropped(t) == CanRead /\ UNCHANGED locks
AcquireRead(t) == CanRead /\ readers' = readers \cup {t} /\ UNCHANGED <<writer, holder>>
ReleaseRead(t) == readers' = readers \ {t} /\ UNCHANGED <<writer, holder>>

\* An Operation is pending: the guards are dropped and the thread is to wait
\* for the write lock.
Defer(t, what, k) ==
    /\ pc' = [pc EXCEPT ![t] = what]
    /\ key' = [key EXCEPT ![t] = k]
    /\ ReleaseRead(t)
    /\ UNCHANGED node

-----------------------------------------------------------------------------
(* insert: put_cdc_checked and put_cdc *)

\* index_lock.read(), index.lower_bound(value)
PutLocate(t) ==
    /\ pc[t] = "put"
    /\ AcquireRead(t)
    /\ \E k \in Value : IsLowerBound(k, val[t]) /\ Take(t, k, "put_node")
    /\ UNCHANGED <<structure, request, ans>>

\* The same, above every key.  The read lock does not stop CreateNode, so
\* that index.back() is a step of its own.
PutAboveKeys(t) ==
    /\ pc[t] = "put"
    /\ AcquireRead(t)
    /\ AllKeysBelow(val[t]) /\ Goto(t, "put_back")
    /\ UNCHANGED <<structure, request, ans>>

PutBack(t) ==
    /\ pc[t] = "put_back"
    /\ \E k \in Value : IsLast(k) /\ Take(t, k, "put_node")
    /\ UNCHANGED <<structure, locks, request, ans>>

\* The index is empty: drop the read lock to create the first node.
PutEmpty(t) ==
    /\ pc[t] = "put_back"
    /\ Keys = {}
    /\ Goto(t, "create") /\ ReleaseRead(t)
    /\ UNCHANGED <<structure, request, ans>>

\* index_lock.try_write().is_ok(): the guard is a temporary of the condition,
\* dropped before the branch is entered.
CreateTry(t) ==
    /\ pc[t] = "create"
    /\ CanWrite
    /\ Goto(t, "create_node")
    /\ UNCHANGED <<structure, locks, request, ans>>

\* try_write fails when the lock is held, be it by another try_write.
CreateContended(t) ==
    /\ pc[t] = "create"
    /\ ~CanWrite \/ \E u \in Thread \ {t} : pc[u] = "create"
    /\ Restart(t, "put")
    /\ UNCHANGED <<structure, locks, request, ans>>

\* index.insert(value, first_node), without a lock.
CreateNode(t) ==
    /\ pc[t] = "create_node"
    /\ Free # {}
    /\ content' = [content EXCEPT ![Fresh] = {val[t]}]
    /\ index' = [index EXCEPT ![val[t]] = Fresh]
    /\ Answer(t, TRUE)
    /\ UNCHANGED <<locks, request>>

\* Mutant: the node is split one value too late.
NeedToSplit_Late(t) == Cardinality(Held(t)) > Capacity
\* NodeLike::need_to_split
NeedToSplit(t) == Cardinality(Held(t)) >= Capacity

\* node_guard = entry.value().lock_arc(), with the read lock still held.
PutFull(t) ==
    /\ pc[t] = "put_node" /\ MutexFree(t)
    /\ NeedToSplit(t)
    /\ Defer(t, "split", key[t])
    /\ UNCHANGED <<structure, request, ans>>

\* The value is there: put_cdc replaces it by an equal one under the node's
\* mutex alone, and insert answers that nothing was inserted.
PutExisting(t) ==
    /\ pc[t] = "put_node" /\ MutexFree(t)
    /\ ~NeedToSplit(t) /\ val[t] \in Held(t)
    /\ Answer(t, FALSE) /\ ReleaseRead(t)
    /\ UNCHANGED <<structure, request>>

Insert(t) ==
    /\ pc[t] = "put_node" /\ MutexFree(t)
    /\ ~NeedToSplit(t) /\ val[t] \notin Held(t)
    /\ content' = [content EXCEPT ![node[t]] = @ \cup {val[t]}]

\* The greatest value of the node stays (or the node had none).
PutInside(t) ==
    /\ Insert(t)
    /\ Held(t) # {} => val[t] < Max(Held(t))
    /\ Answer(t, TRUE) /\ ReleaseRead(t)
    /\ UNCHANGED <<index, request>>

\* A new greatest value: the entry must move from the old one (UpdateMax).
PutNewMax(t) ==
    /\ Insert(t)
    /\ Held(t) # {} /\ Max(Held(t)) < val[t]
    /\ Defer(t, "updmax", Max(Held(t)))
    /\ UNCHANGED <<index, request, ans>>

-----------------------------------------------------------------------------
(* remove: remove_cdc *)

RemoveLocate(t) ==
    /\ pc[t] = "rem"
    /\ AcquireRead(t)
    /\ \E k \in Value : IsLowerBound(k, val[t]) /\ Take(t, k, "rem_node")
    /\ UNCHANGED <<structure, request, ans>>

\* No fallback to the last node here: above every key there is nothing to do.
RemoveAboveKeys(t) ==
    /\ pc[t] = "rem"
    /\ CanRead
    /\ AllKeysBelow(val[t])
    /\ Answer(t, FALSE)
    /\ UNCHANGED <<structure, locks, request>>

RemoveAbsent(t) ==
    /\ pc[t] = "rem_node" /\ MutexFree(t)
    /\ val[t] \notin Held(t)
    /\ Answer(t, FALSE) /\ ReleaseRead(t)
    /\ UNCHANGED <<structure, request>>

Delete(t) ==
    /\ pc[t] = "rem_node" /\ MutexFree(t)
    /\ val[t] \in Held(t)
    /\ content' = [content EXCEPT ![node[t]] = @ \ {val[t]}]

RemoveInside(t) ==
    /\ Delete(t)
    /\ val[t] # Max(Held(t))
    /\ Answer(t, TRUE) /\ ReleaseRead(t)
    /\ UNCHANGED <<index, request>>

\* The greatest value goes and others stay (UpdateMax).
RemoveMax(t) ==
    /\ Delete(t)
    /\ val[t] = Max(Held(t)) /\ Held(t) # {val[t]}
    /\ Defer(t, "updmax", val[t])
    /\ UNCHANGED <<index, request, ans>>

\* The last value goes (MakeUnreachable).
RemoveLast(t) ==
    /\ Delete(t)
    /\ Held(t) = {val[t]}
    /\ Defer(t, "unreach", val[t])
    /\ UNCHANGED <<index, request, ans>>

-----------------------------------------------------------------------------
(* contains and get: locate_node drops the read lock before the mutex is taken *)

FindLocate(t) ==
    /\ pc[t] = "find"
    /\ CanRead
    /\ \E k \in Value : IsLowerBound(k, val[t]) /\ Take(t, k, "find_node")
    /\ UNCHANGED <<structure, locks, request, ans>>

FindAboveKeys(t) ==
    /\ pc[t] = "find"
    /\ AcquireRead(t)
    /\ AllKeysBelow(val[t]) /\ Goto(t, "find_back")
    /\ UNCHANGED <<structure, request, ans>>

FindBack(t) ==
    /\ pc[t] = "find_back"
    /\ \E k \in Value : IsLast(k) /\ Take(t, k, "find_node")
    /\ ReleaseRead(t)
    /\ UNCHANGED <<structure, request, ans>>

FindNoBack(t) ==
    /\ pc[t] = "find_back"
    /\ Keys = {}
    /\ Goto(t, "find_front")
    /\ UNCHANGED <<structure, locks, request, ans>>

FindFront(t) ==
    /\ pc[t] = "find_front"
    /\ \E k \in Value : IsFirst(k) /\ Take(t, k, "find_node")
    /\ ReleaseRead(t)
    /\ UNCHANGED <<structure, request, ans>>

FindNothing(t) ==
    /\ pc[t] = "find_front"
    /\ Keys = {}
    /\ Answer(t, FALSE) /\ ReleaseRead(t)
    /\ UNCHANGED <<structure, request>>

\* Mutant: the key of a node is taken for a value in it.
FindAnswer_ByKey(t) ==
    /\ pc[t] = "find_node" /\ MutexFree(t)
    /\ op[t] = "contains" \/ val[t] \notin Held(t)
    /\ Answer(t, val[t] \in Held(t) \/ val[t] = key[t])
    /\ UNCHANGED <<structure, locks, request>>

\* node.lock().contains(value); try_select(value) when it fails
FindAnswer(t) ==
    /\ pc[t] = "find_node" /\ MutexFree(t)
    /\ op[t] = "contains" \/ val[t] \notin Held(t)
    /\ Answer(t, val[t] \in Held(t))
    /\ UNCHANGED <<structure, locks, request>>

\* get hands the guard to the caller in a Ref ...
GetRef(t) ==
    /\ pc[t] = "find_node" /\ MutexFree(t)
    /\ op[t] = "get" /\ val[t] \in Held(t)
    /\ holder' = [holder EXCEPT ![node[t]] = t]
    /\ ans' = [ans EXCEPT ![t] = TRUE]
    /\ Goto(t, "ref")
    /\ UNCHANGED <<structure, readers, writer, request>>

\* ... which the caller drops.
DropRef(t) ==
    /\ pc[t] = "ref"
    /\ holder' = [holder EXCEPT ![node[t]] = NoThread]
    /\ Restart(t, "idle")
    /\ UNCHANGED <<structure, readers, writer, request, ans>>

-----------------------------------------------------------------------------
(* Operation::commit, under the write lock and the node's mutex.  The index  *)
(* calls of a commit are one step: only a creator of a first node writes the *)
(* index without the lock, under one key, and what it does between the calls *)
(* it could have done before or after all of them, but for CreateSwept.      *)

AcquireWrite(t) ==
    /\ pc[t] \in Pending
    /\ CanWrite
    /\ writer' = t
    /\ UNCHANGED <<structure, readers, holder, pc, node, key, request, ans>>

ReleaseWrite == writer' = NoThread /\ UNCHANGED <<readers, holder>>

Commit(t, what) == pc[t] = what /\ writer = t /\ MutexFree(t)

\* Mutant: commit takes any node under the key for its own (no Arc::ptr_eq).
OwnsEntry_AnyNode(t) == index[key[t]] # NoNode
\* Mutant: commit looks under the operation's value instead of the old key.
OwnsEntry_ByValue(t) == index[val[t]] = node[t]
\* index.get(&old_max) still finds this node.
OwnsEntry(t) == index[key[t]] = node[t]

\* Mutant: a split that finds its entry moved gives up instead of trying again.
SplitStale_GivesUp(t) ==
    /\ Commit(t, "split")
    /\ ~OwnsEntry(t)
    /\ Answer(t, TRUE) /\ ReleaseWrite
    /\ UNCHANGED <<structure, request>>

\* Somebody moved the entry: look for the node again.
SplitStale(t) ==
    /\ Commit(t, "split")
    /\ ~OwnsEntry(t)
    /\ Restart(t, "put") /\ ReleaseWrite
    /\ UNCHANGED <<structure, request, ans>>

\* The node has been emptied meanwhile: its entry goes, neither half has a
\* greatest value, and nothing is inserted.  (With the cdc feature the thread
\* panics here, on "node should be non empty if split".)
SplitEmpty(t) ==
    /\ Commit(t, "split")
    /\ OwnsEntry(t) /\ Held(t) = {}
    /\ index' = [index EXCEPT ![key[t]] = NoNode]
    /\ Answer(t, TRUE) /\ ReleaseWrite
    /\ UNCHANGED <<content, request>>

\* Mutant: a value equal to the greatest of the lower half goes up.
GoesLow_Strict(t) ==
    LowerHalf(Held(t)) # {} /\ val[t] < Max(LowerHalf(Held(t)))
\* The value belongs to the half that stays.
GoesLow(t) == LowerHalf(Held(t)) # {} /\ val[t] <= Max(LowerHalf(Held(t)))

Split(t, low, high) ==
    /\ Commit(t, "split")
    /\ OwnsEntry(t) /\ Held(t) # {}
    /\ Free # {}
    /\ content' = [content EXCEPT ![node[t]] = low, ![Fresh] = high]
    /\ Answer(t, val[t] \notin Held(t)) /\ ReleaseWrite
    /\ UNCHANGED request

SplitLow(t) ==
    /\ Split(t, LowerHalf(Held(t)) \cup {val[t]}, UpperHalf(Held(t)))
    /\ GoesLow(t)
    /\ index' = [index EXCEPT ![key[t]] = NoNode,
                              ![Max(LowerHalf(Held(t)))] = node[t],
                              ![Max(UpperHalf(Held(t)))] = Fresh]

SplitHigh(t) ==
    /\ Split(t, LowerHalf(Held(t)), UpperHalf(Held(t)) \cup {val[t]})
    /\ ~GoesLow(t) /\ LowerHalf(Held(t)) # {}
    /\ index' = [index EXCEPT ![key[t]] = NoNode,
                              ![Max(LowerHalf(Held(t)))] = node[t],
                              ![Max(UpperHalf(Held(t)) \cup {val[t]})] = Fresh]

\* A node of one value: its lower half is empty and is not registered again.
SplitSingle(t) ==
    /\ Split(t, {}, UpperHalf(Held(t)) \cup {val[t]})
    /\ LowerHalf(Held(t)) = {}
    /\ index' = [index EXCEPT ![key[t]] = NoNode,
                              ![Max(UpperHalf(Held(t)) \cup {val[t]})] = Fresh]

\* The entry moves to the node's greatest value, whatever that is by now.
MoveEntry(t) ==
    /\ Commit(t, "updmax")
    /\ Held(t) # {} /\ OwnsEntry(t)
    /\ index' = [index EXCEPT ![key[t]] = NoNode, ![Max(Held(t))] = node[t]]
    /\ Answer(t, TRUE) /\ ReleaseWrite
    /\ UNCHANGED <<content, request>>

\* Nothing to move, or no longer this thread's to move: the operation has
\* taken effect and answers all the same.
MoveNothing(t) ==
    /\ Commit(t, "updmax")
    /\ Held(t) = {} \/ ~OwnsEntry(t)
    /\ Answer(t, TRUE) /\ ReleaseWrite
    /\ UNCHANGED <<structure, request>>

\* Mutant: an emptied node is dropped without another look at it.
Shrunk_Unchecked(t) == TRUE
\* new_max.cmp(&Some(&old_max)) is Less (None is less than everything).
Shrunk(t) == Held(t) # {} => Max(Held(t)) < key[t]

DropEntry(t) ==
    /\ Commit(t, "unreach")
    /\ OwnsEntry(t) /\ Shrunk(t)
    /\ index' = [index EXCEPT ![key[t]] = NoNode]
    /\ Answer(t, TRUE) /\ ReleaseWrite
    /\ UNCHANGED <<content, request>>

KeepEntry(t) ==
    /\ Commit(t, "unreach")
    /\ ~(OwnsEntry(t) /\ Shrunk(t))
    /\ Answer(t, TRUE) /\ ReleaseWrite
    /\ UNCHANGED <<structure, request>>

\* The keys that the halves of a split get.
HalfKeys(t) == {Max(S) : S \in {LowerHalf(Held(t)), Held(t) \cup {val[t]}} \ {{}}}

\* The commit has found its entry, and goes on to take out, or to write over,
\* whatever is under that key by then.
Sweeps(t) ==
    /\ pc[t] \in Pending /\ Commit(t, pc[t]) /\ OwnsEntry(t)
    /\ \/ pc[t] = "split" /\ Held(t) # {} /\ key[t] \in HalfKeys(t)
       \/ pc[t] = "updmax" /\ Held(t) # {} /\ Max(Held(t)) # key[t]
       \/ pc[t] = "unreach" /\ Shrunk(t)

\* The first node goes into the index between the index.get of a commit and its
\* index.remove, or index.insert, under the same key, and is gone with them.
CreateSwept(t) ==
    /\ pc[t] = "create_node"
    /\ \E u \in Thread : Sweeps(u) /\ key[u] = val[t]
    /\ Answer(t, TRUE)
    /\ UNCHANGED <<structure, locks, request>>

-----------------------------------------------------------------------------
AnyValue == CHOOSE v \in Value : TRUE

Init ==
    /\ content = Initial
    /\ index = [v \in Value |->
                  IF \E n \in NodeId : v \in Initial[n] /\ v = Max(Initial[n])
                  THEN CHOOSE n \in NodeId : v \in Initial[n] ELSE NoNode]
    /\ readers = {} /\ writer = NoThread
    /\ holder = [n \in NodeId |-> NoThread]
    /\ pc = [t \in Thread |-> "idle"]
    /\ op = [t \in Thread |-> "contains"]
    /\ val = [t \in Thread |-> AnyValue]
    /\ node = [t \in Thread |-> NoNode]
    /\ key = [t \in Thread |-> AnyValue]
    /\ ans = [t \in Thread |-> FALSE]
    /\ calls = [t \in Thread |-> 0]

Begin(t) == CallInsert(t) \/ CallRemove(t) \/ CallContains(t) \/ CallGet(t)

PutStep(t) ==
    \/ PutLocate(t) \/ PutAboveKeys(t) \/ PutBack(t) \/ PutEmpty(t)
    \/ CreateTry(t) \/ CreateContended(t) \/ CreateNode(t) \/ CreateSwept(t)
    \/ PutFull(t) \/ PutExisting(t) \/ PutInside(t) \/ PutNewMax(t)

RemoveStep(t) ==
    \/ RemoveLocate(t) \/ RemoveAboveKeys(t) \/ RemoveAbsent(t)
    \/ RemoveInside(t) \/ RemoveMax(t) \/ RemoveLast(t)

FindStep(t) ==
    \/ FindLocate(t) \/ FindAboveKeys(t) \/ FindBack(t) \/ FindNoBack(t)
    \/ FindFront(t) \/ FindNothing(t) \/ FindAnswer(t) \/ GetRef(t) \/ DropRef(t)

CommitStep(t) ==
    \/ AcquireWrite(t)
    \/ SplitStale(t) \/ SplitEmpty(t)
    \/ SplitLow(t) \/ SplitHigh(t) \/ SplitSingle(t)
    \/ MoveEntry(t) \/ MoveNothing(t) \/ DropEntry(t) \/ KeepEntry(t)

Step(t) == PutStep(t) \/ RemoveStep(t) \/ FindStep(t) \/ CommitStep(t)

AllDone == \A t \in Thread : pc[t] = "idle" /\ calls[t] = MaxCalls

\* The last disjunct lets a run end without counting as a deadlock.
Next ==
    \/ \E t \in Thread : Begin(t) \/ Step(t)
    \/ AllDone /\ UNCHANGED vars

Spec == Init /\ [][Next]_vars

\* A thread inside an operation is scheduled until it returns; the caller of
\* get drops its Ref.  Nobody is obliged to call.
FairSpec == Spec /\ \A t \in Thread : WF_vars(Step(t))

-----------------------------------------------------------------------------
(* Properties *)

Members == UNION {content[n] : n \in Attached}

\* The operation has been called and has not taken effect yet.
Open == {t \in Thread : pc[t] \notin {"idle", "updmax", "unreach", "ref"}}

\* Whatever the interleaving of commits that found their entry moved, no node
\* is ever registered under two keys.
OneKeyPerNode == \A j, k \in Keys : index[j] = index[k] => j = k

\* put_cdc_checked, need_to_split: no node outgrows the capacity, or an
\* attached node, but for the two values that a split of one leaves.
NodeBounded == \A n \in NodeId :
    \/ Cardinality(content[n]) <= 2
    \/ Cardinality(content[n]) <= Capacity
    \/ \E m \in NodeId : Cardinality(content[n]) <= Cardinality(Initial[m])

\* Every value in the set is in the node that lookups are led to for it.
Reachable == \A n \in Attached : \A v \in content[n] : LeadsTo(v, n)

\* Once no entry of the node is still to be moved, the key of a node is its
\* greatest value.
KeysSettle == \A k \in Keys :
    \/ content[index[k]] = {}
    \/ Max(content[index[k]]) = k
    \/ \E t \in Thread : node[t] = index[k] /\ pc[t] \in {"updmax", "unreach"}

\* The value behind a Ref stays where get found it, until the Ref is dropped.
RefStable == \A t \in Thread : pc[t] = "ref" => val[t] \in content[node[t]]

\* put_cdc_checked and remove_cdc keep the read lock from the lookup of an entry
\* to the change of its node: the node they change is still registered under the
\* key they found.  Only a creator of a first node, who takes no lock, can have
\* put its node in the place of that one, which is then registered nowhere.
EntryStays == \A t \in Thread : pc[t] \in {"put_node", "rem_node"} =>
    key[t] \in Keys /\ (index[key[t]] = node[t] \/ node[t] \notin Attached)

\* Over an empty index, the try_write of a first creator fails because of the
\* lock that a second one holds, and the first then looks at the index again.
CreatorsClash == Keys = {} /\ \E t, u \in Thread :
    t # u /\ pc[t] = "create" /\ pc[u] \in {"put_back", "create"}

\* put_cdc_checked, `continue`: every operation returns, whatever it has to do
\* again, unless creators of a first node get into each other's way for ever.
OperationsReturn ==
    \/ []<>CreatorsClash
    \/ \A t \in Thread : pc[t] # "idle" ~> pc[t] = "idle"

-----------------------------------------------------------------------------
(* What the repository says and the code does not keep to *)

Quiet == \A t \in Thread : pc[t] = "idle"

\* A lookup that starts now finds v.
Found(v) == \E n \in NodeId : LeadsTo(v, n) /\ v \in content[n]

\* set.rs, test_concurrent_insert, `assert!(set.contains(value))`: when all
\* threads are done, a value attached or inserted, and that nobody removes, is
\* found.
InsertedIsFound == Quiet =>
    /\ \A n \in NodeId : \A v \in Initial[n] \ RemoveVals : Found(v)
    /\ \A t \in Thread : op[t] = "insert" /\ val[t] \notin RemoveVals => Found(val[t])
=============================================================================
