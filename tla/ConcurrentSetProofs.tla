------------------------- MODULE ConcurrentSetProofs ------------------------
(***************************************************************************)
(* Theorems about ConcurrentSet, for every set of threads and nodes, every *)
(* capacity and every set of integers.                                     *)
(***************************************************************************)
EXTENDS ConcurrentSetHistory, NodeProofs

\* TypeOK is not inductive alone: that old_max is a value (PutNewMax) needs the
\* greatest value of a node to exist, so the contents are finite.
ContentFinite == \A n \in NodeId : IsFiniteSet(content[n])

TypeInv == TypeOK /\ ContentFinite

-----------------------------------------------------------------------------
(* Facts about the model's operators *)

\* A value attached, inserted, removed or looked up is an integer.
LEMMA ValueIsInt == Value \subseteq Int
  BY ValueAssumption, InitialAssumption DEF Value

\* A new node is an allocation that nobody refers to.
LEMMA FreshIsFree ==
    ASSUME Free # {}
    PROVE  /\ Fresh \in NodeId /\ Fresh \notin Attached
           /\ \A t \in Thread : node[t] # Fresh
  BY DEF Fresh, Free

\* A thread that may lock its node has one, and no Ref holds it.
LEMMA MutexFreeMeans ==
    ASSUME NEW t \in Thread, MutexFree(t)
    PROVE  node[t] \in NodeId /\ holder[node[t]] = NoThread
  BY DEF MutexFree

\* The halves of a node are among its values.
LEMMA HalvesWithin ==
    ASSUME NEW S
    PROVE  LowerHalf(S) \subseteq S /\ UpperHalf(S) \subseteq S
  BY DEF LowerHalf, UpperHalf

-----------------------------------------------------------------------------
(* Types *)

LEMMA TypeInit == Init => TypeInv
<1> SUFFICES ASSUME Init PROVE TypeInv
  OBVIOUS
<1>1. AnyValue \in Value
  BY ValueAssumption DEF AnyValue
<1>2. content \in [NodeId -> SUBSET Value]
  BY InitialAssumption DEF Init, Value
<1>3. index \in [Value -> NodeId \cup {NoNode}]
  BY DEF Init
<1>4. 0 \in 0..MaxCalls
  BY SizeAssumption
<1>5. ContentFinite
  BY InitialAssumption DEF Init, ContentFinite
<1> QED
  BY <1>1, <1>2, <1>3, <1>4, <1>5
     DEF Init, TypeInv, TypeOK, Location, Ready, Pending, Ops

LEMMA TypeBegin ==
    ASSUME TypeInv, NEW t \in Thread, Begin(t)
    PROVE  TypeInv'
<1>1. calls[t] < MaxCalls => calls[t] + 1 \in 0..MaxCalls
  BY SizeAssumption DEF TypeInv, TypeOK
<1>2. PICK o \in Ops, v \in Value, entry \in Location : Call(t, o, v, entry)
  BY DEF Begin, CallInsert, CallRemove, CallContains, CallGet, Value, Ops,
         Location, Ready
<1> QED
  BY <1>1, <1>2 DEF Call, structure, locks, TypeInv, TypeOK, ContentFinite

LEMMA TypePut ==
    ASSUME TypeInv, NEW t \in Thread, PutStep(t)
    PROVE  TypeInv'
<1> USE DEF TypeInv, TypeOK, ContentFinite, Location, Ready, Pending,
            structure, locks, request
<1>1. CASE PutLocate(t)
  BY <1>1 DEF PutLocate, AcquireRead, IsLowerBound, Keys, Take
<1>2. CASE PutAboveKeys(t)
  BY <1>2 DEF PutAboveKeys, AcquireRead, Goto
<1>3. CASE PutBack(t)
  BY <1>3 DEF PutBack, IsLast, Keys, Take
<1>4. CASE PutEmpty(t)
  BY <1>4 DEF PutEmpty, ReleaseRead, Goto
<1>5. CASE CreateTry(t)
  BY <1>5 DEF CreateTry, Goto
<1>6. CASE CreateContended(t)
  BY <1>6 DEF CreateContended, Restart
<1>7. CASE CreateNode(t)
  <2>1. IsFiniteSet({val[t]})
    BY FS_Singleton
  <2>2. content' = [content EXCEPT ![Fresh] = {val[t]}] /\ Fresh \in NodeId
    BY <1>7, FreshIsFree DEF CreateNode
  <2> QED
    BY <1>7, <2>1, <2>2 DEF CreateNode, Answer, Restart
<1>8. CASE PutFull(t)
  BY <1>8 DEF PutFull, Defer, ReleaseRead
<1>9. CASE PutExisting(t)
  BY <1>9 DEF PutExisting, Answer, Restart, ReleaseRead
<1>10. CASE PutInside(t)
  <2>1. node[t] \in NodeId
    BY <1>10, MutexFreeMeans DEF PutInside, Insert
  <2>2. IsFiniteSet(content[node[t]] \cup {val[t]})
    BY <2>1, FS_AddElement
  <2> QED
    BY <1>10, <2>1, <2>2 DEF PutInside, Insert, Answer, Restart, ReleaseRead
<1>11. CASE PutNewMax(t)
  <2>1. node[t] \in NodeId
    BY <1>11, MutexFreeMeans DEF PutNewMax, Insert
  <2>2. IsFiniteSet(content[node[t]] \cup {val[t]})
    BY <2>1, FS_AddElement
  <2>3. Max(Held(t)) \in Value
    BY <1>11, <2>1, MaxIsGreatest, ValueIsInt DEF PutNewMax, Held
  <2> QED
    BY <1>11, <2>1, <2>2, <2>3 DEF PutNewMax, Insert, Defer, ReleaseRead
<1>12. CASE CreateSwept(t)
  BY <1>12 DEF CreateSwept, Answer, Restart
<1> QED
  BY <1>1, <1>2, <1>3, <1>4, <1>5, <1>6, <1>7, <1>8, <1>9, <1>10, <1>11, <1>12 DEF PutStep

LEMMA TypeRemove ==
    ASSUME TypeInv, NEW t \in Thread, RemoveStep(t)
    PROVE  TypeInv'
<1> USE DEF TypeInv, TypeOK, ContentFinite, Location, Ready, Pending,
            structure, locks, request
<1>1. CASE RemoveLocate(t)
  BY <1>1 DEF RemoveLocate, AcquireRead, IsLowerBound, Keys, Take
<1>2. CASE RemoveAboveKeys(t)
  BY <1>2 DEF RemoveAboveKeys, Answer, Restart
<1>3. CASE RemoveAbsent(t)
  BY <1>3 DEF RemoveAbsent, Answer, Restart, ReleaseRead
<1>4. CASE Delete(t)
  <2>1. node[t] \in NodeId
    BY <1>4, MutexFreeMeans DEF Delete
  <2>2. IsFiniteSet(content[node[t]] \ {val[t]})
    BY <2>1, FS_RemoveElement
  <2>3. content' \in [NodeId -> SUBSET Value] /\ ContentFinite'
    BY <1>4, <2>1, <2>2 DEF Delete
  <2>4. CASE RemoveInside(t)
    BY <2>3, <2>4 DEF RemoveInside, Answer, Restart, ReleaseRead
  <2>5. CASE RemoveMax(t)
    BY <2>3, <2>5 DEF RemoveMax, Defer, ReleaseRead
  <2>6. CASE RemoveLast(t)
    BY <2>3, <2>6 DEF RemoveLast, Defer, ReleaseRead
  <2> QED
    BY <1>1, <1>2, <1>3, <2>4, <2>5, <2>6 DEF RemoveStep
<1> QED
  BY <1>1, <1>2, <1>3, <1>4 DEF RemoveStep, RemoveInside, RemoveMax, RemoveLast

LEMMA TypeFind ==
    ASSUME TypeInv, NEW t \in Thread, FindStep(t)
    PROVE  TypeInv'
<1> USE DEF TypeInv, TypeOK, ContentFinite, Location, Ready, Pending,
            structure, locks, request
<1>1. CASE FindLocate(t)
  BY <1>1 DEF FindLocate, IsLowerBound, Keys, Take
<1>2. CASE FindAboveKeys(t)
  BY <1>2 DEF FindAboveKeys, AcquireRead, Goto
<1>3. CASE FindBack(t)
  BY <1>3 DEF FindBack, ReleaseRead, IsLast, Keys, Take
<1>4. CASE FindNoBack(t)
  BY <1>4 DEF FindNoBack, Goto
<1>5. CASE FindFront(t)
  BY <1>5 DEF FindFront, ReleaseRead, IsFirst, Keys, Take
<1>6. CASE FindNothing(t)
  BY <1>6 DEF FindNothing, Answer, Restart, ReleaseRead
<1>7. CASE FindAnswer(t)
  BY <1>7 DEF FindAnswer, Answer, Restart
<1>8. CASE GetRef(t)
  BY <1>8, MutexFreeMeans DEF GetRef, Goto
<1>9. CASE DropRef(t)
  BY <1>9 DEF DropRef, Restart
<1> QED
  BY <1>1, <1>2, <1>3, <1>4, <1>5, <1>6, <1>7, <1>8, <1>9 DEF FindStep

\* Both parts a split leaves are finite sets of values.
LEMMA SplitKeepsTypes ==
    ASSUME TypeInv, NEW t \in Thread, NEW low, NEW high,
           Split(t, low, high),
           low \subseteq Held(t) \cup {val[t]}, high \subseteq Held(t) \cup {val[t]}
    PROVE  /\ node[t] \in NodeId /\ Fresh \in NodeId
           /\ content' \in [NodeId -> SUBSET Value] /\ ContentFinite'
<1>1. node[t] \in NodeId /\ Fresh \in NodeId
  BY MutexFreeMeans, FreshIsFree DEF Split, Commit
<1>2. IsFiniteSet(Held(t)) /\ Held(t) \cup {val[t]} \subseteq Value
  BY <1>1 DEF TypeInv, TypeOK, ContentFinite, Held
<1>3. IsFiniteSet(Held(t) \cup {val[t]})
  BY <1>2, FS_AddElement
<1>4. IsFiniteSet(low) /\ IsFiniteSet(high)
  BY <1>3, FS_Subset
<1> QED
  BY <1>1, <1>2, <1>4 DEF Split, TypeInv, TypeOK, ContentFinite

LEMMA TypeCommit ==
    ASSUME TypeInv, NEW t \in Thread, CommitStep(t)
    PROVE  TypeInv'
<1> USE DEF TypeInv, TypeOK, ContentFinite, Location, Ready, Pending,
            structure, locks, request
<1>1. CASE AcquireWrite(t)
  BY <1>1 DEF AcquireWrite
<1>2. CASE SplitStale(t)
  BY <1>2 DEF SplitStale, Restart, ReleaseWrite
<1>3. CASE SplitEmpty(t)
  BY <1>3 DEF SplitEmpty, Answer, Restart, ReleaseWrite
<1>4. CASE SplitLow(t)
  <2>1. /\ node[t] \in NodeId /\ Fresh \in NodeId
        /\ content' \in [NodeId -> SUBSET Value] /\ ContentFinite'
    BY <1>4, SplitKeepsTypes, HalvesWithin DEF SplitLow
  <2> QED
    BY <1>4, <2>1 DEF SplitLow, Split, Answer, Restart, ReleaseWrite
<1>5. CASE SplitHigh(t)
  <2>1. /\ node[t] \in NodeId /\ Fresh \in NodeId
        /\ content' \in [NodeId -> SUBSET Value] /\ ContentFinite'
    BY <1>5, SplitKeepsTypes, HalvesWithin DEF SplitHigh
  <2> QED
    BY <1>5, <2>1 DEF SplitHigh, Split, Answer, Restart, ReleaseWrite
<1>6. CASE SplitSingle(t)
  <2>1. /\ node[t] \in NodeId /\ Fresh \in NodeId
        /\ content' \in [NodeId -> SUBSET Value] /\ ContentFinite'
    BY <1>6, SplitKeepsTypes, HalvesWithin DEF SplitSingle
  <2> QED
    BY <1>6, <2>1 DEF SplitSingle, Split, Answer, Restart, ReleaseWrite
<1>7. CASE MoveEntry(t)
  BY <1>7, MutexFreeMeans DEF MoveEntry, Commit, Answer, Restart, ReleaseWrite
<1>8. CASE MoveNothing(t)
  BY <1>8 DEF MoveNothing, Answer, Restart, ReleaseWrite
<1>9. CASE DropEntry(t)
  BY <1>9 DEF DropEntry, Answer, Restart, ReleaseWrite
<1>10. CASE KeepEntry(t)
  BY <1>10 DEF KeepEntry, Answer, Restart, ReleaseWrite
<1> QED
  BY <1>1, <1>2, <1>3, <1>4, <1>5, <1>6, <1>7, <1>8, <1>9, <1>10 DEF CommitStep

\* Types: every variable keeps its type, and contents stay finite, through
\* every step of every operation and commit.
THEOREM TypesKept == Spec => []TypeInv
<1>1. Init => TypeInv
  BY TypeInit
<1>2. TypeInv /\ [Next]_vars => TypeInv'
  <2> SUFFICES ASSUME TypeInv, [Next]_vars PROVE TypeInv'
    OBVIOUS
  <2>1. CASE UNCHANGED vars
    BY <2>1 DEF vars, TypeInv, TypeOK, ContentFinite
  <2>2. ASSUME NEW t \in Thread, Begin(t) PROVE TypeInv'
    BY <2>2, TypeBegin
  <2>3. ASSUME NEW t \in Thread, Step(t) PROVE TypeInv'
    BY <2>3, TypePut, TypeRemove, TypeFind, TypeCommit DEF Step
  <2> QED
    BY <2>1, <2>2, <2>3 DEF Next
<1> QED
  BY <1>1, <1>2, PTL DEF Spec

\* TypeOK: the invariant that run `unrestricted` checks, for every instance.
THEOREM TypeCorrect == Spec => []TypeOK
<1>1. TypeInv => TypeOK
  BY DEF TypeInv
<1> QED
  BY <1>1, TypesKept, PTL

-----------------------------------------------------------------------------
(* One key per node *)

\* Of the steps only these change the index; the others keep what is said of it.
IndexStep(t) ==
    \/ CreateNode(t) \/ SplitEmpty(t) \/ SplitLow(t) \/ SplitHigh(t)
    \/ SplitSingle(t) \/ MoveEntry(t) \/ DropEntry(t)

LEMMA OthersKeepIndex ==
    ASSUME NEW t \in Thread, Begin(t) \/ Step(t), ~IndexStep(t)
    PROVE  UNCHANGED index
<1> USE DEF structure, IndexStep
<1>1. CASE Begin(t)
  BY <1>1 DEF Begin, CallInsert, CallRemove, CallContains, CallGet, Call
<1>2. CASE PutStep(t)
  BY <1>2 DEF PutStep, PutLocate, PutAboveKeys, PutBack, PutEmpty, CreateTry,
     CreateContended, CreateSwept, PutFull, PutExisting, PutInside, PutNewMax
<1>3. CASE RemoveStep(t)
  BY <1>3 DEF RemoveStep, RemoveLocate, RemoveAboveKeys, RemoveAbsent,
     RemoveInside, RemoveMax, RemoveLast
<1>4. CASE FindStep(t)
  BY <1>4 DEF FindStep, FindLocate, FindAboveKeys, FindBack, FindNoBack,
     FindFront, FindNothing, FindAnswer, GetRef, DropRef
<1>5. CASE CommitStep(t)
  BY <1>5 DEF CommitStep, AcquireWrite, SplitStale, MoveNothing, KeepEntry
<1> QED
  BY <1>1, <1>2, <1>3, <1>4, <1>5 DEF Step

\* Attached nodes do not interleave, so a value is in one of them at most, and
\* the entries of the initial index are of greatest values.
LEMMA InitialEntries ==
    ASSUME Init, NEW v \in Keys
    PROVE  /\ index[v] \in NodeId
           /\ v \in content[index[v]] /\ v = Max(content[index[v]])
<1> DEFINE Has(n) == v \in Initial[n] /\ v = Max(Initial[n])
<1>1. PICK n \in NodeId : Has(n)
  BY DEF Init, Keys
<1>2. index[v] = CHOOSE m \in NodeId : v \in Initial[m]
  BY <1>1 DEF Init, Keys
<1>3. index[v] \in NodeId /\ v \in Initial[index[v]]
  BY <1>1, <1>2
<1>4. index[v] = n
  <2>1. SUFFICES ASSUME index[v] # n PROVE FALSE
    OBVIOUS
  <2>2. Below(Initial[index[v]], Initial[n]) \/ Below(Initial[n], Initial[index[v]])
    BY <2>1, <1>3, InitialAssumption
  <2>3. v < v
    BY <1>1, <1>3, <2>2 DEF Below
  <2> QED
    BY <2>3, <1>3, InitialAssumption
<1> QED
  BY <1>1, <1>3, <1>4 DEF Init

LEMMA OneKeyInit == Init => OneKeyPerNode
  BY InitialEntries DEF OneKeyPerNode

LEMMA OneKeyIndexStep ==
    ASSUME TypeInv, OneKeyPerNode, NEW t \in Thread, IndexStep(t)
    PROVE  OneKeyPerNode'
<1> USE DEF TypeInv, TypeOK, OneKeyPerNode, Keys, Attached
<1>1. CASE CreateNode(t)
  BY <1>1, FreshIsFree DEF CreateNode
<1>2. CASE SplitEmpty(t)
  BY <1>2 DEF SplitEmpty
<1>3. CASE SplitLow(t)
  BY <1>3, FreshIsFree, MutexFreeMeans DEF SplitLow, Split, Commit, OwnsEntry
<1>4. CASE SplitHigh(t)
  BY <1>4, FreshIsFree, MutexFreeMeans DEF SplitHigh, Split, Commit, OwnsEntry
<1>5. CASE SplitSingle(t)
  BY <1>5, FreshIsFree, MutexFreeMeans DEF SplitSingle, Split, Commit, OwnsEntry
<1>6. CASE MoveEntry(t)
  BY <1>6, MutexFreeMeans DEF MoveEntry, Commit, OwnsEntry
<1>7. CASE DropEntry(t)
  BY <1>7 DEF DropEntry
<1> QED
  BY <1>1, <1>2, <1>3, <1>4, <1>5, <1>6, <1>7 DEF IndexStep

\* OneKeyPerNode: the Arc::ptr_eq of commit and the fresh nodes of splits and
\* first nodes are enough, in every interleaving of stale commits and with
\* creators that hold no lock, for no node to be registered under two keys.
THEOREM NodesHaveOneKey == Spec => []OneKeyPerNode
<1>1. Init => OneKeyPerNode
  BY OneKeyInit
<1>2. TypeInv /\ OneKeyPerNode /\ [Next]_vars => OneKeyPerNode'
  <2> SUFFICES ASSUME TypeInv, OneKeyPerNode, [Next]_vars
               PROVE  OneKeyPerNode'
    OBVIOUS
  <2>1. CASE UNCHANGED index
    BY <2>1 DEF OneKeyPerNode, Keys
  <2>2. ASSUME NEW t \in Thread, IndexStep(t) PROVE OneKeyPerNode'
    BY <2>2, OneKeyIndexStep
  <2> QED
    BY <2>1, <2>2, OthersKeepIndex DEF Next, vars
<1> QED
  BY <1>1, <1>2, TypesKept, PTL DEF Spec

\* The steps that can disturb a node, its entry or a pending UpdateMax.
NodeStep(t) ==
    \/ IndexStep(t) \/ MoveNothing(t) \/ PutInside(t) \/ PutNewMax(t) \/ RemoveStep(t)

LEMMA OthersKeepNodes ==
    ASSUME TypeInv, NEW t \in Thread, Begin(t) \/ Step(t), ~NodeStep(t)
    PROVE  /\ UNCHANGED <<content, index>>
           /\ pc[t] = "updmax" =>
                pc'[t] = pc[t] /\ node'[t] = node[t] /\ key'[t] = key[t]
<1> USE DEF NodeStep, IndexStep, structure, Pending
<1>1. CASE Begin(t)
  BY <1>1 DEF Begin, CallInsert, CallRemove, CallContains, CallGet, Call
<1>2. CASE PutStep(t)
  BY <1>2 DEF PutStep, PutLocate, PutAboveKeys, PutBack, PutEmpty, CreateTry,
     CreateContended, CreateSwept, PutFull, PutExisting, PutInside, PutNewMax
<1>3. CASE FindStep(t)
  BY <1>3 DEF FindStep, FindLocate, FindAboveKeys, FindBack, FindNoBack,
     FindFront, FindNothing, FindAnswer, GetRef, DropRef
<1>4. CASE CommitStep(t)
  BY <1>4 DEF CommitStep, AcquireWrite, SplitStale, KeepEntry, Commit
<1> QED
  BY <1>1, <1>2, <1>3, <1>4 DEF Step

-----------------------------------------------------------------------------
(* Refs *)

\* RefStable is not inductive alone: it takes the mutex, which the Ref's thread
\* holds, to keep the others from the node.
RefHolds == \A t \in Thread : pc[t] = "ref" =>
    /\ node[t] \in NodeId /\ holder[node[t]] = t
    /\ val[t] \in content[node[t]]

\* A thread moves only itself on.
LEMMA OthersStay ==
    ASSUME TypeInv, NEW t \in Thread, Begin(t) \/ Step(t), NEW u \in Thread \ {t}
    PROVE  /\ pc'[u] = pc[u] /\ node'[u] = node[u]
           /\ key'[u] = key[u] /\ val'[u] = val[u]
<1> USE DEF TypeInv, TypeOK, request, Take, Goto, Restart, Answer, Defer
<1>1. CASE Begin(t)
  BY <1>1 DEF Begin, CallInsert, CallRemove, CallContains, CallGet, Call
<1>2. CASE PutStep(t)
  BY <1>2 DEF PutStep, PutLocate, PutAboveKeys, PutBack, PutEmpty, CreateTry,
     CreateContended, CreateNode, CreateSwept, PutFull, PutExisting, PutInside,
     PutNewMax
<1>3. CASE RemoveStep(t)
  BY <1>3 DEF RemoveStep, RemoveLocate, RemoveAboveKeys, RemoveAbsent,
     RemoveInside, RemoveMax, RemoveLast
<1>4. CASE FindStep(t)
  BY <1>4 DEF FindStep, FindLocate, FindAboveKeys, FindBack, FindNoBack,
     FindFront, FindNothing, FindAnswer, GetRef, DropRef
<1>5. CASE CommitStep(t)
  BY <1>5 DEF CommitStep, AcquireWrite, SplitStale, SplitEmpty, Split, SplitLow,
     SplitHigh, SplitSingle, MoveEntry, MoveNothing, DropEntry, KeepEntry
<1> QED
  BY <1>1, <1>2, <1>3, <1>4, <1>5 DEF Step

\* Only get ends with a Ref.
LEMMA OnlyGetRefs ==
    ASSUME TypeInv, NEW t \in Thread, Begin(t) \/ Step(t), ~GetRef(t)
    PROVE  pc'[t] # "ref"
<1> USE DEF TypeInv, TypeOK, Pending, Take, Goto, Restart, Answer, Defer
<1>1. CASE Begin(t)
  BY <1>1 DEF Begin, CallInsert, CallRemove, CallContains, CallGet, Call
<1>2. CASE PutStep(t)
  BY <1>2 DEF PutStep, PutLocate, PutAboveKeys, PutBack, PutEmpty, CreateTry,
     CreateContended, CreateNode, CreateSwept, PutFull, PutExisting, PutInside,
     PutNewMax
<1>3. CASE RemoveStep(t)
  BY <1>3 DEF RemoveStep, RemoveLocate, RemoveAboveKeys, RemoveAbsent,
     RemoveInside, RemoveMax, RemoveLast
<1>4. CASE FindStep(t)
  BY <1>4 DEF FindStep, FindLocate, FindAboveKeys, FindBack, FindNoBack,
     FindFront, FindNothing, FindAnswer, DropRef
<1>5. CASE CommitStep(t)
  BY <1>5 DEF CommitStep, AcquireWrite, SplitStale, SplitEmpty, Split, SplitLow,
     SplitHigh, SplitSingle, MoveEntry, MoveNothing, DropEntry, KeepEntry
<1> QED
  BY <1>1, <1>2, <1>3, <1>4, <1>5 DEF Step

\* No step of another thread touches a node that a Ref holds, or its mutex.
LEMMA HeldNodeStays ==
    ASSUME TypeInv, RefHolds, NEW t \in Thread, Begin(t) \/ Step(t),
           NEW u \in Thread \ {t}, pc[u] = "ref"
    PROVE  content'[node[u]] = content[node[u]] /\ holder'[node[u]] = u
<1> DEFINE n == node[u]
<1>1. n \in NodeId /\ holder[n] = u /\ u # NoThread
  BY NullAssumption DEF RefHolds
<1>2. MutexFree(t) => node[t] # n
  BY <1>1 DEF MutexFree
<1>3. Free # {} => Fresh # n /\ Fresh \in NodeId
  BY FreshIsFree
<1> USE <1>1, <1>2, <1>3
    DEF TypeInv, TypeOK, structure, locks, AcquireRead, ReleaseRead, ReleaseWrite, Defer
<1>4. CASE Begin(t)
  BY <1>4 DEF Begin, CallInsert, CallRemove, CallContains, CallGet, Call
<1>5. CASE PutStep(t)
  BY <1>5 DEF PutStep, PutLocate, PutAboveKeys, PutBack, PutEmpty, CreateTry,
     CreateContended, CreateNode, CreateSwept, PutFull, PutExisting, PutInside,
     PutNewMax, Insert
<1>6. CASE RemoveStep(t)
  BY <1>6 DEF RemoveStep, RemoveLocate, RemoveAboveKeys, RemoveAbsent,
     RemoveInside, RemoveMax, RemoveLast, Delete
<1>7. CASE FindStep(t)
  <2>1. CASE GetRef(t)
    BY <2>1 DEF GetRef
  <2>2. CASE DropRef(t)
    BY <2>2 DEF DropRef, RefHolds
  <2> QED
    BY <1>7, <2>1, <2>2 DEF FindStep, FindLocate, FindAboveKeys, FindBack,
       FindNoBack, FindFront, FindNothing, FindAnswer
<1>8. CASE CommitStep(t)
  BY <1>8 DEF CommitStep, AcquireWrite, SplitStale, SplitEmpty, Split, SplitLow,
     SplitHigh, SplitSingle, MoveEntry, MoveNothing, DropEntry, KeepEntry, Commit
<1> QED
  BY <1>4, <1>5, <1>6, <1>7, <1>8 DEF Step

\* RefStable: from get's answer to the drop of its Ref the value stays in the
\* node that the Ref holds, whatever the other threads remove, insert or split.
THEOREM RefsStayGood == Spec => []RefStable
<1>1. Init => RefHolds
  BY DEF Init, RefHolds
<1>2. TypeInv /\ RefHolds /\ [Next]_vars => RefHolds'
  <2> SUFFICES ASSUME TypeInv, RefHolds, [Next]_vars
               PROVE  RefHolds'
    OBVIOUS
  <2>1. CASE UNCHANGED vars
    BY <2>1 DEF RefHolds, vars
  <2>2. ASSUME NEW t \in Thread, Begin(t) \/ Step(t),
               NEW u \in Thread, pc'[u] = "ref"
        PROVE  /\ node'[u] \in NodeId /\ holder'[node'[u]] = u
               /\ val'[u] \in content'[node'[u]]
    <3>1. CASE u = t
      <4>1. GetRef(t)
        BY <2>2, <3>1, OnlyGetRefs
      <4> QED
        BY <3>1, <4>1, MutexFreeMeans
           DEF GetRef, Goto, structure, request, Held, TypeInv, TypeOK
    <3>2. CASE u # t
      BY <2>2, <3>2, OthersStay, HeldNodeStays DEF RefHolds
    <3> QED
      BY <3>1, <3>2
  <2> QED
    BY <2>1, <2>2 DEF Next, RefHolds
<1>3. RefHolds => RefStable
  BY DEF RefHolds, RefStable
<1> QED
  BY <1>1, <1>2, <1>3, TypesKept, PTL DEF Spec

-----------------------------------------------------------------------------
(* Bounded nodes *)

\* NodeBounded, of one node's content.
Within(S) ==
    \/ Cardinality(S) <= 2
    \/ Cardinality(S) <= Capacity
    \/ \E m \in NodeId : Cardinality(S) <= Cardinality(Initial[m])

LEMMA SmallerIsWithin ==
    ASSUME NEW S, NEW T, Cardinality(S) \in Nat, Cardinality(T) \in Nat,
           Within(S), Cardinality(T) <= 2 \/ Cardinality(T) <= Cardinality(S)
    PROVE  Within(T)
<1>1. Capacity \in Nat /\ \A m \in NodeId : Cardinality(Initial[m]) \in Nat
  BY SizeAssumption, InitialAssumption, FS_CardinalityType
<1> QED
  BY <1>1 DEF Within

LEMMA CardinalityIsNat ==
    ASSUME TypeInv, NEW n \in NodeId
    PROVE  Cardinality(content[n]) \in Nat
  BY FS_CardinalityType DEF TypeInv, ContentFinite

LEMMA OneMore ==
    ASSUME NEW S, IsFiniteSet(S), NEW x
    PROVE  /\ Cardinality(S) \in Nat /\ Cardinality(S \cup {x}) \in Nat
           /\ Cardinality(S \cup {x}) <= Cardinality(S) + 1
<1>1. Cardinality(S) \in Nat
  BY FS_CardinalityType
<1>2. Cardinality(S \cup {x}) = IF x \in S THEN Cardinality(S) ELSE Cardinality(S) + 1
  BY FS_AddElement
<1> QED
  BY <1>1, <1>2

\* With the value that is inserted, neither part outgrows the node or two.
LEMMA SplitKeepsBound ==
    ASSUME TypeInv, NodeBounded, NEW t \in Thread,
           SplitLow(t) \/ SplitHigh(t) \/ SplitSingle(t)
    PROVE  NodeBounded'
<1> DEFINE n == node[t]
           c == Cardinality(Held(t))
           low == LowerHalf(Held(t))
           high == UpperHalf(Held(t))
<1>1. PICK l, h :
        /\ Split(t, l, h)
        /\ l \in {{}, low, low \cup {val[t]}}
        /\ h \in {high, high \cup {val[t]}}
  BY DEF SplitLow, SplitHigh, SplitSingle
<1>2. /\ n \in NodeId /\ Fresh \in NodeId /\ Held(t) # {}
      /\ content' = [content EXCEPT ![n] = l, ![Fresh] = h]
  BY <1>1, FreshIsFree, MutexFreeMeans DEF Split, Commit
<1>3. Held(t) \subseteq Int /\ IsFiniteSet(Held(t)) /\ Within(Held(t))
  BY <1>2, ValueIsInt DEF TypeInv, TypeOK, ContentFinite, Held, NodeBounded, Within
<1>4. c \in Nat /\ c # 0
  BY <1>2, <1>3, FS_CardinalityType, FS_EmptySet
<1>5. /\ IsFiniteSet(low) /\ IsFiniteSet(high)
      /\ Cardinality(low) \in Nat /\ Cardinality(high) \in Nat
      /\ Cardinality(low) <= c \div 2 /\ Cardinality(high) <= c - c \div 2
  BY <1>3, HalvesBounded
<1>6. /\ Cardinality(low \cup {val[t]}) \in Nat
      /\ Cardinality(low \cup {val[t]}) <= Cardinality(low) + 1
      /\ Cardinality(high \cup {val[t]}) \in Nat
      /\ Cardinality(high \cup {val[t]}) <= Cardinality(high) + 1
  BY <1>5, OneMore
<1>7. \/ c \div 2 + 1 <= 2 /\ c - c \div 2 + 1 <= 2
      \/ c \div 2 + 1 <= c /\ c - c \div 2 + 1 <= c
  BY <1>4
<1>8. Cardinality({}) = 0
  BY FS_EmptySet
<1>9. ASSUME NEW T \in {l, h}
      PROVE  Cardinality(T) \in Nat /\ (Cardinality(T) <= 2 \/ Cardinality(T) <= c)
  <2>1. CASE T = {}
    BY <1>8, <2>1
  <2>2. CASE T = low \/ T = high
    BY <1>4, <1>5, <2>2
  <2>3. CASE T = low \cup {val[t]}
    BY <1>4, <1>5, <1>6, <1>7, <2>3
  <2>4. CASE T = high \cup {val[t]}
    BY <1>4, <1>5, <1>6, <1>7, <2>4
  <2> QED
    BY <1>1, <2>1, <2>2, <2>3, <2>4
<1>10. Within(l) /\ Within(h)
  BY <1>3, <1>4, <1>9, SmallerIsWithin
<1>11. ASSUME NEW m \in NodeId
       PROVE  Within(content'[m])
  BY <1>2, <1>10 DEF TypeInv, TypeOK, NodeBounded, Within
<1> QED
  BY <1>11 DEF NodeBounded, Within

\* NodeBounded: need_to_split before every insert, and the halves of a split,
\* keep every node within node_capacity, what was attached, or two.
THEOREM NodesStayBounded == Spec => []NodeBounded
<1>1. Init => NodeBounded
  <2> SUFFICES ASSUME Init, NEW n \in NodeId
               PROVE  Cardinality(content[n]) <= Cardinality(Initial[n])
    BY DEF NodeBounded
  <2>1. Cardinality(Initial[n]) \in Nat
    BY InitialAssumption, FS_CardinalityType
  <2> QED
    BY <2>1 DEF Init
<1>2. TypeInv /\ NodeBounded /\ [Next]_vars => NodeBounded'
  <2> SUFFICES ASSUME TypeInv, NodeBounded, [Next]_vars
               PROVE  NodeBounded'
    OBVIOUS
  <2>1. CASE UNCHANGED content
    BY <2>1 DEF NodeBounded
  <2>2. ASSUME NEW n \in NodeId, NEW S, Within(S),
               content' = [content EXCEPT ![n] = S]
        PROVE  NodeBounded'
    BY <2>2 DEF NodeBounded, Within, TypeInv, TypeOK
  <2>3. ASSUME NEW t \in Thread, CreateNode(t) PROVE NodeBounded'
    <3>1. Within({val[t]})
      <4>1. Cardinality({val[t]}) = 1
        BY FS_Singleton
      <4> QED
        BY <4>1 DEF Within
    <3> QED
      BY <2>2, <2>3, <3>1, FreshIsFree DEF CreateNode
  <2>4. ASSUME NEW t \in Thread, SplitLow(t) \/ SplitHigh(t) \/ SplitSingle(t)
        PROVE  NodeBounded'
    BY <2>4, SplitKeepsBound
  <2>5. ASSUME NEW t \in Thread, Insert(t) PROVE NodeBounded'
    <3>1. node[t] \in NodeId /\ ~(Cardinality(Held(t)) >= Capacity)
          /\ content' = [content EXCEPT ![node[t]] = Held(t) \cup {val[t]}]
      BY <2>5, MutexFreeMeans DEF Insert, NeedToSplit, Held, TypeInv, TypeOK
    <3>2. IsFiniteSet(Held(t)) /\ Cardinality(Held(t)) \in Nat
      BY <3>1, CardinalityIsNat DEF Held, TypeInv, ContentFinite
    <3>3. /\ Cardinality(Held(t) \cup {val[t]}) \in Nat
          /\ Cardinality(Held(t) \cup {val[t]}) <= Cardinality(Held(t)) + 1
      BY <3>2, OneMore
    <3>4. Within(Held(t) \cup {val[t]})
      BY <3>1, <3>2, <3>3, SizeAssumption DEF Within
    <3> QED
      BY <2>2, <3>1, <3>4
  <2>6. ASSUME NEW t \in Thread, Delete(t) PROVE NodeBounded'
    <3>1. node[t] \in NodeId
          /\ content' = [content EXCEPT ![node[t]] = Held(t) \ {val[t]}]
      BY <2>6, MutexFreeMeans DEF Delete, Held, TypeInv, TypeOK
    <3>2. IsFiniteSet(Held(t)) /\ Cardinality(Held(t)) \in Nat /\ Within(Held(t))
      BY <3>1, CardinalityIsNat DEF Held, TypeInv, ContentFinite, NodeBounded, Within
    <3>3. Cardinality(Held(t) \ {val[t]}) \in Nat
          /\ Cardinality(Held(t) \ {val[t]}) <= Cardinality(Held(t))
      BY <3>2, FS_Subset, FS_CardinalityType
    <3>4. Within(Held(t) \ {val[t]})
      BY <3>2, <3>3, SmallerIsWithin
    <3> QED
      BY <2>2, <3>1, <3>4
  <2>7. ASSUME NEW t \in Thread, Begin(t) \/ Step(t) PROVE NodeBounded'
    <3>1. CASE ~NodeStep(t)
      BY <2>1, <2>7, <3>1, OthersKeepNodes
    <3>2. CASE RemoveStep(t)
      BY <2>1, <2>6, <3>2 DEF RemoveStep, RemoveLocate, RemoveAboveKeys,
         RemoveAbsent, RemoveInside, RemoveMax, RemoveLast, structure
    <3>3. CASE SplitEmpty(t) \/ MoveEntry(t) \/ DropEntry(t) \/ MoveNothing(t)
      BY <2>1, <3>3 DEF SplitEmpty, MoveEntry, DropEntry, MoveNothing, structure
    <3> QED
      BY <2>3, <2>4, <2>5, <3>1, <3>2, <3>3
         DEF NodeStep, IndexStep, PutInside, PutNewMax
  <2> QED
    BY <2>1, <2>7 DEF Next, vars
<1> QED
  BY <1>1, <1>2, TypesKept, PTL DEF Spec

-----------------------------------------------------------------------------
(* The entry stays while an insert or a remove is on its way to the node *)

\* Where an operation keeps the read lock from one step to the next.
Reading == {"put_back", "put_node", "rem_node", "find_back", "find_front"}

\* EntryStays is not inductive alone: it takes the reader-writer lock, which
\* keeps commits away from whoever has found an entry.
LocksHeld ==
    /\ writer # NoThread => readers = {}
    /\ \A t \in Thread : pc[t] \in Reading => t \in readers

LEMMA LocksKept ==
    ASSUME TypeInv, LocksHeld, NEW t \in Thread, Begin(t) \/ Step(t)
    PROVE  LocksHeld'
<1> SUFFICES /\ writer' # NoThread => readers' = {}
             /\ pc'[t] \in Reading => t \in readers'
             /\ readers \ {t} \subseteq readers'
  BY OthersStay DEF LocksHeld
<1> USE DEF TypeInv, TypeOK, LocksHeld, Reading, locks, CanRead, CanWrite,
        AcquireRead, ReleaseRead, ReleaseWrite, Take, Goto, Restart, Answer, Defer
<1>1. CASE Begin(t)
  BY <1>1 DEF Begin, CallInsert, CallRemove, CallContains, CallGet, Call
<1>2. CASE PutStep(t)
  <2>1. CASE PutLocate(t) \/ PutAboveKeys(t) \/ PutBack(t) \/ PutEmpty(t)
    BY <2>1 DEF PutLocate, PutAboveKeys, PutBack, PutEmpty
  <2>2. CASE CreateTry(t) \/ CreateContended(t) \/ CreateNode(t) \/ CreateSwept(t)
    BY <2>2 DEF CreateTry, CreateContended, CreateNode, CreateSwept
  <2> QED
    BY <1>2, <2>1, <2>2 DEF PutStep, PutFull, PutExisting, PutInside, PutNewMax, Insert
<1>3. CASE RemoveStep(t)
  BY <1>3 DEF RemoveStep, RemoveLocate, RemoveAboveKeys, RemoveAbsent,
     RemoveInside, RemoveMax, RemoveLast, Delete
<1>4. CASE FindStep(t)
  BY <1>4 DEF FindStep, FindLocate, FindAboveKeys, FindBack, FindNoBack,
     FindFront, FindNothing, FindAnswer, GetRef, DropRef
<1>5. CASE CommitStep(t)
  BY <1>5 DEF CommitStep, AcquireWrite, SplitStale, SplitEmpty, Split, SplitLow,
     SplitHigh, SplitSingle, MoveEntry, MoveNothing, DropEntry, KeepEntry, Pending,
     Commit
<1> QED
  BY <1>1, <1>2, <1>3, <1>4, <1>5 DEF Step

\* Whoever arrives at a node has just found it in the index.
LEMMA ArrivesByEntry ==
    ASSUME TypeInv, NEW t \in Thread, Begin(t) \/ Step(t),
           pc'[t] \in {"put_node", "rem_node"}
    PROVE  UNCHANGED index /\ key'[t] \in Keys /\ index[key'[t]] = node'[t]
<1> USE DEF TypeInv, TypeOK, structure, Pending, Take, Goto, Restart, Answer, Defer,
        IsLowerBound, IsLast
<1>1. CASE Begin(t)
  BY <1>1 DEF Begin, CallInsert, CallRemove, CallContains, CallGet, Call
<1>2. CASE PutStep(t)
  BY <1>2 DEF PutStep, PutLocate, PutAboveKeys, PutBack, PutEmpty, CreateTry,
     CreateContended, CreateNode, CreateSwept, PutFull, PutExisting, PutInside,
     PutNewMax
<1>3. CASE RemoveStep(t)
  BY <1>3 DEF RemoveStep, RemoveLocate, RemoveAboveKeys, RemoveAbsent,
     RemoveInside, RemoveMax, RemoveLast
<1>4. CASE FindStep(t)
  BY <1>4 DEF FindStep, FindLocate, FindAboveKeys, FindBack, FindNoBack,
     FindFront, FindNothing, FindAnswer, GetRef, DropRef
<1>5. CASE CommitStep(t)
  BY <1>5 DEF CommitStep, AcquireWrite, SplitStale, SplitEmpty, Split, SplitLow,
     SplitHigh, SplitSingle, MoveEntry, MoveNothing, DropEntry, KeepEntry
<1> QED
  BY <1>1, <1>2, <1>3, <1>4, <1>5 DEF Step

\* EntryStays, in every interleaving: the read lock, which only the creator of a first node passes by,
\* keeps an entry from its lookup to the change of its node.
THEOREM EntriesStay == Spec => []EntryStays
<1>1. Init => LocksHeld /\ EntryStays
  BY DEF Init, LocksHeld, EntryStays, Reading
<1>2. TypeInv /\ OneKeyPerNode /\ LocksHeld /\ EntryStays /\ [Next]_vars
        => LocksHeld' /\ EntryStays'
  <2> SUFFICES ASSUME TypeInv, OneKeyPerNode, LocksHeld, EntryStays, [Next]_vars
               PROVE  LocksHeld' /\ EntryStays'
    OBVIOUS
  <2>1. CASE UNCHANGED vars
    BY <2>1 DEF vars, LocksHeld, EntryStays, Keys, Attached
  <2>2. ASSUME NEW t \in Thread, Begin(t) \/ Step(t) PROVE LocksHeld' /\ EntryStays'
    <3>1. LocksHeld'
      BY <2>2, LocksKept
    <3>2. SUFFICES ASSUME NEW u \in Thread, pc'[u] \in {"put_node", "rem_node"}
                   PROVE  key'[u] \in Keys'
                          /\ (index'[key'[u]] = node'[u] \/ node'[u] \notin Attached')
      BY <3>1 DEF EntryStays
    <3>3. CASE u = t
      BY <2>2, <3>2, <3>3, ArrivesByEntry DEF Keys
    <3>4. CASE u # t
      <4>1. /\ node'[u] = node[u] /\ key'[u] = key[u] /\ u \in readers
            /\ key[u] \in Keys
            /\ index[key[u]] = node[u] \/ node[u] \notin Attached
        BY <2>2, <3>2, <3>4, OthersStay DEF LocksHeld, Reading, EntryStays
      <4>2. CASE UNCHANGED index
        BY <4>1, <4>2 DEF Keys, Attached
      <4>3. CASE CreateNode(t)
        <5>1. /\ index' = [index EXCEPT ![val[t]] = Fresh]
              /\ Fresh \in NodeId /\ Fresh # node[u] /\ Fresh # NoNode
          BY <4>3, FreshIsFree, NullAssumption DEF CreateNode
        <5>2. \A j \in Value : index'[j] = IF j = val[t] THEN Fresh ELSE index[j]
          BY <5>1 DEF TypeInv, TypeOK
        <5>3. key[u] \in Keys'
          BY <4>1, <5>1, <5>2 DEF Keys
        <5>4. CASE key[u] = val[t]
          <6>1. ASSUME node[u] \in NodeId, NEW j \in Value, index'[j] = node[u]
                PROVE  FALSE
            <7>1. j # key[u] /\ index[j] = node[u]
              BY <6>1, <5>1, <5>2, <5>4
            <7>2. node[u] \in Attached /\ j \in Keys
              BY <6>1, <7>1, NullAssumption DEF Attached, Keys
            <7> QED
              BY <4>1, <7>1, <7>2 DEF OneKeyPerNode
          <6> QED
            BY <6>1, <5>3, <4>1 DEF Attached
        <5>5. CASE key[u] # val[t]
          <6>1. index'[key[u]] = index[key[u]]
            BY <4>1, <5>2, <5>5 DEF Keys
          <6>2. node[u] \notin Attached => node[u] \notin Attached'
            BY <5>1, <5>2 DEF Attached
          <6> QED
            BY <4>1, <5>3, <6>1, <6>2
        <5> QED
          BY <5>4, <5>5
      <4>4. CASE IndexStep(t) /\ ~CreateNode(t)
        <5>1. writer = t
          BY <4>4 DEF IndexStep, SplitEmpty, SplitLow, SplitHigh, SplitSingle,
             Split, MoveEntry, DropEntry, Commit
        <5> QED
          BY <4>1, <5>1, NullAssumption DEF LocksHeld
      <4> QED
        BY <2>2, <4>2, <4>3, <4>4, OthersKeepIndex
    <3> QED
      BY <3>3, <3>4
  <2> QED
    BY <2>1, <2>2 DEF Next
<1> QED
  BY <1>1, <1>2, TypesKept, NodesHaveOneKey, PTL DEF Spec

-----------------------------------------------------------------------------
(***************************************************************************)
(* What holds when no thread removes (RemoveVals = {}): registered nodes   *)
(* are never empty, and a key that is not its node's greatest value has    *)
(* the very UpdateMax pending that will move it.  When every value that is *)
(* inserted has an attached value above it as well, lookups are led to     *)
(* every value, and inserts are linearizable.                              *)
(***************************************************************************)

NobodyRemoves == \A t \in Thread : pc[t] \notin {"rem", "rem_node", "unreach"}

NobodyHoldsNothing == \A k \in Keys : content[index[k]] # {}

\* KeysSettle, with the key that the pending UpdateMax remembers: it must be
\* the one that the node is registered under, or commit will not find the entry.
Moving(k) == \E t \in Thread :
    pc[t] = "updmax" /\ node[t] = index[k] /\ key[t] = k
MaxOrMoving == \A k \in Keys : Max(content[index[k]]) = k \/ Moving(k)

InsertOnlyInv == NobodyRemoves /\ NobodyHoldsNothing /\ MaxOrMoving

-----------------------------------------------------------------------------
LEMMA InsertOnlyInit == Init => InsertOnlyInv
<1> SUFFICES ASSUME Init PROVE InsertOnlyInv
  OBVIOUS
<1>1. NobodyRemoves
  BY DEF Init, NobodyRemoves
<1>2. \A k \in Keys : content[index[k]] # {} /\ Max(content[index[k]]) = k
  BY InitialEntries
<1> QED
  BY <1>1, <1>2 DEF InsertOnlyInv, NobodyHoldsNothing, MaxOrMoving

\* With no value to remove no thread gets to a removing step.
LEMMA NobodyStartsRemoving ==
    ASSUME RemoveVals = {}, TypeInv, NobodyRemoves,
           NEW t \in Thread, Begin(t) \/ Step(t)
    PROVE  NobodyRemoves' /\ ~RemoveStep(t) /\ ~DropEntry(t) /\ ~KeepEntry(t)
<1>1. ~RemoveStep(t) /\ ~DropEntry(t) /\ ~KeepEntry(t)
  BY DEF NobodyRemoves, RemoveStep, RemoveLocate, RemoveAboveKeys, RemoveAbsent,
     RemoveInside, RemoveMax, RemoveLast, Delete, DropEntry, KeepEntry, Commit
<1>2. pc'[t] \notin {"rem", "rem_node", "unreach"}
  <2> USE DEF NobodyRemoves, TypeInv, TypeOK, Take, Goto, Restart, Answer, Defer
  <2>1. CASE Begin(t)
    BY <2>1 DEF Begin, CallInsert, CallRemove, CallContains, CallGet, Call
  <2>2. CASE PutStep(t)
    BY <2>2 DEF PutStep, PutLocate, PutAboveKeys, PutBack, PutEmpty, CreateTry,
       CreateContended, CreateNode, CreateSwept, PutFull, PutExisting, PutInside,
     PutNewMax
  <2>3. CASE FindStep(t)
    BY <2>3 DEF FindStep, FindLocate, FindAboveKeys, FindBack, FindNoBack,
       FindFront, FindNothing, FindAnswer, GetRef, DropRef
  <2>4. CASE CommitStep(t)
    BY <1>1, <2>4 DEF CommitStep, AcquireWrite, SplitStale, SplitEmpty, Split,
       SplitLow, SplitHigh, SplitSingle, MoveEntry, MoveNothing
  <2> QED
    BY <1>1, <2>1, <2>2, <2>3, <2>4 DEF Step
<1> QED
  BY <1>1, <1>2, OthersStay DEF NobodyRemoves

-----------------------------------------------------------------------------
(* An entry is in order when its node has values and the key is the greatest *)
(* of them, or about to be.                                                  *)
InOrder(k) == content[index[k]] # {} /\ (Max(content[index[k]]) = k \/ Moving(k))

AllInOrder == \A k \in Keys : InOrder(k)

\* A step that leaves an entry, its node and its pending UpdateMax alone.
LEMMA NodeKeepsEntry ==
    ASSUME TypeInv, NEW t \in Thread, Begin(t) \/ Step(t),
           NEW k \in Keys, InOrder(k),
           index'[k] = index[k], content'[index[k]] = content[index[k]],
           \/ pc[t] # "updmax"
           \/ ~(node[t] = index[k] /\ key[t] = k)
           \/ pc'[t] = pc[t] /\ node'[t] = node[t] /\ key'[t] = key[t]
    PROVE  InOrder(k)'
<1>1. ASSUME Moving(k) PROVE Moving(k)'
  BY <1>1, OthersStay DEF Moving
<1> QED
  BY <1>1 DEF InOrder

\* The values of a registered node are finitely many integers.
LEMMA NodeIsFinite ==
    ASSUME TypeInv, NEW n \in NodeId
    PROVE  content[n] \subseteq Int /\ IsFiniteSet(content[n])
  BY ValueIsInt DEF TypeInv, TypeOK, ContentFinite

LEMMA CreateKeepsOrder ==
    ASSUME TypeInv, AllInOrder, NEW t \in Thread, CreateNode(t)
    PROVE  AllInOrder'
<1>1. Fresh \in NodeId /\ Fresh \notin Attached
  BY FreshIsFree DEF CreateNode
<1>2. val[t] \in Value /\ val[t] \in Int
  BY ValueIsInt DEF TypeInv, TypeOK
<1>3. Max({val[t]}) = val[t]
  BY <1>2, MaxIsUnique
<1> SUFFICES ASSUME NEW k \in Value, index'[k] # NoNode
             PROVE  InOrder(k)'
  BY DEF AllInOrder, Keys
<1>4. CASE k = val[t]
  <2>1. index'[k] = Fresh /\ content'[Fresh] = {val[t]}
    BY <1>1, <1>4 DEF CreateNode, TypeInv, TypeOK
  <2> QED
    BY <1>3, <1>4, <2>1 DEF InOrder
<1>5. CASE k # val[t]
  <2>1. k \in Keys /\ index'[k] = index[k]
    BY <1>5 DEF CreateNode, TypeInv, TypeOK, Keys
  <2>2. content'[index[k]] = content[index[k]]
    BY <1>1, <2>1 DEF CreateNode, TypeInv, TypeOK, Attached, Keys
  <2> QED
    BY <2>1, <2>2, NodeKeepsEntry DEF AllInOrder, Step, PutStep, CreateNode
<1> QED
  BY <1>4, <1>5

\* The entry that a split takes out is the node's only one, and the two it puts
\* in are of greatest values.
LEMMA SplitKeepsOrder ==
    ASSUME TypeInv, OneKeyPerNode, AllInOrder, NEW t \in Thread,
           SplitLow(t) \/ SplitHigh(t) \/ SplitSingle(t)
    PROVE  AllInOrder'
<1> DEFINE n == node[t]
           low == LowerHalf(Held(t))
           high == UpperHalf(Held(t))
<1>1. PICK l, h : Split(t, l, h)
  BY DEF SplitLow, SplitHigh, SplitSingle
<1>2. /\ n \in NodeId /\ Fresh \in NodeId /\ Fresh \notin Attached /\ Fresh # n
      /\ index[key[t]] = n /\ Held(t) # {} /\ pc[t] = "split"
  BY <1>1, FreshIsFree, MutexFreeMeans DEF Split, Commit, OwnsEntry
<1>3. Held(t) \subseteq Int /\ Held(t) \subseteq Value /\ IsFiniteSet(Held(t))
  BY <1>2, NodeIsFinite DEF Held, TypeInv, TypeOK
<1>4. val[t] \in Value /\ val[t] \in Int
  BY ValueIsInt DEF TypeInv, TypeOK
<1>5. low # {} => Max(low) \in low /\ \A y \in low : Max(low) >= y
  <2>1. low \subseteq Int /\ IsFiniteSet(low)
    BY <1>3, HalvesWithin, FS_Subset
  <2> QED
    BY <2>1, MaxIsGreatest
<1>6. high # {} /\ Max(high) \in high
  <2>1. high \subseteq Int /\ IsFiniteSet(high)
    BY <1>3, HalvesWithin, FS_Subset
  <2>2. high # {}
    BY <1>2, <1>3, MaxGoesUp
  <2> QED
    BY <2>1, <2>2, MaxIsGreatest
<1>7. PICK newLow, newHigh :
        /\ content' = [content EXCEPT ![n] = newLow, ![Fresh] = newHigh]
        /\ newHigh # {} /\ Max(newHigh) \in Value
        /\ \/ /\ newLow # {} /\ Max(newLow) \in Value
              /\ index' = [index EXCEPT ![key[t]] = NoNode,
                             ![Max(newLow)] = n, ![Max(newHigh)] = Fresh]
           \/ index' = [index EXCEPT ![key[t]] = NoNode, ![Max(newHigh)] = Fresh]
  <2>1. low \subseteq Value /\ high \subseteq Value
    BY <1>3, HalvesWithin
  <2>2. Max(high \cup {val[t]}) \in Value
    <3>1. IsFiniteSet(high \cup {val[t]})
      BY <1>3, HalvesWithin, FS_Subset, FS_AddElement
    <3> QED
      BY <1>4, <2>1, <3>1, ValueIsInt, MaxIsGreatest
  <2>3. CASE SplitLow(t)
    <3>1. low # {} /\ val[t] <= Max(low)
      BY <2>3 DEF SplitLow, GoesLow
    <3>2. low \cup {val[t]} \subseteq Int /\ Max(low) \in low \cup {val[t]}
      BY <1>3, <1>4, <1>5, <3>1, HalvesWithin
    <3>3. \A y \in low \cup {val[t]} : Max(low) >= y
      BY <1>4, <1>5, <3>1, <3>2
    <3>4. Max(low \cup {val[t]}) = Max(low)
      BY <3>2, <3>3, MaxIsUnique
    <3> WITNESS low \cup {val[t]}, high
    <3> QED
      BY <1>5, <1>6, <2>1, <2>3, <3>1, <3>4 DEF SplitLow, Split
  <2>4. CASE SplitHigh(t)
    <3>1. low # {}
      BY <2>4 DEF SplitHigh
    <3> WITNESS low, high \cup {val[t]}
    <3> QED
      BY <1>5, <2>1, <2>2, <2>4, <3>1 DEF SplitHigh, Split
  <2>5. CASE SplitSingle(t)
    <3> WITNESS {}, high \cup {val[t]}
    <3> QED
      BY <2>2, <2>5 DEF SplitSingle, Split
  <2> QED
    BY <2>3, <2>4, <2>5
<1> SUFFICES ASSUME NEW k \in Value, index'[k] # NoNode
             PROVE  InOrder(k)'
  BY DEF AllInOrder, Keys
<1>8. CASE k = Max(newHigh)
  BY <1>2, <1>7, <1>8 DEF InOrder, TypeInv, TypeOK
<1>9. CASE k # Max(newHigh) /\ index'[k] = n
  <2>1. newLow # {} /\ k = Max(newLow)
    BY <1>2, <1>7, <1>9 DEF OneKeyPerNode, Keys, TypeInv, TypeOK
  <2> QED
    BY <1>2, <1>7, <1>9, <2>1 DEF InOrder, TypeInv, TypeOK
<1>10. CASE k # Max(newHigh) /\ index'[k] # n
  <2>1. k \in Keys /\ index'[k] = index[k]
    BY <1>7, <1>10 DEF Keys, TypeInv, TypeOK
  <2>2. content'[index[k]] = content[index[k]]
    BY <1>2, <1>7, <1>10, <2>1 DEF Attached, Keys, TypeInv, TypeOK
  <2> QED
    BY <1>2, <2>1, <2>2, NodeKeepsEntry DEF AllInOrder, Step, CommitStep
<1> QED
  BY <1>8, <1>9, <1>10

LEMMA MoveKeepsOrder ==
    ASSUME TypeInv, OneKeyPerNode, AllInOrder, NEW t \in Thread,
           MoveEntry(t) \/ MoveNothing(t)
    PROVE  AllInOrder'
<1> DEFINE n == node[t]
<1>1. n \in NodeId /\ UNCHANGED content
  BY MutexFreeMeans DEF MoveEntry, MoveNothing, Commit, structure
<1>2. CASE MoveEntry(t)
  <2>1. /\ index' = [index EXCEPT ![key[t]] = NoNode, ![Max(content[n])] = n]
        /\ content[n] # {} /\ index[key[t]] = n
    BY <1>2 DEF MoveEntry, Held, OwnsEntry
  <2>2. SUFFICES ASSUME NEW k \in Value, index'[k] # NoNode
                 PROVE  InOrder(k)'
    BY DEF AllInOrder, Keys
  <2>3. CASE k = Max(content[n])
    BY <1>1, <2>1, <2>3 DEF InOrder, TypeInv, TypeOK
  <2>4. CASE k # Max(content[n])
    <3>1. k \in Keys /\ index'[k] = index[k] /\ k # key[t]
      BY <2>1, <2>2, <2>4 DEF Keys, TypeInv, TypeOK
    <3> QED
      BY <1>1, <1>2, <3>1, NodeKeepsEntry DEF AllInOrder, Step, CommitStep
  <2> QED
    BY <2>3, <2>4
<1>3. CASE MoveNothing(t)
  <2>1. UNCHANGED index /\ (content[n] = {} \/ index[key[t]] # n)
    BY <1>3 DEF MoveNothing, structure, Held, OwnsEntry
  <2>2. ASSUME NEW k \in Keys
        PROVE  InOrder(k)'
    <3>1. ~(n = index[k] /\ key[t] = k)
      BY <2>1 DEF AllInOrder, InOrder
    <3> QED
      BY <1>1, <1>3, <2>1, <3>1, NodeKeepsEntry DEF AllInOrder, Step, CommitStep
  <2> QED
    BY <2>1, <2>2 DEF AllInOrder, Keys
<1> QED
  BY <1>2, <1>3

\* A value above the node's greatest one comes with the UpdateMax that tells of
\* it; any other leaves the greatest one as it is.
LEMMA InsertKeepsOrder ==
    ASSUME TypeInv, AllInOrder, NEW t \in Thread, PutInside(t) \/ PutNewMax(t)
    PROVE  AllInOrder'
<1> DEFINE n == node[t]
           v == val[t]
<1>1. n \in NodeId /\ pc[t] = "put_node" /\ UNCHANGED index
      /\ content' = [content EXCEPT ![n] = @ \cup {v}]
  BY MutexFreeMeans DEF PutInside, PutNewMax, Insert
<1>2. content[n] \subseteq Int /\ IsFiniteSet(content[n]) /\ v \in Int
  BY <1>1, NodeIsFinite, ValueIsInt DEF TypeInv, TypeOK
<1> SUFFICES ASSUME NEW k \in Keys
             PROVE  InOrder(k)'
  BY <1>1 DEF AllInOrder, Keys
<1>3. InOrder(k) /\ index[k] \in NodeId
  BY DEF AllInOrder, Keys, TypeInv, TypeOK
<1>4. CASE index[k] # n
  <2>1. content'[index[k]] = content[index[k]]
    BY <1>1, <1>3, <1>4 DEF TypeInv, TypeOK
  <2> QED
    BY <1>1, <1>3, <2>1, NodeKeepsEntry DEF Step, PutStep
<1>5. CASE index[k] = n
  <2>1. content[n] # {} /\ content'[n] = content[n] \cup {v}
    BY <1>1, <1>3, <1>5 DEF InOrder, TypeInv, TypeOK
  <2>2. Max(content[n]) \in content[n] /\ \A y \in content[n] : Max(content[n]) >= y
    BY <1>2, <2>1, MaxIsGreatest
  <2>3. Moving(k) => Moving(k)'
    BY <1>1, OthersStay DEF Moving, Step, PutStep
  <2>4. CASE PutInside(t)
    <3>1. v < Max(content[n])
      BY <2>1, <2>4 DEF PutInside, Held
    <3>2. \A y \in content[n] \cup {v} : Max(content[n]) >= y
      BY <1>2, <2>2, <3>1
    <3>3. Max(content[n] \cup {v}) = Max(content[n])
      BY <1>2, <2>2, <3>2, MaxIsUnique
    <3> QED
      BY <1>1, <1>3, <1>5, <2>1, <2>3, <3>3 DEF InOrder
  <2>5. CASE PutNewMax(t)
    <3>1. pc'[t] = "updmax" /\ node'[t] = n /\ key'[t] = Max(content[n])
      BY <2>5 DEF PutNewMax, Defer, Held, TypeInv, TypeOK
    <3>2. Max(content[n]) = k => Moving(k)'
      BY <1>1, <1>5, <3>1 DEF Moving
    <3> QED
      BY <1>1, <1>3, <1>5, <2>1, <2>3, <3>2 DEF InOrder
  <2> QED
    BY <2>4, <2>5
<1> QED
  BY <1>4, <1>5

LEMMA InsertOnlyStep ==
    ASSUME RemoveVals = {}, TypeInv, OneKeyPerNode, InsertOnlyInv,
           NEW t \in Thread, Begin(t) \/ Step(t)
    PROVE  InsertOnlyInv'
<1>1. AllInOrder
  BY DEF InsertOnlyInv, NobodyHoldsNothing, MaxOrMoving, AllInOrder, InOrder
<1>2. NobodyRemoves' /\ ~RemoveStep(t) /\ ~DropEntry(t) /\ ~KeepEntry(t)
  BY NobodyStartsRemoving DEF InsertOnlyInv
<1>3. ~SplitEmpty(t)
  <2>1. SUFFICES ASSUME SplitEmpty(t) PROVE FALSE
    OBVIOUS
  <2>2. key[t] \in Keys /\ content[index[key[t]]] = {}
    BY <2>1, MutexFreeMeans, NullAssumption
       DEF SplitEmpty, Commit, OwnsEntry, Held, Keys, TypeInv, TypeOK
  <2> QED
    BY <1>1, <2>2 DEF AllInOrder, InOrder
<1>4. AllInOrder'
  <2>1. CASE ~NodeStep(t)
    BY <1>1, <2>1, OthersKeepNodes, NodeKeepsEntry DEF AllInOrder, Keys
  <2>2. CASE CreateNode(t)
    BY <1>1, <2>2, CreateKeepsOrder
  <2>3. CASE SplitLow(t) \/ SplitHigh(t) \/ SplitSingle(t)
    BY <1>1, <2>3, SplitKeepsOrder
  <2>4. CASE MoveEntry(t) \/ MoveNothing(t)
    BY <1>1, <2>4, MoveKeepsOrder
  <2>5. CASE PutInside(t) \/ PutNewMax(t)
    BY <1>1, <2>5, InsertKeepsOrder
  <2> QED
    BY <1>2, <1>3, <2>1, <2>2, <2>3, <2>4, <2>5 DEF NodeStep, IndexStep
<1> QED
  BY <1>2, <1>4 DEF InsertOnlyInv, NobodyHoldsNothing, MaxOrMoving, AllInOrder, InOrder

\* KeysSettle, which run `unsplit_mix` checks with removes: while nobody removes,
\* whatever splits and commits find moved under them, a node's key is its
\* greatest value unless the UpdateMax that will move it is pending.
THEOREM InsertsSettleKeys ==
    ASSUME RemoveVals = {}
    PROVE  Spec => []KeysSettle
<1>1. Init => InsertOnlyInv
  BY InsertOnlyInit
<1>2. TypeInv /\ OneKeyPerNode /\ InsertOnlyInv /\ [Next]_vars => InsertOnlyInv'
  <2> SUFFICES ASSUME TypeInv, OneKeyPerNode, InsertOnlyInv, [Next]_vars
               PROVE  InsertOnlyInv'
    OBVIOUS
  <2>1. CASE UNCHANGED vars
    BY <2>1 DEF vars, InsertOnlyInv, NobodyRemoves, NobodyHoldsNothing,
       MaxOrMoving, Moving, Keys
  <2>2. ASSUME NEW t \in Thread, Begin(t) \/ Step(t) PROVE InsertOnlyInv'
    BY <2>2, InsertOnlyStep
  <2> QED
    BY <2>1, <2>2 DEF Next
<1>3. InsertOnlyInv => KeysSettle
  BY DEF InsertOnlyInv, MaxOrMoving, Moving, KeysSettle
<1> QED
  BY <1>1, <1>2, <1>3, TypesKept, NodesHaveOneKey, PTL DEF Spec

-----------------------------------------------------------------------------
(***************************************************************************)
(* Nobody removes, and every value that is inserted has an attached value  *)
(* above it, as in run `anchored_inserts`: an insert never gets a new      *)
(* greatest value into a node, so that no node is registered under a key   *)
(* that it has outgrown.                                                   *)
(***************************************************************************)

InsertsAnchored ==
    /\ RemoveVals = {}
    /\ \E n \in NodeId : \E m \in Initial[n] : \A v \in InsertVals : v <= m

\* The parts of the invariant.  A key is the greatest value of its node, ...
KeysAreGreatest == \A k \in Keys :
    k \in content[index[k]] /\ \A v \in content[index[k]] : v <= k

\* ... and the first key from each of that node's values on.
EntriesLead == \A k \in Keys : \A v \in content[index[k]] :
    \A j \in Keys : v <= j => k <= j

\* No insert falls back to the last node, or creates a first one.
InsertsBelow == \E k \in Keys : \A v \in InsertVals : v <= k

Outgrowing == {"put_back", "create", "create_node", "updmax"}
NobodyOutgrows == \A t \in Thread : pc[t] \notin Outgrowing

Inserting == {"put", "put_node", "split"}
InsertsTheirs == \A t \in Thread : pc[t] \in Inserting => val[t] \in InsertVals

\* The read lock keeps the entry until the node has changed.
EntryIsThere == \A t \in Thread : pc[t] = "put_node" => index[key[t]] = node[t]

\* The node a thread has found is still the one for its value if it is under the
\* key it was found under, and is under no greater one.
Leads(t) ==
    /\ node[t] \in NodeId
    /\ val[t] <= key[t]
    /\ \A j \in Keys : index[j] = node[t] => j <= key[t]
    /\ index[key[t]] = node[t] => \A j \in Keys : val[t] <= j => key[t] <= j
FoundLeads == \A t \in Thread : pc[t] \in {"put_node", "split"} => Leads(t)

\* What is said of the structure, and of the threads.
AnchoredIndex == KeysAreGreatest /\ EntriesLead /\ InsertsBelow
AnchoredThreads == NobodyOutgrows /\ InsertsTheirs /\ EntryIsThere /\ FoundLeads

AnchoredInv ==
    /\ TypeInv /\ OneKeyPerNode /\ LocksHeld
    /\ NobodyRemoves /\ AnchoredIndex /\ AnchoredThreads

-----------------------------------------------------------------------------
LEMMA KeysAreInts ==
    ASSUME TypeInv
    PROVE  /\ Keys \subseteq Value /\ Keys \subseteq Int
           /\ \A k \in Keys : index[k] \in NodeId
           /\ \A n \in NodeId : content[n] \subseteq Int
           /\ \A t \in Thread : val[t] \in Int /\ key[t] \in Int
  BY ValueIsInt DEF TypeInv, TypeOK, Keys

LEMMA AnchoredInit ==
    ASSUME InsertsAnchored, Init
    PROVE  AnchoredInv
<1>1. TypeInv /\ OneKeyPerNode /\ LocksHeld /\ NobodyRemoves
  BY TypeInit, OneKeyInit DEF Init, LocksHeld, Reading, NobodyRemoves
<1>2. KeysAreGreatest
  <2> SUFFICES ASSUME NEW k \in Keys
               PROVE  k \in content[index[k]] /\ \A v \in content[index[k]] : v <= k
    BY DEF KeysAreGreatest
  <2>1. index[k] \in NodeId /\ k \in content[index[k]] /\ k = Max(content[index[k]])
    BY InitialEntries
  <2>2. content[index[k]] \subseteq Int /\ IsFiniteSet(content[index[k]])
    BY <1>1, <2>1, NodeIsFinite
  <2>3. \A v \in content[index[k]] : Max(content[index[k]]) >= v
    BY <2>1, <2>2, MaxIsGreatest
  <2> QED
    BY <2>1, <2>2, <2>3
<1>3. EntriesLead
  <2> SUFFICES ASSUME NEW k \in Keys, NEW v \in content[index[k]],
                      NEW j \in Keys, v <= j
               PROVE  k <= j
    BY DEF EntriesLead
  <2>1. /\ index[k] \in NodeId /\ index[j] \in NodeId /\ v \in Int /\ j \in Int /\ k \in Int
        /\ content = Initial
    BY <1>1, KeysAreInts DEF Init
  <2>2. k \in content[index[k]] /\ j \in content[index[j]]
    BY <1>2 DEF KeysAreGreatest
  <2>3. CASE index[j] = index[k]
    BY <1>2, <2>1, <2>2, <2>3 DEF KeysAreGreatest
  <2>4. CASE Below(Initial[index[k]], Initial[index[j]])
    BY <2>1, <2>2, <2>4 DEF Below
  <2>5. CASE Below(Initial[index[j]], Initial[index[k]])
    BY <2>1, <2>2, <2>5 DEF Below
  <2> QED
    BY <2>1, <2>3, <2>4, <2>5, InitialAssumption
<1>4. InsertsBelow
  <2>1. PICK n \in NodeId : \E m \in Initial[n] : \A v \in InsertVals : v <= m
    BY DEF InsertsAnchored
  <2>2. PICK m \in Initial[n] : \A v \in InsertVals : v <= m
    BY <2>1
  <2> DEFINE k == Max(Initial[n])
  <2>3. k \in Initial[n] /\ \A v \in Initial[n] : k >= v
    BY <2>2, InitialAssumption, MaxIsGreatest
  <2>4. k \in Value /\ k \in Int /\ m \in Int
    BY <2>2, <2>3, InitialAssumption DEF Value
  <2>5. index[k] = CHOOSE p \in NodeId : k \in Initial[p]
    BY <2>3, <2>4 DEF Init
  <2>6. index[k] \in NodeId
    BY <2>3, <2>5
  <2>7. k \in Keys
    BY <2>4, <2>6, NullAssumption DEF Keys
  <2>8. \A v \in InsertVals : v <= k
    BY <2>2, <2>3, <2>4, ValueAssumption
  <2> QED
    BY <2>7, <2>8 DEF InsertsBelow
<1>5. AnchoredThreads
  BY DEF Init, AnchoredThreads, NobodyOutgrows, Outgrowing, InsertsTheirs, Inserting,
     EntryIsThere, FoundLeads
<1> QED
  BY <1>1, <1>2, <1>3, <1>4, <1>5 DEF AnchoredInv, AnchoredIndex

-----------------------------------------------------------------------------
(* The steps that nobody can take *)

\* An insert always finds a key above its value, and never puts a new greatest
\* value into a node.
LEMMA NobodyGoesAbove ==
    ASSUME AnchoredInv, NEW t \in Thread
    PROVE  /\ ~PutAboveKeys(t) /\ ~PutBack(t) /\ ~PutEmpty(t)
           /\ ~CreateTry(t) /\ ~CreateContended(t) /\ ~CreateNode(t) /\ ~CreateSwept(t)
           /\ ~PutNewMax(t) /\ ~SplitEmpty(t)
           /\ ~MoveEntry(t) /\ ~MoveNothing(t)
<1> USE DEF AnchoredInv, AnchoredIndex, AnchoredThreads
<1>1. ~PutAboveKeys(t)
  <2>1. SUFFICES ASSUME PutAboveKeys(t) PROVE FALSE
    OBVIOUS
  <2>2. val[t] \in InsertVals /\ AllKeysBelow(val[t])
    BY <2>1 DEF PutAboveKeys, InsertsTheirs, Inserting
  <2>3. PICK k \in Keys : val[t] <= k /\ k < val[t]
    BY <2>2 DEF InsertsBelow, AllKeysBelow
  <2> QED
    BY <2>3, KeysAreInts
<1>2. /\ ~PutBack(t) /\ ~PutEmpty(t) /\ ~CreateTry(t) /\ ~CreateContended(t)
      /\ ~CreateNode(t) /\ ~CreateSwept(t) /\ ~MoveEntry(t) /\ ~MoveNothing(t)
  BY DEF NobodyOutgrows, Outgrowing, PutBack, PutEmpty, CreateTry, CreateContended,
     CreateNode, CreateSwept, MoveEntry, MoveNothing, Commit
<1>3. ASSUME MutexFree(t), index[key[t]] = node[t]
      PROVE  key[t] \in Keys /\ Held(t) = content[index[key[t]]]
  BY <1>3, MutexFreeMeans, NullAssumption DEF Held, Keys, TypeInv, TypeOK
<1>4. ~PutNewMax(t)
  <2>1. SUFFICES ASSUME PutNewMax(t) PROVE FALSE
    OBVIOUS
  <2>2. /\ key[t] \in Keys /\ Held(t) = content[index[key[t]]]
        /\ val[t] <= key[t]
    BY <1>3, <2>1 DEF PutNewMax, Insert, EntryIsThere, FoundLeads, Leads
  <2>3. Max(Held(t)) < val[t]
    BY <2>1 DEF PutNewMax
  <2>4. key[t] \in Held(t) /\ \A y \in Held(t) : key[t] >= y
    BY <2>2, KeysAreInts DEF KeysAreGreatest
  <2>5. Max(Held(t)) = key[t]
    BY <2>2, <2>4, KeysAreInts, MaxIsUnique
  <2> QED
    BY <2>2, <2>3, <2>5, KeysAreInts
<1>5. ~SplitEmpty(t)
  <2>1. SUFFICES ASSUME SplitEmpty(t) PROVE FALSE
    OBVIOUS
  <2>2. MutexFree(t) /\ index[key[t]] = node[t] /\ Held(t) = {}
    BY <2>1 DEF SplitEmpty, Commit, OwnsEntry
  <2>3. key[t] \in content[index[key[t]]]
    BY <1>3, <2>2 DEF KeysAreGreatest
  <2> QED
    BY <1>3, <2>2, <2>3
<1> QED
  BY <1>1, <1>2, <1>4, <1>5

-----------------------------------------------------------------------------
(* A split *)

\* Whichever half takes the value: the old entry goes to the new node, whose
\* values lie above `cut`, the node's new key (or the node is left empty and has
\* none: low = {}).
SplitsInto(t, low, high, cut) ==
    /\ content' = [content EXCEPT ![node[t]] = low, ![Fresh] = high]
    /\ \A j \in Value : index'[j] =
         IF j = key[t] THEN Fresh ELSE IF j = cut THEN node[t] ELSE index[j]
    /\ low \cup high = Held(t) \cup {val[t]}
    /\ key[t] \in high /\ \A y \in high : y <= key[t]
    /\ \/ low = {} /\ cut = key[t]
       \/ /\ cut \in low /\ cut \in Held(t) /\ \A x \in low : x <= cut
          /\ \A y \in high : cut < y

\* What a commit that finds its entry knows of it.
LEMMA OwnersKnow ==
    ASSUME AnchoredInv, NEW t \in Thread, Commit(t, "split"), OwnsEntry(t)
    PROVE  /\ node[t] \in NodeId /\ key[t] \in Keys /\ key[t] \in Held(t)
           /\ Held(t) \subseteq Int /\ Held(t) \subseteq Value /\ IsFiniteSet(Held(t))
           /\ \A y \in Held(t) : y <= key[t]
           /\ val[t] \in Int /\ val[t] \in Value /\ val[t] <= key[t]
           /\ key[t] \in Int /\ key[t] \in Value
           /\ \A v \in Held(t) \cup {val[t]} : \A j \in Keys : v <= j => key[t] <= j
<1> USE DEF AnchoredInv, AnchoredIndex, AnchoredThreads
<1>1. node[t] \in NodeId /\ index[key[t]] = node[t] /\ Leads(t)
  BY MutexFreeMeans DEF Commit, OwnsEntry, FoundLeads
<1>2. key[t] \in Keys /\ Held(t) = content[index[key[t]]]
  BY <1>1, NullAssumption DEF Held, Keys, TypeInv, TypeOK
<1> QED
  BY <1>1, <1>2, KeysAreInts, NodeIsFinite
     DEF KeysAreGreatest, EntriesLead, Leads, TypeInv, TypeOK

LEMMA SplitShape ==
    ASSUME AnchoredInv, NEW t \in Thread,
           SplitLow(t) \/ SplitHigh(t) \/ SplitSingle(t)
    PROVE  \E low, high : \E cut \in Value : SplitsInto(t, low, high, cut)
<1> DEFINE n == node[t]
           k == key[t]
           low == LowerHalf(Held(t))
           high == UpperHalf(Held(t))
<1>1. PICK l, h : Split(t, l, h)
  BY DEF SplitLow, SplitHigh, SplitSingle
<1>2. /\ n \in NodeId /\ k \in Keys /\ k \in Held(t)
      /\ Held(t) \subseteq Int /\ Held(t) \subseteq Value /\ IsFiniteSet(Held(t))
      /\ \A y \in Held(t) : y <= k
      /\ val[t] \in Int /\ val[t] \in Value /\ val[t] <= k
      /\ k \in Int /\ k \in Value
  BY <1>1, OwnersKnow DEF Split
<1>3. /\ Held(t) = low \cup high
      /\ \A x \in low : \A y \in high : x < y
  BY <1>2, HalvesApart
<1>4. k \in high
  <2>1. Max(Held(t)) = k
    BY <1>2, MaxIsUnique
  <2> QED
    BY <1>2, <2>1, MaxGoesUp
<1>5. Max(high) = k /\ Max(high \cup {val[t]}) = k
  BY <1>2, <1>3, <1>4, MaxIsUnique
<1>6. index \in [Value -> NodeId \cup {NoNode}]
  BY DEF AnchoredInv, TypeInv, TypeOK
<1>7. CASE low # {}
  <2> DEFINE cut == Max(low)
  <2>1. cut \in low /\ \A x \in low : x <= cut
    <3>1. low \subseteq Int /\ IsFiniteSet(low)
      BY <1>2, HalvesWithin, FS_Subset
    <3>2. Max(low) \in low /\ \A x \in low : Max(low) >= x
      BY <1>7, <3>1, MaxIsGreatest
    <3> QED
      BY <3>1, <3>2
  <2>2. cut \in Held(t) /\ cut \in Value /\ cut \in Int /\ \A y \in high : cut < y
    BY <1>2, <1>3, <2>1
  <2>3. CASE SplitLow(t)
    <3>1. val[t] <= cut
      BY <2>3 DEF SplitLow, GoesLow
    <3>2. index' = [index EXCEPT ![k] = NoNode, ![cut] = n, ![k] = Fresh]
      BY <1>5, <2>3 DEF SplitLow
    <3>3. \A j \in Value : index'[j] = IF j = k THEN Fresh ELSE IF j = cut THEN n ELSE index[j]
      BY <1>2, <1>6, <2>2, <3>2
    <3>4. content' = [content EXCEPT ![n] = low \cup {val[t]}, ![Fresh] = high]
      BY <2>3 DEF SplitLow, Split
    <3>5. SplitsInto(t, low \cup {val[t]}, high, cut)
      BY <1>2, <1>3, <1>4, <2>1, <2>2, <3>1, <3>3, <3>4 DEF SplitsInto
    <3> QED
      BY <2>2, <3>5
  <2>4. CASE SplitHigh(t)
    <3>1. cut < val[t]
      BY <1>2, <1>7, <2>2, <2>4 DEF SplitHigh, GoesLow
    <3>2. index' = [index EXCEPT ![k] = NoNode, ![cut] = n, ![k] = Fresh]
      BY <1>5, <2>4 DEF SplitHigh
    <3>3. \A j \in Value : index'[j] = IF j = k THEN Fresh ELSE IF j = cut THEN n ELSE index[j]
      BY <1>2, <1>6, <2>2, <3>2
    <3>4. content' = [content EXCEPT ![n] = low, ![Fresh] = high \cup {val[t]}]
      BY <2>4 DEF SplitHigh, Split
    <3>5. SplitsInto(t, low, high \cup {val[t]}, cut)
      BY <1>2, <1>3, <1>4, <2>1, <2>2, <3>1, <3>3, <3>4 DEF SplitsInto
    <3> QED
      BY <2>2, <3>5
  <2> QED
    BY <1>7, <2>3, <2>4 DEF SplitSingle
<1>8. CASE low = {}
  <2>1. SplitSingle(t)
    BY <1>8 DEF SplitLow, GoesLow, SplitHigh
  <2>2. index' = [index EXCEPT ![k] = NoNode, ![k] = Fresh]
    BY <1>5, <2>1 DEF SplitSingle
  <2>3. \A j \in Value : index'[j] = IF j = k THEN Fresh ELSE index[j]
    BY <1>6, <2>2
  <2>4. content' = [content EXCEPT ![n] = {}, ![Fresh] = high \cup {val[t]}]
    BY <2>1 DEF SplitSingle, Split
  <2>5. SplitsInto(t, {}, high \cup {val[t]}, k)
    BY <1>2, <1>3, <1>4, <1>8, <2>3, <2>4 DEF SplitsInto
  <2> QED
    BY <1>2, <2>5
<1> QED
  BY <1>7, <1>8

\* What holds of the structure and of the other threads after a split.
LEMMA SplitKeepsAnchored ==
    ASSUME AnchoredInv, NEW t \in Thread,
           SplitLow(t) \/ SplitHigh(t) \/ SplitSingle(t)
    PROVE  /\ AnchoredIndex'
           /\ \A u \in Thread \ {t} : pc[u] = "split" => Leads(u)'
<1> DEFINE n == node[t]
           k == key[t]
<1> USE DEF AnchoredInv, AnchoredIndex, AnchoredThreads
<1>1. PICK low, high : \E c \in Value : SplitsInto(t, low, high, c)
  BY SplitShape
<1>2. PICK cut \in Value : SplitsInto(t, low, high, cut)
  BY <1>1
<1>3. /\ Commit(t, "split") /\ OwnsEntry(t)
      /\ Fresh \in NodeId /\ Fresh \notin Attached
      /\ \A u \in Thread : node[u] # Fresh
  BY FreshIsFree DEF SplitLow, SplitHigh, SplitSingle, Split
<1>4. /\ n \in NodeId /\ k \in Keys /\ k \in Held(t) /\ k \in Int /\ k \in Value
      /\ \A y \in Held(t) : y <= k
      /\ \A v \in Held(t) \cup {val[t]} : \A j \in Keys : v <= j => k <= j
  BY <1>3, OwnersKnow
<1>5. /\ \A j \in Value : index'[j] =
           IF j = k THEN Fresh ELSE IF j = cut THEN n ELSE index[j]
      /\ content'[n] = low /\ content'[Fresh] = high
      /\ \A m \in NodeId \ {n, Fresh} : content'[m] = content[m]
  BY <1>2, <1>3, <1>4 DEF SplitsInto, TypeInv, TypeOK
<1>6. /\ low \cup high = Held(t) \cup {val[t]}
      /\ k \in high /\ \A y \in high : y <= k
      /\ cut = k \/ /\ cut \in low /\ cut \in Held(t) /\ \A x \in low : x <= cut
                    /\ \A y \in high : cut < y
  BY <1>2 DEF SplitsInto
<1>7. Keys' = Keys \cup {cut}
  BY <1>3, <1>4, <1>5, NullAssumption DEF Keys
<1>8. cut \in Int /\ cut <= k /\ \A j \in Keys : cut <= j => k <= j
  BY <1>4, <1>6, ValueIsInt
<1>9. ASSUME NEW j \in Keys, j # k
      PROVE  index[j] \in NodeId \ {n, Fresh}
  BY <1>3, <1>4, <1>9, KeysAreInts DEF OwnsEntry, OneKeyPerNode, Attached
<1>10. ASSUME NEW j \in Keys', j # k, j # cut
       PROVE  /\ j \in Keys /\ j \in Int /\ index'[j] = index[j]
              /\ index[j] \in NodeId /\ content'[index'[j]] = content[index[j]]
  BY <1>5, <1>7, <1>9, <1>10, KeysAreInts DEF Keys
<1>11. KeysAreGreatest'
  <2> SUFFICES ASSUME NEW j \in Keys'
               PROVE  /\ j \in content'[index'[j]]
                      /\ \A v \in content'[index'[j]] : v <= j
    BY DEF KeysAreGreatest
  <2>1. CASE j = k
    BY <1>4, <1>5, <1>6, <2>1
  <2>2. CASE j = cut /\ cut # k
    BY <1>5, <1>6, <2>2
  <2>3. CASE j # cut /\ j # k
    BY <1>10, <2>3 DEF KeysAreGreatest
  <2> QED
    BY <2>1, <2>2, <2>3
<1>12. EntriesLead'
  <2> SUFFICES ASSUME NEW j \in Keys', NEW v \in content'[index'[j]],
                      NEW i \in Keys', v <= i
               PROVE  j <= i
    BY DEF EntriesLead
  <2>1. i \in Int /\ j \in Int
    BY <1>7, <1>8, KeysAreInts
  <2>2. CASE j = k \/ j = cut
    <3>1. v \in Held(t) \cup {val[t]} /\ v \in Int
      BY <1>4, <1>5, <1>6, <2>2, KeysAreInts DEF Held
    <3>2. CASE i \in Keys
      BY <1>4, <1>8, <2>1, <2>2, <3>1, <3>2
    <3>3. CASE i \notin Keys
      <4>1. i = cut /\ cut # k
        BY <1>4, <1>7, <3>3
      <4>2. j # k
        BY <1>4, <1>5, <1>6, <1>8, <3>1, <4>1
      <4> QED
        BY <2>1, <2>2, <4>1, <4>2
    <3> QED
      BY <3>2, <3>3
  <2>3. CASE j # k /\ j # cut
    <3>1. j \in Keys /\ v \in content[index[j]] /\ v \in Int
      BY <1>10, <2>3, KeysAreInts
    <3>2. CASE i \in Keys
      BY <3>1, <3>2 DEF EntriesLead
    <3>3. CASE i \notin Keys
      <4>1. i = cut /\ v <= k
        BY <1>4, <1>7, <1>8, <3>1, <3>3
      <4>2. j <= k
        BY <1>4, <3>1, <4>1 DEF EntriesLead
      <4> QED
        BY <1>4, <1>8, <2>1, <2>3, <3>1, <4>1, <4>2
    <3> QED
      BY <3>2, <3>3
  <2> QED
    BY <2>2, <2>3
<1>13. InsertsBelow'
  BY <1>7 DEF InsertsBelow
<1>14. ASSUME NEW u \in Thread \ {t}, pc[u] = "split"
       PROVE  Leads(u)'
  <2>1. node'[u] = node[u] /\ key'[u] = key[u] /\ val'[u] = val[u]
    BY OthersStay DEF Step, CommitStep
  <2>2. /\ Leads(u) /\ node[u] # Fresh /\ val[u] \in Int /\ key[u] \in Int
        /\ key[u] \in Value
    BY <1>3, <1>14, KeysAreInts DEF FoundLeads, TypeInv, TypeOK
  <2>3. ASSUME NEW j \in Keys', index'[j] = node[u]
        PROVE  j <= key[u]
    <3>1. CASE j = k
      BY <1>4, <1>5, <2>2, <2>3, <3>1
    <3>2. CASE j = cut /\ cut # k
      BY <1>3, <1>4, <1>5, <1>8, <2>2, <2>3, <3>2 DEF OwnsEntry, Leads
    <3>3. CASE j # cut /\ j # k
      BY <1>10, <2>2, <2>3, <3>3 DEF Leads
    <3> QED
      BY <3>1, <3>2, <3>3
  <2>4. ASSUME index'[key[u]] = node[u], NEW j \in Keys', val[u] <= j
        PROVE  key[u] <= j
    <3>1. key[u] # k
      BY <1>5, <2>2, <2>4
    <3>2. ~(key[u] = cut /\ cut # k)
      <4>1. SUFFICES ASSUME key[u] = cut, cut # k PROVE FALSE
        OBVIOUS
      <4>2. node[u] = n
        BY <1>5, <2>4, <4>1
      <4>3. k <= key[u]
        BY <1>3, <1>4, <2>2, <4>2 DEF Leads, OwnsEntry
      <4> QED
        BY <1>4, <1>8, <4>1, <4>3
    <3>3. /\ index[key[u]] = node[u] /\ key[u] \in Keys
          /\ \A i \in Keys : val[u] <= i => key[u] <= i
      <4>1. index[key[u]] = node[u]
        BY <1>5, <2>2, <2>4, <3>1, <3>2
      <4> QED
        BY <2>2, <4>1, NullAssumption DEF Leads, Keys
    <3>4. CASE j \in Keys
      BY <2>4, <3>3, <3>4
    <3>5. CASE j \notin Keys
      <4>1. j = cut
        BY <1>7, <3>5
      <4>2. key[u] <= k
        BY <1>4, <1>8, <2>2, <2>4, <3>3, <4>1
      <4> QED
        BY <1>4, <1>8, <2>2, <3>1, <3>3, <4>1, <4>2
    <3> QED
      BY <3>4, <3>5
  <2> QED
    BY <2>1, <2>2, <2>3, <2>4 DEF Leads
<1> QED
  BY <1>11, <1>12, <1>13, <1>14
-----------------------------------------------------------------------------
(* The other steps *)

\* An insert that stays inside its node.
LEMMA InsertKeepsAnchored ==
    ASSUME AnchoredInv, NEW t \in Thread, PutInside(t)
    PROVE  UNCHANGED index /\ AnchoredIndex'
<1> DEFINE n == node[t]
           k == key[t]
<1> USE DEF AnchoredInv, AnchoredIndex, AnchoredThreads
<1>1. /\ n \in NodeId /\ UNCHANGED index /\ index[k] = n
      /\ content' = [content EXCEPT ![n] = @ \cup {val[t]}]
      /\ Leads(t)
  BY MutexFreeMeans DEF PutInside, Insert, EntryIsThere, FoundLeads
<1>2. Keys' = Keys
  BY <1>1 DEF Keys
<1>3. ASSUME NEW j \in Keys
      PROVE  /\ content[index[j]] \subseteq content'[index'[j]]
             /\ \A v \in content'[index'[j]] :
                  v \in content[index[j]] \/ (j = k /\ v = val[t])
  BY <1>1, NullAssumption, KeysAreInts DEF OneKeyPerNode, Keys, TypeInv, TypeOK
<1>4. val[t] <= k /\ \A j \in Keys : val[t] <= j => k <= j
  BY <1>1 DEF Leads
<1>5. KeysAreGreatest'
  <2>1. ASSUME NEW j \in Keys
        PROVE  j \in content'[index'[j]] /\ \A v \in content'[index'[j]] : v <= j
    BY <1>3, <1>4 DEF KeysAreGreatest
  <2> QED
    BY <1>2, <2>1 DEF KeysAreGreatest
<1>6. EntriesLead'
  <2>1. ASSUME NEW j \in Keys, NEW v \in content'[index'[j]], NEW i \in Keys, v <= i
        PROVE  j <= i
    BY <1>3, <1>4, <2>1 DEF EntriesLead
  <2> QED
    BY <1>2, <2>1 DEF EntriesLead
<1>7. InsertsBelow'
  BY <1>2 DEF InsertsBelow
<1> QED
  BY <1>1, <1>5, <1>6, <1>7

\* Where a step takes the thread that makes it.
LEMMA ThreadStaysInside ==
    ASSUME AnchoredInv, NEW t \in Thread, Begin(t) \/ Step(t)
    PROVE  /\ pc'[t] \notin Outgrowing
           /\ pc'[t] \in Inserting => val'[t] \in InsertVals
           /\ pc'[t] \in {"put_node", "split"} =>
                /\ UNCHANGED index
                /\ Leads(t)'
           /\ pc'[t] = "put_node" => index'[key'[t]] = node'[t]
<1> USE DEF AnchoredInv, AnchoredThreads, NobodyOutgrows, InsertsTheirs, FoundLeads,
        Outgrowing, Inserting
<1>1. pc[t] \in Location /\ ~RemoveStep(t)
  BY DEF TypeInv, TypeOK, NobodyRemoves, RemoveStep, RemoveLocate, RemoveAboveKeys,
     RemoveAbsent, RemoveInside, RemoveMax, RemoveLast, Delete
<1>2. CASE Begin(t)
  BY <1>2 DEF Begin, CallInsert, CallRemove, CallContains, CallGet, Call, TypeInv, TypeOK
<1>3. CASE FindStep(t)
  BY <1>3 DEF FindStep, FindLocate, FindAboveKeys, FindBack, FindNoBack, FindFront,
     FindNothing, FindAnswer, GetRef, DropRef, Take, Goto, Restart, Answer, TypeInv, TypeOK
<1>4. CASE PutLocate(t)
  <2>1. PICK k \in Value : IsLowerBound(k, val[t]) /\ Take(t, k, "put_node")
    BY <1>4 DEF PutLocate
  <2>2. /\ pc[t] = "put" /\ UNCHANGED <<index, val>>
        /\ pc'[t] = "put_node" /\ node'[t] = index[k] /\ key'[t] = k
    BY <1>4, <2>1 DEF PutLocate, Take, structure, request, TypeInv, TypeOK
  <2>3. /\ k \in Keys /\ index[k] \in NodeId /\ val[t] <= k
        /\ \A j \in Keys : val[t] <= j => k <= j
    BY <2>1, KeysAreInts DEF IsLowerBound
  <2>4. \A j \in Keys : index[j] = index[k] => j <= k
    BY <2>3, KeysAreInts DEF OneKeyPerNode
  <2> QED
    BY <2>2, <2>3, <2>4 DEF Leads, Keys
<1>5. CASE PutFull(t) \/ AcquireWrite(t)
  <2>1. /\ UNCHANGED <<index, val, node>> /\ key'[t] = key[t]
        /\ pc[t] \in {"put_node"} \cup Pending
        /\ pc'[t] \in Pending /\ (pc'[t] = "split" => pc[t] \in {"put_node", "split"})
    BY <1>5 DEF PutFull, AcquireWrite, Defer, structure, request, Pending, TypeInv, TypeOK
  <2>2. pc'[t] = "split"
    BY <1>5, <2>1, NobodyGoesAbove
       DEF PutFull, AcquireWrite, Defer, Pending, NobodyRemoves, TypeInv, TypeOK
  <2> QED
    BY <2>1, <2>2 DEF Leads, Keys
<1>6. CASE PutExisting(t) \/ PutInside(t)
  BY <1>6 DEF PutExisting, PutInside, Answer, Restart, TypeInv, TypeOK
<1>7. CASE CommitStep(t) /\ ~AcquireWrite(t)
  BY <1>7, NobodyGoesAbove DEF CommitStep, SplitStale, SplitLow, SplitHigh, SplitSingle,
     Split, Commit, DropEntry, KeepEntry, Answer, Restart, request, NobodyRemoves,
     TypeInv, TypeOK
<1> QED
  BY <1>1, <1>2, <1>3, <1>4, <1>5, <1>6, <1>7, NobodyGoesAbove DEF Step, PutStep

LEMMA AnchoredStep ==
    ASSUME InsertsAnchored, AnchoredInv, TypeInv', OneKeyPerNode',
           NEW t \in Thread, Begin(t) \/ Step(t)
    PROVE  AnchoredInv'
<1> USE DEF AnchoredInv
<1>1. LocksHeld' /\ NobodyRemoves'
  BY LocksKept, NobodyStartsRemoving DEF InsertsAnchored
<1> DEFINE Splits == SplitLow(t) \/ SplitHigh(t) \/ SplitSingle(t)
<1>2. Splits \/ UNCHANGED index
  <2>1. ~DropEntry(t)
    BY NobodyStartsRemoving DEF InsertsAnchored
  <2> QED
    BY <2>1, OthersKeepIndex, NobodyGoesAbove DEF IndexStep
<1>3. AnchoredIndex'
  <2>1. CASE Splits
    BY <2>1, SplitKeepsAnchored
  <2>2. CASE PutInside(t)
    BY <2>2, InsertKeepsAnchored
  <2>3. CASE ~Splits /\ ~PutInside(t)
    <3>1. ~NodeStep(t)
      BY <2>3, NobodyStartsRemoving, NobodyGoesAbove
         DEF NodeStep, IndexStep, InsertsAnchored
    <3>2. UNCHANGED <<content, index>>
      BY <3>1, OthersKeepNodes
    <3> QED
      BY <3>2 DEF AnchoredIndex, KeysAreGreatest, EntriesLead, InsertsBelow, Keys
  <2> QED
    BY <2>1, <2>2, <2>3
<1>4. ASSUME NEW u \in Thread
      PROVE  /\ pc'[u] \notin Outgrowing
             /\ pc'[u] \in Inserting => val'[u] \in InsertVals
             /\ pc'[u] = "put_node" => index'[key'[u]] = node'[u]
             /\ pc'[u] \in {"put_node", "split"} => Leads(u)'
  <2>1. CASE u = t
    BY <2>1, ThreadStaysInside
  <2>2. CASE u # t
    <3>1. /\ pc'[u] = pc[u] /\ node'[u] = node[u]
          /\ key'[u] = key[u] /\ val'[u] = val[u]
      BY <2>2, OthersStay
    <3>2. CASE UNCHANGED index
      BY <3>1, <3>2 DEF AnchoredThreads, NobodyOutgrows, InsertsTheirs, EntryIsThere,
         FoundLeads, Leads, Keys
    <3>3. CASE Splits
      <4>1. writer = t
        BY <3>3 DEF SplitLow, SplitHigh, SplitSingle, Split, Commit
      <4>2. pc[u] # "put_node"
        BY <4>1, NullAssumption DEF LocksHeld, Reading
      <4> QED
        BY <2>2, <3>1, <3>3, <4>2, SplitKeepsAnchored
           DEF AnchoredThreads, NobodyOutgrows, InsertsTheirs
    <3> QED
      BY <1>2, <3>2, <3>3
  <2> QED
    BY <2>1, <2>2
<1> QED
  BY <1>1, <1>3, <1>4
     DEF AnchoredThreads, NobodyOutgrows, InsertsTheirs, EntryIsThere, FoundLeads

LEMMA AnchoredAlways ==
    ASSUME InsertsAnchored
    PROVE  Spec => []AnchoredInv
<1>1. Init => AnchoredInv
  BY AnchoredInit
<1>2. AnchoredInv /\ [Next]_vars /\ TypeInv' /\ OneKeyPerNode' => AnchoredInv'
  <2> SUFFICES ASSUME AnchoredInv, [Next]_vars, TypeInv', OneKeyPerNode'
               PROVE  AnchoredInv'
    OBVIOUS
  <2>1. CASE UNCHANGED vars
    BY <2>1 DEF vars, AnchoredInv, LocksHeld, NobodyRemoves, AnchoredIndex,
       KeysAreGreatest, EntriesLead, InsertsBelow, AnchoredThreads, NobodyOutgrows,
       InsertsTheirs, EntryIsThere, FoundLeads, Leads, Keys
  <2>2. ASSUME NEW t \in Thread, Begin(t) \/ Step(t) PROVE AnchoredInv'
    BY <2>2, AnchoredStep
  <2> QED
    BY <2>1, <2>2 DEF Next
<1> QED
  BY <1>1, <1>2, TypesKept, NodesHaveOneKey, PTL DEF Spec

\* The key a lookup of v is led to is that of v's node.
LEMMA ValuesAreLedTo ==
    ASSUME AnchoredInv, NEW n \in Attached, NEW v \in content[n]
    PROVE  \E k \in Keys : index[k] = n /\ IsLowerBound(k, v)
<1>1. PICK k \in Keys : index[k] = n
  BY NullAssumption DEF Attached, Keys
<1>2. v <= k /\ \A j \in Keys : v <= j => k <= j
  BY <1>1 DEF AnchoredInv, AnchoredIndex, KeysAreGreatest, EntriesLead
<1> QED
  BY <1>1, <1>2 DEF IsLowerBound

\* Reachable: whatever splits the threads commit, and whatever commits find
\* their entry moved, lookups are led to the node of every value in the set,
\* as long as nobody removes and no insert goes above every attached value.
THEOREM AnchoredReachable ==
    ASSUME InsertsAnchored
    PROVE  Spec => []Reachable
<1>1. AnchoredInv => Reachable
  BY ValuesAreLedTo DEF Reachable, LeadsTo, Keys
<1> QED
  BY <1>1, AnchoredAlways, PTL
-----------------------------------------------------------------------------
(* Linearizability: ConcurrentSetHistory implements AbstractSet *)

NoLookups == ContainsVals = {} /\ GetVals = {}

\* Nobody looks up or removes: whoever is inside an operation is inserting.
OnlyInserts == \A t \in Thread :
    pc[t] \in {"idle"} \cup Inserting /\ (pc[t] # "idle" => op[t] = "insert")

\* What is true now has been seen by every open operation.
SeenNow ==
    /\ seen = [t \in Thread |-> seen[t]]
    /\ \A t \in Thread : IF t \in Open THEN (val[t] \in Members) \in seen[t]
                                       ELSE seen[t] = {}

LinInv == AnchoredInv /\ OnlyInserts /\ SeenNow

\* A value is a member when it is in the node of some entry.
LEMMA MembersByKey ==
    ASSUME TypeInv, NEW v
    PROVE  v \in Members <=> \E k \in Keys : v \in content[index[k]]
  BY KeysAreInts, NullAssumption DEF Members, Attached, Keys

\* The node an insert has found holds its value if any node does.
LEMMA EntryDecides ==
    ASSUME AnchoredInv, NEW t \in Thread, MutexFree(t),
           index[key[t]] = node[t], Leads(t)
    PROVE  val[t] \in Members <=> val[t] \in Held(t)
<1>1. key[t] \in Keys /\ Held(t) = content[index[key[t]]] /\ val[t] <= key[t]
  BY MutexFreeMeans, NullAssumption DEF AnchoredInv, TypeInv, TypeOK, Keys, Held, Leads
<1>2. ASSUME NEW k \in Keys, val[t] \in content[index[k]]
      PROVE  k = key[t]
  <2>1. val[t] <= k /\ (val[t] <= key[t] => k <= key[t])
    BY <1>1, <1>2 DEF AnchoredInv, AnchoredIndex, KeysAreGreatest, EntriesLead
  <2>2. key[t] <= k
    BY <2>1 DEF Leads
  <2> QED
    BY <1>1, <2>1, <2>2, KeysAreInts DEF AnchoredInv
<1> QED
  BY <1>1, <1>2, MembersByKey DEF AnchoredInv

\* With nothing to look up or remove, threads only insert.
LEMMA OnlyInsertsStep ==
    ASSUME InsertsAnchored, NoLookups, AnchoredInv, OnlyInserts,
           NEW t \in Thread, Begin(t) \/ Step(t)
    PROVE  /\ OnlyInserts'
           /\ \/ CallInsert(t)
              \/ PutLocate(t) \/ PutFull(t) \/ AcquireWrite(t) \/ SplitStale(t)
              \/ PutExisting(t) \/ PutInside(t)
              \/ SplitLow(t) \/ SplitHigh(t) \/ SplitSingle(t)
<1> USE DEF OnlyInserts, Inserting
<1>1. ~FindStep(t)
  BY DEF FindStep, FindLocate, FindAboveKeys, FindBack, FindNoBack, FindFront,
     FindNothing, FindAnswer, GetRef, DropRef
<1>2. Begin(t) => CallInsert(t)
  BY DEF Begin, CallRemove, CallContains, CallGet, InsertsAnchored, NoLookups
<1>3. ~RemoveStep(t) /\ ~DropEntry(t) /\ ~KeepEntry(t)
  BY NobodyStartsRemoving DEF InsertsAnchored, AnchoredInv
<1>4. \/ CallInsert(t)
      \/ PutLocate(t) \/ PutFull(t) \/ AcquireWrite(t) \/ SplitStale(t)
      \/ PutExisting(t) \/ PutInside(t)
      \/ SplitLow(t) \/ SplitHigh(t) \/ SplitSingle(t)
  BY <1>1, <1>2, <1>3, NobodyGoesAbove DEF Step, PutStep, CommitStep
<1>5. /\ pc'[t] \in {"idle"} \cup Inserting
      /\ pc'[t] # "idle" => op'[t] = "insert"
      /\ \A u \in Thread \ {t} : op'[u] = op[u]
  BY <1>4 DEF AnchoredInv, TypeInv, TypeOK, CallInsert, Call, PutLocate, PutFull,
     AcquireWrite, SplitStale, PutExisting, PutInside, SplitLow, SplitHigh,
     SplitSingle, Split, Commit, Take, Defer, Restart, Answer, request, Pending
<1> QED
  BY <1>4, <1>5, OthersStay DEF AnchoredInv

\* A split leaves every value in the set and adds the one that is inserted.
LEMMA SplitAddsMember ==
    ASSUME AnchoredInv, TypeInv', NEW t \in Thread,
           SplitLow(t) \/ SplitHigh(t) \/ SplitSingle(t)
    PROVE  Members' = Members \cup {val[t]}
<1> DEFINE n == node[t]
           k == key[t]
<1>1. PICK low, high : \E c \in Value : SplitsInto(t, low, high, c)
  BY SplitShape
<1>2. PICK cut \in Value : SplitsInto(t, low, high, cut)
  BY <1>1
<1>3. /\ Commit(t, "split") /\ OwnsEntry(t) /\ TypeInv /\ OneKeyPerNode
      /\ Fresh \in NodeId /\ Fresh \notin Attached
      /\ \A u \in Thread : node[u] # Fresh
  BY FreshIsFree DEF AnchoredInv, SplitLow, SplitHigh, SplitSingle, Split
<1>4. n \in NodeId /\ k \in Keys /\ k \in Value /\ index[k] = n
  BY <1>3, OwnersKnow DEF OwnsEntry
<1>5. /\ index'[k] = Fresh /\ content'[Fresh] = high /\ content'[n] = low
      /\ \A j \in Value : j # k /\ j # cut => index'[j] = index[j]
      /\ \A m \in NodeId \ {n, Fresh} : content'[m] = content[m]
      /\ low \cup high = content[n] \cup {val[t]}
      /\ low = {} \/ (cut # k /\ index'[cut] = n)
  <2>1. cut \in low => cut # k
    BY <1>2, ValueIsInt DEF SplitsInto
  <2> QED
    BY <1>2, <1>3, <1>4, <2>1 DEF SplitsInto, Held, TypeInv, TypeOK
<1>6. ASSUME NEW j \in Keys, j # k
      PROVE  /\ j # cut /\ j \in Keys' /\ index'[j] = index[j]
             /\ content'[index[j]] = content[index[j]]
  <2>1. index[j] \in NodeId \ {n, Fresh} /\ j \in Value
    BY <1>3, <1>4, <1>6, KeysAreInts DEF OneKeyPerNode, Attached
  <2>2. j # cut
    <3>1. SUFFICES ASSUME j = cut PROVE FALSE
      OBVIOUS
    <3>2. cut \in Held(t)
      BY <1>2, <1>6, <3>1 DEF SplitsInto
    <3>3. /\ k <= cut /\ cut <= k /\ cut \in Int /\ k \in Int
      BY <1>3, <3>1, <3>2, OwnersKnow, KeysAreInts
    <3> QED
      BY <1>6, <3>1, <3>3
  <2> QED
    BY <1>5, <1>6, <2>1, <2>2 DEF Keys
<1>7. ASSUME NEW v
      PROVE  v \in Members' <=> v \in Members \/ v = val[t]
  <2>1. v \in Members' <=> \E j \in Keys' : v \in content'[index'[j]]
    <3>1. Keys' = {j \in Value : index'[j] # NoNode}
      BY DEF Keys
    <3>2. \A j \in Keys' : index'[j] \in NodeId
      BY <3>1 DEF TypeInv, TypeOK
    <3> QED
      BY <3>1, <3>2, NullAssumption DEF Members, Attached
  <2>2. v \in Members <=> \E j \in Keys : v \in content[index[j]]
    BY <1>3, MembersByKey
  <2>3. k \in Keys'
    BY <1>3, <1>4, <1>5, NullAssumption DEF Keys
  <2>4. low # {} => cut \in Keys' /\ content'[index'[cut]] = low
    BY <1>4, <1>5, NullAssumption DEF Keys
  <2>5. \A j \in Keys' : j = k \/ (j = cut /\ low # {}) \/ (j \in Keys /\ j # k)
    <3>1. low = {} => cut = k
      BY <1>2 DEF SplitsInto
    <3> QED
      BY <1>5, <3>1 DEF Keys
  <2>6. ASSUME v \in Members' PROVE v \in Members \/ v = val[t]
    <3>1. PICK j \in Keys' : v \in content'[index'[j]]
      BY <2>1, <2>6
    <3>2. CASE j = k \/ (j = cut /\ low # {})
      BY <1>4, <1>5, <2>2, <2>4, <3>1, <3>2
    <3>3. CASE j \in Keys /\ j # k
      BY <1>6, <2>2, <3>1, <3>3
    <3> QED
      BY <2>5, <3>2, <3>3
  <2>7. ASSUME v \in Members \/ v = val[t] PROVE v \in Members'
    <3>1. CASE v \in low \cup high
      BY <1>5, <2>1, <2>3, <2>4, <3>1
    <3>2. CASE v \notin low \cup high
      <4>1. PICK j \in Keys : v \in content[index[j]]
        BY <1>5, <2>2, <2>7, <3>2
      <4>2. j # k
        BY <1>4, <1>5, <3>2, <4>1
      <4> QED
        BY <1>6, <2>1, <4>1, <4>2
    <3> QED
      BY <3>1, <3>2
  <2> QED
    BY <2>6, <2>7
<1> QED
  BY <1>7
\* What a HistoryNext step adds to the history is what AbstractSet's Watch asks.
LEMMA WatchIsHistory == HistoryNext => Promise!Watch
  BY DEF HistoryNext, Promise!Watch

\* Where the members, the open operations and the requests stay, nothing is seen
\* that has not been seen.
LEMMA NothingNewSeen ==
    ASSUME SeenNow, Promise!Watch, Members' = Members, Open' = Open, UNCHANGED val
    PROVE  seen' = seen
<1>1. \A t \in Thread : t \in Open => seen[t] \cup {val[t] \in Members} = seen[t]
  BY DEF SeenNow
<1>2. seen' = [t \in Thread |-> IF t \in Open
                                THEN seen[t] \cup {val[t] \in Members} ELSE {}]
  BY DEF Promise!Watch
<1>3. seen' = [t \in Thread |-> seen[t]]
  BY <1>1, <1>2 DEF SeenNow
<1> QED
  BY <1>3 DEF SeenNow

\* Every node that was attached is registered at the start.
LEMMA StartsWithAll ==
    ASSUME Init
    PROVE  Members = UNION {Initial[n] : n \in NodeId}
<1>1. ASSUME NEW n \in NodeId, NEW v \in Initial[n]
      PROVE  n \in Attached
  <2> DEFINE k == Max(Initial[n])
  <2>1. k \in Initial[n] /\ k \in Value /\ k \in Int
    BY <1>1, InitialAssumption, MaxIsGreatest DEF Value
  <2>2. index[k] = CHOOSE m \in NodeId : k \in Initial[m]
    BY <2>1 DEF Init
  <2>3. index[k] \in NodeId /\ k \in Initial[index[k]]
    BY <2>1, <2>2
  <2>4. index[k] = n
    <3>1. ~Below(Initial[n], Initial[index[k]]) /\ ~Below(Initial[index[k]], Initial[n])
      BY <2>1, <2>3 DEF Below
    <3> QED
      BY <2>3, <3>1, InitialAssumption
  <2> QED
    BY <2>1, <2>4 DEF Attached
<1> QED
  BY <1>1 DEF Init, Members, Attached

LEMMA PromiseInit ==
    ASSUME HistoryInit, TypeInv
    PROVE  Promise!Init
<1>1. Init /\ Open = {}
  BY DEF HistoryInit, Init, Open
<1>2. /\ op \in [Thread -> Promise!Ops]
      /\ [t \in Thread |-> pc[t] \in {"updmax", "unreach"} \/ ans[t]] \in [Thread -> BOOLEAN]
  BY DEF TypeInv, TypeOK, Ops, Promise!Ops, Promise!Lookups
<1> QED
  BY <1>1, <1>2, StartsWithAll DEF HistoryInit, Promise!Init, TypeInv, TypeOK

\* A call opens; finding the node, waiting for the lock and trying again show
\* nothing; the value enters a node, or is found there, in the one step in which
\* the operation answers.
LEMMA StepsKeepPromise ==
    ASSUME InsertsAnchored, NoLookups, LinInv, TypeInv', OnlyInserts',
           HistoryNext, NEW t \in Thread, Begin(t) \/ Step(t)
    PROVE  [Promise!Next]_(Promise!vars)
<1> DEFINE answers == [u \in Thread |-> pc[u] \in {"updmax", "unreach"} \/ ans[u]]
<1> USE DEF LinInv
<1>1. TypeInv /\ Promise!Watch /\ answers = ans /\ answers' = ans'
  <2>1. TypeInv /\ Promise!Watch
    BY WatchIsHistory DEF AnchoredInv
  <2>2. answers = ans
    BY <2>1 DEF TypeInv, TypeOK, OnlyInserts, Inserting
  <2>3. answers' = ans'
    BY DEF TypeInv, TypeOK, OnlyInserts, Inserting
  <2> QED
    BY <2>1, <2>2, <2>3
<1>2. Open = {u \in Thread : pc[u] # "idle"} /\ Open' = {u \in Thread : pc'[u] # "idle"}
  BY DEF OnlyInserts, Inserting, Open
<1>3. ASSUME Promise!Insert(t) PROVE [Promise!Next]_(Promise!vars)
  BY <1>1, <1>3 DEF Promise!Next
<1>4. CASE CallInsert(t)
  <2>1. PICK v \in InsertVals : Call(t, "insert", v, "put")
    BY <1>4 DEF CallInsert
  <2>2. /\ t \notin Open /\ Open' = Open \cup {t}
        /\ Members' = Members /\ ans' = ans
        /\ op' = [op EXCEPT ![t] = "insert"] /\ val' = [val EXCEPT ![t] = v]
    BY <1>1, <1>2, <2>1 DEF Call, structure, Members, Attached, TypeInv, TypeOK
  <2>3. "insert" \in Promise!Ops /\ v \in Value
    BY DEF Promise!Ops, Value
  <2>4. Promise!Call(t)
    BY <1>1, <2>2, <2>3 DEF Promise!Call
  <2> QED
    BY <1>1, <2>4 DEF Promise!Next
<1>5. CASE PutLocate(t) \/ PutFull(t) \/ AcquireWrite(t) \/ SplitStale(t)
  <2>1. /\ UNCHANGED <<content, index, op, val, ans>>
        /\ pc[t] # "idle" /\ pc'[t] # "idle"
    BY <1>1, <1>5 DEF PutLocate, PutFull, AcquireWrite, SplitStale, Commit, Take, Defer,
       Restart, structure, request, Pending, TypeInv, TypeOK
  <2>2. Members' = Members /\ Open' = Open
    BY <1>1, <1>2, <2>1, OthersStay DEF Members, Attached
  <2>3. seen' = seen
    BY <1>1, <2>1, <2>2, NothingNewSeen
  <2> QED
    BY <1>1, <2>1, <2>2, <2>3 DEF Promise!vars
<1>6. ASSUME pc[t] # "idle", UNCHANGED <<op, val>>,
             Members' = Members \cup {val[t]}, Answer(t, val[t] \notin Members)
      PROVE  Promise!Insert(t)
  <2>1. /\ t \in Open /\ Open' = Open \ {t}
        /\ ans' = [ans EXCEPT ![t] = val[t] \notin Members]
        /\ op[t] = "insert"
    BY <1>1, <1>2, <1>6, OthersStay DEF Answer, Restart, OnlyInserts, TypeInv, TypeOK
  <2>2. Promise!Settle(t, val[t] \notin Members)
    BY <1>1, <1>6, <2>1 DEF Promise!Settle
  <2> QED
    BY <1>6, <2>1, <2>2 DEF Promise!Insert
<1>7. CASE PutExisting(t)
  <2>1. /\ MutexFree(t) /\ index[key[t]] = node[t] /\ Leads(t) /\ val[t] \in Held(t)
    BY <1>7 DEF PutExisting, AnchoredInv, AnchoredThreads, EntryIsThere, FoundLeads
  <2>2. val[t] \in Members
    BY <2>1, EntryDecides
  <2>3. /\ UNCHANGED <<content, index, op, val>> /\ pc[t] # "idle"
        /\ Answer(t, FALSE)
    BY <1>7 DEF PutExisting, structure, request
  <2>4. Members' = Members
    BY <2>3 DEF Members, Attached
  <2> QED
    BY <1>3, <1>6, <2>2, <2>3, <2>4
<1>8. CASE PutInside(t)
  <2>1. /\ MutexFree(t) /\ index[key[t]] = node[t] /\ Leads(t) /\ val[t] \notin Held(t)
    BY <1>8 DEF PutInside, Insert, AnchoredInv, AnchoredThreads, EntryIsThere, FoundLeads
  <2>2. val[t] \notin Members
    BY <2>1, EntryDecides
  <2>3. /\ UNCHANGED <<index, op, val>> /\ pc[t] # "idle" /\ Answer(t, TRUE)
        /\ content' = [content EXCEPT ![node[t]] = @ \cup {val[t]}]
    BY <1>8 DEF PutInside, Insert, request
  <2>4. /\ node[t] \in Attached /\ Attached' = Attached
        /\ content'[node[t]] = content[node[t]] \cup {val[t]}
        /\ \A n \in NodeId \ {node[t]} : content'[n] = content[n]
    <3>1. node[t] \in NodeId /\ key[t] \in Value
      BY <1>1, <2>1, MutexFreeMeans DEF TypeInv, TypeOK
    <3> QED
      BY <1>1, <2>1, <2>3, <3>1 DEF Attached, TypeInv, TypeOK
  <2>5. Members' = Members \cup {val[t]}
    <3>1. ASSUME NEW v PROVE v \in Members' <=> v \in Members \/ v = val[t]
      BY <2>4 DEF Members, Attached
    <3> QED
      BY <3>1
  <2> QED
    BY <1>3, <1>6, <2>2, <2>3, <2>5
<1>9. CASE SplitLow(t) \/ SplitHigh(t) \/ SplitSingle(t)
  <2>1. /\ Commit(t, "split") /\ OwnsEntry(t) /\ UNCHANGED <<op, val>>
        /\ Answer(t, val[t] \notin Held(t))
    BY <1>9 DEF SplitLow, SplitHigh, SplitSingle, Split, request
  <2>2. val[t] \in Members <=> val[t] \in Held(t)
    BY <2>1, EntryDecides
       DEF Commit, OwnsEntry, AnchoredInv, AnchoredThreads, FoundLeads
  <2>3. Members' = Members \cup {val[t]}
    BY <1>9, SplitAddsMember
  <2>4. (val[t] \notin Held(t)) = (val[t] \notin Members)
    BY <2>2
  <2> QED
    BY <1>3, <1>6, <2>1, <2>3, <2>4 DEF Commit
<1> QED
  BY <1>4, <1>5, <1>7, <1>8, <1>9, OnlyInsertsStep

\* Linearizable: with inserts alone, anchored, every interleaving of lookups of
\* the index, waits for the locks, splits and stale commits shows its callers
\* the answers of a set on which each insert takes effect in one instant.
THEOREM AnchoredLinearizable ==
    ASSUME InsertsAnchored, NoLookups
    PROVE  HistorySpec => Linearizable
<1>1. HistorySpec => Spec
  <2>1. HistoryInit => Init
    BY DEF HistoryInit
  <2>2. [HistoryNext]_historyVars => [Next]_vars
    BY DEF HistoryNext, historyVars
  <2> QED
    BY <2>1, <2>2, PTL DEF HistorySpec, Spec
<1>2. HistoryInit => OnlyInserts /\ SeenNow
  BY DEF HistoryInit, Init, OnlyInserts, SeenNow, Open
<1>3. AnchoredInv /\ OnlyInserts /\ SeenNow /\ [HistoryNext]_historyVars
        => OnlyInserts' /\ SeenNow'
  <2> SUFFICES ASSUME AnchoredInv, OnlyInserts, SeenNow, [HistoryNext]_historyVars
               PROVE  OnlyInserts' /\ SeenNow'
    OBVIOUS
  <2>1. CASE UNCHANGED historyVars
    BY <2>1 DEF historyVars, vars, OnlyInserts, SeenNow, Open, Members, Attached
  <2>2. CASE HistoryNext
    <3>1. OnlyInserts'
      <4>1. CASE UNCHANGED vars
        BY <4>1 DEF vars, OnlyInserts
      <4> QED
        BY <2>2, <4>1, OnlyInsertsStep DEF HistoryNext, Next
    <3>2. SeenNow'
      BY <2>2 DEF HistoryNext, SeenNow
    <3> QED
      BY <3>1, <3>2
  <2> QED
    BY <2>1, <2>2
<1>4. HistorySpec => []LinInv
  BY <1>1, <1>2, <1>3, AnchoredAlways, PTL DEF HistorySpec, LinInv
<1>5. HistoryInit => Promise!Init
  BY PromiseInit, TypeInit DEF HistoryInit
<1>6. LinInv /\ LinInv' /\ [HistoryNext]_historyVars => [Promise!Next]_(Promise!vars)
  <2> SUFFICES ASSUME LinInv, LinInv', [HistoryNext]_historyVars
               PROVE  [Promise!Next]_(Promise!vars)
    OBVIOUS
  <2>1. CASE UNCHANGED historyVars
    BY <2>1 DEF historyVars, vars, Promise!vars, Open, Members, Attached
  <2>2. CASE HistoryNext
    <3>1. CASE UNCHANGED vars
      <4>1. Members' = Members /\ Open' = Open /\ UNCHANGED <<op, val, ans, pc>>
        BY <3>1 DEF vars, Members, Attached, Open
      <4>2. seen' = seen
        BY <2>2, <4>1, WatchIsHistory, NothingNewSeen DEF LinInv
      <4> QED
        BY <4>1, <4>2 DEF Promise!vars
    <3>2. ASSUME NEW t \in Thread, Begin(t) \/ Step(t)
          PROVE  [Promise!Next]_(Promise!vars)
      BY <2>2, <3>2, StepsKeepPromise DEF LinInv, AnchoredInv
    <3> QED
      BY <2>2, <3>1, <3>2 DEF HistoryNext, Next
  <2> QED
    BY <2>1, <2>2
<1> QED
  BY <1>4, <1>5, <1>6, PTL DEF HistorySpec, Linearizable, Promise!Spec

=============================================================================
