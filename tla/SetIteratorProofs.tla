-------------------------- MODULE SetIteratorProofs --------------------------
(***************************************************************************)
(* In and between calls of next and next_back a caller never holds two     *)
(* mutexes, for every set of threads, nodes, values and ranges and any     *)
(* number of calls.  (Range::new locks a neighbour while it holds a node;  *)
(* the model has one caller of it, and no guard outlives the call.)        *)
(***************************************************************************)
EXTENDS SetIterator, FiniteSetTheorems, TLAPS

\* Where an end is while the iterator holds no guard at all.
Bare == {"new", "new_back", "range_back", "range_met", "find", "move", "open_all"}
Places == Location \cup Bare \cup {"rest", "step"}

\* What a node is does not matter here.
IterTypes ==
    /\ pc \in [Thread -> Places]
    /\ node = [t \in Thread |-> node[t]]
    /\ holder \in [NodeId -> Thread \cup {NoThread}]

Guarded(n) == holder[n] \in Ends

\* HoldsOneNode is not inductive alone.  The caller is in one call at a time; a
\* guard is one of the node of its end; and wherever the code goes on to lock a
\* node without another look at the guards, there is none.
OneCall == pc[Front] = "rest" \/ pc[Back] = "rest"
GuardsFit == \A n \in NodeId : Guarded(n) => node[holder[n]] = n
BareIsBare == \A e \in Ends : pc[e] \in Bare => \A n \in NodeId : ~Guarded(n)
OneGuard == \A m, n \in NodeId : Guarded(m) /\ Guarded(n) => m = n

GuardInv == IterTypes /\ OneCall /\ GuardsFit /\ BareIsBare /\ OneGuard

-----------------------------------------------------------------------------
LEMMA GuardInit == IterInit => GuardInv
<1> SUFFICES ASSUME IterInit PROVE GuardInv
  OBVIOUS
<1>1. IterTypes
  BY EndsAssumption DEF IterInit, IterTypes, Places, Location, Ready, Bare
<1>2. \A n \in NodeId : ~Guarded(n)
  BY EndsAssumption, NullAssumption DEF IterInit, Guarded, Ends
<1>3. OneCall
  BY EndsAssumption DEF IterInit, OneCall, Ends
<1> QED
  BY <1>1, <1>2, <1>3 DEF GuardInv, GuardsFit, BareIsBare, OneGuard

-----------------------------------------------------------------------------
(* The other threads *)

\* A thread gives away mutexes or takes free ones, and moves only itself on.
LEMMA WorkerKeepsGuards ==
    ASSUME IterTypes, NEW t \in Worker, Begin(t) \/ Step(t)
    PROVE  /\ pc' \in [Thread -> Places]
           /\ node' = [u \in Thread |-> node'[u]]
           /\ holder' \in [NodeId -> Thread \cup {NoThread}]
           /\ \A e \in Ends : pc'[e] = pc[e] /\ node'[e] = node[e]
           /\ \A n \in NodeId : holder'[n] \in Ends => holder'[n] = holder[n]
<1>1. t \in Thread /\ t \notin Ends /\ Ends \subseteq Thread /\ NoThread \notin Ends
  BY EndsAssumption, NullAssumption DEF Worker
<1>2. Free # {} => Fresh \in NodeId
  BY DEF Fresh, Free
<1> USE <1>1, <1>2
    DEF IterTypes, Places, Location, Ready, Pending, structure, locks, request,
        Take, Goto, Restart, Answer, Defer, AcquireRead, ReleaseRead, ReleaseWrite
<1>3. CASE Begin(t)
  BY <1>3 DEF Begin, CallInsert, CallRemove, CallContains, CallGet, Call
<1>4. CASE PutStep(t)
  BY <1>4 DEF PutStep, PutLocate, PutAboveKeys, PutBack, PutEmpty, CreateTry,
     CreateContended, CreateNode, CreateSwept, PutFull, PutExisting, PutInside,
     PutNewMax
<1>5. CASE RemoveStep(t)
  BY <1>5 DEF RemoveStep, RemoveLocate, RemoveAboveKeys, RemoveAbsent,
     RemoveInside, RemoveMax, RemoveLast
<1>6. CASE FindStep(t)
  <2>1. CASE GetRef(t)
    BY <2>1 DEF GetRef
  <2>2. CASE DropRef(t)
    BY <2>2 DEF DropRef
  <2> QED
    BY <1>6, <2>1, <2>2 DEF FindStep, FindLocate, FindAboveKeys, FindBack,
       FindNoBack, FindFront, FindNothing, FindAnswer
<1>7. CASE CommitStep(t)
  <2>1. CASE AcquireWrite(t) \/ SplitStale(t) \/ MoveNothing(t) \/ KeepEntry(t)
    BY <2>1 DEF AcquireWrite, SplitStale, MoveNothing, KeepEntry
  <2>2. CASE SplitEmpty(t) \/ DropEntry(t) \/ MoveEntry(t)
    BY <2>2 DEF SplitEmpty, DropEntry, MoveEntry
  <2>3. CASE SplitLow(t) \/ SplitHigh(t) \/ SplitSingle(t)
    BY <2>3 DEF SplitLow, SplitHigh, SplitSingle, Split
  <2> QED
    BY <1>7, <2>1, <2>2, <2>3 DEF CommitStep
<1> QED
  BY <1>3, <1>4, <1>5, <1>6, <1>7 DEF Step

LEMMA WorkersKeepInv ==
    ASSUME GuardInv, NEW t \in Worker, WorkerNext(t)
    PROVE  GuardInv'
<1>1. /\ pc' \in [Thread -> Places]
      /\ node' = [u \in Thread |-> node'[u]]
      /\ holder' \in [NodeId -> Thread \cup {NoThread}]
      /\ \A e \in Ends : pc'[e] = pc[e] /\ node'[e] = node[e]
      /\ \A n \in NodeId : holder'[n] \in Ends => holder'[n] = holder[n]
  BY WorkerKeepsGuards DEF GuardInv, WorkerNext
<1>2. IterTypes'
  BY <1>1 DEF GuardInv, IterTypes, WorkerNext
<1>3. \A n \in NodeId : Guarded(n)' => Guarded(n) /\ holder'[n] = holder[n]
  BY <1>1 DEF Guarded
<1>4. OneCall'
  BY <1>1 DEF GuardInv, OneCall, Ends
<1>5. GuardsFit' /\ BareIsBare' /\ OneGuard'
  BY <1>1, <1>3 DEF GuardInv, GuardsFit, BareIsBare, OneGuard, Guarded
<1> QED
  BY <1>2, <1>4, <1>5 DEF GuardInv

LEMMA TearsKeepInv ==
    ASSUME GuardInv, NEW t \in Worker, TearNext(t)
    PROVE  GuardInv'
<1>1. UNCHANGED <<pc, node, holder>>
  BY DEF TearNext, vars
<1> QED
  BY <1>1 DEF GuardInv, IterTypes, OneCall, GuardsFit, BareIsBare, OneGuard, Guarded

-----------------------------------------------------------------------------
(* The caller *)

LEMMA MakingKeepsInv ==
    ASSUME GuardInv, Make
    PROVE  GuardInv'
<1>1. /\ pc[Front] \in Bare
      /\ pc' = [pc EXCEPT ![Front] = pc'[Front]] /\ pc'[Front] \in Bare \cup {"rest"}
      /\ node' = [u \in Thread |-> node'[u]]
      /\ UNCHANGED holder
  <2> USE EndsAssumption
      DEF GuardInv, IterTypes, At, Continue, structure, locks, Bare, Ends, Shown,
          StartAt, ReleaseRead
  <2>1. CASE IterNewFront \/ IterNewBack
    BY <2>1 DEF IterNewFront, IterNewBack, IterNew
  <2>2. CASE RangeNewFront
    BY <2>2 DEF RangeNewFront
  <2>3. CASE RangeNewBack
    BY <2>3 DEF RangeNewBack
  <2>4. CASE RangeNewMet
    BY <2>4 DEF RangeNewMet
  <2> QED
    BY <2>1, <2>2, <2>3, <2>4 DEF Make
<1>2. \A n \in NodeId : ~Guarded(n)
  BY <1>1 DEF GuardInv, BareIsBare, Ends
<1>3. pc[Back] = "rest"
  BY <1>1 DEF GuardInv, OneCall, Bare
<1> QED
  BY <1>1, <1>2, <1>3, EndsAssumption
     DEF GuardInv, IterTypes, OneCall, GuardsFit, BareIsBare, OneGuard, Guarded,
         Places, Ends

LEMMA CallingKeepsInv ==
    ASSUME GuardInv, NEW e \in Ends, CallNext(e)
    PROVE  GuardInv'
<1>1. /\ \A x \in Ends : pc[x] = "rest"
      /\ pc' = [pc EXCEPT ![e] = "step"] /\ UNCHANGED <<node, holder>>
  BY DEF CallNext, Resting, Continue, locks
<1> QED
  BY <1>1, EndsAssumption
     DEF GuardInv, IterTypes, OneCall, GuardsFit, BareIsBare, OneGuard, Guarded,
         Places, Bare, Ends

\* A step of next or next_back leaves the other end where it is.
LEMMA OtherRests ==
    ASSUME GuardInv, NEW e \in Ends, pc[e] # "rest"
    PROVE  /\ Other(e) \in Ends /\ Other(e) # e /\ Ends = {e, Other(e)}
           /\ Ends \subseteq Thread /\ NoThread \notin Ends
           /\ pc[Other(e)] = "rest"
  BY EndsAssumption, NullAssumption DEF GuardInv, OneCall, Other, Ends

\* An end without a node has no guard.
LEMMA NoNodeNoGuard ==
    ASSUME GuardInv, NEW e \in Ends, node[e] \notin NodeId, NEW n \in NodeId
    PROVE  holder[n] # e
  BY DEF GuardInv, GuardsFit, Guarded

\* The end arrives at a node that its other end may have locked.
LEMMA ArrivingKeepsInv ==
    ASSUME GuardInv, NEW e \in Ends, pc[e] # "rest", NEW m, Arrive(e, m),
           \A n \in NodeId : holder[n] # e
    PROVE  GuardInv'
<1> DEFINE o == Other(e)
<1>1. /\ o \in Ends /\ o # e /\ Ends = {e, o} /\ Ends \subseteq Thread
      /\ NoThread \notin Ends /\ pc[o] = "rest"
  BY OtherRests
<1>2. /\ node' = [node EXCEPT ![e] = m]
      /\ pc' = [pc EXCEPT ![e] = IF node[o] = NoNode THEN "open_all" ELSE "step"]
      /\ \/ UNCHANGED holder
         \/ m = node[o] /\ holder' = [holder EXCEPT ![m] = IF @ = o THEN e ELSE @]
      /\ m # node[o] => UNCHANGED holder
      /\ m = node[o] => holder' = [holder EXCEPT ![m] = IF @ = o THEN e ELSE @]
  BY DEF Arrive, Continue
<1>3. IterTypes'
  BY <1>1, <1>2 DEF GuardInv, IterTypes, Places, Bare
<1>4. OneCall'
  BY <1>1, <1>2 DEF GuardInv, IterTypes, OneCall, Ends
<1>5. \A n \in NodeId : Guarded(n)' => holder[n] = o /\ n = node[o]
  BY <1>1, <1>2 DEF GuardInv, IterTypes, GuardsFit, Guarded
<1>6. GuardsFit' /\ OneGuard'
  BY <1>1, <1>2, <1>5 DEF GuardInv, IterTypes, GuardsFit, OneGuard, Guarded
<1>7. BareIsBare'
  <2>1. CASE node[o] = NoNode
    BY <1>5, <2>1, NullAssumption DEF BareIsBare
  <2>2. CASE node[o] # NoNode
    BY <1>1, <1>2, <2>2 DEF GuardInv, IterTypes, BareIsBare, Bare
  <2> QED
    BY <2>1, <2>2
<1> QED
  BY <1>3, <1>4, <1>6, <1>7 DEF GuardInv

\* The end locks a node while no node is locked.
LEMMA LockingKeepsInv ==
    ASSUME GuardInv, NEW e \in Ends, pc[e] # "rest", NEW S, LockNode(e, S),
           \A n \in NodeId : ~Guarded(n)
    PROVE  GuardInv'
<1>1. /\ pc' = [pc EXCEPT ![e] = "step"] /\ UNCHANGED node
      /\ holder' = [holder EXCEPT ![node[e]] = e]
  BY DEF LockNode, Continue
<1>2. /\ Ends \subseteq Thread /\ Ends = {e, Other(e)} /\ Other(e) # e
      /\ pc[Other(e)] = "rest" /\ Other(e) \in Ends
  BY OtherRests
<1>3. IterTypes' /\ OneCall'
  BY <1>1, <1>2 DEF GuardInv, IterTypes, OneCall, Places, Ends
<1>4. \A n \in NodeId : Guarded(n)' => n = node[e] /\ holder'[n] = e
  BY <1>1 DEF GuardInv, IterTypes, Guarded
<1>5. GuardsFit' /\ OneGuard'
  BY <1>1, <1>4 DEF GuardsFit, OneGuard
<1>6. BareIsBare'
  BY <1>1, <1>2 DEF GuardInv, IterTypes, BareIsBare, Bare
<1> QED
  BY <1>3, <1>5, <1>6 DEF GuardInv

\* The end lets go of guards, its own or the other's, or only moves on.
LEMMA LettingGoKeepsInv ==
    ASSUME GuardInv, NEW e \in Ends, pc[e] # "rest",
           NEW there \in Places, pc' = [pc EXCEPT ![e] = there],
           UNCHANGED node,
           holder' \in [NodeId -> Thread \cup {NoThread}],
           \A n \in NodeId : Guarded(n)' => holder'[n] = holder[n],
           there \in Bare => \A n \in NodeId : ~Guarded(n)'
    PROVE  GuardInv'
<1>1. /\ Ends \subseteq Thread /\ Ends = {e, Other(e)} /\ Other(e) # e
      /\ pc[Other(e)] = "rest" /\ Other(e) \in Ends
  BY OtherRests
<1>2. IterTypes' /\ OneCall'
  BY <1>1 DEF GuardInv, IterTypes, OneCall, Ends
<1>3. GuardsFit' /\ OneGuard'
  BY DEF GuardInv, GuardsFit, OneGuard, Guarded
<1>4. BareIsBare'
  BY <1>1 DEF GuardInv, IterTypes, BareIsBare, Bare
<1> QED
  BY <1>2, <1>3, <1>4 DEF GuardInv

\* The end gives up its node where there is no guard.
LEMMA LeavingKeepsInv ==
    ASSUME GuardInv, NEW e \in Ends, NextLost(e) \/ NextEnd(e)
    PROVE  GuardInv'
<1>1. /\ pc[e] \in Bare /\ pc' = [pc EXCEPT ![e] = "rest"]
      /\ node' = [node EXCEPT ![e] = NoNode] /\ UNCHANGED holder
  BY DEF NextLost, NextEnd, At, AnswerNone, Continue, locks, Bare
<1>2. \A n \in NodeId : ~Guarded(n)'
  BY <1>1 DEF GuardInv, BareIsBare, Guarded
<1>3. IterTypes' /\ OneCall'
  BY <1>1, OtherRests DEF GuardInv, IterTypes, OneCall, Places, Bare, Ends
<1> QED
  BY <1>2, <1>3 DEF GuardInv, GuardsFit, BareIsBare, OneGuard

LEMMA IterStepKeepsInv ==
    ASSUME GuardInv, NEW e \in Ends, IterStep(e)
    PROVE  GuardInv'
<1>1. CASE NextMet(e) \/ NextNothing(e) \/ NextYield(e) \/ NextMeet(e)
  <2>1. /\ pc[e] # "rest" /\ pc' = [pc EXCEPT ![e] = "rest"] /\ UNCHANGED <<node, holder>>
    BY <1>1 DEF NextMet, NextNothing, NextYield, NextMeet, Walking, At, AnswerNone,
       Continue, locks
  <2> QED
    BY <2>1, LettingGoKeepsInv DEF Guarded, GuardInv, IterTypes, Places, Bare
<1>2. CASE NextUnlockOther(e) \/ NextExhausted(e)
  <2>1. NoThread \notin Ends
    BY EndsAssumption, NullAssumption
  <2>2. CASE NextUnlockOther(e)
    <3>1. /\ pc[e] = "step" /\ pc' = [pc EXCEPT ![e] = "step"] /\ UNCHANGED node
          /\ holder' = Unlock(Other(e))
      BY <2>2, EndsAssumption DEF NextUnlockOther, At, GuardInv, IterTypes
    <3>2. /\ holder' \in [NodeId -> Thread \cup {NoThread}]
          /\ \A n \in NodeId : Guarded(n)' => holder'[n] = holder[n]
      BY <2>1, <3>1 DEF Unlock, Guarded, GuardInv, IterTypes
    <3> QED
      BY <3>1, <3>2, LettingGoKeepsInv DEF Places, Bare
  <2>3. CASE NextExhausted(e)
    <3>1. /\ pc[e] = "step" /\ pc' = [pc EXCEPT ![e] = "find"] /\ UNCHANGED node
          /\ holder' = Unlock(e) /\ \A n \in NodeId : holder[n] # Other(e)
      BY <2>3 DEF NextExhausted, Walking, OtherUnlocked, Guards, At, Continue
    <3>2. /\ holder' \in [NodeId -> Thread \cup {NoThread}]
          /\ \A n \in NodeId : ~Guarded(n)'
      BY <2>1, <3>1, OtherRests DEF Unlock, Guarded, GuardInv, IterTypes
    <3> QED
      BY <3>1, <3>2, LettingGoKeepsInv DEF Places, Bare
  <2> QED
    BY <1>2, <2>2, <2>3
<1>3. CASE NextStart(e)
  <2>1. /\ pc[e] # "rest" /\ node[e] \notin NodeId
        /\ Arrive(e, view[Nearest(e, Shown)])
    BY <1>3, NullAssumption DEF NextStart, At
  <2> QED
    BY <2>1, NoNodeNoGuard, ArrivingKeepsInv
<1>4. CASE NextMove(e)
  <2>1. /\ pc[e] = "move"
        /\ Arrive(e, view[Nearest(e, {k \in Shown : Beyond(e, k, key[e])})])
    BY <1>4 DEF NextMove, At
  <2>2. \A n \in NodeId : holder[n] # e
    BY <2>1 DEF GuardInv, BareIsBare, Bare, Guarded
  <2> QED
    BY <2>1, <2>2, ArrivingKeepsInv
<1>5. CASE NextFind(e)
  <2>1. /\ pc[e] = "find" /\ pc' = [pc EXCEPT ![e] = "move"] /\ UNCHANGED <<node, holder>>
    BY <1>5 DEF NextFind, At, Continue, locks
  <2>2. \A n \in NodeId : ~Guarded(n)'
    BY <2>1 DEF GuardInv, BareIsBare, Bare, Guarded
  <2> QED
    BY <2>1, <2>2, LettingGoKeepsInv DEF GuardInv, IterTypes, Places, Bare
<1>6. CASE NextOpen(e)
  <2>1. /\ pc[e] # "rest" /\ LockNode(e, ToCome(e))
        /\ \A n \in NodeId : holder[n] # e /\ holder[n] # Other(e)
    BY <1>6 DEF NextOpen, Walking, OtherUnlocked, Guards, At
  <2>2. \A n \in NodeId : ~Guarded(n)
    BY <2>1, OtherRests DEF Guarded
  <2> QED
    BY <2>1, <2>2, LockingKeepsInv
<1>7. CASE NextOpenAll(e)
  <2>1. pc[e] = "open_all" /\ LockNode(e, content[node[e]])
    BY <1>7 DEF NextOpenAll, At
  <2>2. \A n \in NodeId : ~Guarded(n)
    BY <2>1 DEF GuardInv, BareIsBare, Bare
  <2> QED
    BY <2>1, <2>2, LockingKeepsInv
<1> QED
  BY <1>1, <1>2, <1>3, <1>4, <1>5, <1>6, <1>7, LeavingKeepsInv DEF IterStep

LEMMA DroppingKeepsInv ==
    ASSUME GuardInv, DropIter
    PROVE  GuardInv'
<1>1. /\ \A n \in NodeId : ~Guarded(n)'
      /\ holder' \in [NodeId -> Thread \cup {NoThread}] /\ UNCHANGED <<pc, node>>
  BY EndsAssumption, NullAssumption DEF DropIter, Guarded, GuardInv, IterTypes
<1> QED
  BY <1>1 DEF GuardInv, IterTypes, OneCall, GuardsFit, BareIsBare, OneGuard

-----------------------------------------------------------------------------
LEMMA OneGuardMeans == OneGuard => HoldsOneNode
<1> SUFFICES ASSUME OneGuard PROVE HoldsOneNode
  OBVIOUS
<1> DEFINE S == {n \in NodeId : holder[n] \in Ends}
<1>1. CASE S = {}
  BY <1>1, FS_EmptySet DEF HoldsOneNode
<1>2. CASE S # {}
  <2>1. PICK m \in S : TRUE
    BY <1>2
  <2>2. S = {m}
    BY <2>1 DEF OneGuard, Guarded
  <2>3. Cardinality(S) = 1
    BY <2>2, FS_Singleton
  <2> QED
    BY <2>3 DEF HoldsOneNode
<1> QED
  BY <1>1, <1>2

\* HoldsOneNode, for any threads, nodes, values and ranges: next and next_back
\* never lock a node while either end of the iterator still has a guard, also
\* where one end takes over the other's node and guard.
THEOREM IteratorsHoldOneNode == IterSpec => []HoldsOneNode
<1>1. GuardInv /\ [IterNext]_iterVars => GuardInv'
  <2> SUFFICES ASSUME GuardInv, [IterNext]_iterVars PROVE GuardInv'
    OBVIOUS
  <2>1. CASE UNCHANGED iterVars
    BY <2>1 DEF iterVars, vars, GuardInv, IterTypes, OneCall, GuardsFit,
       BareIsBare, OneGuard, Guarded
  <2>2. CASE CallerNext
    BY <2>2, MakingKeepsInv, DroppingKeepsInv, CallingKeepsInv, IterStepKeepsInv
       DEF CallerNext
  <2>3. CASE \E t \in Worker : WorkerNext(t) \/ TearNext(t)
    BY <2>3, WorkersKeepInv, TearsKeepInv
  <2> QED
    BY <2>1, <2>2, <2>3 DEF IterNext
<1>2. GuardInv => HoldsOneNode
  BY OneGuardMeans DEF GuardInv
<1> QED
  BY <1>1, <1>2, GuardInit, PTL DEF IterSpec
=============================================================================
