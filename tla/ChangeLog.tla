----------------------------- MODULE ChangeLog -----------------------------
(***************************************************************************)
(* The concurrent map as a set of pairs (concurrent/map.rs, core/pair.rs)  *)
(* and the change events of its inserts and removes (cdc/change.rs, and    *)
(* under the feature cdc concurrent/set.rs and concurrent/operation.rs),   *)
(* with the consumer of the map's tests, which rebuilds the nodes from the *)
(* events in the order of their ids.                                       *)
(*                                                                         *)
(* A pair compares by its key alone.  ConcurrentSet has the keys, `stored` *)
(* the values, and a thread stores itself.  Ids only order events, so that *)
(* the consumer applies an event where it gets its id.  That is within the *)
(* action that the event is about, which a node's mutex or the write lock  *)
(* covers, but for the first node of an index and for a node dropped: the  *)
(* id of the one is drawn before, of the other after the index changes,    *)
(* and creators of first nodes, who hold no lock, may come between.  (They *)
(* may come between two ids of one action too, but then the index is not   *)
(* empty, and events may have gone astray.)                                *)
(***************************************************************************)
EXTENDS ConcurrentSet, SequencesExt

VARIABLES
    stored,   \* the values of the pairs of each node, by key
    replica,  \* the consumer: its nodes by greatest key, whether it has panicked
    midway,   \* the threads between the index and the id of a node's making or end
    astray    \* whether events may have gone astray, see GoesAstray

logVars == <<vars, stored, replica, midway, astray>>

Sorted(S) == SetToSortSeq(S, LAMBDA a, b : a < b)
PairsOf(S, value) == [i \in DOMAIN Sorted(S) |-> <<Sorted(S)[i], value[Sorted(S)[i]]>>]
Key(pair) == pair[1]

-----------------------------------------------------------------------------
(* Change events; positions count from 0 *)

CreateNodeEvent(pair) == [kind |-> "create_node", max |-> Key(pair), pair |-> pair]
RemoveNodeEvent(max) == [kind |-> "remove_node", max |-> max]
InsertAtEvent(max, i, pair) == [kind |-> "insert_at", max |-> max, at |-> i, pair |-> pair]
RemoveAtEvent(max, i, pair) == [kind |-> "remove_at", max |-> max, at |-> i, pair |-> pair]
SplitNodeEvent(max, i) == [kind |-> "split_node", max |-> max, at |-> i]

(* The consumer: PersistedBTreeMap::persist *)

Under(nodes, max, pairs) == [nodes EXCEPT ![max] = pairs]
Without(nodes, max) == [nodes EXCEPT ![max] = <<>>]
\* A node goes under the key of its last pair, if it has one.
Rekey(nodes, pairs) == IF pairs = <<>> THEN nodes ELSE Under(nodes, Key(Last(pairs)), pairs)

Persist(nodes, e) ==
    LET old == nodes[e.max]
    IN CASE e.kind = "create_node" -> Under(nodes, e.max, <<e.pair>>)
         [] e.kind = "remove_node" -> Without(nodes, e.max)
         [] old = <<>> -> nodes
         [] e.kind = "insert_at" ->
              LET new == InsertAt(old, e.at + 1, e.pair)
              IN IF e.max < Key(e.pair) THEN Under(Without(nodes, e.max), Key(e.pair), new)
                 ELSE Under(nodes, e.max, new)
         [] e.kind = "remove_at" ->
              LET new == RemoveAt(old, e.at + 1)
              IN IF e.max = Key(e.pair) THEN Rekey(Without(nodes, e.max), new)
                 ELSE Under(nodes, e.max, new)
         [] e.kind = "split_node" ->
              LET high == SubSeq(old, e.at + 1, Len(old))
                  low == SubSeq(old, 1, e.at)
              IN Rekey(Rekey(Without(nodes, e.max), high), low)

\* A position past the end, a half without a last pair, or no node to rename.
Panics(nodes, e) ==
    LET len == Len(nodes[e.max])
    IN CASE e.kind = "insert_at" -> IF len = 0 THEN e.max < Key(e.pair) ELSE e.at > len
         [] e.kind = "remove_at" -> len > 0 /\ e.at >= len
         [] e.kind = "split_node" -> len > 0 /\ e.at \notin 1..(len - 1)
         [] OTHER -> FALSE

Apply(r, e) ==
    IF r.panicked \/ Panics(r.nodes, e) THEN [r EXCEPT !.panicked = TRUE]
    ELSE [r EXCEPT !.nodes = Persist(@, e)]

\* The events get their ids, in this order.
Emit(events) == replica' = FoldLeft(Apply, replica, events)

-----------------------------------------------------------------------------
(* The actions of ConcurrentSet that change a node, with what they emit *)

Pair(t) == <<val[t], t>>
OldPair(t) == <<val[t], stored[node[t]][val[t]]>>
Store(t, nodes) ==
    stored' = [n \in NodeId |->
                 IF n \in nodes THEN [stored[node[t]] EXCEPT ![val[t]] = t] ELSE stored[n]]

\* The id of the first node is drawn, and then the node goes into the index,
\* both without a lock.
LogCreateId(t) ==
    /\ pc[t] = "create_node"
    /\ Emit(<<CreateNodeEvent(Pair(t))>>)
    /\ midway' = midway \cup {t}
    /\ UNCHANGED <<vars, stored>>

LogCreate(t) ==
    /\ \/ /\ CreateNode(t)
          /\ stored' = [stored EXCEPT ![Fresh] = [@ EXCEPT ![val[t]] = t]]
       \/ CreateSwept(t) /\ UNCHANGED stored
    /\ midway' = midway \ {t}
    /\ UNCHANGED replica

LogInsert(t) ==
    /\ PutInside(t) \/ PutNewMax(t)
    /\ Store(t, {node[t]})
    /\ LET max == IF Held(t) = {} THEN val[t] ELSE Max(Held(t))
       IN Emit(<<InsertAtEvent(max, Rank(Held(t), val[t]), Pair(t))>>)

\* Mutant: the pair that replaces the last of a node is inserted under itself.
ReplaceEvents_SameMax(t) ==
    LET max == Max(Held(t))
        i == Rank(Held(t), val[t])
    IN IF Held(t) = {val[t]}
       THEN <<RemoveNodeEvent(max), CreateNodeEvent(Pair(t))>>
       ELSE <<RemoveAtEvent(max, i, Pair(t)), InsertAtEvent(max, i, Pair(t))>>
\* The events that stand for a replacement, around the pair's neighbours.
ReplaceEvents(t) ==
    LET max == Max(Held(t))
        i == Rank(Held(t), val[t])
    IN CASE Held(t) = {val[t]} ->
              <<RemoveNodeEvent(max), CreateNodeEvent(Pair(t))>>
         [] Held(t) # {val[t]} /\ val[t] = max ->
              <<RemoveAtEvent(max, i, Pair(t)),
                InsertAtEvent(Max(Held(t) \ {max}), i, Pair(t))>>
         [] OTHER ->
              <<RemoveAtEvent(max, i, Pair(t)), InsertAtEvent(max, i, Pair(t))>>

\* put_cdc: the pair takes the place of the one with its key.
LogReplace(t) ==
    /\ PutExisting(t)
    /\ Store(t, {node[t]})
    /\ Emit(ReplaceEvents(t))

LogRemove(t) ==
    /\ RemoveInside(t) \/ RemoveMax(t)
    /\ Emit(<<RemoveAtEvent(Max(Held(t)), Rank(Held(t), val[t]), OldPair(t))>>)
    /\ UNCHANGED stored

\* The half that the pair goes to.
Half(t) == IF GoesLow(t) THEN LowerHalf(Held(t)) ELSE UpperHalf(Held(t))

LogSplit(t) ==
    /\ SplitLow(t) \/ SplitHigh(t) \/ SplitSingle(t)
    /\ Store(t, {node[t], Fresh})
    /\ LET i == Rank(Half(t), val[t])
           max == Max(Half(t))
       IN Emit(<<SplitNodeEvent(Max(Held(t)), Cardinality(LowerHalf(Held(t))))>>
               \o (IF val[t] \in Half(t) THEN <<RemoveAtEvent(max, i, OldPair(t))>> ELSE <<>>)
               \o <<InsertAtEvent(max, i, Pair(t))>>)

\* guard.max().expect("node should be non empty if split"): the thread is gone.
LogSplitEmpty(t) ==
    /\ Commit(t, "split")
    /\ OwnsEntry(t) /\ Held(t) = {}
    /\ Restart(t, "idle") /\ ReleaseWrite
    /\ calls' = [calls EXCEPT ![t] = MaxCalls]
    /\ UNCHANGED <<structure, op, val, ans, stored, replica>>

\* DropEntry, in two steps: commit takes the entry out, and remove_cdc draws the
\* id of the event before the write lock is released.
LogDrop(t) ==
    /\ Commit(t, "unreach")
    /\ OwnsEntry(t) /\ Shrunk(t)
    /\ index' = [index EXCEPT ![key[t]] = NoNode]
    /\ midway' = midway \cup {t}
    /\ UNCHANGED <<content, locks, pc, node, key, request, ans, stored, replica>>

LogDropId(t) ==
    /\ pc[t] = "unreach"
    /\ Emit(<<RemoveNodeEvent(key[t])>>)
    /\ Answer(t, TRUE) /\ ReleaseWrite
    /\ midway' = midway \ {t}
    /\ UNCHANGED <<structure, request, stored>>

LogNothing(t) ==
    /\ \/ Begin(t)
       \/ PutLocate(t) \/ PutAboveKeys(t) \/ PutBack(t) \/ PutEmpty(t)
       \/ CreateTry(t) \/ CreateContended(t) \/ PutFull(t)
       \/ RemoveLocate(t) \/ RemoveAboveKeys(t) \/ RemoveAbsent(t) \/ RemoveLast(t)
       \/ AcquireWrite(t) \/ SplitStale(t)
       \/ MoveEntry(t) \/ MoveNothing(t) \/ KeepEntry(t)
    /\ UNCHANGED <<stored, replica>>

LogInit ==
    /\ Init
    /\ stored = [n \in NodeId |-> [v \in Value |-> NoThread]]
    /\ replica = [nodes |-> [k \in Value |->
                                IF index[k] = NoNode THEN <<>>
                                ELSE PairsOf(content[index[k]], stored[index[k]])],
                  panicked |-> FALSE]
    /\ midway = {}
    /\ astray = FALSE

\* What may make the consumer lose track: an insert into a node that has been
\* emptied, or an emptied node that keeps its entry, of which no event tells;
\* a split of a node with fewer than two pairs, or one that replaces the last
\* pair of a half, whose events name a node that is not there; and a first node
\* made, in either step, over others or while another is being made or dropped.
GoesAstray(t) ==
    \/ pc[t] = "create_node" /\ (Keys # {} \/ midway \ {t} # {})
    \/ pc[t] = "put_node" /\ Held(t) = {}
    \/ Commit(t, "unreach") /\ t \notin midway /\ ~(OwnsEntry(t) /\ Shrunk(t))
    \/ /\ Commit(t, "split") /\ OwnsEntry(t)
       /\ Cardinality(Held(t)) < 2 \/ val[t] = Max(Half(t))

LogNext ==
    \/ \E t \in Thread :
         /\ \/ t \in midway /\ (LogCreate(t) \/ LogDropId(t))
            \/ t \notin midway /\ (LogCreateId(t) \/ LogDrop(t))
            \/ /\ t \notin midway
               /\ \/ LogNothing(t) \/ LogInsert(t) \/ LogReplace(t)
                  \/ LogRemove(t) \/ LogSplit(t) \/ LogSplitEmpty(t)
               /\ UNCHANGED midway
         /\ astray' = (astray \/ GoesAstray(t))
    \/ AllDone /\ UNCHANGED logVars

LogSpec == LogInit /\ [][LogNext]_logVars

-----------------------------------------------------------------------------
\* insert_cdc and remove_cdc: until events go astray, the consumer holds in every
\* state what the nodes hold, pair for pair, under the keys that the index will
\* have once the pending operations are committed.
ReplicaFollows == ~astray =>
      /\ ~replica.panicked
      /\ \A n \in Attached : content[n] # {} =>
           replica.nodes[Max(content[n])] = PairsOf(content[n], stored[n])
      /\ \A k \in Value : replica.nodes[k] # <<>> =>
           \/ \E n \in Attached : content[n] # {} /\ Max(content[n]) = k
           \/ \E t \in Thread : pc[t] = "unreach" /\ key[t] = k
           \/ \E t \in midway : pc[t] = "create_node" /\ val[t] = k

-----------------------------------------------------------------------------
(* What the repository says and the code does not keep to *)

\* map.rs, test_concurrent_insert_cdc, `assert_eq!(mock_state.nodes,
\* expected_state)`: when all is quiet, the consumer holds what the map holds.
\* And set.rs, put_cdc_checked, of the id of a first node: "is correct as index is
\* locked and current thread is the only that can fetch event_id".
ReplicaEqual == Quiet =>
      /\ ~replica.panicked
      /\ replica.nodes = [k \in Value |->
            IF index[k] = NoNode THEN <<>>
            ELSE PairsOf(content[index[k]], stored[index[k]])]
=============================================================================
