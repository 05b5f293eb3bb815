# Verification of indexset

TLA+ specifications, model-checking configurations and machine-checked proofs for
[indexset](../src/README.md), a two-level ordered set: a list of sorted vectors ("nodes") under an
index, in a single-threaded and a concurrent version. Paths below are relative to the repository
root; `set.rs`, `operation.rs` and `node.rs` stand for `src/concurrent/set.rs`,
`src/concurrent/operation.rs` and `src/core/node.rs`.

To check a run, `tlc -config <run>.cfg <module>`; to check the proofs, `tlapm <module>.tla`. The runs are
listed in `PROJECT.json` and below.

## 1. The system

| Component | State | Operations | Interacts with | Model |
|---|---|---|---|---|
| node vector, `node.rs` | a sorted `Vec<T>` | hand-written binary search; insert, delete, replace, try_select, halve; rank of a range bound | everything is built on it | `NodeSearch`, `NodeVec`, `NodeContent` |
| concurrent `BTreeSet`, `set.rs` | skip map `index`: key -> node behind a mutex; reader-writer lock `index_lock` over the structure; `event_id` (cdc) | insert, remove, contains, get, len, attach_node | nodes, `Operation`, `Ref` | `ConcurrentSet` |
| `Operation::commit`, `operation.rs` | none; what a thread remembers of a node between dropping the read lock and getting the write lock | Split, UpdateMax, MakeUnreachable | skip map and node | `ConcurrentSet`, events in `ChangeLog` |
| `Ref`, `src/concurrent/ref.rs` | a node's mutex guard and a position | get, drop | held by the caller of `get` | `ConcurrentSet` |
| concurrent `Iter`, `Range`, `set.rs` 556-1126 | node, guard, slice iterator and last value at either end | new, next, next_back | skip map and nodes, without the lock | `SetIterator` |
| `remove_range`, `set.rs` 1128-1248 | none | one call under the write lock | skip map and nodes | `RemoveRange` |
| change data capture, `src/cdc/change.rs` | event ids | every mutating operation returns the events a consumer replays | all of the above | `ChangeLog` |
| concurrent `BTreeMap`, `map.rs` | a concurrent set of `Pair`s | insert (replaces), checked_insert, remove, range | concurrent set | `ChangeLog` |
| concurrent `BTreeMultiMap`, `multimap.rs`, `src/core/multipair*` | a concurrent set of pairs with one key many times, told apart by value or by a random discriminator | insert, get, remove, remove_some | concurrent set | `MultiMap` |
| single-threaded `BTreeSet`, `src/lib.rs` | `inner`: list of nodes; `index`: Fenwick tree of their lengths; `len` | insert with split, delete, locate by value or position, append, retain, split_off | Fenwick tree (external `ftree`) | `Tree`, `TreeMap` |
| its iterators, merge iterators, cursors | positions | next, next_back, union, difference, ..., move_next, ... | single-threaded set | `TreeIterators`, `TreeMap` |
| single-threaded `BTreeMap`, `Entry` | a set of `Pair`s | insert, remove, entry API, retain, append, split_off, iter_mut | single-threaded set | `TreeMap`, `AbstractMap` |
| benches | - | workload generators | not part of the library | - |

What makes each correct, and what is hard about it:

- **Node vector.** Sorted, no duplicates, positions answered by `search` are ranks; range bounds skip exactly
  the items outside. Hard: the boundaries of a hand-written search and a count that starts at -1, with
  several items equal to a bound.
- **Concurrent set.** An operation finds a node under the read lock, changes it under the node's mutex, drops
  both and comes back with the write lock to repair the index. In between, other threads may have moved
  the entry, split the node, emptied it, or filled it again, and a node's key need not be its greatest value.
  Every operation should take effect once, with a set's answer; every value should stay where lookups are led;
  no node should be registered twice; every operation should return.
- **Ref.** The position in it is good as long as the node does not change under it.
- **Iterators.** They take no lock over the structure, see the index in the middle of commits, and move on from
  the last value seen; the two ends share guards and must not wait for each other.
- **remove_range.** It empties and drops nodes for which other threads have commits pending.
- **Change data capture.** Ids are drawn where the node is changed and again where the index is; a consumer
  applies events by id and must end with the same nodes.
- **Multi map.** Removing one pair is a search and then a remove, with others in between; the order of random
  pairs is total only as long as no pair is inserted twice.
- **Single-threaded set.** `inner`, the Fenwick tree and `len` must agree through splits and removals; `retain`,
  `append` and `split_off` rebuild; iterators meet inside and between nodes.

`PROJECT.json` lists each hazard at its line with the properties that would show it.

## 2. Modules

| Module | What it is |
|---|---|
| `NodeSearch` | `search` and `compute_positions_to_skip` as operators over a sequence and a comparison |
| `NodeContent` | a node as the finite set of its values: ranks and the halves of `halve` |
| `NodeVec` | the vector with its operations; shown to amount to the operators of `NodeContent` |
| `ConcurrentSet` | threads calling insert, remove, contains and get on the skip map; the core |
| `AbstractSet` | what the set promises: each operation takes effect in one instant of its call |
| `ConcurrentSetHistory` | `ConcurrentSet` with a history variable; the refinement of `AbstractSet` |
| `SetIterator` | `ConcurrentSet` with a caller that iterates from both ends |
| `RemoveRange` | `ConcurrentSet` with calls of remove_range |
| `ChangeLog` | `ConcurrentSet` with the values of a map, the events of each action, and the consumer |
| `MultiMap` | the multi map over a set of one node |
| `Tree` | the single-threaded set as operators over a record: `inner`, Fenwick tree `index`, `len`, `cap` |
| `TreeIterators` | iterators, ranges, merges and cursors of `lib.rs`, as operators on iterator records |
| `TreeMap` | callers of the single-threaded set and map: one action per operation |
| `AbstractMap` | the dictionary that `TreeMap` implements |
| `SetInstances`, `MCConcurrentSet`, `MCLinearizable`, `MCSetIterator`, `MCRemoveRange`, `MCChangeLog`, `MCMultiMap` | values of the constants for TLC, and the symmetry of threads |
| `NodeProofs` | lemmas about maxima, ranks and halves, about vectors with an item more or less, and what `search` answers and `compute_positions_to_skip` counts |
| `NodeVecProofs` | the vector stays sorted, acts as the set operators, and skips what is outside |
| `ConcurrentSetProofs` | types, one key per node, entries that stay, Refs, bounded nodes; keys and greatest values when nobody removes; lookups and linearizability when inserts have a value above them as well |
| `SetIteratorProofs` | an iterator's caller holds one node |
| `MultiMapProofs` | keys together, get, and the calls of a multi map |
| `TreeProofs` | what each operation of `Tree` leaves of a tree and answers |
| `TreeMapProofs` | the loops (append, from_iter, retain), the dictionary of a tree, each action of `TreeMap`; its theorems |
| `TreeIteratorsProofs` | what the iterators, ranges and merges of the single-threaded tree yield |

`SetIterator`, `RemoveRange`, `ChangeLog` and `ConcurrentSetHistory` all EXTEND `ConcurrentSet` and use its
actions as they are; what they say holds while the other threads do everything that `ConcurrentSet` has.

### How `ConcurrentSet` corresponds to the code

`content[n]` is the vector in a node's mutex, `index` the skip map, `readers`/`writer` the `index_lock`,
`holder[n]` the `Ref` that keeps a node's mutex. A thread has a program counter `pc`, the operation and its
argument (`op`, `val`), the node it has found (`node`), the key it will look for when it commits (`key`) and the
answer (`ans`).

| `pc` | The thread is |
|---|---|
| `idle` | outside; its last answer is in `ans` |
| `put`, `rem`, `find` | before `index_lock.read()` (set.rs 142, 361, 451) |
| `put_back`, `find_back`, `find_front` | inside the read lock, after a `lower_bound` that found nothing |
| `put_node`, `rem_node` | inside the read lock, before the node's `lock_arc` |
| `find_node` | outside the read lock with an `Arc` of the node (set.rs 481, 492) |
| `create`, `create_node` | before `try_write`, and in the branch that creates a first node (set.rs 155-168) |
| `split`, `updmax`, `unreach` | with an `Operation` pending, or committing it once `writer` is the thread |
| `ref` | in the caller, who holds a `Ref` |

An action is what a thread does between two points where another can change what it will read next.
A section under a node's mutex is one action, because the mutex protects all it touches. The calls of the skip map
in a `commit` are one action too: only the creator of a first node writes the index without the lock, under one key,
and what it does between those calls it could have done before or after all of them, but for one case. A node that it
puts under the old key after the commit has found its entry there (`index.get`) goes with the commit's
`index.remove` or `index.insert`: that is the action `CreateSwept`, which is possible while `Sweeps` says so of a thread. The skip
map is an atomic ordered map, the sharded lock a reader-writer lock without priorities, a node's mutex
not reentrant. The guard that `try_write().is_ok()` makes is a temporary: it is taken and dropped in `CreateTry`,
and `CreateNode` and `CreateSwept` run without it, as in the code.

`ConcurrentSet` has the code without the `cdc` feature: with it, a split of an emptied node panics (`SplitEmpty`
here, `LogSplitEmpty` in `ChangeLog`). Values are integers and compare as a whole; a `replace` by an equal value
changes nothing (`PutExisting`). Capacity hints of vectors are left out.

### The other modules

**`SetIterator`.** `iter` and `range` of one caller. Its two ends, `Front` and `Back`, are threads of
`ConcurrentSet`, with their `node`, `key` and `pc`; `rest[e]` is the slice iterator, `last[e]` the value yielded
last, `holder` the guard. `view` is the index as a reader without the lock sees it: `Tear` and `TearHigh` are the
states in which a commit has removed an entry and not yet inserted the next. `next` and `next_back` mirror each
other line by line, so that one set of actions stands for both (`Beyond`, `Nearest`).

**`RemoveRange`.** One action under the write lock and the mutexes of two nodes; a creator of a first node, who takes no
lock, is taken to insert before or after it. `Entry` is the skip map's `lower_bound`, `FrontPosition` and
`BackPosition` are the ranks the code computes from the bounds, with what they do when a bound lies outside the node.

**`ChangeLog`.** Ids only order events, so the consumer applies an event where it gets its id. Most do so inside the
section that they are about (a node's mutex, or the write lock), in the action itself. Two do not. A first node's id is
drawn before the node goes into the index, with no lock (set.rs 162, 168): `LogCreateId` and then `LogCreate`. A dropped
node's id is drawn after its entry is gone (operation.rs 166, set.rs 409): `LogDrop` and then `LogDropId`, both under the write lock, which
does not keep creators out. `midway` are the threads between the two steps. `stored` are the values of the pairs.
`GoesAstray` names the sequences after which the consumer may no longer follow: among them every first node of which
either step meets another creator, a drop, or an index that is not empty.

**`MultiMap`.** A pair is a key, a value and a discriminator; a set call is one step, `remove` of random pairs
two. `Compare` is the pairs' `Ord`, `Get` what the iterator of `range` yields on one node.

**`Tree`, `TreeIterators`, `TreeMap`.** The Fenwick tree is the sequence of lengths with prefix sums. `Tree`'s
operators take the tree and give the tree and the answer; `TreeMap` calls them. An iterator is a record of the
positions the code keeps, and `TreeMap` remembers what either end has yielded. Items are pairs that compare by key.

## 3. Runs

Bounds: threads, values, `MaxCalls` (operations per thread), seven nodes (`SetInstances!Nodes`). Seven nodes are
never all in use: a step that needs a free one would otherwise block, and TLC would report a deadlock, since
deadlock is checked in every run. Three threads are what it takes for two pending commits to race a third
operation; two values per node are the smallest capacity at which a split leaves two nodes and an inserted value
fills one again; two calls per thread let an operation run before and after the commit of another.

| Run | Bounds | Shows |
|---|---|---|
| `anchored_inserts` | 3 threads, 2 calls, capacity 2, {4, 9}, inserts 2, 3, 4, 6 | inserts and splits below a greatest value that stays are linearizable (`Linearizable`), and every value stays where lookups are led (`Reachable`) |
| `unsplit_mix` | 2 threads, 3 calls, capacity 9, nodes {0}, {1, 5}, {9} | inserts, removes, contains and get together are linearizable while nothing splits, keys settle (`KeysSettle`), and a `Ref` keeps its value (`RefStable`) |
| `unrestricted` | 2 threads, 2 calls, capacity 2, one value at first, everything, fairness | types, one key per node, bounded nodes, the entry an insert or remove has found stays until it has changed the node (`EntryStays`), and every operation returns (`OperationsReturn`) |
| `node_vec` | vectors over 1..7 | `search` keeps the vector sorted, operations act as the set operators say, bounds skip what is outside |
| `tree` | 4 keys, 2 values, nodes of 2 | `inner`, index and `len` agree (`TreeOK`), reads agree and cursors start where they should (`ReadsAgree`), merges (`MergesAgree`), iterators from both ends (`IteratesInOrder`), cursors (`CursorForesees`), and the refinement of a dictionary (`BehavesAsMap`) |
| `set_iterator` | 1 iterator with 4 calls, 1 thread with 2, nodes of 2 | order (`InOrder`), nothing missed but by meeting a commit (`Complete`), bounds (`KeepsToRange`), one mutex at a time (`HoldsOneNode`) |
| `remove_range_mix` | 2 threads, 2 calls, four nodes, five ranges | a range whose end is excluded, and a value of a node below its key, is removed, and nothing else (`RemovesTheRange`); after any of the ranges every value stays where lookups are led (`Reachable`) |
| `map_replica` | 2 threads, 3 calls, nodes of 3 | the consumer of the events follows (`ReplicaFollows`), until they may have gone astray |
| `multimap` | 2 threads, 2 keys, 3 values, 3 discriminators, 3 pairs | keys together (`KeysTogether`), get (`GetYieldsKey`), remove and the rest (`ActsAsMultiMap`) |

`Linearizable` lets contains and get answer anything that was true at some instant of the call (`seen`); insert and
remove settle in the step that changes the node, whatever index work they still have to commit.

Bounds of the last seven: a vector of seven items takes the search three levels deep; four keys on nodes of two give
a tree of up to four nodes, where an iteration has a first, a last and inner nodes, and a merge meets cuts at
different places; four calls of an iterator cross three nodes from either side; 3 pairs take every order of
discriminators within a key next to another key.

The conditions of `anchored_inserts` and `unsplit_mix` (a greatest value that stays, no removes, no splits), of
`RemovesTheRange` (`EndsInside`), of `ReplicaFollows` (`astray`), of `Complete` (`missed`) and of `GetYieldsKey`
(`Ordered`) are those under which the code keeps its promises. What happens without them is shown by three runs that
are expected to be violated, and told in the next section:

| Run | The repository says | What happens |
|---|---|---|
| `lost_insert` | `assert!(set.contains(value))` of every inserted value, `test_concurrent_insert` | Inserts above the greatest key only. Two splits pend under one key; the second commit goes through though the node has been halved; its entries lead lookups away from a value |
| `map_replica_split` | `assert_eq!(mock_state.nodes, expected_state)`, `test_concurrent_insert_cdc` | one thread: a split that replaces the last pair of the lower half names the half by that pair in both events |
| `map_replica_create` | "is correct as index is locked and current thread is the only that can fetch event_id" (`set.rs` 160) | two threads create the first node with the same key: they draw their ids in one order and insert in the other, and the consumer keeps the pair that the map has lost |

**Fairness.** `unrestricted` assumes weak fairness of every thread's steps inside an operation (`ConcurrentSet!FairSpec`):
the operating system schedules each thread, and locks are eventually granted to a waiter that is enabled
throughout. Callers drop their `Ref`s; nobody is obliged to call. Two creators of a first node can block each other
for ever under weak fairness (the `try_write` of each fails because of a lock the other holds, and each then looks
at a still empty index); `OperationsReturn` excepts the runs in which that recurs for ever (`[]<>CreatorsClash`)
and no others. A caller that keeps a `Ref` and calls another operation can deadlock with a commit; callers of the
model do not. The other runs check safety only.

**Mutants.** Each property has a mutant next to the definition it changes (`Shrunk_Unchecked`, `GoesLow_Strict`, ...):
a plausible slip that makes the property fail under the run's configuration.

### Where the code and its docs part

Met while modelling, beside the three runs above:

- *Concurrent set.* An insert into a node that a remove has emptied is lost when MakeUnreachable commits
  (`operation.rs` 155). The guard of `try_write().is_ok()` is dropped at once, so that two threads may create first
  nodes together (`set.rs` 156, against the comment at 160), and that a commit may take out a first node that was put
  under its old key after it found its own entry there (`operation.rs` 127-140, 153-166). `remove` has no fallback to the last node, and may miss
  a value above a key that lags (362). `contains` may miss a value whose node is split before it is locked (481).
  The race of `lost_insert` can leave one value in two nodes, and two removers an empty node registered for good.
- *Concurrent iterators.* An iterator answers None early when its node has left the index, or is between the remove
  and the insert of a commit, and starts again at the front when asked once more, although it is declared a
  `FusedIterator`. Going back, the upper half of a node that is split between its being found and locked is missed.
  A range may yield values inserted later outside its bounds. A range whose start is greater than its end is empty
  and does not panic (doc at `set.rs` 1100). A range starting above all values walks the whole set while the
  last node has been emptied and not yet dropped (983).
- *remove_range.* The lower bound of an unbounded end is the first entry, so that `remove_range(..)` empties the first node alone
  (`set.rs` 1143; the test at 1545-1547, "We now clear the tree", has few values left by then). An end in a gap between nodes drains the whole next node; an end equal to a node's key drops that
  node; an unbounded end whose start lies behind the first node drops what follows the front node, and the first node too; an end above all trims the front node only.
  An end inside a node, below its key, that is excluded and no value of the node leaves the last value of the range where
  it is, and an included end the last or the last two (`set.rs` 1167-1184: the end's rank is taken as that of a start, and is one less than a position).
- *Events.* After the sequences in `GoesAstray` the consumer may no longer hold what the map holds. With
  one key it may even hold nothing: one thread draws the id of its first node, another, which has seen the index empty as well, inserts the key
  and removes it again with later ids, and the first then puts its node into the index, which is empty again. With the feature
  `cdc` a split of an emptied node panics while it has the write lock.
- *Concurrent map.* `checked_insert` answers `Some(())` and replaces the value when the key is there and its node is
  full (`map.rs` 258).
- *Multi map.* A random pair that is inserted again takes the place of the old one with a new discriminator, or is
  not met by the binary search and stays twice. The node is then no longer sorted by discriminator: `remove` may find
  a pair by its range and miss it by its search, and answer None (doc at `multimap.rs` 481), and get may yield
  pairs of another key. With values x, y and a of one key at discriminators 1, 3 and 2, inserting a again with 4 and
  removing y is enough.
- *Single-threaded set and map.* `BTreeSet::get` gives the next greater item when there is no equal one. `range` of the
  set with bounds that are absent, and of the map with an absent included end, yields an item outside. `iter_mut`
  ends where the position of its node equals the number of nodes left: with two nodes, `next` alone never
  yields the second (doc at `lib.rs` 2360, "over the entries of the map"). `lower_bound` of
  an excluded key that is absent gives a cursor one item too far (`lib.rs` 3080, against its doc at 3048, "the first element that is above
  the given bound"); of one above all, a cursor behind everything, which never wraps. With a maximum node size of 1,
  splits leave empty nodes; with one above 1024, `split_off` may give nodes over the new maximum, which then never split.

## 4. Proofs

For every set of threads and nodes, every capacity, every set of integers and any number of calls, from the
assumptions named in `ConcurrentSet`: sizes are naturals (`SizeAssumption`), null values are none of the real ones
(`NullAssumption`), values are integers (`ValueAssumption`), and the attached nodes are finite and do not interleave
(`InitialAssumption`); and, for the iterators, the two ends are different threads (`EndsAssumption`). NodeId need not be finite.
The theorems about the vector and the multi map hold for vectors of any length, from `ValueAssumption` of `NodeVec`
and `NumbersAssumption` of `MultiMap` (keys, values, discriminators and the size are naturals). Those about the
single-threaded tree hold for every finite set of integer keys, every set of values and trees of any number of nodes, from
`KeyAssumption` of `TreeMap` (maximum node sizes lie in 2 .. DefaultCapacity: with 1, halving a node leaves an empty one) and
`CapacityAssumption` of `Tree`.

| Theorem | States | Argument |
|---|---|---|
| `TypeCorrect` | `Spec => []TypeOK` | Inductive with `ContentFinite`: the key that PutNewMax remembers is a greatest value, which exists because contents are finite (`MaxExists`, by the least of the numbers of greater values) |
| `NodesHaveOneKey` | `Spec => []OneKeyPerNode` | Inductive with types. Seven actions write the index (a node that `CreateSwept` leaves behind is gone at once). A commit takes out the key under which it found its own node, the only one; a new node is one that nobody refers to. Initially by the disjointness of attached nodes |
| `EntriesStay` | `Spec => []EntryStays` | With `LocksHeld` (whoever is between a lookup and its node is a reader, and a writer excludes readers) no commit runs meanwhile. That leaves `CreateNode`, which takes no lock: by `OneKeyPerNode` a node whose key it takes has no other |
| `RefsStayGood` | `Spec => []RefStable` | `RefHolds` adds that the Ref's thread holds the mutex of its node: every change of a content is of a node whose mutex is free, or of a fresh one |
| `NodesStayBounded` | `Spec => []NodeBounded` | Inductive with types; ranks are an injection into an interval, so the halves have half of the values each (`HalvesBounded`), and half of c with one more is at most c from three on |
| `InsertsSettleKeys` | `RemoveVals = {}` implies `Spec => []KeysSettle` | `KeysSettle` alone does not say which pending commit will find the entry. `InsertOnlyInv` does: its remembered key is the entry's key; no registered node is empty; nobody is at a removing step. Uses `OneKeyPerNode` |
| `IteratorsHoldOneNode` | `IterSpec => []HoldsOneNode` | `GuardInv`: the caller is in one call at a time, a guard is one of the node of its end (`GuardsFit`), and at every step from which the code locks without another look at the guards there is none (`BareIsBare`). So a lock is taken with no guard left, or a guard changes ends |
| `AnchoredReachable` | `InsertsAnchored` implies `Spec => []Reachable` | `AnchoredInv`: a key is the greatest value of its node, and the first key from each of its values on (`EntriesLead`); nobody is at a step that lets a node outgrow its key; an entry found is still there when the node is changed (`EntryIsThere`), and still leads to its value (`FoundLeads`). A stale split checks the key and the node under the write lock; both halves then have their greatest value as key |
| `AnchoredLinearizable` | `InsertsAnchored` and `NoLookups` imply `HistorySpec => Linearizable` | Step by step: the step in which an insert changes its node is the one in which `AbstractSet` settles it; every other step keeps the members. That the value is nowhere else, which decides the answer, is `EntriesLead` again |
| `VecStaysSorted` | `Spec => []StrictlySorted` of `NodeVec` | Inductive with the vector being a sequence of values. Rests on `SearchLocates`: on a monotone sequence of comparisons, `search` finds the equal item, or the place between the last smaller and the first greater one |
| `VecActsAsSet` | `Spec => ActsAsSet` | The set of the items of a vector with one more, one less or one replaced (`InsertAtSet`, `RemoveAtSet`); the halves by counting the items in front of a position |
| `VecSkips` | `Spec => []SkipsWhatIsOutside` | The items passed are an interval at the end where counting starts (`SkipsThosePassed`), since comparisons are monotone; the count starts at -1 |
| `KeysStayTogether` | `Spec => []KeysTogether` of `MultiMap` | A pair is put behind one that compares less and in front of one that compares greater, and different keys compare by the key, whatever the discriminators |
| `MapGetYieldsKey` | `Spec => []GetYieldsKey` | `MapInv`: while `Ordered`, the node is sorted as its kind of pairs compares, without two pairs of a key and a value (`PairsInOrder`), and the entry is the last pair (`EntryIsLast`). The ends of the range then are the first and the last pair of the key |
| `TreeStaysOK` | `Spec => []TreeOK` of `TreeMap`, for maximum node sizes in 2 .. DefaultCapacity | Inductive as `tree \in Trees`: nodes sorted within and across, none empty but an only one, none over the maximum, the Fenwick tree their lengths, `len` the number of their items. `LocateNodeAround` is the heart: the node that `locate_node` finds has no key as great before it and none as small behind it, so that an insert, a split or a removal there keeps the order |
| `TreeActsAsMap` | `Spec => BehavesAsMap` of `TreeMap` | Each operation is described by the set of items it leaves (`TreeInsertAtIs`, `DeleteAtIs`, `CutAtIs`, `RetainIs`, `TreeAppendIs`), this set by the dictionary of the tree (`DictIs`, `OneDict`), and an answer by the rank of its key (`RankAt`, `PromisedIs`). Every action then is a step of `AbstractMap`, every other step a stutter |
| `TreeReadsAgree` | `Spec => []ReadsAgree` of `TreeMap` | Follows from `tree \in Trees`: prefix sums are ranks (`RankAt`), and the sequence of the items has each at its rank (`ItemsByRank`). The items up to a key that is there are those below it and one more, which is where an excluded bound puts a cursor |
| `CursorsForesee` | `Spec => []CursorForesees` of `TreeMap` | From the reads, with `CursorInv`: a cursor is at a natural number, and the tree does not change under it |
| `IteratorsKeepOrder` | `Spec => []IteratesInOrder` of `TreeMap` | `OrderInv`: an iterator stands at two ranks, and what is left of the node at either end is the slice of the items from its rank to the end of the node (`AtFront`), or up to it from the start of the node (`AtBack`). Between the ranks is what is still to come (`RangeSound`). When a node is used up, the next that is not empty starts at that rank (`IterNextYields`); when the ends come to one node, one trims or takes what the other has (`Standing`, for `IterMut`). Ranges start so because a bound divides the items at its rank (`KeySplits`), and bounds in order have ranks in order (`BoundsCross`) |
| `MergesAreSetOperations` | `Spec => []MergesAgree` of `TreeMap` | `TreesMerge` has it for any two trees. `MergeWalks`: a merge is two positions that go up by the comparison of the items there. At every pair, what is left behind on one side is below all that is to come on the other, and each item behind has been gone from (`Behind`); after as many pairs as there are items, with one more, both are at their ends (`WalkStands`). So an item that goes alone has no equal on the other side (`GoesAlone`), and an adaptor is told by what it passes on of the items of one side and of both (`PassedOn`) |
| `MapActsAsMultiMap` | `Spec => ActsAsMultiMap` | `TargetsKnown`, also in `MapInv`: between the two steps of `remove`, the pair it has found is in the node unless it has been out of the map, and no other pair of its key has its discriminator. So the search by discriminator finds that pair |

With removes `KeysSettle` is model-checked only, and it needs the conditions of `unsplit_mix`: once a node has been
left empty under a key, an insert into it does not move the key.

`search` is a recursive function over the two ends of its loop. That the function exists, and with it what it
answers for every vector, is shown by induction on the distance of the ends (`BetweenIsDefined`, `BetweenLocates`), as set theory allows
it: a set of numbers none of which is the least is empty (`NoLeastNone`).

`AnchoredReachable` and `AnchoredLinearizable` have hypotheses on who calls what. `InsertsAnchored`: nobody removes, and some
attached node has a value that no inserted one exceeds, as in `anchored_inserts`. `NoLookups`: nobody calls contains or get.
The code needs them: with inserts above the greatest key a value can be lost (`lost_insert`), and contains may
miss a value whose node is split before it is locked. `Reachable` in the presence of remove_range and
`Linearizable` with removes and lookups while nothing splits are model-checked only. The theorems of `MultiMap` say nothing of what
happens after a random pair is inserted again, except for `KeysStayTogether`: the code keeps no more than that.

Loops of the code over the nodes or the items of a tree are recursive functions too (`Sums`, and those of `TreeAppend`,
`FromItems`, `Retain` and `MergedPairs`). That they exist, and what they leave after each turn, is shown the same way
(`IteratedIsDefined`); no turn needs more than what the tree it starts from is.

Model-checked only: liveness (`OperationsReturn`), which is out of the prover's reach; `ReplicaFollows`,
whose consumer folds over events; `InOrder`, `Complete` and `KeepsToRange` of `SetIterator`; and
`RemovesTheRange`.

## 5. Not modelled

- *`len`, `is_empty`, `capacity`, `node_count`, `from_iter` and `attach_node` of the concurrent set and its maps.* The
  first four sum over nodes without a snapshot; `attach_node` gives the initial states, `from_iter` is inserts.
- *`range_mut` and `range_mut_idx`* (`lib.rs` 2700-2766). They take the wrong back node, drop the last entry of every range
  and may recurse without end; there is little a model could promise of them. `values_mut`, `into_keys` and
  `into_values` wrap what is modelled.
- *Two ranges made at once.* `Range::new` holds one mutex while it locks a neighbour, forward at one end and backward
  at the other (`set.rs` 936, 968), so that two callers may wait for each other. One iterator is modelled.
- *Conversions*: `From<ChangeEvent>` between kinds of pairs, `Id`'s comparison, `serde`, `Debug`.
- *The multi map over several nodes.* Its set calls are atomic here and the set has one node; `ConcurrentSet` has
  nodes and interleavings for values with a total order.
- *External code.* crossbeam's skip map and sharded lock, parking_lot's mutex and ftree are modelled from how they are used.
- *Benchmarks.*

Next in line for proofs: `InOrder` and `KeepsToRange` of `SetIterator`; the invariants of
`ConcurrentSet` with `RemoveRange` among the steps; `KeysSettle` with removes while nothing splits.
