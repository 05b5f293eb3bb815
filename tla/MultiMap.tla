------------------------------ MODULE MultiMap ------------------------------
(***************************************************************************)
(* The concurrent multi map (concurrent/multimap.rs) with both kinds of    *)
(* pairs (core/multipair/ord.rs and random.rs): a set of pairs that        *)
(* compare by key and value, or by key and a random discriminator.         *)
(*                                                                         *)
(* A call of the set, of which the map makes one or two, is one step here  *)
(* (ConcurrentSet has its parts), and the set has one node: what is        *)
(* looked at is how the pairs' comparisons fit together.                   *)
(***************************************************************************)
EXTENDS NodeSearch

CONSTANTS
    Thread,
    Keys, Values, Discriminators,  \* numbers that are used; bounds
    MaxPairs                       \* how many pairs the map may hold; a bound

ASSUME NumbersAssumption ==
    /\ Keys \cup Values \cup Discriminators \subseteq Nat
    /\ MaxPairs \in Nat

VARIABLES
    kind,      \* "ord" for OrdMultiPair, "random" for RandomMultiPair
    node,      \* the vector of the set's node; empty when there is no node
    entry,     \* the key of the node in the index, an Option
    target,    \* the pair that a thread's remove has found and goes on to remove
    stayed,    \* whether what it is to remove has been in the map since then
    repeated,  \* a key and value have been inserted that were in the map
    last       \* the last call and its answer, an Option

vars == <<kind, node, entry, target, stayed, repeated, last>>

Nothing == <<>>
Some(x) == <<x>>

Same(a, b) == a.key = b.key /\ a.value = b.value

\* OrdMultiPair
CompareOrd(a, b) == IF a.key # b.key THEN a.key - b.key ELSE a.value - b.value

\* Mutant: a pair's discriminator counts before its key.
CompareRandom_ByDiscriminator(a, b) ==
    CASE Same(a, b) -> 0
      [] ~Same(a, b) /\ a.disc # b.disc -> a.disc - b.disc
      [] OTHER -> CompareOrd(a, b)
\* RandomMultiPair; two pairs of a key never have one discriminator (of 2^64).
CompareRandom(a, b) ==
    CASE Same(a, b) -> 0
      [] ~Same(a, b) /\ a.key = b.key -> a.disc - b.disc
      [] OTHER -> a.key - b.key

Compare(a, b) == IF kind = "ord" THEN CompareOrd(a, b) ELSE CompareRandom(a, b)

\* What is looked for is a pair, or a key that pairs borrow to.
ToPair(p) == [i \in DOMAIN node |-> Compare(node[i], p)]
ToKey(k) == [i \in DOMAIN node |-> node[i].key - k]

\* index.lower_bound finds the node.
PairLocated(p) == entry # Nothing /\ Compare(entry[1], p) >= 0
KeyLocated(k) == entry # Nothing /\ entry[1].key >= k

Has(k, v) == \E p \in ToSet(node) : p.key = k /\ p.value = v

-----------------------------------------------------------------------------
(* The set's calls *)

\* The first node gets an entry.  Then UpdateMax and MakeUnreachable see to it
\* when the node's greatest pair is another now, if they find the entry under the
\* old one; of a node that was empty there is none to look for.
NewEntry(before, after) ==
    CASE entry = Nothing -> Some(Last(after))
      [] entry # Nothing /\ (before = Nothing \/ Compare(entry[1], Last(before)) # 0) -> entry
      [] OTHER -> IF after = Nothing THEN Nothing
                  ELSE IF Same(Last(before), Last(after)) THEN entry ELSE Some(Last(after))

Put(p) ==
    LET s == Search(ToPair(p))
    IN /\ node' = IF s.found THEN [node EXCEPT ![s.at + 1] = p] ELSE InsertAt(node, s.at + 1, p)
       /\ entry' = IF s.found THEN entry ELSE NewEntry(node, node')
       /\ last' = [call |-> "insert", key |-> p.key, value |-> p.value,
                   answer |-> IF s.found THEN Some(node[s.at + 1]) ELSE Nothing]

\* Nothing is found above the entry, which `located` says.
RemoveOne(call, k, v, located, cmps) ==
    LET s == Search(cmps)
        found == located /\ s.found
    IN /\ node' = IF found THEN RemoveAt(node, s.at + 1) ELSE node
       /\ entry' = IF found THEN NewEntry(node, node') ELSE entry
       /\ last' = [call |-> call, key |-> k, value |-> v,
                   answer |-> IF found THEN Some(node[s.at + 1]) ELSE Nothing]

\* Mutant: the items at the bound are left out at the back.
BackValue_Excluded(k) ==
    LET rank == PositionsToSkip(ToKey(k), "excluded", FALSE)
    IN IF rank = NoPosition THEN Nothing ELSE Some(Reverse(node)[rank + 1])
\* range((Included(k), Included(k))): the last pair in front of it, the first behind it
BackValue(k) ==
    LET rank == PositionsToSkip(ToKey(k), "included", FALSE)
    IN IF rank = NoPosition THEN Nothing ELSE Some(Reverse(node)[rank + 1])
FrontValue(k) ==
    LET rank == PositionsToSkip(ToKey(k), "included", TRUE)
    IN IF rank = NoPosition \/ ~KeyLocated(k) THEN Nothing ELSE Some(node[rank + 1])

\* ... and what its iterator yields: from behind FrontValue, until BackValue.
Get(k) ==
    LET from == IF FrontValue(k) = Nothing THEN 0
                ELSE PositionsToSkip(ToPair(FrontValue(k)[1]), "excluded", TRUE) + 1
        upto == {n \in from .. Len(node) : \A i \in from + 1 .. n :
                   \A back \in ToSet(BackValue(k)) : Compare(node[i], back) < 0}
        leftOut == FrontValue(k) = Nothing /\ BackValue(k) = Nothing
                   /\ node # <<>> /\ (k > Last(node).key \/ k < node[1].key)
    IN IF node = <<>> \/ leftOut THEN <<>> ELSE SubSeq(node, from + 1, Max(upto))

-----------------------------------------------------------------------------
(* The map's calls *)

Idle(t) == target[t] = Nothing

\* A random pair gets a discriminator that no other pair has.
New(k, v) ==
    IF kind = "ord" THEN {[key |-> k, value |-> v, disc |-> 0]}
    ELSE LET used == {p.disc : p \in ToSet(node) \cup UNION {ToSet(target[t]) : t \in Thread}}
         IN {[key |-> k, value |-> v, disc |-> d] : d \in Discriminators \ used}

Insert(t, k, v) ==
    /\ Idle(t) /\ Len(node) < MaxPairs
    /\ \E p \in New(k, v) : Put(p)
    /\ repeated' = (repeated \/ Has(k, v))
    /\ UNCHANGED <<kind, target, stayed>>

\* OrdMultiPair::remove_cdc_from
RemoveOrd(t, k, v) ==
    /\ Idle(t) /\ kind = "ord"
    /\ \E p \in New(k, v) : RemoveOne("remove", k, v, PairLocated(p), ToPair(p))
    /\ UNCHANGED <<kind, target, stayed, repeated>>

\* RandomMultiPair::remove_cdc_from looks through the pairs of the key first ...
FindRandom(t, k, v) ==
    /\ Idle(t) /\ kind = "random"
    /\ LET at == SelectInSeq(Get(k), LAMBDA p : p.key = k /\ p.value = v)
       IN IF at = 0
          THEN /\ last' = [call |-> "remove", key |-> k, value |-> v, answer |-> Nothing]
               /\ UNCHANGED <<target, stayed>>
          ELSE /\ target' = [target EXCEPT ![t] = Some(Get(k)[at])]
               /\ stayed' = [stayed EXCEPT ![t] = TRUE]
               /\ last' = [call |-> "find"]
    /\ UNCHANGED <<kind, node, entry, repeated>>

\* The removes under way for the pair that this step takes out have lost it.
PairGone == stayed' = [u \in Thread |->
    stayed[u] /\ ~Idle(u)' /\ Has(target[u][1].key, target[u][1].value)']

\* Mutant: it removes by the key.
RemoveRandom_ByKey(t) ==
    /\ ~Idle(t)
    /\ LET p == target[t][1]
       IN RemoveOne("remove", p.key, p.value, KeyLocated(p.key), ToKey(p.key))
    /\ target' = [target EXCEPT ![t] = Nothing]
    /\ UNCHANGED <<kind, repeated>>
    /\ PairGone

\* ... and then removes a pair that is equal to the one it found.
RemoveRandom(t) ==
    /\ ~Idle(t)
    /\ LET p == target[t][1]
       IN RemoveOne("remove", p.key, p.value, PairLocated(p), ToPair(p))
    /\ target' = [target EXCEPT ![t] = Nothing]
    /\ UNCHANGED <<kind, repeated>>
    /\ PairGone

\* remove_some takes a pair of the key; which one is known when it is gone.
RemoveSome(t, k) ==
    /\ Idle(t)
    /\ RemoveOne("remove_some", k, 0, KeyLocated(k), ToKey(k))
    /\ UNCHANGED <<kind, target, repeated>>
    /\ PairGone

Init ==
    /\ kind \in {"ord", "random"}
    /\ node = <<>> /\ entry = Nothing
    /\ target = [t \in Thread |-> Nothing]
    /\ stayed = [t \in Thread |-> FALSE]
    /\ repeated = FALSE
    /\ last = [call |-> "new"]

Next == \E t \in Thread :
    \/ RemoveRandom(t)
    \/ \E k \in Keys : RemoveSome(t, k)
    \/ \E k \in Keys, v \in Values : Insert(t, k, v) \/ RemoveOrd(t, k, v) \/ FindRandom(t, k, v)

Spec == Init /\ [][Next]_vars

-----------------------------------------------------------------------------
Content == {<<p.key, p.value>> : p \in ToSet(node)}

\* Random pairs keep their order until a pair is inserted that is there already.
Ordered == kind = "ord" \/ ~repeated

\* MultiPairLike, core/multipair.rs, "entries with the same key must form one
\* contiguous range": whatever the values and discriminators of its pairs do,
\* the node is sorted by key.
KeysTogether == \A i, j \in DOMAIN node : i < j => node[i].key <= node[j].key

\* BTreeMultiMap::get yields the pairs of its key, each once, and no other, with
\* the set's range seeking the values in front of and behind them.
GetYieldsKey == Ordered => \A k \in Keys :
    /\ {<<p.key, p.value>> : p \in ToSet(Get(k))} = {c \in Content : c[1] = k}
    /\ Len(Get(k)) = Cardinality(ToSet(Get(k)))
    /\ Len(node) = Cardinality(Content)

\* What a call does to the content, and answers, in terms of pairs.
MultiMapCall == Ordered' =>
    LET pair == <<last'.key, last'.value>>
        removed == {<<p.key, p.value>> : p \in ToSet(last'.answer)}
    IN CASE last'.call = "insert" ->
              /\ Content' = Content \cup {pair}
              /\ (last'.answer = Nothing) = (pair \notin Content)
         [] last'.call = "remove" ->
              /\ Content' = Content \ removed
              /\ removed \subseteq {c \in Content : c = pair}
              /\ removed = {} /\ pair \in Content =>
                   \E t \in Thread : ~Idle(t) /\ Idle(t)' /\ ~stayed[t]
         [] last'.call = "remove_some" ->
              /\ Content' = Content \ removed
              /\ removed \subseteq Content
              /\ IF \E c \in Content : c[1] = last'.key
                 THEN \E c \in removed : c[1] = last'.key ELSE removed = {}
         [] OTHER -> Content' = Content

\* BTreeMultiMap::remove has two steps with one kind of pair: it misses its pair
\* only if that was out of the map at some time of the call.  A call changes
\* that pair only, and answers what it has put, or taken.
ActsAsMultiMap == [][MultiMapCall]_vars
=============================================================================
