----------------------------- MODULE AbstractMap -----------------------------
(***************************************************************************)
(* What the single-threaded set and map promise: a dictionary, whose       *)
(* operations answer with the item they found, replaced or took out, and   *)
(* whether they added or removed one.                                      *)
(***************************************************************************)
EXTENDS Integers, FiniteSets

CONSTANTS Keys, Values, Absent

VARIABLES
    dict,   \* key -> its value, or Absent
    answer  \* the last operation and its answer: `item`, an Option, and `done`

vars == <<dict, answer>>

Present == {k \in Keys : dict[k] # Absent}
Item(k) == IF k \in Present THEN << <<k, dict[k]>> >> ELSE <<>>
\* The key with i smaller ones.
Nth(i) == CHOOSE k \in Present : Cardinality({j \in Present : j < k}) = i

Answer(call, item, done) ==
    answer'.call = call /\ answer'.item = item /\ answer'.done = done

Init ==
    /\ dict = [k \in Keys |-> Absent]
    /\ answer = [call |-> <<"read">>, item |-> <<>>, done |-> FALSE]

\* insert of the set: an equal item stays.
Add(k, v) ==
    /\ Answer(<<"add", k, v>>, <<>>, k \notin Present)
    /\ dict' = IF k \in Present THEN dict ELSE [dict EXCEPT ![k] = v]

\* insert of the map, replace of the set.
Put(k, v) ==
    /\ Answer(<<"put", k, v>>, Item(k), k \notin Present)
    /\ dict' = [dict EXCEPT ![k] = v]

\* entry(k).or_insert(v) answers what is there then.
PutIfAbsent(k, v) ==
    /\ Answer(<<"or_insert", k, v>>, << <<k, dict'[k]>> >>, k \notin Present)
    /\ dict' = IF k \in Present THEN dict ELSE [dict EXCEPT ![k] = v]

\* A change through get_mut, and_modify or a mutable iterator.
Modify(k, v) ==
    /\ Answer(<<"modify", k, v>>, <<>>, k \in Present)
    /\ dict' = IF k \in Present THEN [dict EXCEPT ![k] = v] ELSE dict

Remove(k) ==
    /\ Answer(<<"remove", k>>, Item(k), k \in Present)
    /\ dict' = [dict EXCEPT ![k] = Absent]

\* By rank; pop_first and pop_last of an empty map find nothing.
Pop(i) ==
    /\ Answer(<<"pop", i>>, IF i < Cardinality(Present) THEN Item(Nth(i)) ELSE <<>>,
              i < Cardinality(Present))
    /\ dict' = IF i < Cardinality(Present) THEN [dict EXCEPT ![Nth(i)] = Absent] ELSE dict

\* retain, clear and the halves of split_off.
Keep(S) ==
    /\ Answer(<<"keep", S>>, <<>>, FALSE)
    /\ dict' = [k \in Keys |-> IF k \in S THEN dict[k] ELSE Absent]

\* append: the other's items win.
Merge(other) ==
    /\ Answer(<<"merge", other>>, <<>>, FALSE)
    /\ dict' = [k \in Keys |-> IF other[k] # Absent THEN other[k] ELSE dict[k]]

\* What only reads.
Read == Answer(<<"read">>, <<>>, FALSE) /\ UNCHANGED dict

Next ==
    \/ \E k \in Keys, v \in Values :
         Add(k, v) \/ Put(k, v) \/ PutIfAbsent(k, v) \/ Modify(k, v)
    \/ \E k \in Keys : Remove(k)
    \/ \E i \in 0 .. Cardinality(Present) : Pop(i)
    \/ \E S \in SUBSET Keys : Keep(S)
    \/ \E other \in [Keys -> Values \cup {Absent}] : Merge(other)
    \/ Read

Spec == Init /\ [][Next]_vars
=============================================================================
