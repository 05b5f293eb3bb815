----------------------------- MODULE NodeSearch -----------------------------
(***************************************************************************)
(* The two algorithms of core/node.rs that look through the vector of a    *)
(* node.  `cmps` is the vector as they see it: how each item, or its        *)
(* borrowed part, compares with what is looked for: below, at or above 0.  *)
(***************************************************************************)
EXTENDS Integers, SequencesExt

\* The None of the positions of the code, which count from 0.
NoPosition == -1

\* Where the loop of search() may be: i and j, which never cross.
Gaps(cmps) == {p \in (0..Len(cmps)) \X (0..Len(cmps)) : p[1] <= p[2]}

\* search(): positions are those of the code, counted from 0.
Search(cmps) ==
    LET between[p \in Gaps(cmps)] ==
          LET i == p[1]
              j == p[2]
              m == (i + j) \div 2
          IN IF i = j THEN [found |-> FALSE, at |-> i]
             ELSE CASE cmps[m + 1] = 0 -> [found |-> TRUE, at |-> m]
                    [] cmps[m + 1] < 0 -> between[<<m + 1, j>>]
                    [] OTHER -> between[<<i, m>>]
    IN between[<<0, Len(cmps)>>]

\* Mutant: an item equal to an excluded bound ends the loop.
Passes_StopAtEqual(cmp, kind, forward) == IF forward THEN cmp < 0 ELSE cmp > 0
\* Does the loop pass over an item on its way to the bound?
Passes(cmp, kind, forward) ==
    \/ forward /\ cmp < 0
    \/ ~forward /\ cmp > 0
    \/ kind = "excluded" /\ cmp = 0

\* compute_positions_to_skip(): the loop stops at the first item it does not
\* pass, and counts from -1.
PositionsToSkip(cmps, kind, forward) ==
    LET items == IF forward THEN cmps ELSE Reverse(cmps)
        passed == Max({n \in 0..Len(items) :
                         \A i \in 1..n : Passes(items[i], kind, forward)})
    IN IF passed = 0 THEN NoPosition ELSE passed - 1

=============================================================================
