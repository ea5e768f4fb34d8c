------------------------- MODULE MCStateAccumulator -------------------------
(* Three keys, so that a leaf can have a neighbour on both sides, and two   *)
(* values; patches of at most two writes, well formed or not: unequal       *)
(* lengths, repeated keys and descending keys are included.                 *)
EXTENDS StateAccumulator, FiniteSets, TLC

MaxWrites == 2

\* Enough to leave a state, pass through another one and come back.
MaxObserved == 3

SeqsUpTo(S, n) == UNION {[1 .. m -> S] : m \in 0 .. n}

MCPatches == [accesses : SeqsUpTo(Keys, MaxWrites), new_values : SeqsUpTo(Values, MaxWrites)]
MCAccessLists == SeqsUpTo(Keys, MaxWrites)

ValueSymmetry == Permutations(Values)

\* Bounds the number of different states a behaviour goes through.
ObservedBound == Cardinality(seen) <= MaxObserved
=============================================================================
