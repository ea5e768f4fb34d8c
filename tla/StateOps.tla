------------------------------ MODULE StateOps ------------------------------
(***************************************************************************)
(* The values and pure operations of shell-state: leaf maps, roots,        *)
(* patches, witnesses and proof paths.                                     *)
(*                                                                         *)
(* A state key is named by its rank in the canonical StateKey order, so    *)
(* compare_state_keys is < on naturals.  A SHA-256 root is named by what   *)
(* was hashed: both digests are domain-separated and length-prefixed, so   *)
(* under collision resistance a root determines the leaf map it commits.   *)
(***************************************************************************)
EXTENDS Integers, Sequences

CONSTANTS
    Keys,       \* state keys, as ranks in the canonical order
    Values,     \* leaf values
    Absent      \* marks a key that has no leaf

ASSUME KeysAreRanks == Keys \subseteq Nat
ASSUME AbsentIsNoValue == Absent \notin Values

Leaves == [Keys -> Values \cup {Absent}]
NoLeaves == [k \in Keys |-> Absent]
Materialized(leaves) == {k \in Keys : leaves[k] # Absent}

\* Root::default(), the root of an accumulator nothing was ever applied to.
ZeroRoot == <<"zero", NoLeaves>>

compute_reference_root(leaves) == <<"digest", leaves>>

Roots == {ZeroRoot} \cup {compute_reference_root(leaves) : leaves \in Leaves}

\* struct InMemoryAccumulator { leaves, root }.
Accumulators == [leaves : Leaves, root : Roots]
EmptyAccumulator == [leaves |-> NoLeaves, root |-> ZeroRoot]

-----------------------------------------------------------------------------
(* Transitions.                                                            *)

StatePatches == [accesses : Seq(Keys), new_values : Seq(Values)]

\* The StateErrors a transition through the applier can end in.
TransitionErrors == {"TransitionShapeMismatch", "NonCanonicalWitnessOrdering",
                     "RootContinuityMismatch"}

StrictlyIncreasing(keys) ==
    \A i \in 1 .. Len(keys) - 1 : keys[i] < keys[i + 1]

\* StatePatch::validate_shape, then ensure_canonical_access_order: the checks
\* apply_transition makes before it touches a leaf.
PatchResult(patch) ==
    IF Len(patch.accesses) # Len(patch.new_values) THEN "TransitionShapeMismatch"
    ELSE IF ~StrictlyIncreasing(patch.accesses) THEN "NonCanonicalWitnessOrdering"
    ELSE "Ok"

\* The positions of the zipped patch that write key k.
Writes(patch, k) ==
    {i \in DOMAIN patch.accesses \cap DOMAIN patch.new_values : patch.accesses[i] = k}

\* apply_leaf for every pair of the patch.  The accesses are strictly increasing
\* by the time this runs, so at most one pair writes a key.
apply_leaves(leaves, patch) ==
    [k \in Keys |->
        IF Writes(patch, k) = {} THEN leaves[k]
        ELSE patch.new_values[CHOOSE i \in Writes(patch, k) : TRUE]]

\* Fault: the leaves are written and recompute_root is forgotten.
WithoutRecompute(acc, patch) ==
    [leaves |-> apply_leaves(acc.leaves, patch), root |-> acc.root]

\* The accumulator after the loop over the leaves and recompute_root.
Transitioned(acc, patch) ==
    LET leaves == apply_leaves(acc.leaves, patch)
    IN  [leaves |-> leaves, root |-> compute_reference_root(leaves)]

\* Fault: the leaves are written before the patch is checked.
WriteThenCheck(acc, patch) == [result |-> PatchResult(patch), acc |-> Transitioned(acc, patch)]

\* InMemoryAccumulator::apply_transition: its result and the accumulator it
\* leaves behind.
apply_transition(acc, patch) ==
    IF PatchResult(patch) = "Ok"
    THEN [result |-> "Ok", acc |-> Transitioned(acc, patch)]
    ELSE [result |-> PatchResult(patch), acc |-> acc]

\* Fault: no root continuity check.
FromAnyRoot(acc, pre_state_root, patch) == apply_transition(acc, patch)

\* ReferenceStateApplier::apply_transition.  The applier is never re-entered,
\* so its try_borrow_mut cannot fail.
applier_apply_transition(acc, pre_state_root, patch) ==
    IF acc.root # pre_state_root
    THEN [result |-> "RootContinuityMismatch", acc |-> acc]
    ELSE apply_transition(acc, patch)

-----------------------------------------------------------------------------
(* Witnesses.  proof_empty is WitnessProofShape::ReferenceEmpty.           *)

StateWitnesses == [key : Keys, leaf_value : Values, proof_empty : BOOLEAN]

\* Fault: range(..=key) for range(..key).
LeftNeighborOrSelf(leaves, k) ==
    {j \in Materialized(leaves) : j <= k /\ \A i \in Materialized(leaves) : i <= k => i <= j}

\* BTreeMap::range(..key).next_back() and its mirror image: a set of at most
\* one key, empty for None.
LeftNeighbor(leaves, k) ==
    {j \in Materialized(leaves) : j < k /\ \A i \in Materialized(leaves) : i < k => i <= j}

RightNeighbor(leaves, k) ==
    {j \in Materialized(leaves) : k < j /\ \A i \in Materialized(leaves) : k < i => j <= i}

\* proof_path_for_access on a materialized key.
proof_path_for_access(acc, k) ==
    [expected_root |-> acc.root, key |-> k, leaf_value |-> acc.leaves[k],
     left_neighbor |-> LeftNeighbor(acc.leaves, k),
     right_neighbor |-> RightNeighbor(acc.leaves, k)]

\* Fault: the path is not compared with the expected root.
AcceptsUnderAnyRoot(path, witness, expected_state_root) ==
    path.key = witness.key /\ path.leaf_value = witness.leaf_value

\* ReferenceProofPath::verify_witness; every failing check is the same error.
PathAccepts(path, witness, expected_state_root) ==
    /\ path.expected_root = expected_state_root
    /\ path.key = witness.key
    /\ path.leaf_value = witness.leaf_value
    /\ \A l \in path.left_neighbor : l < witness.key
    /\ \A r \in path.right_neighbor : witness.key < r

\* InMemoryAccumulator::verify_witness: derive_proof_path checks the proof
\* shape, that the leaf exists and the accumulator's own root, then the path
\* is checked against the root the caller expects.
verify_witness(acc, witness, expected_state_root) ==
    LET path == proof_path_for_access(acc, witness.key)
    IN  IF ~witness.proof_empty THEN "UnsupportedProofShape"
        ELSE IF witness.key \notin Materialized(acc.leaves) THEN "Backend"
        ELSE IF ~(/\ PathAccepts(path, witness, acc.root)
                  /\ PathAccepts(path, witness, expected_state_root))
        THEN "WitnessVerificationFailed"
        ELSE "Ok"

\* WitnessVerifier::verify_witnesses: canonical order first, then the error of
\* the first witness that fails.
verify_witnesses(acc, witnesses, expected_state_root) ==
    LET Failing == {i \in 1 .. Len(witnesses) :
                      verify_witness(acc, witnesses[i], expected_state_root) # "Ok"}
        first == CHOOSE i \in Failing : \A j \in Failing : i <= j
    IN  IF ~StrictlyIncreasing([i \in 1 .. Len(witnesses) |-> witnesses[i].key])
        THEN "NonCanonicalWitnessOrdering"
        ELSE IF Failing # {} THEN verify_witness(acc, witnesses[first], expected_state_root)
        ELSE "Ok"

\* The error of get_witness_for_accesses, "Ok" when it returns witnesses.
AccessResult(acc, accesses) ==
    IF ~StrictlyIncreasing(accesses) THEN "NonCanonicalWitnessOrdering"
    ELSE IF \E i \in 1 .. Len(accesses) : accesses[i] \notin Materialized(acc.leaves)
    THEN "Backend"
    ELSE "Ok"

\* The witnesses get_witness_for_accesses returns: no proof bytes, the leaf
\* value of each access.
WitnessesFor(acc, accesses) ==
    [i \in 1 .. Len(accesses) |->
        [key |-> accesses[i], leaf_value |-> acc.leaves[accesses[i]], proof_empty |-> TRUE]]

=============================================================================
