----------------------------- MODULE RootProofs -----------------------------
(***************************************************************************)
(* What roots bind.  State roots, for every set of keys, values, patches   *)
(* and access lists: the root of the accumulator binds its leaves, and     *)
(* witnesses are bound to the root they were read under.  Merkle roots,    *)
(* for every number of values of a byte, every width and every limit: the  *)
(* root of an envelope and the root that is signed bind what they are      *)
(* computed from, and merkleize gives the root of the padded tree.         *)
(***************************************************************************)
EXTENDS StateAccumulator, WireRoots, WireProofs

-----------------------------------------------------------------------------
(* The pure operations of the state are well typed.                        *)

\* Applying the writes of a patch gives a leaf map again.
LEMMA ApplyLeavesType ==
    ASSUME NEW old \in Leaves, NEW patch \in StatePatches
    PROVE  apply_leaves(old, patch) \in Leaves
<1>1. ASSUME NEW k \in Keys, Writes(patch, k) # {}
      PROVE  patch.new_values[CHOOSE i \in Writes(patch, k) : TRUE] \in Values
    <2>1. PICK i \in Writes(patch, k) : i = CHOOSE j \in Writes(patch, k) : TRUE
        BY <1>1, Zenon
    <2>2. i \in DOMAIN patch.new_values
        BY <2>1, Zenon DEF Writes
    <2> QED
        BY <2>1, <2>2, SMTT(30) DEF StatePatches
<1> QED
    BY <1>1, Zenon DEF apply_leaves, Leaves

\* Writing the leaves of a patch and recomputing the root gives an accumulator.
LEMMA TransitionedType ==
    ASSUME NEW a \in Accumulators, NEW patch \in StatePatches
    PROVE  Transitioned(a, patch) \in Accumulators
BY ApplyLeavesType, Zenon DEF Transitioned, Accumulators, Roots, compute_reference_root

\* A transition, accepted or refused, leaves an accumulator and a known result.
LEMMA ApplierType ==
    ASSUME NEW a \in Accumulators, NEW root \in Roots, NEW patch \in StatePatches
    PROVE  /\ applier_apply_transition(a, root, patch).acc \in Accumulators
           /\ applier_apply_transition(a, root, patch).result \in {"Ok"} \cup TransitionErrors
BY TransitionedType, Zenon
DEF applier_apply_transition, apply_transition, PatchResult, TransitionErrors

\* The witnesses read for materialized accesses are witnesses.
LEMMA WitnessesForType ==
    ASSUME NEW a \in Accumulators, NEW accesses \in Seq(Keys), AccessResult(a, accesses) = "Ok"
    PROVE  WitnessesFor(a, accesses) \in Seq(StateWitnesses)
<1>1. ASSUME NEW i \in 1 .. Len(accesses)
      PROVE  a.leaves[accesses[i]] \in Values
    BY <1>1, Zenon DEF AccessResult, Materialized, Accumulators, Leaves
<1>2. ASSUME NEW i \in 1 .. Len(accesses)
      PROVE  [key |-> accesses[i], leaf_value |-> a.leaves[accesses[i]], proof_empty |-> TRUE]
                \in StateWitnesses
    BY <1>1, <1>2, SMTT(30) DEF StateWitnesses
<1> QED
    BY <1>2, SMTT(30) DEF WitnessesFor

\* Every verification returns one of the known results.
LEMMA VerifyType ==
    ASSUME NEW a, NEW ws, NEW root
    PROVE  verify_witnesses(a, ws, root) \in Results
<1>1. ASSUME NEW w PROVE verify_witness(a, w, root) \in Results
    BY Zenon DEF verify_witness, Results, TransitionErrors
<1> QED
    BY <1>1, Zenon DEF verify_witnesses, Results, TransitionErrors

-----------------------------------------------------------------------------
(* The inductive invariant.  A root of the model carries the leaf map it   *)
(* commits, so "these witnesses were read under that root" can be said of  *)
(* held alone, without naming the past state they were read from.          *)

\* The root is the reference root of the leaves, save where nothing was applied yet.
CommitsItsLeaves(a) == a.root = compute_reference_root(a.leaves) \/ a = EmptyAccumulator

\* The keys of the witnesses that are held.
HeldKeys == [i \in 1 .. Len(held.witnesses) |-> held.witnesses[i].key]

\* Witnesses that are held have the values of the leaves their root stands for.
HeldReadUnderItsRoot ==
    /\ StrictlyIncreasing(HeldKeys)
    /\ \A i \in 1 .. Len(held.witnesses) :
          /\ held.witnesses[i].proof_empty
          /\ held.witnesses[i].leaf_value = held.root[2][held.witnesses[i].key]

AccumulatorInv ==
    /\ TypeOK
    /\ acc \in seen
    /\ \A a \in seen : CommitsItsLeaves(a)
    /\ HeldReadUnderItsRoot

\* The constructed accumulator satisfies the invariant.
LEMMA AccumulatorInitInv == AccumulatorInit => AccumulatorInv
<1> SUFFICES ASSUME AccumulatorInit PROVE AccumulatorInv
    BY Zenon
<1>1. EmptyAccumulator \in Accumulators
    BY Zenon DEF EmptyAccumulator, Accumulators, ZeroRoot, Roots, Leaves, NoLeaves
<1>2. ZeroRoot \in Roots
    BY Zenon DEF ZeroRoot, Roots, Leaves, NoLeaves
<1>3. TypeOK
    BY <1>1, <1>2, SMTT(30) DEF AccumulatorInit, TypeOK, Results
<1>4. HeldReadUnderItsRoot
    BY DEF AccumulatorInit, HeldReadUnderItsRoot, HeldKeys, StrictlyIncreasing
<1> QED
    BY <1>3, <1>4, Zenon DEF AccumulatorInit, AccumulatorInv, CommitsItsLeaves

\* Where an accumulator commits its leaves, its root names exactly those leaves.
LEMMA RootCarriesLeaves ==
    ASSUME NEW a, CommitsItsLeaves(a)
    PROVE  a.root[2] = a.leaves
BY SMTT(30) DEF CommitsItsLeaves, compute_reference_root, EmptyAccumulator, ZeroRoot

\* An accepted transition recomputes the root; a refused one returns the
\* accumulator it was given.
LEMMA ApplierCommits ==
    ASSUME NEW a \in Accumulators, CommitsItsLeaves(a), NEW root, NEW patch
    PROVE  CommitsItsLeaves(applier_apply_transition(a, root, patch).acc)
BY Zenon DEF applier_apply_transition, apply_transition, Transitioned, CommitsItsLeaves

\* Each call preserves the invariant.
LEMMA AccumulatorNextInv == AccumulatorInv /\ [AccumulatorNext]_accumulatorVars => AccumulatorInv'
<1> SUFFICES ASSUME AccumulatorInv, [AccumulatorNext]_accumulatorVars PROVE AccumulatorInv'
    BY Zenon
<1> USE DEF AccumulatorInv
<1>1. ASSUME NEW root \in ObservedRoots, NEW patch \in Patches, ApplyTransition(root, patch)
      PROVE  AccumulatorInv'
    <2> DEFINE outcome == applier_apply_transition(acc, root, patch)
    <2>1. root \in Roots
        BY Zenon DEF ObservedRoots, TypeOK, Accumulators
    <2>2. outcome.acc \in Accumulators /\ outcome.result \in Results
        BY <2>1, ApplierType, PatchesAreStatePatches, Zenon DEF TypeOK, Results
    <2>3. CommitsItsLeaves(outcome.acc)
        BY ApplierCommits, Zenon DEF TypeOK
    <2>4. acc' = outcome.acc /\ result' = outcome.result /\ seen' = seen \cup {outcome.acc}
          /\ held' = held
        BY <1>1, Zenon DEF ApplyTransition
    <2> HIDE DEF outcome
    <2>5. TypeOK'
        BY <2>2, <2>4, Zenon DEF TypeOK
    <2>6. HeldReadUnderItsRoot'
        BY <2>4, Zenon DEF HeldReadUnderItsRoot, HeldKeys
    <2> QED
        BY <2>3, <2>4, <2>5, <2>6, Zenon DEF CommitsItsLeaves
<1>2. ASSUME NEW accesses \in AccessLists, GetWitnessForAccesses(accesses)
      PROVE  AccumulatorInv'
    <2>1. acc' = acc /\ seen' = seen
        BY <1>2, Zenon DEF GetWitnessForAccesses
    <2>2. result' \in Results
        BY <1>2, Zenon DEF GetWitnessForAccesses, AccessResult, Results, TransitionErrors
    <2>3. CASE AccessResult(acc, accesses) = "Ok"
        <3> DEFINE ws == WitnessesFor(acc, accesses)
        <3>1. held' = [root |-> acc.root, witnesses |-> ws]
            BY <1>2, <2>3, Zenon DEF GetWitnessForAccesses
        <3>2. ws \in Seq(StateWitnesses) /\ Len(ws) = Len(accesses)
            <4>1. accesses \in Seq(Keys)
                BY AccessListsAreKeyLists, Zenon
            <4> QED
                BY <4>1, <2>3, WitnessesForType, SMTT(30) DEF TypeOK, WitnessesFor
        <3>3. acc.root[2] = acc.leaves
            BY RootCarriesLeaves, Zenon
        <3>4. \A i \in 1 .. Len(ws) :
                /\ ws[i].key = accesses[i]
                /\ ws[i].proof_empty
                /\ ws[i].leaf_value = acc.root[2][ws[i].key]
            BY <3>2, <3>3, Zenon DEF WitnessesFor
        <3>5. StrictlyIncreasing([i \in 1 .. Len(ws) |-> ws[i].key])
            <4>1. \A i \in 1 .. Len(accesses) - 1 : accesses[i] < accesses[i + 1]
                BY <2>3, Zenon DEF AccessResult, StrictlyIncreasing
            <4> QED
                BY <4>1, <3>2, <3>4, AccessListsAreKeyLists, SMTT(30) DEF StrictlyIncreasing
        <3> HIDE DEF ws
        <3>6. HeldReadUnderItsRoot'
            BY <3>1, <3>4, <3>5, Zenon DEF HeldReadUnderItsRoot, HeldKeys
        <3>7. TypeOK'
            BY <3>1, <3>2, <2>1, <2>2, Zenon DEF TypeOK, Accumulators
        <3> QED
            BY <3>6, <3>7, <2>1, Zenon DEF CommitsItsLeaves
    <2>4. CASE AccessResult(acc, accesses) # "Ok"
        <3>1. held' = held
            BY <1>2, <2>4, Zenon DEF GetWitnessForAccesses
        <3> QED
            BY <3>1, <2>1, <2>2, Zenon
               DEF TypeOK, HeldReadUnderItsRoot, HeldKeys, CommitsItsLeaves
    <2> QED
        BY <2>3, <2>4, Zenon
<1>3. ASSUME NEW root \in ObservedRoots, VerifyWitnesses(root)
      PROVE  AccumulatorInv'
    <2>1. result' \in Results
        BY <1>3, VerifyType, Zenon DEF VerifyWitnesses
    <2> QED
        BY <2>1, <1>3, Zenon
           DEF VerifyWitnesses, TypeOK, HeldReadUnderItsRoot, HeldKeys, CommitsItsLeaves
<1>4. CASE UNCHANGED accumulatorVars
    BY <1>4, Zenon DEF accumulatorVars, TypeOK, HeldReadUnderItsRoot, HeldKeys, CommitsItsLeaves
<1> QED
    BY <1>1, <1>2, <1>3, <1>4, Zenon DEF AccumulatorNext

\* The inductive invariant holds in every reachable state.
THEOREM AccumulatorInvariance == AccumulatorSpec => []AccumulatorInv
BY AccumulatorInitInv, AccumulatorNextInv, PTL DEF AccumulatorSpec

-----------------------------------------------------------------------------
(* What the invariant gives.                                               *)

\* The variables always hold values of their types.
THEOREM AccumulatorTypeCorrect == AccumulatorSpec => []TypeOK
<1>1. AccumulatorInv => TypeOK
    BY Zenon DEF AccumulatorInv
<1> QED
    BY <1>1, AccumulatorInvariance, PTL

\* The stored root is always the reference root of the stored leaves, except
\* in the accumulator nothing was applied to.
THEOREM RootAlwaysCommitsLeaves == AccumulatorSpec => []RootCommitsLeaves
<1>1. AccumulatorInv => RootCommitsLeaves
    BY Zenon DEF AccumulatorInv, CommitsItsLeaves, RootCommitsLeaves
<1> QED
    BY <1>1, AccumulatorInvariance, PTL

\* A witness is accepted exactly when it has no proof bytes, names the stored
\* leaf and is checked against the current root.
THEOREM VerifyWitnessAlwaysExact == AccumulatorSpec => []VerifyWitnessIsExact
<1>1. TypeOK => VerifyWitnessIsExact
    <2> SUFFICES ASSUME TypeOK, NEW w \in StateWitnesses, NEW root \in ObservedRoots
                 PROVE  verify_witness(acc, w, root) = "Ok" <=>
                            w.proof_empty /\ acc.leaves[w.key] = w.leaf_value /\ root = acc.root
        BY Zenon DEF VerifyWitnessIsExact
    <2> QED
        BY KeysAreRanks, AbsentIsNoValue, ZenonT(40)
           DEF verify_witness, PathAccepts, proof_path_for_access, LeftNeighbor, RightNeighbor,
            Materialized, StateWitnesses, TypeOK, Accumulators
<1> QED
    BY <1>1, AccumulatorTypeCorrect, PTL

\* Held witnesses are accepted against the root they were read under exactly
\* while the accumulator stands at that root.
THEOREM WitnessesAlwaysBind == AccumulatorSpec => []WitnessesBindToTheirRoot
<1>1. AccumulatorInv => WitnessesBindToTheirRoot
    <2> SUFFICES ASSUME AccumulatorInv, held.witnesses # <<>>
                 PROVE  verify_witnesses(acc, held.witnesses, held.root) = "Ok"
                            <=> acc.root = held.root
        BY Zenon DEF WitnessesBindToTheirRoot
    <2> DEFINE ws == held.witnesses
               Verdict(i) == verify_witness(acc, ws[i], held.root)
               Failing == {i \in 1 .. Len(ws) : Verdict(i) # "Ok"}
               first == CHOOSE i \in Failing : \A j \in Failing : i <= j
    <2>1. ws \in Seq(StateWitnesses) /\ 1 \in 1 .. Len(ws)
        BY SMTT(30) DEF AccumulatorInv, TypeOK
    <2>2. acc.root[2] = acc.leaves
        BY RootCarriesLeaves, Zenon DEF AccumulatorInv
    <2>3. ASSUME NEW i \in 1 .. Len(ws)
          PROVE  Verdict(i) = "Ok" <=> acc.root = held.root
        <3>1. /\ ws[i] \in StateWitnesses
              /\ ws[i].proof_empty
              /\ ws[i].leaf_value = held.root[2][ws[i].key]
            <4>1. ws[i] \in StateWitnesses
                BY ONLY <2>1, i \in 1 .. Len(ws)
            <4> QED
                BY <4>1, Zenon DEF AccumulatorInv, HeldReadUnderItsRoot
        <3>2. acc.root = held.root => acc.leaves[ws[i].key] = ws[i].leaf_value
            BY <2>2, <3>1, Zenon
        <3> QED
            BY <3>1, <3>2, KeysAreRanks, AbsentIsNoValue, ZenonT(40)
               DEF verify_witness, PathAccepts, proof_path_for_access, LeftNeighbor, RightNeighbor,
                Materialized, StateWitnesses, AccumulatorInv, TypeOK, Accumulators
    <2>4. Failing # {} => Verdict(first) # "Ok"
        <3> SUFFICES ASSUME Failing # {} PROVE first \in Failing
            BY Zenon
        <3>1. Failing \in SUBSET Nat
            OBVIOUS
        <3>2. \E least \in Failing : \A n \in Failing : least <= n
            BY <3>1, LeastNatural, Zenon
        <3> HIDE DEF Failing
        <3> QED
            BY <3>2, Zenon
    <2>5. StrictlyIncreasing([i \in 1 .. Len(ws) |-> ws[i].key])
        BY Zenon DEF AccumulatorInv, HeldReadUnderItsRoot, HeldKeys
    <2>6. verify_witnesses(acc, ws, held.root) = IF Failing # {} THEN Verdict(first) ELSE "Ok"
        BY <2>5, Zenon DEF verify_witnesses
    <2>7. Failing = {} <=> acc.root = held.root
        BY <2>1, <2>3, Zenon
    <2> HIDE DEF Failing, first, Verdict
    <2> QED
        BY <2>4, <2>6, <2>7, Zenon
<1> QED
    BY <1>1, AccumulatorInvariance, PTL

\* A call that reports an error leaves the accumulator as it was.
THEOREM RefusalIsAtomic == AccumulatorSpec => RefusedCallsChangeNothing
<1>1. [AccumulatorNext]_accumulatorVars => [result' # "Ok" => acc' = acc]_accumulatorVars
    BY Zenon DEF AccumulatorNext, accumulatorVars, ApplyTransition, GetWitnessForAccesses, VerifyWitnesses,
           applier_apply_transition, apply_transition
<1> QED
    BY <1>1, PTL DEF AccumulatorSpec, RefusedCallsChangeNothing

-----------------------------------------------------------------------------
(* Powers of two.                                                          *)

\* The powers of two are positive and each is twice the one before.
LEMMA TwoUnfolds ==
    /\ Two \in [Nat -> Nat \ {0}]
    /\ Two[0] = 1
    /\ \A n \in Nat : Two[n + 1] = 2 * Two[n]
<1> DEFINE Positive == Nat \ {0}
           step == [n \in Nat \ {0} |-> [w \in Positive |-> 2 * w]]
           Unfolds(f) == f = [n \in Nat |-> IF n = 0 THEN 1 ELSE 2 * f[n - 1]]
<1>1. step \in [Nat \ {0} -> [Positive -> Positive]] /\ 1 \in Positive
    <2>1. ASSUME NEW w \in Positive PROVE 2 * w \in Positive
        OBVIOUS
    <2> QED
        BY <2>1
<1>2. PICK f \in [Nat -> Positive] : FollowsForever(f, 1, step)
    <2> HIDE DEF step, Positive
    <2> QED
        BY <1>1, UnboundedRecursion, Zenon
<1>3. Unfolds(f)
    <2>1. ASSUME NEW n \in Nat \ {0} PROVE f[n] = 2 * f[n - 1]
        <3>1. f[n - 1] \in Positive
            OBVIOUS
        <3> QED
            BY <1>2, <3>1, Zenon DEF FollowsForever
    <2> QED
        BY <1>2, <2>1, Zenon DEF FollowsForever
<1>4. Unfolds(Two)
    <2>1. Two = CHOOSE g : Unfolds(g)
        BY Zenon DEF Two
    <2> HIDE DEF Unfolds
    <2> QED
        BY <1>3, <2>1, Zenon
<1>5. Two[0] = 1 /\ \A n \in Nat \ {0} : Two[n] = 2 * Two[n - 1]
    BY <1>4, Zenon
<1>6. \A n \in Nat : Two[n + 1] = 2 * Two[n]
    <2> TAKE n \in Nat
    <2>1. n + 1 \in Nat \ {0} /\ (n + 1) - 1 = n
        OBVIOUS
    <2> QED
        BY <1>5, <2>1, Zenon
<1>7. ASSUME NEW N \in Nat PROVE Two[N] \in Positive
    <2> DEFINE Typed == {n \in Nat : Two[n] \in Positive}
    <2>1. 0 \in Typed
        BY <1>5
    <2>2. ASSUME NEW n \in 0 .. N - 1, n \in Typed PROVE n + 1 \in Typed
        BY <2>2, <1>6
    <2> HIDE DEF Typed
    <2>3. 0 .. N \subseteq Typed
        BY ONLY <2>1, <2>2, BoundedInduction, N \in Nat, Zenon
    <2> QED
        BY <2>3 DEF Typed
<1> QED
    BY <1>4, <1>5, <1>6, <1>7, Zenon

\* The powers of two that the fixed containers have.
LEMMA SmallPowers == Two[0] = 1 /\ Two[1] = 2 /\ Two[2] = 4 /\ Two[3] = 8
<1>1. Two[1] = 2 * Two[0]
    BY TwoUnfolds, 0 + 1 = 1, Zenon
<1>2. Two[2] = 2 * Two[1]
    BY TwoUnfolds, 1 + 1 = 2, Zenon
<1>3. Two[3] = 2 * Two[2]
    BY TwoUnfolds, 2 + 1 = 3, Zenon
<1> QED
    BY <1>1, <1>2, <1>3, TwoUnfolds, SMTT(30)

\* A larger exponent gives a larger power.
LEMMA TwoIncreases ==
    ASSUME NEW m \in Nat, NEW n \in Nat, m < n
    PROVE  Two[m] < Two[n]
<1> DEFINE Above == {k \in Nat : k <= m \/ Two[m] < Two[k]}
<1>1. 0 \in Above
    OBVIOUS
<1>2. ASSUME NEW k \in 0 .. n - 1, k \in Above PROVE k + 1 \in Above
    <2>1. k \in Nat /\ Two[k + 1] = 2 * Two[k] /\ Two[k] \in Nat \ {0} /\ Two[m] \in Nat \ {0}
        BY TwoUnfolds
    <2> QED
        BY <1>2, <2>1
<1> HIDE DEF Above
<1>3. 0 .. n \subseteq Above
    BY ONLY <1>1, <1>2, BoundedInduction, n \in Nat, Zenon
<1> QED
    BY <1>3 DEF Above

\* trailing_zeros is the exponent of a power of two.
LEMMA TrailingZeros ==
    ASSUME NEW i \in 0 .. USIZE_BITS - 1
    PROVE  trailing_zeros(Two[i]) = i
<1>1. ASSUME NEW j \in 0 .. USIZE_BITS - 1, Two[j] = Two[i] PROVE j = i
    <2>1. i \in Nat /\ j \in Nat /\ Two[i] \in Nat
        BY TwoUnfolds DEF USIZE_BITS
    <2>2. ~ (i < j) /\ ~ (j < i)
        BY <1>1, <2>1, TwoIncreases, SMTT(30)
    <2> QED
        BY <2>1, <2>2
<1> QED
    BY <1>1, Zenon DEF trailing_zeros

-----------------------------------------------------------------------------
(* Trees.                                                                  *)

\* A table of subtrees up to a depth.
Grown(chunks, top, T) ==
    T = [depth \in 0 .. top |->
            IF depth = 0 THEN Leaf(chunks) ELSE Node(chunks, depth, T[depth - 1])]

\* There is a table up to every depth.
LEMMA TreesGrow ==
    ASSUME NEW chunks, NEW top \in Nat
    PROVE  \E T : Grown(chunks, top, T)
<1> DEFINE Reached == {d \in Nat : \E T : Grown(chunks, d, T)}
<1>1. 0 \in Reached
    <2> DEFINE T == [depth \in 0 .. 0 |-> Leaf(chunks)]
    <2>1. Grown(chunks, 0, T)
        BY DEF Grown
    <2> QED
        BY <2>1, Zenon
<1>2. ASSUME NEW d \in 0 .. top - 1, d \in Reached PROVE d + 1 \in Reached
    <2>1. PICK T : Grown(chunks, d, T)
        BY <1>2, Zenon
    <2> DEFINE last == Node(chunks, d + 1, T[d])
               U == [depth \in 0 .. d + 1 |-> IF depth = d + 1 THEN last ELSE T[depth]]
               V == [depth \in 0 .. d + 1 |->
                        IF depth = 0 THEN Leaf(chunks) ELSE Node(chunks, depth, U[depth - 1])]
    <2>2. ASSUME NEW depth \in 0 .. d + 1 PROVE U[depth] = V[depth]
        <3>1. CASE depth = 0
            BY <2>1, <3>1 DEF Grown
        <3>2. CASE depth \in 1 .. d
            <4>1. U[depth] = T[depth] /\ U[depth - 1] = T[depth - 1]
                BY <3>2
            <4>2. T[depth] = Node(chunks, depth, T[depth - 1])
                BY <2>1, <3>2, SMTT(30) DEF Grown
            <4>3. V[depth] = Node(chunks, depth, U[depth - 1])
                BY <3>2
            <4> QED
                BY <4>1, <4>2, <4>3, ZenonT(40)
        <3>3. CASE depth = d + 1
            <4>1. U[depth] = last /\ U[d] = T[d] /\ depth - 1 = d
                BY <3>3
            <4>2. V[depth] = Node(chunks, depth, U[depth - 1])
                BY <3>3
            <4> QED
                BY <3>3, <4>1, <4>2, Zenon
        <3> QED
            BY <3>1, <3>2, <3>3, SMTT(30)
    <2>3. U = V
        BY <2>2, Zenon
    <2>4. Grown(chunks, d + 1, U)
        BY <2>3, Zenon DEF Grown
    <2> QED
        BY <2>4
<1> HIDE DEF Reached
<1>3. 0 .. top \subseteq Reached
    BY ONLY <1>1, <1>2, BoundedInduction, top \in Nat, Zenon
<1> QED
    BY <1>3 DEF Reached

\* Subtrees computes the table.
LEMMA SubtreesGrown ==
    ASSUME NEW chunks, NEW top \in Nat
    PROVE  Grown(chunks, top, Subtrees(chunks, top))
<1>1. Subtrees(chunks, top) = CHOOSE T : Grown(chunks, top, T)
    BY Zenon DEF Subtrees, Grown
<1> QED
    BY <1>1, TreesGrow, Zenon

\* Hashes are the same only for the same pairs.
LEMMA PairBinds ==
    ASSUME NEW a, NEW b, NEW c, NEW d, sha256_pair(a, b) = sha256_pair(c, d)
    PROVE  a = c /\ b = d
<1>1. sha256_pair(a, b).pair = sha256_pair(c, d).pair
    BY Zenon
<1>2. <<a, b>> = <<c, d>>
    BY <1>1, Zenon DEF sha256_pair
<1> QED
    BY <1>2, Zenon

\* The entries of a table.
LEMMA LeafAt ==
    ASSUME NEW chunks, NEW top \in Nat, NEW T, Grown(chunks, top, T),
           NEW from \in 0 .. Len(chunks), NEW to \in 0 .. Len(chunks)
    PROVE  T[0][from][to] = IF from < to THEN chunks[from + 1] ELSE ZeroChunk
<1>1. T[0] = Leaf(chunks)
    BY DEF Grown
<1> QED
    BY <1>1 DEF Leaf

\* An entry above the leaves is the hash of two entries below it.
LEMMA NodeAt ==
    ASSUME NEW chunks, NEW top \in Nat, NEW T, Grown(chunks, top, T), NEW d \in 0 .. top - 1,
           NEW from \in 0 .. Len(chunks), NEW to \in 0 .. Len(chunks)
    PROVE  T[d + 1][from][to] =
             sha256_pair(T[d][from][Smaller(to, from + Two[d])],
                         IF to > from + Two[d] THEN T[d][from + Two[d]][to] ELSE zero_hash(d))
<1>1. d + 1 \in 0 .. top /\ d + 1 # 0 /\ (d + 1) - 1 = d
    OBVIOUS
<1>2. T[d + 1] = Node(chunks, d + 1, T[d])
    BY <1>1, Zenon DEF Grown
<1>3. ASSUME NEW k, NEW child
      PROVE  Node(chunks, k, child)[from][to] =
               sha256_pair(child[from][Smaller(to, from + Two[k - 1])],
                           IF to > from + Two[k - 1] THEN child[from + Two[k - 1]][to]
                           ELSE zero_hash(k - 1))
    BY Zenon DEF Node
<1>4. Node(chunks, d + 1, T[d])[from][to] =
        sha256_pair(T[d][from][Smaller(to, from + Two[(d + 1) - 1])],
                    IF to > from + Two[(d + 1) - 1] THEN T[d][from + Two[(d + 1) - 1]][to]
                    ELSE zero_hash((d + 1) - 1))
    BY <1>3, Zenon
<1> QED
    BY ONLY <1>1, <1>2, <1>4, Zenon

\* Equal entries of two tables stand for equal chunks.
Binding(A, B, top, T, U) ==
    \A depth \in 0 .. top : \A from, to \in 0 .. Len(A) :
        T[depth][from][to] = U[depth][from][to] =>
          \A j \in 1 .. Len(A) : from < j /\ j <= to /\ j <= from + Two[depth] => A[j] = B[j]

\* Equal subtrees over the same slice of equally many chunks have equal chunks.
LEMMA SubtreeBinds ==
    ASSUME NEW R, NEW S, NEW A \in Seq(R), NEW B \in Seq(S), Len(A) = Len(B),
           NEW top \in Nat, NEW T, NEW U, Grown(A, top, T), Grown(B, top, U)
    PROVE  Binding(A, B, top, T, U)
<1> DEFINE n == Len(A)
           Bound(d, from, to) ==
                T[d][from][to] = U[d][from][to] =>
                    \A j \in 1 .. n : from < j /\ j <= to /\ j <= from + Two[d] => A[j] = B[j]
           Bind == {d \in Nat : \A from, to \in 0 .. n : Bound(d, from, to)}
<1>0. n \in Nat
    OBVIOUS
<1> HIDE DEF n
<1>1. 0 \in Bind
    <2> SUFFICES ASSUME NEW from \in 0 .. n, NEW to \in 0 .. n, T[0][from][to] = U[0][from][to],
                        NEW j \in 1 .. n, from < j, j <= to, j <= from + Two[0]
                 PROVE  A[j] = B[j]
        BY Zenon
    <2>1. j = from + 1 /\ from < to
        BY <1>0, TwoUnfolds
    <2>2. T[0][from][to] = A[from + 1]
        BY <2>1, LeafAt, SMTT(30) DEF n
    <2>3. U[0][from][to] = B[from + 1]
        BY <2>1, LeafAt, SMTT(30) DEF n
    <2> QED
        BY <2>1, <2>2, <2>3, Zenon
<1>2. ASSUME NEW d \in 0 .. top - 1, d \in Bind PROVE d + 1 \in Bind
    <2> DEFINE half == Two[d]
    <2>a. d \in Nat
        OBVIOUS
    <2>0. half \in Nat /\ half # 0 /\ Two[d + 1] = 2 * half
        BY ONLY <2>a, TwoUnfolds, Zenon
    <2> HIDE DEF half
    <2> SUFFICES ASSUME NEW from \in 0 .. n, NEW to \in 0 .. n,
                        T[d + 1][from][to] = U[d + 1][from][to],
                        NEW j \in 1 .. n, from < j, j <= to, j <= from + Two[d + 1]
                 PROVE  A[j] = B[j]
        BY <2>0
    <2> DEFINE mid == Smaller(to, from + half)
    <2>1. T[d + 1][from][to] =
             sha256_pair(T[d][from][mid],
                         IF to > from + half THEN T[d][from + half][to] ELSE zero_hash(d))
        BY ONLY NodeAt, top \in Nat, Grown(A, top, T), d \in 0 .. top - 1, from \in 0 .. n,
                to \in 0 .. n DEF half, n
    <2>2. U[d + 1][from][to] =
             sha256_pair(U[d][from][mid],
                         IF to > from + half THEN U[d][from + half][to] ELSE zero_hash(d))
        BY ONLY NodeAt, top \in Nat, Grown(B, top, U), d \in 0 .. top - 1, from \in 0 .. n,
                to \in 0 .. n, Len(A) = Len(B), SMTT(30) DEF half, n
    <2>3. /\ T[d][from][mid] = U[d][from][mid]
          /\ to > from + half => T[d][from + half][to] = U[d][from + half][to]
        <3>1. sha256_pair(T[d][from][mid],
                          IF to > from + half THEN T[d][from + half][to] ELSE zero_hash(d))
              = sha256_pair(U[d][from][mid],
                            IF to > from + half THEN U[d][from + half][to] ELSE zero_hash(d))
            BY <2>1, <2>2, ZenonT(40)
        <3>2. /\ T[d][from][mid] = U[d][from][mid]
              /\ (IF to > from + half THEN T[d][from + half][to] ELSE zero_hash(d))
                   = (IF to > from + half THEN U[d][from + half][to] ELSE zero_hash(d))
            BY ONLY <3>1, PairBinds, SMTT(30)
        <3> QED
            BY ONLY <3>2, Zenon
    <2>4. mid \in 0 .. n
        BY ONLY <1>0, <2>0, from \in 0 .. n, to \in 0 .. n, SMTT(30) DEF Smaller
    <2>5. \A g, h \in 0 .. n : Bound(d, g, h)
        BY <1>2, Zenon
    <2>6. CASE j <= from + half
        <3>1. j <= mid
            BY <2>6, <2>0, <1>0, Zenon DEF Smaller
        <3>2. Bound(d, from, mid)
            BY <2>4, <2>5, Zenon
        <3> HIDE DEF mid
        <3> QED
            BY <2>3, <2>6, <3>1, <3>2, Zenon DEF half
    <2>7. CASE j > from + half
        <3>1. from + half < to /\ from + half \in 0 .. n /\ j <= (from + half) + half
            BY ONLY <2>7, <2>0, <1>0, from \in 0 .. n, to \in 0 .. n, j \in 1 .. n, j <= to,
                    j <= from + Two[d + 1], SMTT(30)
        <3>2. Bound(d, from + half, to)
            BY <2>5, <3>1, Zenon
        <3> HIDE DEF mid
        <3> QED
            BY <2>3, <2>7, <3>1, <3>2, Zenon DEF half
    <2> QED
        BY <2>6, <2>7, <2>0, <1>0, SMTT(30)
<1> HIDE DEF Bind
<1>3. 0 .. top \subseteq Bind
    BY ONLY <1>1, <1>2, BoundedInduction, top \in Nat, Zenon
<1> QED
    BY <1>3, Zenon DEF Bind, n, Binding

\* merkleize of equally many chunks within the limit is the same only for the same chunks.
LEMMA MerkleizeBinds ==
    ASSUME NEW R, NEW S, NEW A \in Seq(R), NEW B \in Seq(S), Len(A) = Len(B),
           NEW i \in 0 .. USIZE_BITS - 1, Len(A) <= Two[i],
           merkleize(A, Two[i]) = merkleize(B, Two[i])
    PROVE  A = B
<1> DEFINE n == Len(A)
<1>a. i \in Nat
    BY DEF USIZE_BITS
<1>1. i \in Nat /\ Two[i] \in Nat /\ Two[i] # 0 /\ n \in Nat /\ 0 \in 0 .. n /\ n \in 0 .. n
    BY <1>a, TwoUnfolds, SMTT(30)
<1>2. trailing_zeros(Two[i]) = i
    BY TrailingZeros, Zenon
<1>3. merkleize(A, Two[i]) = Subtrees(A, i)[i][0][n]
    BY <1>1, <1>2, Zenon DEF merkleize
<1>4. merkleize(B, Two[i]) = Subtrees(B, i)[i][0][n]
    BY <1>1, <1>2, Zenon DEF merkleize
<1>5. Grown(A, i, Subtrees(A, i)) /\ Grown(B, i, Subtrees(B, i))
    BY <1>1, SubtreesGrown, Zenon
<1>6. Subtrees(A, i)[i][0][n] = Subtrees(B, i)[i][0][n]
    BY <1>3, <1>4, Zenon
<1>7. i \in 0 .. i
    BY <1>1
<1>8. PICK T, U : /\ T = Subtrees(A, i) /\ U = Subtrees(B, i)
                  /\ Grown(A, i, T) /\ Grown(B, i, U)
    BY <1>5, Zenon
<1>10. T[i][0][n] = U[i][0][n]
    BY <1>6, <1>8, Zenon
<1>12. Binding(A, B, i, T, U)
    BY ONLY <1>a, <1>8, SubtreeBinds, A \in Seq(R), B \in Seq(S), Len(A) = Len(B), Zenon
<1>11. T[i][0][n] = U[i][0][n] =>
          \A j \in 1 .. n : 0 < j /\ j <= n /\ j <= 0 + Two[i] => A[j] = B[j]
    BY ONLY <1>1, <1>7, <1>12, ZenonT(40) DEF Binding
<1>9. \A j \in 1 .. n : A[j] = B[j]
    BY <1>1, <1>10, <1>11, SMTT(30)
<1> QED
    BY <1>9

\* Equally long sequences in a chunk are told apart.
LEMMA ChunkBinds ==
    ASSUME NEW S, NEW a \in Seq(S), NEW b \in Seq(S), Len(a) = Len(b), Len(a) <= RootWidth,
           Chunk(a) = Chunk(b)
    PROVE  a = b
<1>1. ASSUME NEW i \in 1 .. Len(a) PROVE a[i] = b[i]
    <2>1. i \in 1 .. RootWidth /\ i <= Len(a) /\ i <= Len(b)
        BY WidthsArePositive, SMTT(30)
    <2>2. Chunk(a).bytes[i] = a[i]
        BY <2>1, Zenon DEF Chunk
    <2>3. Chunk(b).bytes[i] = b[i]
        BY <2>1, Zenon DEF Chunk
    <2> QED
        BY <2>2, <2>3, Zenon
<1> QED
    BY <1>1, SameSequence, Zenon

\* A field of fixed width in a chunk is told apart.
LEMMA FieldBinds ==
    ASSUME NEW width \in Nat, width <= RootWidth, NEW a \in Fixed(width), NEW b \in Fixed(width),
           Chunk(a) = Chunk(b)
    PROVE  a = b
<1>1. a \in Seq(Bytes) /\ b \in Seq(Bytes) /\ Len(a) = width /\ Len(b) = width
    BY FixedType, Zenon
<1> QED
    BY <1>1, ChunkBinds, Zenon

\* So are numbers.
LEMMA WordBinds ==
    ASSUME NEW m \in Below(WordWidth), NEW n \in Below(WordWidth), htr_u64(m) = htr_u64(n)
    PROVE  m = n
<1>1. WordWidth \in Nat /\ WordWidth <= RootWidth
    BY WidthsArePositive
<1>2. m \in Nat /\ n \in Nat
    BY <1>1, WeightStep, SMTT(30) DEF Below
<1>3. to_le_bytes(m, WordWidth) \in Fixed(WordWidth) /\ to_le_bytes(n, WordWidth) \in Fixed(WordWidth)
    BY <1>1, <1>2, ToBytesType, Zenon DEF Fixed
<1>4. Chunk(to_le_bytes(m, WordWidth)) = Chunk(to_le_bytes(n, WordWidth))
    BY Zenon DEF htr_u64
<1>5. to_le_bytes(m, WordWidth) = to_le_bytes(n, WordWidth)
    BY <1>1, <1>3, <1>4, FieldBinds, ZenonT(40)
<1> QED
    BY <1>1, <1>5, NumberRoundTrip, ZenonT(40)

\* And single bytes and selectors.
LEMMA SelectorBinds ==
    ASSUME NEW m, NEW n, Chunk(<<m>>) = Chunk(<<n>>)
    PROVE  m = n
<1>1. 1 \in 1 .. RootWidth
    BY WidthsArePositive
<1>2. Chunk(<<m>>).bytes[1] = m /\ Chunk(<<n>>).bytes[1] = n
    BY <1>1 DEF Chunk
<1> QED
    BY <1>2, Zenon

-----------------------------------------------------------------------------
(* Byte lists.                                                             *)

\* Where byte j of a list of L bytes is among chunks of W.
LEMMA PlaceInChunks ==
    ASSUME NEW L \in Nat, NEW W \in Nat \ {0}, NEW j \in 1 .. L
    PROVE  \E k \in Nat, r \in 0 .. W - 1 :
              /\ j = k * W + r + 1
              /\ k + 1 \in 1 .. (L + W - 1) \div W
<1> DEFINE k == (j - 1) \div W
           r == (j - 1) % W
           m == (L + W - 1) \div W
           s == (L + W - 1) % W
<1>0. j - 1 \in Nat /\ L + W - 1 \in Nat
    OBVIOUS
<1>1. k \in Nat /\ r \in 0 .. W - 1 /\ j - 1 = k * W + r
    BY <1>0, Divided, Zenon
<1>2. m \in Nat /\ s \in 0 .. W - 1 /\ L + W - 1 = m * W + s
    BY <1>0, Divided, Zenon
<1> HIDE DEF k, r, m, s
<1>3. ~ (m <= k)
    <2> SUFFICES ASSUME m <= k PROVE FALSE
        BY Zenon
    <2>1. m * W <= k * W /\ m * W \in Nat /\ k * W \in Nat
        BY <1>1, <1>2, SMTT(30)
    <2> QED
        BY <1>1, <1>2, <2>1, SMTT(30)
<1>4. k * W \in Nat
    BY <1>1
<1>5. j = k * W + r + 1 /\ k + 1 \in 1 .. m
    BY <1>1, <1>2, <1>3, <1>4, SMTT(30)
<1> QED
    BY <1>1, <1>5, Zenon DEF m

\* The chunks of a byte list.
LEMMA PackedType ==
    ASSUME NEW a \in Seq(Bytes)
    PROVE  /\ (Len(a) + RootWidth - 1) \div RootWidth \in Nat
           /\ pack_bytes(a) \in Seq({Chunk(b) : b \in Seq(Bytes)})
           /\ Len(pack_bytes(a)) = (Len(a) + RootWidth - 1) \div RootWidth
<1> DEFINE m == (Len(a) + RootWidth - 1) \div RootWidth
           Piece(i) == SubSeq(a, (i - 1) * RootWidth + 1,
                              IF i * RootWidth < Len(a) THEN i * RootWidth ELSE Len(a))
<1>1. RootWidth \in Nat \ {0} /\ Len(a) + RootWidth - 1 \in Nat
    BY WidthsArePositive
<1>2. m \in Nat
    BY <1>1, Divided, Zenon
<1>3. pack_bytes(a) = [i \in 1 .. m |-> Chunk(Piece(i))]
    BY Zenon DEF pack_bytes
<1>4. ASSUME NEW i \in 1 .. m PROVE Piece(i) \in Seq(Bytes)
    <2>1. i * RootWidth \in Nat /\ (i - 1) * RootWidth + 1 \in Nat \ {0}
        BY <1>1, <1>2
    <2>2. \A f \in Nat \ {0}, t \in Nat : t <= Len(a) => SubSeq(a, f, t) \in Seq(Bytes)
        OBVIOUS
    <2> QED
        BY <2>1, <2>2
<1> HIDE DEF Piece, m
<1>5. [i \in 1 .. m |-> Chunk(Piece(i))] \in Seq({Chunk(b) : b \in Seq(Bytes)})
    BY <1>2, <1>4, SMTT(30)
<1>6. Len([i \in 1 .. m |-> Chunk(Piece(i))]) = m
    BY <1>2
<1> QED
    BY <1>2, <1>3, <1>5, <1>6, Zenon DEF m

\* A byte of a list is found in its chunk.
LEMMA PackedByte ==
    ASSUME NEW a \in Seq(Bytes), NEW k \in Nat, NEW r \in 0 .. RootWidth - 1,
           k * RootWidth + r + 1 \in 1 .. Len(a),
           k + 1 \in 1 .. (Len(a) + RootWidth - 1) \div RootWidth
    PROVE  pack_bytes(a)[k + 1].bytes[r + 1] = a[k * RootWidth + r + 1]
<1> DEFINE end == IF (k + 1) * RootWidth < Len(a) THEN (k + 1) * RootWidth ELSE Len(a)
<1>1. RootWidth \in Nat \ {0}
    BY WidthsArePositive, Zenon
<1>2. pack_bytes(a)[k + 1] = Chunk(SubSeq(a, ((k + 1) - 1) * RootWidth + 1, end))
    BY Zenon DEF pack_bytes
<1>3. (k + 1) - 1 = k
    OBVIOUS
<1>4. PICK s \in Nat : s = k * RootWidth
    BY <1>1
<1>5. (k + 1) * RootWidth = s + RootWidth
    BY <1>1, <1>4, SMTT(30)
<1>6. end \in Nat /\ end <= Len(a) /\ s + r + 1 <= end
    BY <1>1, <1>4, <1>5, SMTT(30)
<1> HIDE DEF end
<1>7. /\ SubSeq(a, s + 1, end) \in Seq(Bytes) /\ Len(SubSeq(a, s + 1, end)) = end - s
      /\ SubSeq(a, s + 1, end)[r + 1] = a[s + r + 1]
    <2>1. /\ s + 1 \in Nat \ {0} /\ end \in Nat /\ end <= Len(a) /\ r \in Nat /\ s + r + 1 <= end
        BY <1>1, <1>6, SMTT(30)
    <2> QED
        BY ONLY <2>1, a \in Seq(Bytes), s \in Nat, SMTT(30)
<1>8. pack_bytes(a)[k + 1] = Chunk(SubSeq(a, s + 1, end))
    BY <1>2, <1>3, <1>4, ZenonT(40)
<1> DEFINE piece == SubSeq(a, s + 1, end)
<1>9. r + 1 \in 1 .. RootWidth /\ r + 1 <= Len(piece)
    BY <1>1, <1>6, <1>7, SMTT(30)
<1> HIDE DEF piece
<1>10. Chunk(piece).bytes[r + 1] = piece[r + 1]
    BY <1>9, Zenon DEF Chunk
<1> QED
    BY <1>4, <1>7, <1>8, <1>10, ZenonT(40) DEF piece

\* Equally long lists of bytes with the same chunks are the same.
LEMMA PackBinds ==
    ASSUME NEW a \in Seq(Bytes), NEW b \in Seq(Bytes), Len(a) = Len(b),
           pack_bytes(a) = pack_bytes(b)
    PROVE  a = b
<1>1. ASSUME NEW j \in 1 .. Len(a) PROVE a[j] = b[j]
    <2>1. RootWidth \in Nat \ {0} /\ Len(a) \in Nat
        BY WidthsArePositive
    <2>2. PICK k \in Nat, r \in 0 .. RootWidth - 1 :
              /\ j = k * RootWidth + r + 1
              /\ k + 1 \in 1 .. (Len(a) + RootWidth - 1) \div RootWidth
        BY ONLY <2>1, PlaceInChunks, j \in 1 .. Len(a), ZenonT(40)
    <2>3. pack_bytes(a)[k + 1].bytes[r + 1] = a[k * RootWidth + r + 1]
        BY <2>2, PackedByte, Zenon
    <2>4. pack_bytes(b)[k + 1].bytes[r + 1] = b[k * RootWidth + r + 1]
        BY <2>2, PackedByte, Zenon
    <2> QED
        BY <2>2, <2>3, <2>4, ZenonT(40)
<1> QED
    BY <1>1, SameSequence, Zenon

\* The limit of a byte list in chunks is a power of two.
LEMMA ChunkLimitIs ==
    \E i \in 0 .. USIZE_BITS - 2 : ByteListLimit = RootWidth * Two[i] /\ CHUNK_LIMIT = Two[i]
<1>1. RootWidth \in Nat \ {0}
    BY WidthsArePositive, Zenon
<1>2. PICK i \in 0 .. USIZE_BITS - 2 : ByteListLimit = RootWidth * Two[i]
    BY LimitsArePowersOfTwo, Zenon
<1>3. i \in Nat
    BY DEF USIZE_BITS
<1>4. PICK t \in Nat : t = Two[i]
    BY <1>3, TwoUnfolds, Zenon
<1>5. ByteListLimit \in Nat /\ ByteListLimit = t * RootWidth + 0
    BY <1>1, <1>2, <1>4, SMTT(30)
<1>6. 0 \in Nat /\ 0 < RootWidth
    BY <1>1
<1>7. ByteListLimit \div RootWidth = t
    BY ONLY <1>1, <1>5, <1>6, Division, t \in Nat, ZenonT(40)
<1> QED
    BY <1>2, <1>4, <1>7, Zenon DEF CHUNK_LIMIT

\* htr_byte_list tells apart lists within their limit, whatever their lengths.
LEMMA ByteListBinds ==
    ASSUME NEW a \in Seq(Bytes), NEW b \in Seq(Bytes), Len(a) <= ByteListLimit,
           Len(b) <= ByteListLimit, htr_byte_list(a) = htr_byte_list(b)
    PROVE  a = b
<1> DEFINE m == (Len(a) + RootWidth - 1) \div RootWidth
<1>1. RootWidth \in Nat \ {0} /\ Len(a) \in Nat /\ Len(b) \in Nat /\ WordWidth \in Nat
    BY WidthsArePositive, SMTT(30)
<1>2. Len(a) \in Below(WordWidth) /\ Len(b) \in Below(WordWidth)
    <2>1. ByteListLimit \in 0 .. Weight[WordWidth] - 1 /\ Weight[WordWidth] \in Nat
        BY <1>1, LimitsAreWords, WeightStep, Zenon DEF Below
    <2> QED
        BY <1>1, <2>1, SMTT(30) DEF Below
<1>3. /\ merkleize(pack_bytes(a), CHUNK_LIMIT) = merkleize(pack_bytes(b), CHUNK_LIMIT)
      /\ htr_u64(Len(a)) = htr_u64(Len(b))
    BY PairBinds DEF htr_byte_list, mix_in_length
<1>4. Len(a) = Len(b)
    BY <1>2, <1>3, WordBinds, Zenon
<1>5. PICK i \in 0 .. USIZE_BITS - 2 :
        ByteListLimit = RootWidth * Two[i] /\ CHUNK_LIMIT = Two[i]
    BY ChunkLimitIs, Zenon
<1>6. i \in Nat /\ i \in 0 .. USIZE_BITS - 1
    BY DEF USIZE_BITS
<1>7. PICK t \in Nat : t = Two[i]
    BY <1>6, TwoUnfolds, Zenon
<1>9. m \in Nat /\ m <= t
    <2> DEFINE s == (Len(a) + RootWidth - 1) % RootWidth
    <2>1. Len(a) + RootWidth - 1 \in Nat
        BY <1>1, SMTT(30)
    <2>2. m \in Nat /\ s \in 0 .. RootWidth - 1 /\ Len(a) + RootWidth - 1 = m * RootWidth + s
        BY <1>1, <2>1, Divided, Zenon
    <2> HIDE DEF m, s
    <2> SUFFICES ASSUME ~ (m <= t) PROVE FALSE
        BY <2>2, Zenon
    <2>3. m >= t + 1
        BY <2>2
    <2>4. m * RootWidth >= (t + 1) * RootWidth /\ m * RootWidth \in Nat
        BY <1>1, <2>2, <2>3
    <2>5. (t + 1) * RootWidth = RootWidth * t + RootWidth /\ RootWidth * t \in Nat
        BY <1>1
    <2>6. PICK p \in Nat : p = m * RootWidth
        BY <2>4, Zenon
    <2>7. PICK q \in Nat : q = RootWidth * t
        BY <2>5, Zenon
    <2>8. Len(a) <= q
        BY <1>5, <1>7, <2>7, ZenonT(40)
    <2>9. Len(a) + RootWidth - 1 >= p /\ p >= q + RootWidth
        <3>1. Len(a) + RootWidth - 1 = p + s /\ p >= q + RootWidth
            BY ONLY <2>2, <2>4, <2>5, <2>6, <2>7, ZenonT(40)
        <3> QED
            BY ONLY <1>1, <2>2, <3>1, p \in Nat, SMTT(30)
    <2> QED
        BY ONLY <1>1, <2>8, <2>9, p \in Nat, q \in Nat, SMTT(30)
<1>10. /\ pack_bytes(a) \in Seq({Chunk(x) : x \in Seq(Bytes)}) /\ Len(pack_bytes(a)) = m
       /\ pack_bytes(b) \in Seq({Chunk(x) : x \in Seq(Bytes)}) /\ Len(pack_bytes(b)) = m
    BY <1>4, PackedType, Zenon
<1> HIDE DEF m
<1>11. Len(pack_bytes(a)) = Len(pack_bytes(b)) /\ Len(pack_bytes(a)) <= Two[i]
    BY <1>7, <1>9, <1>10, Zenon
<1>12. merkleize(pack_bytes(a), Two[i]) = merkleize(pack_bytes(b), Two[i])
    BY <1>3, <1>5, Zenon
<1>13. pack_bytes(a) = pack_bytes(b)
    BY ONLY <1>6, <1>10, <1>11, <1>12, MerkleizeBinds, Zenon
<1> QED
    BY <1>4, <1>13, PackBinds, Zenon

\* The roots of containers of two, four and eight fields stand for the fields.
LEMMA TwoFields ==
    ASSUME NEW a1, NEW a2, NEW b1, NEW b2,
           merkleize(<<a1, a2>>, 2) = merkleize(<<b1, b2>>, 2)
    PROVE  a1 = b1 /\ a2 = b2
<1> DEFINE A == <<a1, a2>>
           B == <<b1, b2>>
<1>1. /\ A \in Seq({a1, a2}) /\ B \in Seq({b1, b2}) /\ Len(A) = Len(B) /\ Len(A) <= 2
    OBVIOUS
<1>2. 1 \in 0 .. USIZE_BITS - 1 /\ Two[1] = 2
    BY SmallPowers DEF USIZE_BITS
<1>3. merkleize(A, 2) = merkleize(B, 2)
    BY Zenon
<1>4. A = B
    <2> HIDE DEF A, B
    <2> QED
        BY ONLY <1>1, <1>2, <1>3, MerkleizeBinds, Zenon
<1> QED
    BY <1>4, Zenon

\* The root of four fields stands for them.
LEMMA FourFields ==
    ASSUME NEW a1, NEW a2, NEW a3, NEW a4, NEW b1, NEW b2, NEW b3, NEW b4,
           merkleize(<<a1, a2, a3, a4>>, 4) = merkleize(<<b1, b2, b3, b4>>, 4)
    PROVE  a1 = b1 /\ a2 = b2 /\ a3 = b3 /\ a4 = b4
<1> DEFINE A == <<a1, a2, a3, a4>>
           B == <<b1, b2, b3, b4>>
<1>1. /\ A \in Seq({a1, a2, a3, a4}) /\ B \in Seq({b1, b2, b3, b4})
      /\ Len(A) = Len(B) /\ Len(A) <= 4
    OBVIOUS
<1>2. 2 \in 0 .. USIZE_BITS - 1 /\ Two[2] = 4
    BY SmallPowers, SMTT(30) DEF USIZE_BITS
<1>3. merkleize(A, 4) = merkleize(B, 4)
    BY Zenon
<1>4. A = B
    <2> HIDE DEF A, B
    <2> QED
        BY ONLY <1>1, <1>2, <1>3, MerkleizeBinds, Zenon
<1> QED
    BY <1>4, Zenon

\* So does the root of eight.
LEMMA EightFields ==
    ASSUME NEW R, NEW S, NEW A \in Seq(R), NEW B \in Seq(S), Len(A) = 8, Len(B) = 8,
           merkleize(A, 8) = merkleize(B, 8)
    PROVE  A = B
<1>1. 3 \in 0 .. USIZE_BITS - 1 /\ Two[3] = 8 /\ 8 <= 8
    BY SmallPowers DEF USIZE_BITS
<1>2. /\ Len(A) = Len(B) /\ Len(A) <= Two[3]
      /\ merkleize(A, Two[3]) = merkleize(B, Two[3])
    BY ONLY <1>1, Len(A) = 8, Len(B) = 8, merkleize(A, 8) = merkleize(B, 8), ZenonT(40)
<1> QED
    BY ONLY <1>1, <1>2, MerkleizeBinds, A \in Seq(R), B \in Seq(S), SMTT(30)

\* Eight fields are a sequence of eight.
LEMMA Octet ==
    ASSUME NEW a1, NEW a2, NEW a3, NEW a4, NEW a5, NEW a6, NEW a7, NEW a8
    PROVE  /\ <<a1, a2, a3, a4, a5, a6, a7, a8>> \in Seq({a1, a2, a3, a4, a5, a6, a7, a8})
           /\ Len(<<a1, a2, a3, a4, a5, a6, a7, a8>>) = 8
OBVIOUS

\* The widths of the fields are those of a chunk at most.
LEMMA FieldWidths ==
    /\ RootWidth \in Nat /\ RootWidth <= RootWidth
    /\ AddressWidth \in Nat /\ AddressWidth <= RootWidth
BY WidthsArePositive, SMTT(30)

\* htr_fees stands for the fees.
LEMMA FeesBind ==
    ASSUME NEW f \in Fees, NEW g \in Fees, htr_fees(f) = htr_fees(g)
    PROVE  f = g
<1>1. /\ Chunk(f.regular) = Chunk(g.regular)
      /\ Chunk(f.max_priority_fee_per_gas) = Chunk(g.max_priority_fee_per_gas)
      /\ Chunk(f.max_witness_priority_fee) = Chunk(g.max_witness_priority_fee)
    BY FourFields, SMTT(30) DEF htr_fees
<1>2. /\ f.regular \in Fixed(RootWidth) /\ g.regular \in Fixed(RootWidth)
      /\ f.max_priority_fee_per_gas \in Fixed(RootWidth)
      /\ g.max_priority_fee_per_gas \in Fixed(RootWidth)
      /\ f.max_witness_priority_fee \in Fixed(RootWidth)
      /\ g.max_witness_priority_fee \in Fixed(RootWidth)
    BY Zenon DEF Fees
<1>3. /\ f.regular = g.regular /\ f.max_priority_fee_per_gas = g.max_priority_fee_per_gas
      /\ f.max_witness_priority_fee = g.max_witness_priority_fee
    BY <1>1, <1>2, FieldWidths, FieldBinds, ZenonT(40)
<1> QED
    BY <1>3, SMTT(30) DEF Fees

\* The fields of payloads.
LEMMA BasicFields ==
    ASSUME NEW p \in BasicPayloads
    PROVE  /\ p.tag = TAG_BASIC /\ p.chain_id \in Fixed(RootWidth) /\ p.nonce \in Below(WordWidth)
           /\ p.gas_limit \in Below(WordWidth) /\ p.fees \in Fees /\ p.to \in Fixed(AddressWidth)
           /\ p.value \in Fixed(RootWidth) /\ p.input \in Seq(Bytes)
           /\ p.access_commitment \in Fixed(RootWidth)
           /\ p = [tag |-> TAG_BASIC, chain_id |-> p.chain_id, nonce |-> p.nonce,
                   gas_limit |-> p.gas_limit, fees |-> p.fees, to |-> p.to, value |-> p.value,
                   input |-> p.input, access_commitment |-> p.access_commitment]
BY Zenon DEF BasicPayloads

\* The fields of a payload that creates a contract.
LEMMA CreateFields ==
    ASSUME NEW p \in CreatePayloads
    PROVE  /\ p.tag = TAG_CREATE /\ p.chain_id \in Fixed(RootWidth) /\ p.nonce \in Below(WordWidth)
           /\ p.gas_limit \in Below(WordWidth) /\ p.fees \in Fees
           /\ p.value \in Fixed(RootWidth) /\ p.input \in Seq(Bytes)
           /\ p.access_commitment \in Fixed(RootWidth)
           /\ p = [tag |-> TAG_CREATE, chain_id |-> p.chain_id, nonce |-> p.nonce,
                   gas_limit |-> p.gas_limit, fees |-> p.fees, value |-> p.value,
                   input |-> p.input, access_commitment |-> p.access_commitment]
BY Zenon DEF CreatePayloads

\* The root of a payload stands for its fields.
LEMMA BasicBinds ==
    ASSUME NEW p \in BasicPayloads, NEW q \in BasicPayloads, Len(p.input) <= ByteListLimit,
           Len(q.input) <= ByteListLimit, htr_basic_payload(p) = htr_basic_payload(q)
    PROVE  p = q
<1>1. /\ Chunk(p.chain_id) = Chunk(q.chain_id) /\ htr_u64(p.nonce) = htr_u64(q.nonce)
      /\ htr_u64(p.gas_limit) = htr_u64(q.gas_limit) /\ htr_fees(p.fees) = htr_fees(q.fees)
      /\ Chunk(p.to) = Chunk(q.to) /\ Chunk(p.value) = Chunk(q.value)
      /\ htr_byte_list(p.input) = htr_byte_list(q.input)
      /\ Chunk(p.access_commitment) = Chunk(q.access_commitment)
    <2> DEFINE A(x) == <<Chunk(x.chain_id), htr_u64(x.nonce), htr_u64(x.gas_limit),
                         htr_fees(x.fees), Chunk(x.to), Chunk(x.value), htr_byte_list(x.input),
                         Chunk(x.access_commitment)>>
    <2>1. htr_basic_payload(p) = merkleize(A(p), 8) /\ htr_basic_payload(q) = merkleize(A(q), 8)
        BY Zenon DEF htr_basic_payload
    <2>2. /\ \E S : A(p) \in Seq(S) /\ Len(A(p)) = 8
          /\ \E S : A(q) \in Seq(S) /\ Len(A(q)) = 8
        BY Octet, Zenon
    <2>3. A(p) = A(q)
        <3> HIDE DEF A
        <3> QED
            BY <2>1, <2>2, EightFields, ZenonT(40)
    <2> QED
        BY ONLY <2>3, Zenon
<1>2. /\ p.chain_id = q.chain_id /\ p.to = q.to /\ p.value = q.value
      /\ p.access_commitment = q.access_commitment
    BY <1>1, BasicFields, FieldWidths, FieldBinds, ZenonT(40)
<1>3. p.nonce = q.nonce /\ p.gas_limit = q.gas_limit
    BY <1>1, BasicFields, WordBinds, ZenonT(40)
<1>4. p.fees = q.fees
    BY <1>1, BasicFields, FeesBind, ZenonT(40)
<1>5. p.input = q.input
    BY <1>1, BasicFields, ByteListBinds, ZenonT(40)
<1> QED
    BY <1>2, <1>3, <1>4, <1>5, BasicFields, ZenonT(40)

\* htr_create_payload stands for the payload, within the limit of its input.
LEMMA CreateBinds ==
    ASSUME NEW p \in CreatePayloads, NEW q \in CreatePayloads, Len(p.input) <= ByteListLimit,
           Len(q.input) <= ByteListLimit, htr_create_payload(p) = htr_create_payload(q)
    PROVE  p = q
<1>1. /\ Chunk(p.chain_id) = Chunk(q.chain_id) /\ htr_u64(p.nonce) = htr_u64(q.nonce)
      /\ htr_u64(p.gas_limit) = htr_u64(q.gas_limit) /\ htr_fees(p.fees) = htr_fees(q.fees)
      /\ Chunk(p.value) = Chunk(q.value)
      /\ htr_byte_list(p.input) = htr_byte_list(q.input)
      /\ Chunk(p.access_commitment) = Chunk(q.access_commitment)
    <2> DEFINE A(x) == <<Chunk(x.chain_id), htr_u64(x.nonce), htr_u64(x.gas_limit),
                         htr_fees(x.fees), Chunk(x.value), htr_byte_list(x.input),
                         Chunk(x.access_commitment), ZeroChunk>>
    <2>1. htr_create_payload(p) = merkleize(A(p), 8) /\ htr_create_payload(q) = merkleize(A(q), 8)
        BY Zenon DEF htr_create_payload
    <2>2. /\ \E S : A(p) \in Seq(S) /\ Len(A(p)) = 8
          /\ \E S : A(q) \in Seq(S) /\ Len(A(q)) = 8
        BY Octet, ZenonT(40)
    <2>3. A(p) = A(q)
        <3> HIDE DEF A
        <3> QED
            BY <2>1, <2>2, EightFields, Zenon
    <2> QED
        BY ONLY <2>3, Zenon
<1>2. /\ p.chain_id = q.chain_id /\ p.value = q.value
      /\ p.access_commitment = q.access_commitment
    BY <1>1, CreateFields, FieldWidths, FieldBinds, ZenonT(40)
<1>3. p.nonce = q.nonce /\ p.gas_limit = q.gas_limit
    BY <1>1, CreateFields, WordBinds, ZenonT(40)
<1>4. p.fees = q.fees
    BY <1>1, CreateFields, FeesBind, ZenonT(40)
<1>5. p.input = q.input
    BY <1>1, CreateFields, ByteListBinds, ZenonT(40)
<1> QED
    BY <1>2, <1>3, <1>4, <1>5, CreateFields, ZenonT(40)

\* The selector tells the variants apart.
LEMMA PayloadBinds ==
    ASSUME NEW p \in BasicPayloads \cup CreatePayloads, NEW q \in BasicPayloads \cup CreatePayloads,
           Len(p.input) <= ByteListLimit, Len(q.input) <= ByteListLimit,
           payload_root(p) = payload_root(q)
    PROVE  p = q
<1> DEFINE root(x) == IF x.tag = TAG_BASIC THEN htr_basic_payload(x) ELSE htr_create_payload(x)
<1>1. root(p) = root(q) /\ Chunk(<<p.tag>>) = Chunk(<<q.tag>>)
    <2>1. sha256_pair(root(p), Chunk(<<p.tag>>)) = sha256_pair(root(q), Chunk(<<q.tag>>))
        BY Zenon DEF payload_root, mix_in_selector
    <2> HIDE DEF root
    <2> QED
        BY <2>1, PairBinds, SMTT(30)
<1>2. p.tag = q.tag
    BY <1>1, SelectorBinds, ZenonT(40)
<1>3. TAG_BASIC # TAG_CREATE
    BY SMTT(30) DEF TAG_BASIC, TAG_CREATE
<1>4. CASE p.tag = TAG_BASIC
    <2>1. p \in BasicPayloads /\ q \in BasicPayloads
        BY <1>2, <1>3, <1>4, CreateFields, ZenonT(40)
    <2> QED
        BY <1>1, <1>2, <1>4, <2>1, BasicBinds, ZenonT(40)
<1>5. CASE p.tag # TAG_BASIC
    <2>1. p \in CreatePayloads /\ q \in CreatePayloads
        BY <1>2, <1>5, BasicFields, ZenonT(40)
    <2> QED
        BY <1>1, <1>2, <1>5, <2>1, CreateBinds, ZenonT(40)
<1> QED
    BY <1>4, <1>5, ZenonT(40)

\* The root of an authorization stands for its fields.
LEMMA AuthorizationBinds ==
    ASSUME NEW a \in Authorizations, NEW b \in Authorizations,
           Len(a.signature) <= ByteListLimit, Len(b.signature) <= ByteListLimit,
           htr_authorization(a) = htr_authorization(b)
    PROVE  a = b
<1>1. /\ Chunk(<<a.scheme_id>>) = Chunk(<<b.scheme_id>>)
      /\ Chunk(a.payload_root) = Chunk(b.payload_root)
      /\ htr_byte_list(a.signature) = htr_byte_list(b.signature)
    BY FourFields, SMTT(30) DEF htr_authorization
<1>2. /\ a.payload_root \in Fixed(RootWidth) /\ b.payload_root \in Fixed(RootWidth)
      /\ a.signature \in Seq(Bytes) /\ b.signature \in Seq(Bytes)
    BY Zenon DEF Authorizations
<1>3. a.scheme_id = b.scheme_id
    BY <1>1, SelectorBinds, ZenonT(40)
<1>4. a.payload_root = b.payload_root
    BY <1>1, <1>2, FieldWidths, FieldBinds, ZenonT(40)
<1>5. a.signature = b.signature
    BY <1>1, <1>2, ByteListBinds, ZenonT(40)
<1> QED
    BY <1>3, <1>4, <1>5, SMTT(30) DEF Authorizations

\* The root of a list of authorizations stands for their number and each of them.
LEMMA AuthorizationListBinds ==
    ASSUME NEW a \in Seq(Authorizations), NEW b \in Seq(Authorizations),
           Len(a) <= ListLimit, Len(b) <= ListLimit,
           \A i \in DOMAIN a : Len(a[i].signature) <= ByteListLimit,
           \A i \in DOMAIN b : Len(b[i].signature) <= ByteListLimit,
           htr_authorization_list(a) = htr_authorization_list(b)
    PROVE  a = b
<1> DEFINE roots(x) == [i \in 1 .. Len(x) |-> htr_authorization(x[i])]
<1>1. Len(a) \in Nat /\ Len(b) \in Nat /\ WordWidth \in Nat
    BY WidthsArePositive, SMTT(30)
<1>2. Len(a) \in Below(WordWidth) /\ Len(b) \in Below(WordWidth)
    <2>1. ListLimit \in 0 .. Weight[WordWidth] - 1 /\ Weight[WordWidth] \in Nat
        BY <1>1, LimitsAreWords, WeightStep, ZenonT(40) DEF Below
    <2> QED
        BY <1>1, <2>1, SMTT(30) DEF Below
<1>3. /\ merkleize(roots(a), ListLimit) = merkleize(roots(b), ListLimit)
      /\ htr_u64(Len(a)) = htr_u64(Len(b))
    <2>1. sha256_pair(merkleize(roots(a), ListLimit), htr_u64(Len(a)))
            = sha256_pair(merkleize(roots(b), ListLimit), htr_u64(Len(b)))
        BY Zenon DEF htr_authorization_list, mix_in_length
    <2> HIDE DEF roots
    <2> QED
        BY <2>1, PairBinds
<1>4. Len(a) = Len(b)
    BY <1>2, <1>3, WordBinds, Zenon
<1>5. PICK i \in 0 .. USIZE_BITS - 2 : ListLimit = Two[i]
    BY LimitsArePowersOfTwo, Zenon
<1>6. i \in 0 .. USIZE_BITS - 1
    BY SMTT(30) DEF USIZE_BITS
<1> DEFINE FieldRoots == {htr_authorization(x) : x \in Authorizations}
<1>7. /\ roots(a) \in Seq(FieldRoots) /\ Len(roots(a)) = Len(a)
      /\ roots(b) \in Seq(FieldRoots) /\ Len(roots(b)) = Len(b)
    <2>1. \A j \in 1 .. Len(a) : htr_authorization(a[j]) \in FieldRoots
        BY SMTT(30)
    <2>2. \A j \in 1 .. Len(b) : htr_authorization(b[j]) \in FieldRoots
        BY SMTT(30)
    <2> HIDE DEF FieldRoots
    <2> QED
        BY <1>1, <2>1, <2>2, SMTT(30)
<1>8. merkleize(roots(a), Two[i]) = merkleize(roots(b), Two[i])
    BY <1>3, <1>5, ZenonT(40)
<1>9. roots(a) = roots(b)
    <2> HIDE DEF FieldRoots, roots
    <2>1. Len(roots(a)) = Len(roots(b)) /\ Len(roots(a)) <= Two[i]
        BY <1>4, <1>5, <1>7, ZenonT(40)
    <2> QED
        BY ONLY <1>6, <1>7, <1>8, <2>1, MerkleizeBinds, Zenon
<1>10. ASSUME NEW j \in 1 .. Len(a) PROVE a[j] = b[j]
    <2>1. htr_authorization(a[j]) = htr_authorization(b[j])
        <3>1. roots(a)[j] = htr_authorization(a[j]) /\ roots(b)[j] = htr_authorization(b[j])
            BY <1>4, Zenon
        <3> QED
            BY <1>9, <3>1, ZenonT(40)
    <2>2. j \in DOMAIN a /\ j \in DOMAIN b /\ a[j] \in Authorizations /\ b[j] \in Authorizations
        BY <1>4, SMTT(30)
    <2> QED
        BY <2>1, <2>2, AuthorizationBinds, ZenonT(40)
<1> QED
    BY <1>4, <1>10, SameSequence, Zenon

\* The root of an envelope within the list limits stands for the envelope.
LEMMA EnvelopeBinds ==
    ASSUME NEW e \in Envelopes, NEW f \in Envelopes, WithinLimits(e), WithinLimits(f),
           canonical_root(e) = canonical_root(f)
    PROVE  e = f
<1>1. /\ payload_root(e.payload) = payload_root(f.payload)
      /\ htr_authorization_list(e.authorizations) = htr_authorization_list(f.authorizations)
    BY TwoFields, SMTT(30) DEF canonical_root
<1>2. /\ e.payload \in BasicPayloads \cup CreatePayloads /\ e.authorizations \in Seq(Authorizations)
      /\ f.payload \in BasicPayloads \cup CreatePayloads /\ f.authorizations \in Seq(Authorizations)
    BY Zenon DEF Envelopes
<1>3. e.payload = f.payload
    BY <1>1, <1>2, PayloadBinds, ZenonT(40) DEF WithinLimits
<1>4. e.authorizations = f.authorizations
    BY <1>1, <1>2, AuthorizationListBinds, ZenonT(40) DEF WithinLimits
<1> QED
    BY <1>3, <1>4, SMTT(30) DEF Envelopes

\* A signing root stands for the object and the domain it is signed in.
LEMMA SigningBinds ==
    ASSUME NEW r, NEW s, NEW d \in DomainSelectors, NEW e \in DomainSelectors,
           signing_root(r, d) = signing_root(s, e)
    PROVE  r = s /\ d = e
<1>1. r = s /\ Chunk(domain_type(d)) = Chunk(domain_type(e))
    BY TwoFields, SMTT(30) DEF signing_root
<1>2. CASE d # e
    <2>1. Chunk(<<1>>) = Chunk(<<2>>)
        BY <1>1, <1>2, SMTT(30) DEF domain_type, DomainSelectors
    <2>2. 1 = 2
        BY <2>1, SelectorBinds, Zenon
    <2> QED
        BY <2>2, SMTT(30)
<1> QED
    BY <1>1, <1>2, Zenon

\* What is taken from the wire is an envelope, and so is what was sent.
LEMMA TakenType ==
    ASSUME WireInv, NEW envelope \in Taken
    PROVE  envelope \in Envelopes /\ sent \in Envelopes
<1>1. received # None /\ envelope \in received.value
    BY Zenon DEF Taken
<1>2. PICK bytes \in wire : received = decode_envelope(bytes)
    BY <1>1, Zenon DEF WireInv
<1>3. bytes \in Seq(Bytes) /\ sent \in Envelopes
    BY <1>2, Zenon DEF WireInv
<1> QED
    BY <1>1, <1>2, <1>3, EnvelopeCanonical, ZenonT(40)

\* hash_tree_root of an envelope within the list limits is the root of no other
\* envelope that from_wire_bytes can return, whatever the widths, limits and
\* envelopes sent.
THEOREM RootsBindEnvelopes == Spec => []RootBindsEnvelope
<1>1. WireInv => RootBindsEnvelope
    BY TakenType, EnvelopeBinds, Zenon DEF RootBindsEnvelope
<1> QED
    BY <1>1, WireInvariant, PTL

\* build_signing_data gives different signing roots for different payloads within
\* the list limits and for different domains.
THEOREM SigningRootsBind == Spec => []SigningRootBindsPayloadAndDomain
<1>1. WireInv => SigningRootBindsPayloadAndDomain
    <2> SUFFICES ASSUME WireInv, NEW envelope \in Taken, NEW d \in DomainSelectors,
                        NEW e \in DomainSelectors, WithinLimits(envelope), WithinLimits(sent),
                        signing_root(payload_root(envelope.payload), d)
                          = signing_root(payload_root(sent.payload), e)
                 PROVE  d = e /\ envelope.payload = sent.payload
        BY Zenon DEF SigningRootBindsPayloadAndDomain
    <2>1. payload_root(envelope.payload) = payload_root(sent.payload) /\ d = e
        BY SigningBinds, SMTT(30)
    <2>2. envelope \in Envelopes /\ sent \in Envelopes
        BY TakenType, Zenon
    <2>3. /\ envelope.payload \in BasicPayloads \cup CreatePayloads
          /\ sent.payload \in BasicPayloads \cup CreatePayloads
        BY <2>2, Zenon DEF Envelopes
    <2> QED
        BY <2>1, <2>3, PayloadBinds, ZenonT(40) DEF WithinLimits
<1> QED
    BY <1>1, WireInvariant, PTL

-----------------------------------------------------------------------------
(* The padded tree.                                                        *)

\* The roots of zero subtrees up to a depth.
ZeroTable(top, Z) ==
    Z = [i \in 0 .. top |-> IF i = 0 THEN ZeroChunk ELSE sha256_pair(Z[i - 1], Z[i - 1])]

\* There is such a table for every depth.
LEMMA ZerosGrow ==
    ASSUME NEW top \in Nat
    PROVE  \E Z : ZeroTable(top, Z)
<1> DEFINE Reached == {d \in Nat : \E Z : ZeroTable(d, Z)}
<1>1. 0 \in Reached
    <2> DEFINE Z == [i \in 0 .. 0 |-> ZeroChunk]
    <2>1. ZeroTable(0, Z)
        BY DEF ZeroTable
    <2> QED
        BY <2>1, Zenon
<1>2. ASSUME NEW d \in 0 .. top - 1, d \in Reached PROVE d + 1 \in Reached
    <2>1. PICK Z : ZeroTable(d, Z)
        BY <1>2, Zenon
    <2> DEFINE last == sha256_pair(Z[d], Z[d])
               U == [i \in 0 .. d + 1 |-> IF i = d + 1 THEN last ELSE Z[i]]
               V == [i \in 0 .. d + 1 |->
                        IF i = 0 THEN ZeroChunk ELSE sha256_pair(U[i - 1], U[i - 1])]
    <2>2. ASSUME NEW i \in 0 .. d + 1 PROVE U[i] = V[i]
        <3>1. CASE i = 0
            BY <2>1, <3>1, SMTT(30) DEF ZeroTable
        <3>2. CASE i \in 1 .. d
            <4>1. U[i] = Z[i] /\ U[i - 1] = Z[i - 1]
                BY <3>2, SMTT(30)
            <4>2. Z[i] = sha256_pair(Z[i - 1], Z[i - 1])
                BY <2>1, <3>2, SMTT(30) DEF ZeroTable
            <4>3. V[i] = sha256_pair(U[i - 1], U[i - 1])
                BY <3>2
            <4> QED
                BY <4>1, <4>2, <4>3, ZenonT(40)
        <3>3. CASE i = d + 1
            <4>1. U[i] = last /\ U[d] = Z[d] /\ i - 1 = d
                BY <3>3, SMTT(30)
            <4>2. V[i] = sha256_pair(U[i - 1], U[i - 1])
                BY <3>3, SMTT(30)
            <4> QED
                BY <3>3, <4>1, <4>2, ZenonT(40)
        <3> QED
            BY <3>1, <3>2, <3>3, SMTT(30)
    <2>3. U = V
        BY <2>2, Zenon
    <2>4. ZeroTable(d + 1, U)
        BY <2>3, ZenonT(40) DEF ZeroTable
    <2> QED
        BY <2>4, SMTT(30)
<1> HIDE DEF Reached
<1>3. 0 .. top \subseteq Reached
    BY ONLY <1>1, <1>2, BoundedInduction, top \in Nat, Zenon
<1> QED
    BY <1>3, SMTT(30) DEF Reached

\* Two tables agree as far as both go.
LEMMA ZerosAgree ==
    ASSUME NEW d \in Nat, NEW e \in Nat, d <= e, NEW Y, NEW Z, ZeroTable(d, Y), ZeroTable(e, Z)
    PROVE  Y[d] = Z[d]
<1> DEFINE Same == {i \in Nat : Y[i] = Z[i]}
<1>1. 0 \in Same
    BY SMTT(30) DEF ZeroTable
<1>2. ASSUME NEW i \in 0 .. d - 1, i \in Same PROVE i + 1 \in Same
    <2>1. i + 1 \in 0 .. d /\ i + 1 \in 0 .. e /\ i + 1 # 0 /\ (i + 1) - 1 = i
        BY SMTT(30)
    <2>2. Y[i + 1] = sha256_pair(Y[i], Y[i])
        BY <2>1, Zenon DEF ZeroTable
    <2>3. Z[i + 1] = sha256_pair(Z[i], Z[i])
        BY <2>1, Zenon DEF ZeroTable
    <2> QED
        BY <1>2, <2>2, <2>3, SMTT(30)
<1> HIDE DEF Same
<1>3. 0 .. d \subseteq Same
    BY ONLY <1>1, <1>2, BoundedInduction, d \in Nat, Zenon
<1> QED
    BY <1>3, SMTT(30) DEF Same

\* zero_hash reads the table.
LEMMA ZeroHashIs ==
    ASSUME NEW d \in Nat
    PROVE  \E Z : ZeroTable(d, Z) /\ zero_hash(d) = Z[d]
<1> DEFINE h == CHOOSE Z : ZeroTable(d, Z)
<1>1. zero_hash(d) = h[d]
    BY Zenon DEF zero_hash, ZeroTable
<1>2. ZeroTable(d, h)
    BY ZerosGrow, ZenonT(40)
<1> QED
    BY <1>1, <1>2, ZenonT(40)

\* A zero subtree is a pair of the next smaller ones.
LEMMA ZeroHashUnfolds ==
    /\ zero_hash(0) = ZeroChunk
    /\ \A d \in Nat : zero_hash(d + 1) = sha256_pair(zero_hash(d), zero_hash(d))
<1>1. zero_hash(0) = ZeroChunk
    <2>1. PICK Z : ZeroTable(0, Z) /\ zero_hash(0) = Z[0]
        BY ZeroHashIs, Zenon
    <2> QED
        BY <2>1, SMTT(30) DEF ZeroTable
<1>2. ASSUME NEW d \in Nat PROVE zero_hash(d + 1) = sha256_pair(zero_hash(d), zero_hash(d))
    <2>1. PICK Y : ZeroTable(d, Y) /\ zero_hash(d) = Y[d]
        BY ZeroHashIs, Zenon
    <2>2. PICK Z : ZeroTable(d + 1, Z) /\ zero_hash(d + 1) = Z[d + 1]
        BY ZeroHashIs, SMTT(30)
    <2>3. d + 1 \in Nat /\ d <= d + 1 /\ d + 1 \in 0 .. d + 1 /\ d + 1 # 0 /\ (d + 1) - 1 = d
        OBVIOUS
    <2>4. Y[d] = Z[d]
        BY <2>1, <2>2, <2>3, ZerosAgree, ZenonT(40)
    <2>5. Z[d + 1] = sha256_pair(Z[d], Z[d])
        BY <2>2, <2>3, Zenon DEF ZeroTable
    <2> QED
        BY <2>1, <2>2, <2>4, <2>5, ZenonT(40)
<1> QED
    BY <1>1, <1>2, Zenon

\* The levels of the padded tree.
Levels(chunks, top, L) ==
    L = [d \in 0 .. top |-> IF d = 0 THEN Padded(chunks, Two[top])
                            ELSE Pairs(L[d - 1], Two[top - d])]

\* A part of the levels: up to a depth.
LowLevels(chunks, top, depth, L) ==
    L = [d \in 0 .. depth |-> IF d = 0 THEN Padded(chunks, Two[top])
                              ELSE Pairs(L[d - 1], Two[top - d])]

\* There are such levels for every depth of the tree.
LEMMA LevelsGrow ==
    ASSUME NEW chunks, NEW top \in Nat
    PROVE  \E L : Levels(chunks, top, L)
<1> DEFINE Reached == {d \in Nat : \E L : LowLevels(chunks, top, d, L)}
<1>1. 0 \in Reached
    <2> DEFINE L == [d \in 0 .. 0 |-> Padded(chunks, Two[top])]
    <2>1. LowLevels(chunks, top, 0, L)
        BY SMTT(30) DEF LowLevels
    <2> QED
        BY <2>1, Zenon
<1>2. ASSUME NEW d \in 0 .. top - 1, d \in Reached PROVE d + 1 \in Reached
    <2>1. PICK L : LowLevels(chunks, top, d, L)
        BY <1>2, Zenon
    <2> DEFINE last == Pairs(L[d], Two[top - (d + 1)])
               U == [i \in 0 .. d + 1 |-> IF i = d + 1 THEN last ELSE L[i]]
               V == [i \in 0 .. d + 1 |-> IF i = 0 THEN Padded(chunks, Two[top])
                                          ELSE Pairs(U[i - 1], Two[top - i])]
    <2>2. ASSUME NEW i \in 0 .. d + 1 PROVE U[i] = V[i]
        <3>1. CASE i = 0
            BY <2>1, <3>1, SMTT(30) DEF LowLevels
        <3>2. CASE i \in 1 .. d
            <4>1. U[i] = L[i] /\ U[i - 1] = L[i - 1]
                BY <3>2, SMTT(30)
            <4>2. L[i] = Pairs(L[i - 1], Two[top - i])
                BY <2>1, <3>2, SMTT(30) DEF LowLevels
            <4>3. V[i] = Pairs(U[i - 1], Two[top - i])
                BY <3>2
            <4> QED
                BY <4>1, <4>2, <4>3, ZenonT(40)
        <3>3. CASE i = d + 1
            <4>1. U[i] = last /\ U[d] = L[d] /\ i - 1 = d
                BY <3>3, SMTT(30)
            <4>2. V[i] = Pairs(U[i - 1], Two[top - i])
                BY <3>3, SMTT(30)
            <4> QED
                BY <3>3, <4>1, <4>2, ZenonT(40)
        <3> QED
            BY <3>1, <3>2, <3>3, SMTT(30)
    <2>3. U = V
        BY <2>2, Zenon
    <2>4. LowLevels(chunks, top, d + 1, U)
        BY <2>3, ZenonT(40) DEF LowLevels
    <2> QED
        BY <2>4, SMTT(30)
<1> HIDE DEF Reached
<1>3. 0 .. top \subseteq Reached
    BY ONLY <1>1, <1>2, BoundedInduction, top \in Nat, Zenon
<1>4. top \in Reached
    BY <1>3, SMTT(30)
<1> QED
    BY <1>4, Zenon DEF Reached, LowLevels, Levels

\* The two entries below entry i, by the chunks they begin at.
LEMMA Doubled ==
    ASSUME NEW i \in Nat \ {0}, NEW h \in Nat
    PROVE  /\ (i - 1) * (2 * h) \in Nat /\ (i - 1) * h \in Nat
           /\ ((2 * i - 1) - 1) * h = (i - 1) * (2 * h)
           /\ (2 * i - 1) * h = (i - 1) * (2 * h) + h
OBVIOUS

\* The entries of the levels.
LEMMA LevelAt ==
    ASSUME NEW chunks, NEW top \in Nat, NEW L, Levels(chunks, top, L)
    PROVE  /\ \A i \in 1 .. Two[top] :
                L[0][i] = IF i <= Len(chunks) THEN chunks[i] ELSE ZeroChunk
           /\ \A d \in 0 .. top - 1 : \A i \in 1 .. Two[top - (d + 1)] :
                L[d + 1][i] = sha256_pair(L[d][2 * i - 1], L[d][2 * i])
<1>1. L[0] = Padded(chunks, Two[top])
    BY DEF Levels
<1>2. ASSUME NEW d \in 0 .. top - 1, NEW i \in 1 .. Two[top - (d + 1)]
      PROVE  L[d + 1][i] = sha256_pair(L[d][2 * i - 1], L[d][2 * i])
    <2>1. d + 1 \in 0 .. top /\ d + 1 # 0 /\ (d + 1) - 1 = d
        OBVIOUS
    <2>2. L[d + 1] = Pairs(L[d], Two[top - (d + 1)])
        BY <2>1, Zenon DEF Levels
    <2> QED
        BY <2>2, Zenon DEF Pairs
<1> QED
    BY <1>1, <1>2, ZenonT(40) DEF Padded

\* An entry has its two entries on the level below.
LEMMA EntriesBelow ==
    ASSUME NEW top \in Nat, NEW d \in 0 .. top - 1, NEW i \in 1 .. Two[top - (d + 1)]
    PROVE  2 * i - 1 \in 1 .. Two[top - d] /\ 2 * i \in 1 .. Two[top - d] /\ i \in Nat \ {0}
<1>1. top - (d + 1) \in Nat /\ (top - (d + 1)) + 1 = top - d
    OBVIOUS
<1>2. PICK w \in Nat : w = Two[top - (d + 1)] /\ Two[top - d] = 2 * w
    BY ONLY <1>1, TwoUnfolds, Zenon
<1>3. i \in 1 .. w
    BY <1>2, Zenon
<1> QED
    BY ONLY <1>2, <1>3, SMTT(30)

\* Beyond the chunks there are zero subtrees.
LEMMA PaddingIsZero ==
    ASSUME NEW S, NEW chunks \in Seq(S), NEW top \in Nat, NEW L, Levels(chunks, top, L)
    PROVE  \A d \in 0 .. top : \A i \in 1 .. Two[top - d] :
              (i - 1) * Two[d] >= Len(chunks) => L[d][i] = zero_hash(d)
<1> DEFINE n == Len(chunks)
           Zero == {d \in Nat : \A i \in 1 .. Two[top - d] :
                                   (i - 1) * Two[d] >= n => L[d][i] = zero_hash(d)}
<1>0. n \in Nat
    BY SMTT(30)
<1>a. /\ \A i \in 1 .. Two[top] :
            L[0][i] = IF i <= n THEN chunks[i] ELSE ZeroChunk
      /\ \A d \in 0 .. top - 1 : \A i \in 1 .. Two[top - (d + 1)] :
            L[d + 1][i] = sha256_pair(L[d][2 * i - 1], L[d][2 * i])
    BY ONLY LevelAt, top \in Nat, Levels(chunks, top, L), SMTT(30)
<1> HIDE DEF n
<1>1. 0 \in Zero
    <2> SUFFICES ASSUME NEW i \in 1 .. Two[top - 0], (i - 1) * Two[0] >= n
                 PROVE  L[0][i] = zero_hash(0)
        BY Zenon DEF Zero
    <2>1. top - 0 = top /\ Two[0] = 1 /\ Two[top] \in Nat
        BY TwoUnfolds, SMTT(30)
    <2>2. i \in 1 .. Two[top]
        BY <2>1, Zenon
    <2>3. ~ (i <= n)
        <3>1. (i - 1) * 1 >= n /\ i \in Nat
            BY <2>1, <2>2, SMTT(30)
        <3> QED
            BY ONLY <1>0, <3>1, SMTT(30)
    <2>4. L[0][i] = ZeroChunk
        BY <2>2, <2>3, <1>a, ZenonT(40)
    <2> QED
        BY <2>4, ZeroHashUnfolds, ZenonT(40)
<1>2. ASSUME NEW d \in 0 .. top - 1, d \in Zero PROVE d + 1 \in Zero
    <2> SUFFICES ASSUME NEW i \in 1 .. Two[top - (d + 1)], (i - 1) * Two[d + 1] >= n
                 PROVE  L[d + 1][i] = zero_hash(d + 1)
        BY DEF Zero
    <2>1. d \in Nat
        BY SMTT(30)
    <2>2. PICK h \in Nat : h = Two[d] /\ Two[d + 1] = 2 * h
        BY ONLY <2>1, TwoUnfolds, Zenon
    <2>3. 2 * i - 1 \in 1 .. Two[top - d] /\ 2 * i \in 1 .. Two[top - d] /\ i \in Nat \ {0}
        BY ONLY EntriesBelow, top \in Nat, d \in 0 .. top - 1, i \in 1 .. Two[top - (d + 1)], Zenon
    <2>4. /\ (i - 1) * (2 * h) \in Nat
          /\ ((2 * i - 1) - 1) * h = (i - 1) * (2 * h)
          /\ (2 * i - 1) * h = (i - 1) * (2 * h) + h
        BY ONLY <2>3, Doubled, h \in Nat, ZenonT(40)
    <2>5. (i - 1) * (2 * h) >= n
        BY <2>2, ZenonT(40)
    <2>6. ((2 * i - 1) - 1) * h >= n /\ (2 * i - 1) * h >= n
        BY ONLY <1>0, <2>4, <2>5, h \in Nat, SMTT(30)
    <2>7. \A j \in 1 .. Two[top - d] : (j - 1) * h >= n => L[d][j] = zero_hash(d)
        BY <1>2, <2>2, ZenonT(40) DEF Zero
    <2>8. L[d][2 * i - 1] = zero_hash(d) /\ L[d][2 * i] = zero_hash(d)
        BY ONLY <2>3, <2>6, <2>7, ZenonT(40)
    <2>9. L[d + 1][i] = sha256_pair(L[d][2 * i - 1], L[d][2 * i])
        BY <1>a, ZenonT(40)
    <2> QED
        BY <2>1, <2>8, <2>9, ZeroHashUnfolds, ZenonT(40)
<1> HIDE DEF Zero
<1>3. 0 .. top \subseteq Zero
    BY ONLY <1>1, <1>2, BoundedInduction, top \in Nat, Zenon
<1> QED
    BY <1>3, Zenon DEF Zero, n

\* Where a slice ends for the subtree over it: at its last chunk or at the last there is.
\* The subtree over the slice is the entry of the padded tree.
LEMMA SubtreeIsPadded ==
    ASSUME NEW S, NEW chunks \in Seq(S), NEW top \in Nat, NEW T, NEW L,
           Grown(chunks, top, T), Levels(chunks, top, L)
    PROVE  \A d \in 0 .. top : \A i \in 1 .. Two[top - d], from, to \in 0 .. Len(chunks) :
              from = (i - 1) * Two[d] /\ to = Smaller(Len(chunks), from + Two[d])
              => T[d][from][to] = L[d][i]
<1> DEFINE n == Len(chunks)
           Same(d, i, from, to) ==
              from = (i - 1) * Two[d] /\ to = Smaller(n, from + Two[d])
              => T[d][from][to] = L[d][i]
           AsPadded == {d \in Nat : \A i \in 1 .. Two[top - d], from, to \in 0 .. n :
                                      Same(d, i, from, to)}
<1>0. n \in Nat
    OBVIOUS
<1>a. /\ \A i \in 1 .. Two[top] :
            L[0][i] = IF i <= n THEN chunks[i] ELSE ZeroChunk
      /\ \A d \in 0 .. top - 1 : \A i \in 1 .. Two[top - (d + 1)] :
            L[d + 1][i] = sha256_pair(L[d][2 * i - 1], L[d][2 * i])
    BY ONLY LevelAt, top \in Nat, Levels(chunks, top, L)
<1>b. \A from, to \in 0 .. n : T[0][from][to] = IF from < to THEN chunks[from + 1] ELSE ZeroChunk
    BY ONLY LeafAt, top \in Nat, Grown(chunks, top, T), SMTT(30)
<1>c. \A d \in 0 .. top - 1 : \A from, to \in 0 .. n :
        T[d + 1][from][to] =
             sha256_pair(T[d][from][Smaller(to, from + Two[d])],
                         IF to > from + Two[d] THEN T[d][from + Two[d]][to] ELSE zero_hash(d))
    BY ONLY NodeAt, top \in Nat, Grown(chunks, top, T), SMTT(30)
<1>d. \A d \in 0 .. top : \A i \in 1 .. Two[top - d] :
         (i - 1) * Two[d] >= n => L[d][i] = zero_hash(d)
    BY ONLY PaddingIsZero, top \in Nat, Levels(chunks, top, L), chunks \in Seq(S), SMTT(30)
<1> HIDE DEF n
<1>1. 0 \in AsPadded
    <2> SUFFICES ASSUME NEW i \in 1 .. Two[top - 0], NEW from \in 0 .. n, NEW to \in 0 .. n,
                        from = (i - 1) * Two[0], to = Smaller(n, from + Two[0])
                 PROVE  T[0][from][to] = L[0][i]
        BY Zenon DEF AsPadded
    <2>1. top - 0 = top /\ Two[0] = 1 /\ Two[top] \in Nat
        BY TwoUnfolds
    <2>2. i \in 1 .. Two[top]
        BY <2>1, ZenonT(40)
    <2>3. from = (i - 1) * 1 /\ to = Smaller(n, from + 1)
        BY <2>1, ZenonT(40)
    <2>4. i = from + 1 /\ (from < to <=> i <= n)
        BY ONLY <1>0, <2>1, <2>2, <2>3, from \in 0 .. n, SMTT(30) DEF Smaller
    <2>5. L[0][i] = IF i <= n THEN chunks[i] ELSE ZeroChunk
        BY <2>2, <1>a, ZenonT(40)
    <2>6. T[0][from][to] = IF from < to THEN chunks[from + 1] ELSE ZeroChunk
        BY <1>b, Zenon
    <2> QED
        BY ONLY <2>4, <2>5, <2>6, ZenonT(40)
<1>2. ASSUME NEW d \in 0 .. top - 1, d \in AsPadded PROVE d + 1 \in AsPadded
    <2> SUFFICES ASSUME NEW i \in 1 .. Two[top - (d + 1)], NEW from \in 0 .. n, NEW to \in 0 .. n,
                        from = (i - 1) * Two[d + 1], to = Smaller(n, from + Two[d + 1])
                 PROVE  T[d + 1][from][to] = L[d + 1][i]
        BY SMTT(30) DEF AsPadded
    <2>1. d \in Nat /\ d \in 0 .. top
        OBVIOUS
    <2>2. PICK h \in Nat : h = Two[d] /\ Two[d + 1] = 2 * h /\ h # 0
        BY ONLY <2>1, TwoUnfolds, Zenon
    <2>3. 2 * i - 1 \in 1 .. Two[top - d] /\ 2 * i \in 1 .. Two[top - d] /\ i \in Nat \ {0}
        BY ONLY EntriesBelow, top \in Nat, d \in 0 .. top - 1, i \in 1 .. Two[top - (d + 1)], Zenon
    <2>4. /\ ((2 * i - 1) - 1) * h = (i - 1) * (2 * h)
          /\ (2 * i - 1) * h = (i - 1) * (2 * h) + h
        BY ONLY <2>3, Doubled, h \in Nat, ZenonT(40)
    <2>5. from = (i - 1) * (2 * h) /\ to = Smaller(n, from + 2 * h)
        BY <2>2, Zenon
    <2>6. from = ((2 * i - 1) - 1) * h /\ from + h = (2 * i - 1) * h
        BY ONLY <2>4, <2>5, ZenonT(40)
    <2>7. \A j \in 1 .. Two[top - d], f, t \in 0 .. n :
             f = (j - 1) * h /\ t = Smaller(n, f + h) => T[d][f][t] = L[d][j]
        <3> SUFFICES ASSUME NEW j \in 1 .. Two[top - d], NEW f \in 0 .. n, NEW t \in 0 .. n
                     PROVE  f = (j - 1) * h /\ t = Smaller(n, f + h) => T[d][f][t] = L[d][j]
            BY Zenon
        <3>1. Same(d, j, f, t)
            <4> HIDE DEF Same
            <4> QED
                BY <1>2, Zenon DEF AsPadded
        <3> QED
            BY <2>2, <3>1, ZenonT(40)
    <2> DEFINE mid == Smaller(to, from + h)
    <2>8. mid \in 0 .. n /\ mid = Smaller(n, from + h)
        BY ONLY <1>0, <2>5, from \in 0 .. n, to \in 0 .. n, h \in Nat DEF Smaller
    <2>12. L[d + 1][i] = sha256_pair(L[d][2 * i - 1], L[d][2 * i])
        BY <1>a, ZenonT(40)
    <2>13. T[d + 1][from][to] =
             sha256_pair(T[d][from][mid],
                         IF to > from + h THEN T[d][from + h][to] ELSE zero_hash(d))
        BY <1>c, <2>2, ZenonT(40)
    <2> HIDE DEF mid
    <2>9. T[d][from][mid] = L[d][2 * i - 1]
        BY ONLY <2>3, <2>6, <2>7, <2>8, from \in 0 .. n, ZenonT(40)
    <2>10. CASE to > from + h
        <3>1. from + h \in 0 .. n /\ to = Smaller(n, (from + h) + h)
            BY ONLY <1>0, <2>5, <2>10, from \in 0 .. n, to \in 0 .. n, h \in Nat, SMTT(30)
               DEF Smaller
        <3>2. from + h = (2 * i - 1) * h
            BY <2>6, Zenon
        <3>3. T[d][from + h][to] = L[d][2 * i]
            BY ONLY <2>3, <2>7, <3>1, <3>2, to \in 0 .. n, ZenonT(40)
        <3> QED
            BY ONLY <2>9, <2>10, <2>12, <2>13, <3>3, ZenonT(40)
    <2>11. CASE ~ (to > from + h)
        <3>1. from + h >= n
            <4>1. to = Smaller(n, from + 2 * h)
                BY <2>5, Zenon
            <4>2. h # 0
                BY <2>2, Zenon
            <4> QED
                BY ONLY <1>0, <2>11, <4>1, <4>2, from \in 0 .. n, to \in 0 .. n, h \in Nat, SMTT(30) DEF Smaller
        <3>2. L[d][2 * i] = zero_hash(d)
            BY ONLY <1>d, <2>1, <2>2, <2>3, <2>6, <3>1, ZenonT(40)
        <3> QED
            BY ONLY <2>9, <2>11, <2>12, <2>13, <3>2, ZenonT(40)
    <2> QED
        BY <2>10, <2>11, ZenonT(40)
<1> HIDE DEF AsPadded
<1>3. 0 .. top \subseteq AsPadded
    BY ONLY <1>1, <1>2, BoundedInduction, top \in Nat, Zenon
<1> QED
    BY <1>3, Zenon DEF AsPadded, n

\* merkleize gives the root of the padded tree.
LEMMA MerkleizePads ==
    ASSUME NEW S, NEW chunks \in Seq(S), NEW i \in 0 .. USIZE_BITS - 1, Len(chunks) <= Two[i]
    PROVE  merkleize(chunks, Two[i]) = PaddedRoot(chunks, Two[i])
<1> DEFINE n == Len(chunks)
<1>1. i \in Nat
    BY DEF USIZE_BITS
<1>2. Two[i] \in Nat /\ Two[i] # 0 /\ n \in Nat /\ 0 \in 0 .. n /\ n \in 0 .. n /\ i \in 0 .. i
    BY <1>1, TwoUnfolds, SMTT(30)
<1>3. trailing_zeros(Two[i]) = i
    BY TrailingZeros, Zenon
<1>4. merkleize(chunks, Two[i]) = Subtrees(chunks, i)[i][0][n]
    BY <1>2, <1>3, ZenonT(40) DEF merkleize
<1>5. PICK T : T = Subtrees(chunks, i) /\ Grown(chunks, i, T)
    BY <1>1, SubtreesGrown, Zenon
<1>6. PICK L : Levels(chunks, i, L) /\ PaddedRoot(chunks, Two[i]) = L[i][1]
    <2> DEFINE level == CHOOSE L : Levels(chunks, i, L)
    <2>1. Levels(chunks, i, level)
        BY <1>1, LevelsGrow, ZenonT(40)
    <2>2. PaddedRoot(chunks, Two[i]) = level[i][1]
        BY <1>3, ZenonT(40) DEF PaddedRoot, Levels
    <2> QED
        BY <2>1, <2>2, ZenonT(40)
<1>7. 1 \in 1 .. Two[i - i] /\ 0 = (1 - 1) * Two[i] /\ n = Smaller(n, 0 + Two[i])
    <2>1. i - i = 0 /\ Two[0] = 1 /\ 1 \in 1 .. 1
        BY <1>1, TwoUnfolds, SMTT(30)
    <2>2. 1 \in 1 .. Two[i - i]
        BY <2>1, ZenonT(40)
    <2>3. 0 = (1 - 1) * Two[i]
        BY <1>2, SMTT(30)
    <2>4. n = Smaller(n, 0 + Two[i])
        BY <1>2, SMTT(30) DEF Smaller
    <2> QED
        BY <2>2, <2>3, <2>4, Zenon
<1>8. \A d \in 0 .. i : \A k \in 1 .. Two[i - d], from, to \in 0 .. Len(chunks) :
              from = (k - 1) * Two[d] /\ to = Smaller(Len(chunks), from + Two[d])
              => T[d][from][to] = L[d][k]
    BY ONLY <1>1, <1>5, <1>6, SubtreeIsPadded, chunks \in Seq(S), SMTT(30)
<1>9. T[i][0][n] = L[i][1]
    BY ONLY <1>2, <1>7, <1>8, ZenonT(40)
<1> QED
    BY <1>4, <1>5, <1>6, <1>9, ZenonT(40)

\* merkleize, which hashes only where there are chunks and takes zero_hash for the
\* rest, gives the root of the tree padded to the limit, for every byte list
\* within it.
THEOREM MerkleizeMatchesPadding == Spec => []MerkleizeIsPadded
<1>1. WireInv => MerkleizeIsPadded
    <2> SUFFICES ASSUME WireInv, NEW envelope \in Taken,
                        NEW limit \in {CHUNK_LIMIT, 2 * CHUNK_LIMIT},
                        Len(pack_bytes(envelope.payload.input)) <= limit
                 PROVE  merkleize(pack_bytes(envelope.payload.input), limit)
                          = PaddedRoot(pack_bytes(envelope.payload.input), limit)
        BY Zenon DEF MerkleizeIsPadded
    <2>1. envelope \in Envelopes
        BY TakenType, Zenon
    <2>2. envelope.payload.input \in Seq(Bytes)
        BY <2>1, Zenon DEF Envelopes, BasicPayloads, CreatePayloads
    <2>3. PICK i \in 0 .. USIZE_BITS - 2 : CHUNK_LIMIT = Two[i]
        BY ChunkLimitIs, ZenonT(40)
    <2>4. i \in Nat /\ i \in 0 .. USIZE_BITS - 1 /\ i + 1 \in 0 .. USIZE_BITS - 1
        BY SMTT(30) DEF USIZE_BITS
    <2>5. Two[i + 1] = 2 * Two[i]
        BY <2>4, TwoUnfolds, Zenon
    <2>6. PICK j \in 0 .. USIZE_BITS - 1 : limit = Two[j]
        BY <2>3, <2>4, <2>5, ZenonT(40)
    <2>7. pack_bytes(envelope.payload.input) \in Seq({Chunk(b) : b \in Seq(Bytes)})
        BY <2>2, PackedType, ZenonT(40)
    <2> QED
        BY <2>6, <2>7, MerkleizePads, Zenon
<1> QED
    BY <1>1, WireInvariant, PTL

=============================================================================
