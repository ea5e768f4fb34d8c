-------------------------- MODULE StateAccumulator --------------------------
(***************************************************************************)
(* InMemoryAccumulator behind ReferenceStateApplier, and a caller that     *)
(* keeps what it was given: the roots it has observed, which may be stale  *)
(* when it passes one as pre_state_root or as the root to verify against,  *)
(* and the last witnesses it fetched, which may predate later transitions. *)
(***************************************************************************)
EXTENDS StateOps

CONSTANTS
    Patches,        \* the patches the caller may apply
    AccessLists     \* the access lists it may ask witnesses for

ASSUME PatchesAreStatePatches == Patches \subseteq StatePatches
ASSUME AccessListsAreKeyLists == AccessLists \subseteq Seq(Keys)

VARIABLES
    acc,        \* the accumulator inside the applier
    result,     \* what the last call returned: "Ok" or an error
    held,       \* the caller's last witnesses and the root they were read under
    seen        \* history: every accumulator state the caller has observed

accumulatorVars == <<acc, result, held, seen>>

ObservedRoots == {a.root : a \in seen}

Results == {"Ok", "UnsupportedProofShape", "WitnessVerificationFailed", "Backend"}
              \cup TransitionErrors

\* What each variable holds; every error is one of the StateError kinds.
TypeOK ==
    /\ acc \in Accumulators
    /\ result \in Results
    /\ held \in [root : Roots, witnesses : Seq(StateWitnesses)]
    /\ seen \subseteq Accumulators

AccumulatorInit ==
    /\ acc = EmptyAccumulator
    /\ result = "Ok"
    /\ held = [root |-> ZeroRoot, witnesses |-> <<>>]
    /\ seen = {EmptyAccumulator}

-----------------------------------------------------------------------------

ApplyTransition(pre_state_root, patch) ==
    LET outcome == applier_apply_transition(acc, pre_state_root, patch)
    IN  /\ acc' = outcome.acc
        /\ result' = outcome.result
        /\ seen' = seen \cup {outcome.acc}
        /\ UNCHANGED held

GetWitnessForAccesses(accesses) ==
    /\ result' = AccessResult(acc, accesses)
    /\ held' = IF AccessResult(acc, accesses) = "Ok"
               THEN [root |-> acc.root, witnesses |-> WitnessesFor(acc, accesses)]
               ELSE held
    /\ UNCHANGED <<acc, seen>>

\* The caller checks the witnesses it holds against a root it has observed.
VerifyWitnesses(expected_state_root) ==
    /\ result' = verify_witnesses(acc, held.witnesses, expected_state_root)
    /\ UNCHANGED <<acc, held, seen>>

AccumulatorNext ==
    \/ \E root \in ObservedRoots, patch \in Patches : ApplyTransition(root, patch)
    \/ \E accesses \in AccessLists : GetWitnessForAccesses(accesses)
    \/ \E root \in ObservedRoots : VerifyWitnesses(root)

AccumulatorSpec == AccumulatorInit /\ [][AccumulatorNext]_accumulatorVars

-----------------------------------------------------------------------------
(* Correctness.                                                            *)

\* After every sequence of calls the stored root is the reference root of the
\* stored leaves: no path updates leaves and forgets recompute_root.  The one
\* exception is the accumulator nothing was applied to, whose root is zero.
RootCommitsLeaves ==
    acc.root = compute_reference_root(acc.leaves) \/ acc = EmptyAccumulator

\* Witnesses belong to the root they were read under: verify_witnesses accepts
\* them against that root exactly while the accumulator stands at it, even if
\* it left that state and came back, and never while it stands elsewhere.
WitnessesBindToTheirRoot ==
    held.witnesses # <<>> =>
        (verify_witnesses(acc, held.witnesses, held.root) = "Ok" <=> acc.root = held.root)

\* verify_witness is exact: it accepts a witness without proof bytes whose value
\* is the stored leaf, against the current root, and nothing else; the neighbour
\* checks of the proof path never reject such a witness.
VerifyWitnessIsExact ==
    \A witness \in StateWitnesses, root \in ObservedRoots :
        verify_witness(acc, witness, root) = "Ok" <=>
            /\ witness.proof_empty
            /\ acc.leaves[witness.key] = witness.leaf_value
            /\ root = acc.root

\* A transition that is refused, whether by root continuity, by shape or by key
\* order, leaves every leaf and the root as they were: no prefix of the patch is
\* written before the error is found.
RefusedCallsChangeNothing == [][result' # "Ok" => acc' = acc]_accumulatorVars

=============================================================================
