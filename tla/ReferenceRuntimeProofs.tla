----------------------- MODULE ReferenceRuntimeProofs -----------------------
(***************************************************************************)
(* Proofs about the local reference runtime, for any vectors, dispatchers, *)
(* policies, resolvers, offered transactions and keys, and any number of   *)
(* changes to a scenario.                                                  *)
(***************************************************************************)
EXTENDS ReferenceRuntimeLemmas, FiniteSetTheorems

-----------------------------------------------------------------------------
(* Scenarios as they are loaded, and what is stored of them.                *)

\* Sorting puts some leaf at each place.
LEMMA SortedLeaves ==
    ASSUME NEW leaves \in Seq(MaterializedLeaves)
    PROVE  canonical_materialized_state(leaves) \in Seq(MaterializedLeaves)
<1> DEFINE D == DOMAIN leaves
           Below(i) == {j \in D : \/ leaves[j].key < leaves[i].key
                                  \/ leaves[j].key = leaves[i].key /\ j <= i}
           place == [i \in D |-> Place(leaves, i)]
<1>1. D = 1 .. Len(leaves) /\ Len(leaves) \in Nat
    OBVIOUS
<1>2. IsFiniteSet(D) /\ Cardinality(D) = Len(leaves)
    <2>1. IsFiniteSet(1 .. Len(leaves)) /\ Cardinality(1 .. Len(leaves)) = Len(leaves)
        BY ONLY <1>1, FS_Interval, SMTT(30)
    <2> QED
        BY <1>1, <2>1, Zenon
<1>3. ASSUME NEW i \in D PROVE leaves[i].key \in Nat
    <2>1. leaves[i] \in MaterializedLeaves
        BY <1>3
    <2> QED
        BY <2>1, KeysAreRanks, Zenon DEF MaterializedLeaves
<1>4. ASSUME NEW i \in D
      PROVE  /\ IsFiniteSet(Below(i)) /\ place[i] = Cardinality(Below(i))
             /\ place[i] \in 1 .. Len(leaves)
    <2>1. Below(i) \in SUBSET D /\ i \in Below(i)
        BY <1>1, <1>3, <1>4, SMTT(30)
    <2>2. place[i] = Cardinality(Below(i))
        BY <1>4, Zenon DEF Place
    <2> HIDE DEF Below, D, place
    <2>3. IsFiniteSet(Below(i)) /\ Cardinality(Below(i)) <= Len(leaves)
        BY <1>2, <2>1, FS_Subset, Zenon
    <2>4. Cardinality(Below(i)) \in Nat /\ Cardinality(Below(i)) # 0
        BY <2>1, <2>3, FS_CardinalityType, FS_EmptySet, SMTT(30)
    <2> QED
        BY <1>1, <2>2, <2>3, <2>4, SMTT(30)
<1>5. ASSUME NEW i \in D, NEW j \in D, i # j PROVE place[i] # place[j]
    <2>1. ASSUME NEW a \in D, NEW b \in D,
                 leaves[a].key < leaves[b].key \/ (leaves[a].key = leaves[b].key /\ a < b)
          PROVE  place[a] # place[b]
        <3>1. Below(a) \in SUBSET Below(b)
            BY <1>1, <1>3, <2>1, SMTT(30)
        <3>2. b \in Below(b) /\ b \notin Below(a)
            BY <1>1, <1>3, <2>1, SMTT(30)
        <3>3. IsFiniteSet(Below(b)) /\ place[a] = Cardinality(Below(a))
              /\ place[b] = Cardinality(Below(b))
            BY <1>4, <2>1, ZenonT(40)
        <3> HIDE DEF Below, D, place
        <3> QED
            BY <3>1, <3>2, <3>3, FS_Subset, SMTT(30)
    <2>2. \/ leaves[i].key < leaves[j].key
          \/ leaves[i].key = leaves[j].key /\ i < j
          \/ leaves[j].key < leaves[i].key
          \/ leaves[j].key = leaves[i].key /\ j < i
        BY <1>1, <1>3, <1>5, SMTT(30)
    <2> HIDE DEF place, D
    <2> QED
        BY <1>5, <2>1, <2>2, Zenon
<1>6. place \in Injection(D, D)
    <2> HIDE DEF Below
    <2>1. place \in [D -> D]
        BY <1>1, <1>4, Zenon
    <2> HIDE DEF place, D
    <2> QED
        BY <1>5, <2>1, Zenon DEF Injection, IsInjective
<1>7. place \in Surjection(D, D)
    <2> HIDE DEF place, D
    <2> QED
        BY <1>2, <1>6, FS_Injection, Zenon
<1>8. ASSUME NEW p \in D PROVE \E i \in D : Place(leaves, i) = p
    BY <1>7, Zenon DEF Surjection
<1>9. ASSUME NEW p \in D
      PROVE  leaves[CHOOSE i \in D : Place(leaves, i) = p] \in MaterializedLeaves
    <2>1. PICK i \in D : i = CHOOSE j \in D : Place(leaves, j) = p
        BY <1>8, <1>9, Zenon
    <2> QED
        BY <2>1, SMTT(30)
<1> QED
    BY <1>1, <1>9, SMTT(30) DEF canonical_materialized_state

\* A vector that resolves becomes a consistent scenario.
LEMMA LoadedScenario ==
    ASSUME NEW v \in RootCheckVectors, Resolves(v)
    PROVE  LET s == from_root_check_scenario(resolve_root_check_scenario(v))
           IN  s \in LocalReferenceScenarios /\ Consistent(s)
<1> DEFINE header == v.header
           transactions == Transactions(v)
           witnesses == Witnesses(v)
           leaves == BaseMaterialized(v)
           steps == ResolvedSteps(v)
           count == Len(transactions)
           root == WitnessVectors(v)[1].expected_state_root
           s == from_root_check_scenario(resolve_root_check_scenario(v))
<1>1. /\ TransactionsResolve(v) /\ WitnessesResolve(v) /\ PreStateResolves(v)
      /\ StepsResolve(v) /\ RootsResolve(v)
    BY Zenon DEF Resolves
<1>2. s = [block |-> [header |-> header,
                      body |-> [transactions |-> transactions,
                                transactions_root |-> header.transactions_root],
                      sidecar |-> [block_root |-> header.block_root,
                                   execution_witnesses_root |-> header.execution_witnesses_root,
                                   witnesses |-> witnesses]],
           admission_transactions |->
              [i \in DOMAIN transactions |->
                  synthesize_reference_admission_transaction(transactions[i])],
           pre_state_root |-> root,
           materialized_state |-> leaves,
           planned_transactions |-> [i \in DOMAIN steps |-> PlannedStep(steps[i])],
           transaction_authorization_materials |->
              [i \in DOMAIN transactions |-> DefaultMaterials(transactions[i])]]
    BY Zenon DEF from_root_check_scenario, resolve_root_check_scenario
<1>3. header \in CanonicalBlockHeaders
    BY Zenon DEF RootCheckVectors
<1>4. /\ header.transactions_root \in Hashes /\ header.block_root \in Hashes
      /\ header.execution_witnesses_root \in Hashes
    BY <1>3, Zenon DEF CanonicalBlockHeaders
<1>5. transactions \in Seq(AllEnvelopes) /\ count \in Nat /\ DOMAIN transactions = 1 .. count
    BY <1>1, ResolvedTransactions, SMTT(30)
<1>6. ASSUME NEW i \in DOMAIN transactions
      PROVE  /\ synthesize_reference_admission_transaction(transactions[i]) \in AllEnvelopes
             /\ synthesize_reference_admission_transaction(transactions[i]).payload_root
                  = transactions[i].payload_root
             /\ DefaultMaterials(transactions[i]) \in Seq(PublicKeys)
    BY <1>1, <1>6, ResolvedTransactions, ZenonT(40)
<1>7. /\ DOMAIN steps = 1 .. count
      /\ \A i \in DOMAIN steps :
            /\ PlannedStep(steps[i]) \in PlannedTransactions
            /\ PlannedStep(steps[i]).transaction_root = canonical_root(transactions[i])
    BY <1>1, ResolvedPlans, ResolvedTransactions, ZenonT(40)
<1>8. 1 \in DOMAIN v.witness_vector_ids /\ witnesses \in Seq(StateWitnesses) \ {<<>>}
    <2>1. v.witness_vector_ids \in Seq(STRING)
        BY Zenon DEF RootCheckVectors
    <2>2. WitnessVectors(v) # <<>>
        BY <1>1, ZenonT(40) DEF PreStateResolves
    <2>3. v.witness_vector_ids # <<>>
        <3>1. ASSUME v.witness_vector_ids = <<>> PROVE WitnessVectors(v) = <<>>
            BY <3>1, SMTT(30) DEF WitnessVectors
        <3> QED
            BY <2>2, <3>1, Zenon
    <2>4. Len(v.witness_vector_ids) > 0 /\ 1 \in DOMAIN v.witness_vector_ids
        BY <2>1, <2>3, SMTT(30)
    <2>5. witnesses \in Seq(StateWitnesses) /\ Len(witnesses) = Len(v.witness_vector_ids)
        BY <1>1, ResolvedWitnesses, Zenon
    <2> QED
        BY <2>4, <2>5, SMTT(30)
<1>9. WitnessVectors(v)[1] \in AllWitnessVectors
    BY <1>1, <1>8, ResolvedWitnesses, Zenon
<1>10. root \in Hashes
    BY <1>1, <1>9, ZenonT(40) DEF PreStateResolves, AllWitnessVectors
<1>11. leaves \in Seq(MaterializedLeaves)
    BY <1>9, SortedLeaves, Zenon DEF BaseMaterialized, AllWitnessVectors
<1>12. /\ materialize_accumulator(leaves).result = "Ok"
       /\ materialize_accumulator(leaves).acc.root = root
       /\ verify_witnesses(materialize_accumulator(leaves).acc, witnesses, root) = "Ok"
    <2>1. materialize_accumulator(leaves) = materialize_root_check_accumulator(leaves)
        BY <1>1, Zenon DEF PreStateResolves, materialize_accumulator, materialize_root_check_accumulator
    <2> QED
        BY <1>1, <2>1, ZenonT(40) DEF PreStateResolves
<1>13. compute_execution_witnesses_root(witnesses) = header.execution_witnesses_root
    BY <1>1, ZenonT(40) DEF WitnessesResolve
<1> HIDE DEF header, transactions, witnesses, leaves, steps, root, s
<1> DEFINE block == [header |-> header,
                     body |-> [transactions |-> transactions,
                               transactions_root |-> header.transactions_root],
                     sidecar |-> [block_root |-> header.block_root,
                                  execution_witnesses_root |-> header.execution_witnesses_root,
                                  witnesses |-> witnesses]]
           admissions == [i \in DOMAIN transactions |->
                            synthesize_reference_admission_transaction(transactions[i])]
           plans == [i \in DOMAIN steps |-> PlannedStep(steps[i])]
           materials == [i \in DOMAIN transactions |-> DefaultMaterials(transactions[i])]
<1>14. block \in CanonicalBlocks
    BY <1>3, <1>4, <1>5, <1>8, Zenon DEF CanonicalBlocks
<1>15. admissions \in Seq(AllEnvelopes) /\ Len(admissions) = count
    BY <1>5, <1>6, SMTT(30)
<1>16. materials \in Seq(Seq(PublicKeys)) /\ Len(materials) = count
    BY <1>5, <1>6, SMTT(30)
<1>17. plans \in Seq(PlannedTransactions) /\ Len(plans) = count
    BY <1>5, <1>7, SMTT(30)
<1>18. s \in LocalReferenceScenarios
    <2> HIDE DEF block, admissions, materials, plans
    <2>1. s = [block |-> block, admission_transactions |-> admissions, pre_state_root |-> root,
               materialized_state |-> leaves, planned_transactions |-> plans,
               transaction_authorization_materials |-> materials]
        BY <1>2, Zenon DEF block, admissions, materials, plans
    <2> QED
        BY <1>10, <1>11, <1>14, <1>15, <1>16, <1>17, <2>1, Zenon DEF LocalReferenceScenarios
<1>19. Consistent(s)
    <2>1. \A i \in 1 .. count : /\ admissions[i].payload_root = transactions[i].payload_root
                                /\ plans[i].transaction_root = canonical_root(transactions[i])
        BY <1>5, <1>6, <1>7, ZenonT(40)
    <2>2. /\ s.block = block /\ s.admission_transactions = admissions
          /\ s.planned_transactions = plans /\ s.transaction_authorization_materials = materials
          /\ s.pre_state_root = root /\ s.materialized_state = leaves
        BY <1>2, Zenon
    <2>3. /\ block.header = header /\ block.body.transactions = transactions
          /\ block.body.transactions_root = header.transactions_root
          /\ block.sidecar.block_root = header.block_root
          /\ block.sidecar.execution_witnesses_root = header.execution_witnesses_root
          /\ block.sidecar.witnesses = witnesses
        BY Zenon
    <2> HIDE DEF block, admissions, materials, plans, count
    <2> QED
        BY <1>12, <1>13, <1>15, <1>16, <1>17, <2>1, <2>2, <2>3, ZenonT(40) DEF Consistent, count
<1> QED
    BY <1>18, <1>19, Zenon DEF s

\* As many transactions are stored as there are in the body.
LEMMA StoredCount ==
    ASSUME scenario \in LocalReferenceScenarios, Aligned, ~DuplicatePayloadRoot(scenario)
    PROVE  Cardinality(DOMAIN Stored) = Len(scenario.block.body.transactions)
<1> DEFINE count == Len(scenario.block.body.transactions)
           admissions == scenario.admission_transactions
           Root == [i \in 1 .. count |-> admissions[i].payload_root]
<1>1. Zipped(scenario) = 1 .. count /\ count \in Nat
    <2>1. scenario.block.body.transactions \in Seq(AllEnvelopes)
        BY ZippedType, Zenon
    <2> QED
        BY <2>1, SMTT(30) DEF Aligned, Zipped, LocalReferenceScenarios
<1>2. DOMAIN Stored = {admissions[i].payload_root : i \in 1 .. count}
    BY <1>1, StoredAdmissions, ZenonT(40) DEF Stored
<1>3. Root \in Bijection(1 .. count, DOMAIN Stored)
    <2> HIDE DEF count, admissions
    <2>1. \A i, j \in 1 .. count :
             admissions[i].payload_root = admissions[j].payload_root => i = j
        BY <1>1, Zenon DEF DuplicatePayloadRoot, admissions
    <2>2. Root \in [1 .. count -> DOMAIN Stored]
        BY <1>2, Zenon
    <2>3. \A i, j \in 1 .. count : Root[i] = Root[j] => i = j
        BY <2>1, Zenon
    <2>4. \A root \in DOMAIN Stored : \E i \in 1 .. count : Root[i] = root
        BY <1>2, Zenon
    <2> QED
        BY <2>2, <2>3, <2>4, Zenon DEF Bijection, Injection, Surjection, IsInjective
<1>4. IsFiniteSet(1 .. count) /\ Cardinality(1 .. count) = count
    BY <1>1, FS_Interval, SMTT(30)
<1>5. ExistsBijection(1 .. count, DOMAIN Stored)
    BY <1>3, ZenonT(40) DEF ExistsBijection
<1> QED
    BY <1>4, <1>5, FS_Bijection, Zenon

-----------------------------------------------------------------------------
(* The inductive invariant.                                                *)

\* What the runtime, the scenario and the adapters are at any time.  A scenario that
\* has not been changed is consistent, the consensus adapter stores the transactions of
\* the scenario it borrows, whose shape it has checked, and a scenario that was run to
\* its end has passed every check that does not depend on the nonces.
Kept ==
    /\ registry \in Registries /\ policy \in Policies
    /\ resolver \in Resolvers /\ max_witness_bytes \in Limits
    /\ edits \in 0 .. MaxEdits
    /\ observed \in 0 .. MaxU64 \cup {None}
    /\ scenario \in LocalReferenceScenarios \cup {None}
    /\ mempool # None => /\ scenario # None
                         /\ DOMAIN mempool \subseteq PayloadRoots
                         /\ \A root \in DOMAIN mempool : mempool[root] \in Seq(PublicKeys)
    /\ ran \in BOOLEAN
    /\ scenario # None /\ edits = 0 => Consistent(scenario)
    /\ consensus # None => /\ scenario # None
                           /\ Aligned /\ ~DuplicatePayloadRoot(scenario)
                           /\ consensus = Stored
    /\ ran => scenario # None /\ Passed

\* What is true of a call and its result as long as nothing changes.
TypedAnswer(call, result) ==
    \/ call = "transaction" /\ result \in Results
    \/ call \in {"run", "mempool", "consensus", "block"} /\ result \in BlockResults

AcceptedAnswer(call, result, object) ==
    call \in {"run", "block"} /\ result = Import!Ok => Replays(object)

LoadedAnswer(call, result) ==
    call = "run" /\ edits = 0 => result \in LoadedAnswers \/ result.kind \in LoadedRefusals

ShapeAnswer(call, result) ==
    call \in {"run", "mempool", "consensus"} => (result.kind # "ScenarioShape" <=> Aligned)

Outcome(call, result) ==
    IF call = "transaction" THEN validation_outcome(result)
    ELSE IF result.kind = "Admission" THEN validation_outcome(result.cause)
    ELSE Import!network_validation_outcome(result)

Own(call, object) == call \in {"run", "block"} /\ object = scenario.block

OwnTransaction(call, object) ==
    /\ call = "transaction"
    /\ mempool = OwnKeys
    /\ \E i \in DOMAIN scenario.admission_transactions :
          object = scenario.admission_transactions[i]

OnceRunAnswer(call, result, object) ==
    ran /\ (Own(call, object) \/ OwnTransaction(call, object))
        => Outcome(call, result) \in {"Accept", "PolicyReject"}

Told ==
    last # None =>
        /\ scenario # None
        /\ TypedAnswer(last.call, last.result)
        /\ AcceptedAnswer(last.call, last.result, last.object)
        /\ LoadedAnswer(last.call, last.result)
        /\ ShapeAnswer(last.call, last.result)
        /\ OnceRunAnswer(last.call, last.result, last.object)

IInv == Kept /\ Told

\* The invariant implies the properties the runs check.
LEMMA InvariantSuffices ==
    ASSUME IInv
    PROVE  /\ TypeOK /\ AcceptedBlockReplays
           /\ OnceRunNeverInvalid /\ ResolvedScenariosRun /\ AlignedBeforeUse
<1>1. TypeOK
    <2>1. last # None => TypedAnswer(last.call, last.result)
        BY Zenon DEF IInv, Told
    <2> QED
        BY <2>1, Zenon DEF IInv, Kept, TypeOK, TypedAnswer
<1>2. AcceptedBlockReplays
    <2>1. last # None => AcceptedAnswer(last.call, last.result, last.object)
        BY Zenon DEF IInv, Told
    <2> QED
        BY <2>1, Zenon DEF AcceptedAnswer, AcceptedBlock, AcceptedBlockReplays
<1>3. OnceRunNeverInvalid
    <2>1. last # None => OnceRunAnswer(last.call, last.result, last.object)
        BY Zenon DEF IInv, Told
    <2> QED
        BY <2>1, ZenonT(40) DEF OnceRunAnswer, OnceRunNeverInvalid, LastOutcome, Outcome, Own,
                           OwnTransaction, OwnKeys, Stored
<1>4. ResolvedScenariosRun
    <2>1. last # None => LoadedAnswer(last.call, last.result)
        BY Zenon DEF IInv, Told
    <2> QED
        BY <2>1, Zenon DEF LoadedAnswer, LoadedAnswers, LoadedRefusals, RootMismatches,
                    HeaderRefusals, ResolvedScenariosRun
<1>5. AlignedBeforeUse
    <2>1. last # None => scenario # None /\ ShapeAnswer(last.call, last.result)
        BY Zenon DEF IInv, Told
    <2>2. consensus # None =>
             /\ scenario # None /\ Aligned
             /\ Cardinality(DOMAIN consensus) = Len(scenario.block.body.transactions)
        BY StoredCount, Zenon DEF IInv, Kept
    <2>3. CASE scenario # None
        BY <2>1, <2>2, <2>3, SMTT(30) DEF AlignedBeforeUse, ShapeAnswer, Aligned
    <2>4. CASE scenario = None
        BY <2>1, <2>2, <2>4, SMTT(30) DEF AlignedBeforeUse
    <2> QED
        BY <2>3, <2>4, Zenon
<1> QED
    BY <1>1, <1>2, <1>3, <1>4, <1>5, SMTT(30)

\* Passing does not depend on what the view observes, on the adapters or on the calls.
LEMMA PassedStands ==
    ASSUME UNCHANGED <<registry, policy, resolver, max_witness_bytes, scenario>>, Passed
    PROVE  Passed'
<1>1. /\ registry' = registry /\ policy' = policy /\ resolver' = resolver
      /\ max_witness_bytes' = max_witness_bytes /\ scenario' = scenario
    BY Zenon
<1>2. /\ (validate_scenario_shape(scenario) = "Ok")' /\ ~DuplicatePayloadRoot(scenario)'
      /\ Zipped(scenario)' = Zipped(scenario)
    BY <1>1, ZenonT(40) DEF Passed
<1>3. ASSUME NEW i \in Zipped(scenario)
      PROVE  Sound(scenario.admission_transactions[i],
                   scenario.transaction_authorization_materials[i])'
    <2> DEFINE e == scenario.admission_transactions[i]
               m == scenario.transaction_authorization_materials[i]
    <2>1. Sound(e, m)
        BY <1>3, Zenon DEF Passed
    <2> QED
        BY <1>1, <2>1, ZenonT(40) DEF Sound, check_authorization_count,
            check_authorization_payload_roots, check_user_signature_sizes, check_fee_policy,
            verify_authorizations, AuthorizationResult, signing_root
<1>4. HeaderPasses(scenario.block)'
    <2>1. HeaderPasses(scenario.block)
        BY Zenon DEF Passed
    <2> QED
        BY <1>1, <2>1, Zenon DEF HeaderPasses, HeaderSignatureResult
<1>5. Bound(scenario.block)' /\ RootsMatch(scenario.block)'
    <2>1. Bound(scenario.block) /\ RootsMatch(scenario.block)
        BY ZenonT(40) DEF Passed
    <2>2. engine_execute_block(scenario.block.body.transactions)'
            = engine_execute_block(scenario.block.body.transactions)
        <3>1. ASSUME NEW transactions, NEW acc
              PROVE  Executed(transactions, acc)' = Executed(transactions, acc)
            BY <1>1, SMTT(30) DEF Executed, ExecuteTransaction
        <3>2. ASSUME NEW executed PROVE ensure_exhausted(executed)' <=> ensure_exhausted(executed)
            BY <1>1, Zenon DEF ensure_exhausted
        <3> QED
            BY <1>1, <3>1, <3>2, Zenon DEF engine_execute_block
    <2>3. prepare_witness(scenario.block.header)' = prepare_witness(scenario.block.header)
        BY <1>1, ZenonT(40) DEF prepare_witness
    <2> QED
        BY <1>1, <2>1, <2>2, <2>3, ZenonT(40) DEF Bound, RootsMatch
<1>6. (\A k \in DOMAIN scenario.block.body.transactions :
          scenario.block.body.transactions[k].payload_root \in DOMAIN Stored)'
    <2>1. Stored' = Stored
        BY <1>1, Zenon DEF Stored
    <2> QED
        BY <1>1, <2>1, Zenon DEF Passed
<1> QED
    BY <1>2, <1>3, <1>4, <1>5, <1>6, ZenonT(40) DEF Passed

\* The answer to a call stands as long as nothing else changes.
LEMMA AnswersStand ==
    ASSUME UNCHANGED <<registry, policy, scenario, edits>>,
           NEW call, NEW result, NEW object,
           last' = [call |-> call, result |-> result, object |-> object],
           scenario # None,
           TypedAnswer(call, result),
           AcceptedAnswer(call, result, object),
           LoadedAnswer(call, result),
           ShapeAnswer(call, result),
           OnceRunAnswer(call, result, object)'
    PROVE  Told'
<1>1. /\ registry' = registry /\ policy' = policy /\ scenario' = scenario /\ edits' = edits
    BY Zenon
<1>2. last'.call = call /\ last'.result = result /\ last'.object = object
    BY Zenon
<1>3. TypedAnswer(last.call, last.result)'
    BY <1>2, Zenon DEF TypedAnswer
<1>4. AcceptedAnswer(last.call, last.result, last.object)'
    <2>1. ASSUME Replays(object) PROVE Replays(last.object)'
        <3>1. \A n, key : ValueAfter(n, key)' = ValueAfter(n, key)
            BY <1>1, SMTT(30) DEF ValueAfter
        <3> QED
            BY <1>1, <1>2, <2>1, <3>1, ZenonT(40) DEF Replays
    <2> QED
        BY <1>2, <2>1, ZenonT(40) DEF AcceptedAnswer
<1>5. LoadedAnswer(last.call, last.result)'
    BY <1>1, <1>2, Zenon DEF LoadedAnswer
<1>6. ShapeAnswer(last.call, last.result)'
    BY <1>1, <1>2, Zenon DEF ShapeAnswer, Aligned
<1>7. OnceRunAnswer(last.call, last.result, last.object)'
    BY <1>2, ZenonT(40) DEF OnceRunAnswer, Outcome, Own, OwnTransaction
<1> QED
    BY <1>1, <1>3, <1>4, <1>5, <1>6, <1>7, Zenon DEF Told

\* Nothing but stuttering leaves everything as it is.
LEMMA StutteringKeeps ==
    ASSUME IInv, UNCHANGED vars
    PROVE  IInv'
<1>1. /\ registry' = registry /\ policy' = policy /\ observed' = observed
      /\ resolver' = resolver /\ max_witness_bytes' = max_witness_bytes
      /\ scenario' = scenario /\ edits' = edits /\ mempool' = mempool
      /\ consensus' = consensus /\ last' = last /\ ran' = ran
    BY Zenon DEF vars
<1>2. Stored' = Stored /\ (Aligned' <=> Aligned) /\ OwnKeys' = OwnKeys
    <2>1. Stored' = Stored
        BY <1>1, Zenon DEF Stored
    <2> QED
        BY <1>1, <2>1, Zenon DEF Aligned, OwnKeys
<1>3. Passed => Passed'
    BY <1>1, PassedStands, Zenon
<1>4. Kept'
    BY <1>1, <1>2, <1>3, Zenon DEF IInv, Kept
<1>5. Told'
    <2>1. \A n, key : ValueAfter(n, key)' = ValueAfter(n, key)
        BY <1>1, SMTT(30) DEF ValueAfter
    <2>2. Replays(last.object) => Replays(last.object)'
        BY <1>1, <2>1, Zenon DEF Replays
    <2>4. AcceptedAnswer(last.call, last.result, last.object)
             => AcceptedAnswer(last.call, last.result, last.object)'
        BY <1>1, <2>2, ZenonT(40) DEF AcceptedAnswer
    <2>5. /\ LoadedAnswer(last.call, last.result) => LoadedAnswer(last.call, last.result)'
          /\ ShapeAnswer(last.call, last.result) => ShapeAnswer(last.call, last.result)'
        BY <1>1, <1>2, ZenonT(40) DEF LoadedAnswer, ShapeAnswer
    <2>6. OnceRunAnswer(last.call, last.result, last.object)
             => OnceRunAnswer(last.call, last.result, last.object)'
        BY <1>1, <1>2, ZenonT(40) DEF OnceRunAnswer, Own, OwnTransaction
    <2> QED
        BY <1>1, <2>4, <2>5, <2>6, SMTT(30) DEF IInv, Told
<1> QED
    BY <1>4, <1>5, Zenon DEF IInv

\* The properties hold before anything is loaded.
LEMMA InitEstablishes ==
    ASSUME Init
    PROVE  IInv
<1>1. Kept
    <2>1. 0 \in 0 .. MaxEdits /\ 0 \in 0 .. MaxU64
        BY EditsAreBounded, SmallestWidth, SMTT(30)
    <2> QED
        BY <2>1, ZenonT(40) DEF Init, Kept
<1>2. Told
    BY Zenon DEF Init, Told
<1> QED
    BY <1>1, <1>2, Zenon DEF IInv

\* A scenario that is loaded is consistent.
LEMMA LoadScenarioKeeps ==
    ASSUME IInv, LoadScenario
    PROVE  IInv'
<1>1. PICK v \in Vectors : /\ Resolves(v)
                           /\ scenario' = from_root_check_scenario(resolve_root_check_scenario(v))
    BY Zenon DEF LoadScenario, LoadedScenarios
<1>2. scenario' \in LocalReferenceScenarios /\ Consistent(scenario')
    BY <1>1, VectorsAreVectors, LoadedScenario, Zenon
<1>3. scenario' # None
    BY <1>2, NoneIsNoScenario, Zenon
<1>4. Kept'
    <2>1. edits' \in 0 .. MaxEdits
        BY EditsAreBounded, SMTT(30) DEF LoadScenario
    <2> QED
        BY <1>2, <1>3, <2>1, ZenonT(40) DEF LoadScenario, IInv, Kept
<1>5. Told'
    BY Zenon DEF LoadScenario, Told
<1> QED
    BY <1>4, <1>5, Zenon DEF IInv

\* A changed scenario keeps its type, and nothing is claimed of it before it is used.
LEMMA EditScenarioKeeps ==
    ASSUME IInv, EditScenario
    PROVE  IInv'
<1>1. scenario \in LocalReferenceScenarios /\ scenario' \in Edits
    BY Zenon DEF IInv, Kept, EditScenario
<1>2. scenario' \in LocalReferenceScenarios
    BY <1>1, EditsType, Zenon
<1>3. scenario' # None
    BY ONLY <1>2, NoneIsNoScenario, Zenon
<1>4. edits' \in 0 .. MaxEdits /\ edits' # 0
    BY EditsAreBounded, SMTT(30) DEF IInv, Kept, EditScenario
<1>5. Kept'
    BY <1>2, <1>3, <1>4, ZenonT(40) DEF EditScenario, IInv, Kept
<1>6. Told'
    BY SMTT(30) DEF EditScenario, Told
<1> QED
    BY <1>5, <1>6, Zenon DEF IInv

\* What has passed does not depend on the nonces that move on.
LEMMA ViewMovesKeeps ==
    ASSUME IInv, ViewMoves
    PROVE  IInv'
<1>1. /\ registry' = registry /\ policy' = policy /\ resolver' = resolver
      /\ max_witness_bytes' = max_witness_bytes /\ scenario' = scenario /\ edits' = edits
      /\ mempool' = mempool /\ consensus' = consensus /\ ran' = ran
    BY Zenon DEF ViewMoves
<1>2. observed' \in 0 .. MaxU64
    BY SmallestWidth, SMTT(30) DEF IInv, Kept, ViewMoves
<1>3. Stored' = Stored /\ (Aligned' <=> Aligned)
    BY <1>1, Zenon DEF Stored, Aligned
<1>4. Passed => Passed'
    BY <1>1, PassedStands, Zenon
<1>5. Kept'
    BY <1>1, <1>2, <1>3, <1>4, Zenon DEF IInv, Kept
<1>6. Told'
    BY Zenon DEF ViewMoves, Told
<1> QED
    BY <1>5, <1>6, Zenon DEF IInv

\* Only the nonces can be wrong with a scenario that is run again, and the first run
\* that gets to its end makes it one.
LEMMA RunKeeps ==
    ASSUME IInv, Run
    PROVE  IInv'
<1>1. /\ registry' = registry /\ policy' = policy /\ observed' = observed
      /\ resolver' = resolver /\ max_witness_bytes' = max_witness_bytes
      /\ scenario' = scenario /\ edits' = edits /\ mempool' = mempool /\ consensus' = consensus
    BY Zenon DEF Run, Borrowed
<1>2. /\ scenario # None /\ scenario \in LocalReferenceScenarios
      /\ registry \in Registries /\ resolver \in Resolvers
    BY Zenon DEF IInv, Kept, Run
<1>3. ran' = (ran \/ run = Import!Ok)
      /\ last' = [call |-> "run", result |-> run, object |-> scenario.block]
    BY Zenon DEF Run, Returns
<1>4. Stored' = Stored /\ (Aligned' <=> Aligned)
    BY <1>1, Zenon DEF Stored, Aligned
<1>5. /\ run \in BlockResults
      /\ run.kind # "ScenarioShape" <=> Aligned
      /\ run = Import!Ok =>
            Passed /\ Replays(scenario.block)
      /\ Passed => run \in {Import!Ok, Import!Result("Admission", "NoncePolicy"),
                            Import!Result("TransactionValidation", "NoncePolicy")}
    BY <1>2, RunAnswers, Zenon
<1>6. ran' => Passed
    BY <1>3, <1>5, Zenon DEF IInv, Kept
<1>7. Passed => Passed'
    BY <1>1, PassedStands, Zenon
<1>8. Kept'
    <2>1. ran' \in BOOLEAN
        BY <1>3, Zenon
    <2> QED
        BY <1>1, <1>2, <1>4, <1>6, <1>7, <2>1, SMTT(30) DEF IInv, Kept
<1>9. Told'
    <2>1. TypedAnswer("run", run) /\ AcceptedAnswer("run", run, scenario.block)
          /\ ShapeAnswer("run", run)
        BY <1>5, Zenon DEF TypedAnswer, AcceptedAnswer, ShapeAnswer
    <2>2. LoadedAnswer("run", run)
        <3>1. edits = 0 => Consistent(scenario)
            BY <1>2, Zenon DEF IInv, Kept
        <3> QED
            BY <1>2, <3>1, ConsistentRuns, Zenon DEF LoadedAnswer
    <2>3. ran' => Outcome("run", run) \in {"Accept", "PolicyReject"}
        <3>1. ASSUME NEW result \in {Import!Ok, Import!Result("Admission", "NoncePolicy"),
                                     Import!Result("TransactionValidation", "NoncePolicy")}
              PROVE  Outcome("run", result) \in {"Accept", "PolicyReject"}
            BY <3>1, SMTT(30)
               DEF Outcome, validation_outcome, Import!network_validation_outcome, Import!Ok,
                Import!Result, Import!PrimitiveInternals, Import!CallerErrors,
                Import!PolicyErrors
        <3> QED
            BY <1>5, <1>6, <3>1, Zenon
    <2>4. PICK result, object : result = run /\ object = scenario.block
        BY Zenon
    <2>5. OnceRunAnswer("run", result, object)'
        BY <2>3, <2>4, Zenon DEF OnceRunAnswer
    <2>6. /\ last' = [call |-> "run", result |-> result, object |-> object]
          /\ TypedAnswer("run", result) /\ AcceptedAnswer("run", result, object)
          /\ LoadedAnswer("run", result) /\ ShapeAnswer("run", result)
        BY <1>3, <2>1, <2>2, <2>4, SMTT(30)
    <2> QED
        BY <1>1, <1>2, <2>5, <2>6, AnswersStand, SMTT(30)
<1> QED
    BY <1>8, <1>9, Zenon DEF IInv

\* An adapter is built or refused; its answer says whether the lists align.
LEMMA AdapterTold ==
    ASSUME UNCHANGED Borrowed, scenario # None, NEW call \in {"mempool", "consensus"},
           Returns(call, AdapterResult, None)
    PROVE  Told'
<1>1. PICK result : result = AdapterResult
    BY Zenon
<1>2. last' = [call |-> call, result |-> result, object |-> None]
    BY <1>1, Zenon DEF Returns
<1>3. /\ result \in BlockResults
      /\ result.kind # "ScenarioShape" <=> Aligned
    BY <1>1, AdapterAnswers, Zenon
<1>4. TypedAnswer(call, result)
    BY <1>3, Zenon DEF TypedAnswer
<1>5. AcceptedAnswer(call, result, None) /\ LoadedAnswer(call, result)
    BY Zenon DEF AcceptedAnswer, LoadedAnswer
<1>6. ShapeAnswer(call, result)
    BY <1>3, Zenon DEF ShapeAnswer
<1>7. OnceRunAnswer(call, result, None)'
    BY SMTT(30) DEF OnceRunAnswer, Own, OwnTransaction
<1> QED
    BY <1>2, <1>4, <1>5, <1>6, <1>7, AnswersStand, SMTT(30) DEF Borrowed

\* A mempool adapter has the keys of the scenario it is built over.
LEMMA NewMempoolAdapterKeeps ==
    ASSUME IInv, NewMempoolAdapter
    PROVE  IInv'
<1>1. /\ registry' = registry /\ policy' = policy /\ observed' = observed
      /\ resolver' = resolver /\ max_witness_bytes' = max_witness_bytes
      /\ scenario' = scenario /\ edits' = edits /\ consensus' = consensus /\ ran' = ran
    BY Zenon DEF NewMempoolAdapter, Borrowed
<1>2. scenario # None /\ scenario \in LocalReferenceScenarios
    BY Zenon DEF IInv, Kept, NewMempoolAdapter
<1>3. mempool' = mempool \/ mempool' = OwnKeys
    BY ZenonT(40) DEF NewMempoolAdapter, OwnKeys, Stored
<1>4. /\ DOMAIN OwnKeys \subseteq PayloadRoots
      /\ \A root \in DOMAIN OwnKeys : OwnKeys[root] \in Seq(PublicKeys)
    <2>1. Stored \in Stores
        BY <1>2, StoredAdmissions, ZenonT(40) DEF Stored
    <2>2. PICK roots \in SUBSET PayloadRoots :
             Stored \in [roots -> [transaction : AllEnvelopes, materials : Seq(PublicKeys)]]
        BY <2>1, Zenon DEF Stores
    <2>3. DOMAIN OwnKeys = roots
        BY <2>2, Zenon DEF OwnKeys
    <2>4. \A root \in roots : OwnKeys[root] = Stored[root].materials
        BY <2>2, Zenon DEF OwnKeys
    <2>5. \A root \in roots :
             Stored[root] \in [transaction : AllEnvelopes, materials : Seq(PublicKeys)]
        BY <2>2, Zenon
    <2> QED
        BY <2>3, <2>4, <2>5, SMTT(30)
<1>5. mempool' # None => /\ DOMAIN mempool' \subseteq PayloadRoots
                         /\ \A root \in DOMAIN mempool' : mempool'[root] \in Seq(PublicKeys)
    <2>1. mempool # None => /\ DOMAIN mempool \subseteq PayloadRoots
                            /\ \A root \in DOMAIN mempool : mempool[root] \in Seq(PublicKeys)
        BY Zenon DEF IInv, Kept
    <2> QED
        BY <1>3, <1>4, <2>1, ZenonT(40)
<1>6. Stored' = Stored /\ (Aligned' <=> Aligned)
    BY <1>1, Zenon DEF Stored, Aligned
<1>7. Passed => Passed'
    BY <1>1, PassedStands, Zenon
<1>8. Kept'
    BY <1>1, <1>2, <1>5, <1>6, <1>7, Zenon DEF IInv, Kept
<1>9. Told'
    BY <1>2, AdapterTold, SMTT(30) DEF NewMempoolAdapter
<1> QED
    BY <1>8, <1>9, Zenon DEF IInv

\* A consensus adapter stores the transactions of a scenario whose lists align.
LEMMA NewConsensusAdapterKeeps ==
    ASSUME IInv, NewConsensusAdapter
    PROVE  IInv'
<1>1. /\ registry' = registry /\ policy' = policy /\ observed' = observed
      /\ resolver' = resolver /\ max_witness_bytes' = max_witness_bytes
      /\ scenario' = scenario /\ edits' = edits /\ mempool' = mempool /\ ran' = ran
    BY Zenon DEF NewConsensusAdapter, Borrowed
<1>2. scenario # None /\ scenario \in LocalReferenceScenarios
    BY Zenon DEF IInv, Kept, NewConsensusAdapter
<1>3. Stored' = Stored /\ (Aligned' <=> Aligned)
    BY <1>1, Zenon DEF Stored, Aligned
<1>4. consensus' # None => /\ Aligned /\ ~DuplicatePayloadRoot(scenario)
                           /\ consensus' = Stored
    <2>1. CASE AdapterResult # Import!Ok
        BY <2>1, Zenon DEF NewConsensusAdapter, IInv, Kept
    <2>2. CASE AdapterResult = Import!Ok
        <3>1. consensus' = Stored
            BY <2>2, Zenon DEF NewConsensusAdapter, Stored
        <3>2. Aligned /\ ~DuplicatePayloadRoot(scenario)
            BY <2>2, AdapterAnswers, ShapeAnswers, SMTT(30)
        <3> QED
            BY <3>1, <3>2, Zenon
    <2> QED
        BY ONLY <2>1, <2>2, Zenon
<1>5. Passed => Passed'
    BY <1>1, PassedStands, Zenon
<1>6. Kept'
    BY <1>1, <1>2, <1>3, <1>4, <1>5, Zenon DEF IInv, Kept
<1>7. Told'
    BY <1>2, AdapterTold, Zenon DEF NewConsensusAdapter
<1> QED
    BY <1>6, <1>7, Zenon DEF IInv

\* A call to an adapter leaves everything but its answer.
LEMMA GossipKeeps ==
    ASSUME IInv, UNCHANGED <<Borrowed, mempool, consensus, ran>>
    PROVE  Kept'
<1>1. /\ registry' = registry /\ policy' = policy /\ observed' = observed
      /\ resolver' = resolver /\ max_witness_bytes' = max_witness_bytes
      /\ scenario' = scenario /\ edits' = edits /\ mempool' = mempool
      /\ consensus' = consensus /\ ran' = ran
    BY Zenon DEF Borrowed
<1>2. Stored' = Stored /\ (Aligned' <=> Aligned)
    BY <1>1, Zenon DEF Stored, Aligned
<1>3. Passed => Passed'
    BY <1>1, PassedStands, Zenon
<1> QED
    BY <1>1, <1>2, <1>3, SMTT(30) DEF IInv, Kept

\* A transaction of a scenario that was run is refused for its nonce at most.
LEMMA GossipTransactionKeeps ==
    ASSUME IInv, NEW envelope \in OfferedTransactions, GossipTransaction(envelope)
    PROVE  IInv'
<1>1. /\ registry' = registry /\ policy' = policy /\ scenario' = scenario
      /\ edits' = edits /\ mempool' = mempool /\ ran' = ran
    BY Zenon DEF GossipTransaction, Borrowed
<1>2. /\ scenario # None /\ scenario \in LocalReferenceScenarios /\ registry \in Registries
      /\ \A root \in DOMAIN mempool : mempool[root] \in Seq(PublicKeys)
    BY Zenon DEF IInv, Kept, GossipTransaction
<1>3. PICK result : result = GossipResult(envelope)
    BY Zenon
<1>4. last' = [call |-> "transaction", result |-> result, object |-> envelope]
    BY <1>3, Zenon DEF GossipTransaction, Returns
<1>5. TypedAnswer("transaction", result)
    BY <1>2, <1>3, OfferedType, GossipAnswers, SMTT(30) DEF TypedAnswer
<1>6. /\ AcceptedAnswer("transaction", result, envelope)
      /\ LoadedAnswer("transaction", result) /\ ShapeAnswer("transaction", result)
    BY Zenon DEF AcceptedAnswer, LoadedAnswer, ShapeAnswer
<1>7. OnceRunAnswer("transaction", result, envelope)'
    <2>1. OwnKeys' = OwnKeys
        BY <1>1, Zenon DEF OwnKeys, Stored
    <2>2. ASSUME ran, mempool = OwnKeys, NEW i \in DOMAIN scenario.admission_transactions,
                 envelope = scenario.admission_transactions[i]
          PROVE  result \in {"Ok", "NoncePolicy"}
        <3>1. Passed
            BY <2>2, Zenon DEF IInv, Kept
        <3> QED
            BY <1>2, <1>3, <2>2, <3>1, PassedTransactions, Zenon
    <2>3. result \in {"Ok", "NoncePolicy"}
             => Outcome("transaction", result) \in {"Accept", "PolicyReject"}
        BY Zenon DEF Outcome, validation_outcome
    <2>4. ASSUME ran', OwnTransaction("transaction", envelope)'
          PROVE  result \in {"Ok", "NoncePolicy"}
        BY <1>1, <2>1, <2>2, <2>4, SMTT(30) DEF OwnTransaction
    <2>5. ~Own("transaction", envelope)'
        BY Zenon DEF Own
    <2> QED
        BY <2>3, <2>4, <2>5, Zenon DEF OnceRunAnswer
<1>8. Told'
    BY <1>1, <1>2, <1>4, <1>5, <1>6, <1>7, AnswersStand, SMTT(30)
<1> QED
    BY <1>8, GossipKeeps, Zenon DEF GossipTransaction, IInv

\* A block is validated against the scenario of its adapter, whose transactions are
\* stored; that of a scenario that was run is refused for a nonce at most.
LEMMA GossipBlockKeeps ==
    ASSUME IInv, NEW block \in OfferedBlocks, GossipBlock(block)
    PROVE  IInv'
<1>1. /\ registry' = registry /\ policy' = policy /\ scenario' = scenario
      /\ edits' = edits /\ ran' = ran
    BY Zenon DEF GossipBlock, Borrowed
<1>2. /\ scenario # None /\ scenario \in LocalReferenceScenarios /\ registry \in Registries
      /\ resolver \in Resolvers /\ consensus = Stored
    BY Zenon DEF IInv, Kept, GossipBlock
<1>3. block.body.transactions \in Seq(AllEnvelopes)
    BY <1>2, OfferedType, Zenon
<1>4. PICK result : result = validate_block_against_reference(block, Stored)
    BY Zenon
<1>5. last' = [call |-> "block", result |-> result, object |-> block]
    BY <1>2, <1>4, Zenon DEF GossipBlock, Returns
<1>6. /\ result \in Import!Results
      /\ result = Import!Ok => Replays(block)
    BY <1>2, <1>3, <1>4, BlockAnswers, SMTT(30)
<1>7. TypedAnswer("block", result) /\ AcceptedAnswer("block", result, block)
    BY <1>6, Zenon DEF TypedAnswer, BlockResults, AcceptedAnswer
<1>8. LoadedAnswer("block", result) /\ ShapeAnswer("block", result)
    BY Zenon DEF LoadedAnswer, ShapeAnswer
<1>9. OnceRunAnswer("block", result, block)'
    <2>1. ASSUME ran, block = scenario.block
          PROVE  result \in {Import!Ok, Import!Result("TransactionValidation", "NoncePolicy")}
        <3>1. Passed
            BY <2>1, Zenon DEF IInv, Kept
        <3> QED
            BY ONLY <1>2, <1>4, <2>1, <3>1, PassedBlocks, Zenon
    <2>2. result \in {Import!Ok, Import!Result("TransactionValidation", "NoncePolicy")}
             => Outcome("block", result) \in {"Accept", "PolicyReject"}
        BY SMTT(30) DEF Outcome, Import!network_validation_outcome, Import!Ok, Import!Result,
            Import!PrimitiveInternals, Import!CallerErrors, Import!PolicyErrors
    <2>3. ~OwnTransaction("block", block)'
        BY Zenon DEF OwnTransaction
    <2>4. Own("block", block)' => block = scenario.block
        BY <1>1, Zenon DEF Own
    <2> QED
        BY <1>1, <2>1, <2>2, <2>3, <2>4, SMTT(30) DEF OnceRunAnswer
<1>10. Told'
    BY <1>1, <1>2, <1>5, <1>7, <1>8, <1>9, AnswersStand, Zenon
<1> QED
    BY <1>10, GossipKeeps, Zenon DEF GossipBlock, IInv

\* The invariant holds in every state of the reference runtime.
THEOREM RuntimeInvariance == Spec => []IInv
<1>1. Init => IInv
    BY InitEstablishes, Zenon
<1>2. IInv /\ [Next]_vars => IInv'
    <2> SUFFICES ASSUME IInv, [Next]_vars PROVE IInv'
        BY Zenon
    <2>1. CASE LoadScenario
        BY <2>1, LoadScenarioKeeps, Zenon
    <2>2. CASE EditScenario
        BY <2>2, EditScenarioKeeps, SMTT(30)
    <2>3. CASE ViewMoves
        BY <2>3, ViewMovesKeeps, Zenon
    <2>4. CASE Run
        BY <2>4, RunKeeps, Zenon
    <2>5. CASE NewMempoolAdapter
        BY <2>5, NewMempoolAdapterKeeps, Zenon
    <2>6. CASE NewConsensusAdapter
        BY <2>6, NewConsensusAdapterKeeps, Zenon
    <2>7. ASSUME NEW envelope \in OfferedTransactions, GossipTransaction(envelope)
          PROVE  IInv'
        BY <2>7, GossipTransactionKeeps, Zenon
    <2>8. ASSUME NEW block \in OfferedBlocks, GossipBlock(block) PROVE IInv'
        BY <2>8, GossipBlockKeeps, Zenon
    <2>9. CASE UNCHANGED vars
        BY <2>9, StutteringKeeps, Zenon
    <2> QED
        BY <2>1, <2>2, <2>3, <2>4, <2>5, <2>6, <2>7, <2>8, <2>9, SMTT(30) DEF Next
<1> QED
    BY <1>1, <1>2, PTL DEF Spec

\* Every call returns an error of its own error type, and a scenario keeps its shape
\* however it is changed.
THEOREM RuntimeTypeCorrect == Spec => []TypeOK
<1>1. IInv => TypeOK
    BY InvariantSuffices, Zenon
<1> QED
    BY <1>1, RuntimeInvariance, PTL

\* A block that run or the consensus adapter accepts consists of the planned
\* transactions, its header commits the state and receipts these lead to, and the
\* witnesses it commits tell leaves of the pre-state.
THEOREM AcceptedBlockAlwaysReplays == Spec => []AcceptedBlockReplays
<1>1. IInv => AcceptedBlockReplays
    BY InvariantSuffices, Zenon
<1> QED
    BY <1>1, RuntimeInvariance, PTL

\* A scenario that was run to its end, its block and its transactions are later accepted
\* or refused by local policy, never reported invalid to a peer.
THEOREM OnceRunIsNeverInvalid == Spec => []OnceRunNeverInvalid
<1>1. IInv => OnceRunNeverInvalid
    BY InvariantSuffices, Zenon
<1> QED
    BY <1>1, RuntimeInvariance, PTL

\* A scenario as resolve_root_check_scenario and from_root_check_scenario make it fails
\* only for what loading does not check.
THEOREM ResolvedScenariosAlwaysRun == Spec => []ResolvedScenariosRun
<1>1. IInv => ResolvedScenariosRun
    BY InvariantSuffices, SMTT(30)
<1> QED
    BY <1>1, RuntimeInvariance, PTL

\* A consensus adapter has one stored transaction for each of the body, and calls say
\* ScenarioShape exactly where the lists do not align.
THEOREM AlwaysAlignedBeforeUse == Spec => []AlignedBeforeUse
<1>1. IInv => AlignedBeforeUse
    BY InvariantSuffices, Zenon
<1> QED
    BY <1>1, RuntimeInvariance, PTL

=============================================================================
