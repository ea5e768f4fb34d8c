------------------------- MODULE ReferenceScenario --------------------------
(***************************************************************************)
(* The scenarios of the local reference harness: how shell-fixtures        *)
(* resolves a root-check vector, how shell-cli turns it into a block with  *)
(* the transactions, keys, pre-state and plans to import it with, and the  *)
(* checks every user of a scenario makes first.                            *)
(*                                                                         *)
(* A resolved vector refers to others by id.  Every failed assertion on    *)
(* the way panics, so a vector resolves or it does not.                    *)
(***************************************************************************)
EXTENDS AdmissionChecks, StateOps, FiniteSets

CONSTANTS
    TransactionFixtures,    \* transaction vectors by id
    WitnessFixtures,        \* witness vectors by id
    DefaultKey,             \* OwnedAuthorizationMaterial::reference_default
    ReferenceSignature,     \* the 64 bytes 0xA5, no signature of any payload
    BlockRoots,             \* roots of blocks, and any that hash nothing known
    Receipts                \* receipts

-----------------------------------------------------------------------------
(* Roots, named by what they hash, in order and with its length.           *)

\* TransactionEnvelope::canonical_root.
canonical_root(envelope) == <<"envelope", envelope.payload_root, envelope.authorizations>>

compute_transactions_root(transactions) ==
    <<"transactions", [i \in DOMAIN transactions |-> canonical_root(transactions[i])]>>

compute_execution_witnesses_root(witnesses) == <<"witnesses", witnesses>>

compute_receipts_root(receipts) == <<"receipts", receipts>>

\* A StatePatch that writes a list of leaves.
PatchOf(leaves) ==
    [accesses |-> [i \in DOMAIN leaves |-> leaves[i].key],
     new_values |-> [i \in DOMAIN leaves |-> leaves[i].value]]

\* Root: the ones above, state roots and others.
EnvelopeRoots == {"envelope"} \X PayloadRoots \X Seq(Authorizations)
Hashes == BlockRoots \cup Roots \cup ({"transactions"} \X Seq(EnvelopeRoots))
            \cup ({"witnesses"} \X Seq(StateWitnesses)) \cup ({"receipts"} \X Seq(Receipts))

-----------------------------------------------------------------------------
(* The vectors.                                                            *)

MaterializedLeaves == [key : Keys, value : Values]

AllTransactionVectors == [expected_outcome : {"accept", "reject"}, envelope : AllEnvelopes]

\* Options are None where a vector leaves them out.
AllWitnessVectors ==
    [expected_outcome : {"accept", "reject"}, witness : StateWitnesses \cup {None},
     materialized_state : Seq(MaterializedLeaves), expected_state_root : Hashes \cup {None}]

CanonicalBlockHeaders ==
    [block_root : Hashes, witness_bytes : Nat, transactions_root : Hashes,
     execution_witnesses_root : Hashes, state_root : Hashes, receipts_root : Hashes,
     proposer_signature : Signatures]

RootCheckExecutionSteps ==
    [transaction_vector_id : STRING, witness_vector_id : STRING, new_leaf_value : Values,
     receipt : Receipts]

RootCheckVectors ==
    [transaction_vector_ids : Seq(STRING), witness_vector_ids : Seq(STRING),
     header : CanonicalBlockHeaders, sidecar_block_root : Hashes,
     steps : Seq(RootCheckExecutionSteps), transactions_root : Hashes,
     execution_witnesses_root : Hashes, state_root : Hashes, receipts_root : Hashes]

ASSUME FixturesAreVectors ==
    /\ \A id \in DOMAIN TransactionFixtures : TransactionFixtures[id] \in AllTransactionVectors
    /\ \A id \in DOMAIN WitnessFixtures : WitnessFixtures[id] \in AllWitnessVectors
ASSUME ReferenceCredentials ==
    0 \in SchemeIds /\ DefaultKey \in PublicKeys /\ ReferenceSignature \in Signatures
ASSUME NoneIsNoWitness == None \notin StateWitnesses

-----------------------------------------------------------------------------
(* resolve_root_check_scenario.                                            *)

\* The place at which a stable sort by key puts the i-th leaf.
Place(leaves, i) ==
    Cardinality({j \in DOMAIN leaves :
                    \/ leaves[j].key < leaves[i].key
                    \/ leaves[j].key = leaves[i].key /\ j <= i})

\* canonical_root_check_materialized_state: the leaves by key.
canonical_materialized_state(leaves) ==
    [place \in DOMAIN leaves |->
        leaves[CHOOSE i \in DOMAIN leaves : Place(leaves, i) = place]]

materialize_root_check_accumulator(leaves) == apply_transition(EmptyAccumulator, PatchOf(leaves))

\* The vectors the fixture refers to; those of transactions carry no authorization.
TransactionVectors(fixture) ==
    [i \in DOMAIN fixture.transaction_vector_ids |->
        TransactionFixtures[fixture.transaction_vector_ids[i]]]

WitnessVectors(fixture) ==
    [i \in DOMAIN fixture.witness_vector_ids |-> WitnessFixtures[fixture.witness_vector_ids[i]]]

Transactions(fixture) ==
    [i \in DOMAIN fixture.transaction_vector_ids |->
        [TransactionVectors(fixture)[i].envelope EXCEPT !.authorizations = <<>>]]

Witnesses(fixture) ==
    [i \in DOMAIN fixture.witness_vector_ids |-> WitnessVectors(fixture)[i].witness]

\* An id no vector has cannot be loaded.
TransactionsResolve(fixture) ==
    /\ \A i \in DOMAIN fixture.transaction_vector_ids :
          fixture.transaction_vector_ids[i] \in DOMAIN TransactionFixtures
    /\ \A i \in DOMAIN TransactionVectors(fixture) :
          TransactionVectors(fixture)[i].expected_outcome = "accept"
    /\ compute_transactions_root(Transactions(fixture)) = fixture.transactions_root
    /\ fixture.header.transactions_root = fixture.transactions_root

\* A witness vector that lists several witnesses has no single one.
WitnessesResolve(fixture) ==
    /\ \A i \in DOMAIN fixture.witness_vector_ids :
          fixture.witness_vector_ids[i] \in DOMAIN WitnessFixtures
    /\ \A i \in DOMAIN WitnessVectors(fixture) :
          /\ WitnessVectors(fixture)[i].expected_outcome = "accept"
          /\ WitnessVectors(fixture)[i].witness # None
    /\ compute_execution_witnesses_root(Witnesses(fixture)) = fixture.execution_witnesses_root
    /\ fixture.header.execution_witnesses_root = fixture.execution_witnesses_root

BaseMaterialized(fixture) ==
    canonical_materialized_state(WitnessVectors(fixture)[1].materialized_state)

\* Fault: the witnesses are not verified against the pre-state.
PreStateUnverified(fixture) ==
    LET base == BaseMaterialized(fixture)
    IN  /\ WitnessVectors(fixture) # <<>>
        /\ base # <<>>
        /\ materialize_root_check_accumulator(base).result = "Ok"
        /\ materialize_root_check_accumulator(base).acc.root
             = WitnessVectors(fixture)[1].expected_state_root

\* The pre-state is that of the first witness vector; the others agree with it.
PreStateResolves(fixture) ==
    LET vectors == WitnessVectors(fixture)
        base == BaseMaterialized(fixture)
        materialized == materialize_root_check_accumulator(base)
    IN  /\ vectors # <<>>
        /\ base # <<>>
        /\ vectors[1].expected_state_root # None
        /\ materialized.result = "Ok"
        /\ materialized.acc.root = vectors[1].expected_state_root
        /\ verify_witnesses(materialized.acc, Witnesses(fixture), materialized.acc.root) = "Ok"
        /\ \A i \in 2 .. Len(vectors) :
              /\ vectors[i].expected_state_root = vectors[1].expected_state_root
              /\ vectors[i].materialized_state # <<>>
              /\ canonical_materialized_state(vectors[i].materialized_state) = base

\* The vectors of the fixture with an id, of which a step takes the first.
WithId(fixture, id) ==
    {i \in DOMAIN fixture.witness_vector_ids : fixture.witness_vector_ids[i] = id}

\* Steps are zipped with the transactions: surplus steps are never looked at.
StepsResolve(fixture) ==
    /\ Len(fixture.steps) >= Len(fixture.transaction_vector_ids)
    /\ \A i \in DOMAIN fixture.transaction_vector_ids :
          /\ fixture.steps[i].transaction_vector_id = fixture.transaction_vector_ids[i]
          /\ WithId(fixture, fixture.steps[i].witness_vector_id) # {}

ResolvedSteps(fixture) ==
    [i \in DOMAIN fixture.transaction_vector_ids |->
        [transaction_root |-> canonical_root(Transactions(fixture)[i]),
         key |-> WitnessFixtures[fixture.steps[i].witness_vector_id].witness.key,
         new_leaf_value |-> fixture.steps[i].new_leaf_value,
         receipt |-> fixture.steps[i].receipt]]

RootsResolve(fixture) ==
    /\ fixture.header.state_root = fixture.state_root
    /\ fixture.header.receipts_root = fixture.receipts_root
    /\ fixture.sidecar_block_root = fixture.header.block_root

Resolves(fixture) ==
    /\ TransactionsResolve(fixture)
    /\ WitnessesResolve(fixture)
    /\ PreStateResolves(fixture)
    /\ StepsResolve(fixture)
    /\ RootsResolve(fixture)

resolve_root_check_scenario(fixture) ==
    [header |-> fixture.header,
     sidecar |-> [block_root |-> fixture.header.block_root],
     transactions |-> Transactions(fixture),
     witnesses |-> Witnesses(fixture),
     materialized_state |-> BaseMaterialized(fixture),
     pre_state_root |-> WitnessVectors(fixture)[1].expected_state_root,
     steps |-> ResolvedSteps(fixture)]

-----------------------------------------------------------------------------
(* LocalReferenceScenario.                                                 *)

CanonicalBlocks ==
    [header : CanonicalBlockHeaders,
     body : [transactions : Seq(AllEnvelopes), transactions_root : Hashes],
     sidecar : [block_root : Hashes, execution_witnesses_root : Hashes,
                witnesses : Seq(StateWitnesses) \ {<<>>}]]

LeafPatches ==
    {[accesses |-> <<key>>, new_values |-> <<value>>] : key \in Keys, value \in Values}

PlannedTransactions ==
    [transaction_root : EnvelopeRoots, state_patch : LeafPatches, receipt : Receipts]

\* Those a caller has, as resolved or with public fields changed: every plan
\* writes one leaf and there is a witness.
LocalReferenceScenarios ==
    [block : CanonicalBlocks, admission_transactions : Seq(AllEnvelopes),
     pre_state_root : Hashes, materialized_state : Seq(MaterializedLeaves),
     planned_transactions : Seq(PlannedTransactions),
     transaction_authorization_materials : Seq(Seq(PublicKeys))]

ASSUME NoneIsNoScenario == None \notin LocalReferenceScenarios

\* A body transaction without authorizations is admitted with a placeholder.
synthesize_reference_admission_transaction(transaction) ==
    IF transaction.authorizations # <<>> THEN transaction
    ELSE [transaction EXCEPT !.authorizations =
             <<[scheme_id |-> 0, payload_root |-> transaction.payload_root,
                signature |-> ReferenceSignature]>>]

\* One default key for each authorization the admission transaction will have.
DefaultMaterials(transaction) ==
    [i \in 1 .. IF transaction.authorizations = <<>> THEN 1
                ELSE Len(transaction.authorizations) |-> DefaultKey]

PlannedStep(step) ==
    [transaction_root |-> step.transaction_root,
     state_patch |-> [accesses |-> <<step.key>>, new_values |-> <<step.new_leaf_value>>],
     receipt |-> step.receipt]

from_root_check_scenario(resolved) ==
    LET header == resolved.header
        transactions == resolved.transactions
    IN  [block |->
            [header |-> header,
             body |-> [transactions |-> transactions,
                       transactions_root |-> header.transactions_root],
             sidecar |-> [block_root |-> resolved.sidecar.block_root,
                          execution_witnesses_root |-> header.execution_witnesses_root,
                          witnesses |-> resolved.witnesses]],
         admission_transactions |->
            [i \in DOMAIN transactions |->
                synthesize_reference_admission_transaction(transactions[i])],
         pre_state_root |-> resolved.pre_state_root,
         materialized_state |-> resolved.materialized_state,
         planned_transactions |-> [i \in DOMAIN resolved.steps |-> PlannedStep(resolved.steps[i])],
         transaction_authorization_materials |->
            [i \in DOMAIN transactions |-> DefaultMaterials(transactions[i])]]

\* Fault: only the plans are counted.
PlansOnly(scenario) ==
    IF Len(scenario.planned_transactions) # Len(scenario.block.body.transactions)
    THEN "PlannedCount" ELSE "Ok"

\* validate_scenario_shape: the first count that differs from the body's.
validate_scenario_shape(scenario) ==
    LET count == Len(scenario.block.body.transactions)
    IN  IF Len(scenario.admission_transactions) # count THEN "AdmissionCount"
        ELSE IF Len(scenario.planned_transactions) # count THEN "PlannedCount"
        ELSE IF Len(scenario.transaction_authorization_materials) # count
        THEN "MaterialsCount"
        ELSE "Ok"

\* The positions a zip of the admission transactions with their keys visits.
Zipped(scenario) ==
    DOMAIN scenario.admission_transactions
      \cap DOMAIN scenario.transaction_authorization_materials

\* DuplicateAdmissionPayloadRoot: two of them carry one payload.
DuplicatePayloadRoot(scenario) ==
    \E i, j \in Zipped(scenario) :
        /\ i # j
        /\ scenario.admission_transactions[i].payload_root
             = scenario.admission_transactions[j].payload_root

\* build_admission_transactions_by_payload_root where no two are alike.
admission_transactions_by_payload_root(scenario) ==
    LET PayloadRoot(i) == scenario.admission_transactions[i].payload_root
        Of(root) == CHOOSE i \in Zipped(scenario) : PayloadRoot(i) = root
    IN  [root \in {PayloadRoot(i) : i \in Zipped(scenario)} |->
            [transaction |-> scenario.admission_transactions[Of(root)],
             materials |-> scenario.transaction_authorization_materials[Of(root)]]]

\* materialize_accumulator of the runtime: nothing is applied for no leaves, and
\* the root stays the zero root.
materialize_accumulator(leaves) ==
    IF leaves = <<>> THEN [result |-> "Ok", acc |-> EmptyAccumulator]
    ELSE apply_transition(EmptyAccumulator, PatchOf(leaves))

=============================================================================
