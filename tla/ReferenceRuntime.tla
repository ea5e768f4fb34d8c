-------------------------- MODULE ReferenceRuntime --------------------------
(***************************************************************************)
(* LocalReferenceRuntime of shell-cli and its two network adapters: the    *)
(* reference composition of admission, block import, witness verification  *)
(* and execution, over a scenario that a caller loads, edits and keeps.    *)
(*                                                                         *)
(* The checks of admission and of import are those of AdmissionChecks and  *)
(* ImportChecks; what import leaves to its services is computed here from  *)
(* the scenario.  The view of nonces moves on between calls.               *)
(***************************************************************************)
EXTENDS ReferenceScenario

CONSTANTS
    Vectors,        \* the root-check vectors a caller may load
    Resolvers,      \* the credential resolvers a runtime may borrow
    Limits,         \* settings of HeaderPrefilterConfig.max_witness_bytes
    Offered,        \* envelopes that are gossiped or put into a scenario
    MaterialLists,  \* lists of keys that are put into a scenario
    MaxEdits        \* bound: changes made to a loaded scenario

ASSUME OfferedAreEnvelopes == Offered \subseteq AllEnvelopes
ASSUME ResolversAreResolvers ==
    Resolvers \subseteq [answer : {"Ok", "NotFound"}, scheme_id : SchemeIds,
                         public_key_material : PublicKeys]
ASSUME VectorsAreVectors == Vectors \subseteq RootCheckVectors
ASSUME MaterialListsAreKeys == MaterialLists \subseteq Seq(PublicKeys)
ASSUME LimitsAreOptional == Limits \subseteq OptionalSizes
ASSUME EditsAreBounded == MaxEdits \in Nat

VARIABLES
    resolver,           \* ProposerCredentialResolver: its answer and credential
    max_witness_bytes,  \* BlockImportConfig.header_prefilter
    scenario,           \* the scenario the caller holds, None before
    edits,              \* the number of changes made to it since it was loaded
    mempool,            \* LocalReferenceNetworkMempoolAdapter: keys by payload root
    consensus,          \* LocalReferenceNetworkConsensusAdapter: admission_transactions
    last,               \* the last call and its result, None once something changed
    ran                 \* history: the scenario has been run to its end as it is

vars == <<registry, policy, observed, resolver, max_witness_bytes, scenario, edits, mempool,
          consensus, last, ran>>

\* Only the checks are used: the types of ImportChecks name hashes differently.
Import == INSTANCE ImportChecks WITH Hashes <- {}

-----------------------------------------------------------------------------
(* The services the runtime gives to block import.                         *)

\* ReferenceTransactionRevalidator: what is admitted again, under the policy and
\* view of the mempool, is the stored transaction with the same payload.
reference_revalidate(stored, transaction) ==
    IF transaction.payload_root \notin DOMAIN stored THEN "AuthorizationMaterialCount"
    ELSE admit_and_verify(stored[transaction.payload_root].transaction,
                          stored[transaction.payload_root].materials).result

\* Fault: the witnesses are not verified.
PrepareUnverified(header) ==
    IF compute_execution_witnesses_root(scenario.block.sidecar.witnesses)
         # header.execution_witnesses_root
    THEN "WitnessVerificationFailed"
    ELSE materialize_accumulator(scenario.materialized_state).result

\* ReferenceWitnessScenarioPreparer: the scenario's own witnesses are verified,
\* whatever sidecar came with the block.
prepare_witness(header) ==
    LET witnesses == scenario.block.sidecar.witnesses
        materialized == materialize_accumulator(scenario.materialized_state)
    IN  IF compute_execution_witnesses_root(witnesses) # header.execution_witnesses_root
        THEN "WitnessVerificationFailed"
        ELSE IF materialized.result # "Ok" THEN materialized.result
        ELSE IF materialized.acc.root # scenario.pre_state_root THEN "RootContinuityMismatch"
        ELSE verify_witnesses(materialized.acc, witnesses, scenario.pre_state_root)

\* One turn of the loop of execute_block: the plan must be for the transaction.
ExecuteTransaction(before, transaction) ==
    LET planned == scenario.planned_transactions
        step == planned[before.next_index + 1]
        transition == applier_apply_transition(before.acc, before.acc.root, step.state_patch)
    IN  IF before.result # "Ok" THEN before
        ELSE IF \/ before.next_index >= Len(planned)
                \/ step.transaction_root # canonical_root(transaction)
        THEN [before EXCEPT !.result = "Executor"]
        ELSE [result |-> IF transition.result = "Ok" THEN "Ok" ELSE "StateTransition",
              acc |-> transition.acc,
              next_index |-> before.next_index + 1,
              receipts |-> Append(before.receipts, step.receipt)]

\* execute_block over a fresh planner and applier: the state after i transactions.
Executed(transactions, acc) ==
    LET After[i \in 0 .. Len(transactions)] ==
            IF i = 0 THEN [result |-> "Ok", acc |-> acc, next_index |-> 0, receipts |-> <<>>]
            ELSE ExecuteTransaction(After[i - 1], transactions[i])
    IN  After[Len(transactions)]

\* PlannedTransactionExecutor::ensure_exhausted.
ensure_exhausted(executed) == executed.next_index = Len(scenario.planned_transactions)

\* ReferenceExecutionEngine::execute_block.
engine_execute_block(transactions) ==
    LET materialized == materialize_accumulator(scenario.materialized_state)
        executed == Executed(transactions, materialized.acc)
    IN  IF materialized.result # "Ok" \/ materialized.acc.root # scenario.pre_state_root
        THEN [executed EXCEPT !.result = "StateTransition"]
        ELSE IF executed.result # "Ok" THEN executed
        ELSE IF ~ensure_exhausted(executed) THEN [executed EXCEPT !.result = "Executor"]
        ELSE executed

\* The dispatcher's answer on the header's signature; a size error is named by its limit.
HeaderSignatureResult(header) ==
    LET answer == verify_for_path(registry.config, registry.verifiers, resolver.scheme_id,
                      [public_key_material |-> resolver.public_key_material,
                       signing_root |-> <<"ValidatorMessage", header.block_root>>,
                       signature |-> header.proposer_signature], "ValidatorMessage")
    IN  IF answer.error = "SignatureSizeExceeded" THEN answer.kind ELSE answer.error

-----------------------------------------------------------------------------
(* The runtime.                                                            *)

\* What validate_block_against_reference gives to import.
ReferenceImport(block, stored) ==
    LET header == block.header
        executed == engine_execute_block(block.body.transactions)
    IN  [header |-> [block_root |-> header.block_root, root_result |-> "Ok",
                     witness_bytes |-> header.witness_bytes,
                     transactions_root |-> header.transactions_root,
                     execution_witnesses_root |-> header.execution_witnesses_root,
                     state_root |-> header.state_root, receipts_root |-> header.receipts_root],
         body |-> [root_result |-> "Ok", transactions_root |-> block.body.transactions_root,
                   transactions |-> [i \in DOMAIN block.body.transactions |->
                       reference_revalidate(stored, block.body.transactions[i])]],
         sidecar |-> [block_root |-> block.sidecar.block_root,
                      committed_root |-> block.sidecar.execution_witnesses_root],
         services |-> [resolver |-> resolver.answer,
                       dispatcher |-> HeaderSignatureResult(header),
                       preparer |-> prepare_witness(header),
                       engine |-> executed.result,
                       post_state_root |-> executed.acc.root,
                       receipts_root |-> compute_receipts_root(executed.receipts)]]

\* import_block: the first of its checks that fails.
import_block(import) ==
    LET checks == <<Import!prefilter_header(import, max_witness_bytes),
                    Import!verify_body_binding(import),
                    Import!verify_header_signature(import)>>
                    \o [i \in DOMAIN import.body.transactions |-> Import!revalidate(import, i)]
                    \o <<Import!verify_sidecar_binding(import),
                         Import!execute_and_compare(import)>>
        Failing == {i \in DOMAIN checks : checks[i] # Import!Ok}
    IN  IF Failing = {} THEN Import!Ok
        ELSE checks[CHOOSE i \in Failing : \A j \in Failing : i <= j]

validate_block_against_reference(block, stored) ==
    import_block(ReferenceImport(block, stored))

\* What both adapters check and run checks first.
ShapeError(error) == Import!Result("ScenarioShape", error)
Duplicate == Import!Result("DuplicateAdmissionPayloadRoot", "-")

AdapterResult ==
    IF validate_scenario_shape(scenario) # "Ok"
    THEN ShapeError(validate_scenario_shape(scenario))
    ELSE IF DuplicatePayloadRoot(scenario) THEN Duplicate
    ELSE Import!Ok

\* validate_transaction, over the i-th transaction of admit_transactions.
Admitted(i) ==
    admit_and_verify(scenario.admission_transactions[i],
                     scenario.transaction_authorization_materials[i]).result

run ==
    LET Refused == {i \in Zipped(scenario) : Admitted(i) # "Ok"}
        first == CHOOSE i \in Refused : \A j \in Refused : i <= j
    IN  IF validate_scenario_shape(scenario) # "Ok"
        THEN ShapeError(validate_scenario_shape(scenario))
        ELSE IF Refused # {} THEN Import!Result("Admission", Admitted(first))
        ELSE IF DuplicatePayloadRoot(scenario) THEN Duplicate
        ELSE validate_block_against_reference(scenario.block,
                 admission_transactions_by_payload_root(scenario))

\* validate_gossip_transaction.
GossipResult(envelope) ==
    IF envelope.payload_root \notin DOMAIN mempool THEN "AuthorizationMaterialCount"
    ELSE admit_and_verify(envelope, mempool[envelope.payload_root]).result

-----------------------------------------------------------------------------
(* The caller.                                                             *)

RemoveLast(list) == SubSeq(list, 1, Len(list) - 1)

\* The scenario with other witnesses, committed to like the first ones.
Recommitted(witnesses) ==
    LET root == compute_execution_witnesses_root(witnesses)
    IN  [scenario EXCEPT !.block.sidecar.witnesses = witnesses,
                         !.block.sidecar.execution_witnesses_root = root,
                         !.block.header.execution_witnesses_root = root]

WithAdmission(i, envelope) == [scenario EXCEPT !.admission_transactions[i] = envelope]
WithKeys(i, keys) == [scenario EXCEPT !.transaction_authorization_materials[i] = keys]

\* Another body transaction, with the plan for it.
WithTransaction(i, envelope) ==
    [scenario EXCEPT !.block.body.transactions[i] = envelope,
                     !.planned_transactions[i].transaction_root = canonical_root(envelope)]

WithWitness(i, value) ==
    Recommitted([scenario.block.sidecar.witnesses EXCEPT ![i].leaf_value = value])

\* Lists that no longer align, and another pre-state.
Reduced ==
    {[scenario EXCEPT !.admission_transactions = RemoveLast(@)],
     [scenario EXCEPT !.planned_transactions = RemoveLast(@)],
     [scenario EXCEPT !.transaction_authorization_materials = RemoveLast(@)],
     [scenario EXCEPT !.pre_state_root = ZeroRoot],
     [scenario EXCEPT !.materialized_state = <<>>]}

\* Changes to the public fields of a scenario.
Edits ==
    Reduced
        \cup {WithAdmission(i, envelope) :
                i \in DOMAIN scenario.admission_transactions, envelope \in Offered}
        \cup {WithKeys(i, keys) :
                i \in DOMAIN scenario.transaction_authorization_materials, keys \in MaterialLists}
        \cup {WithTransaction(i, envelope) :
                i \in DOMAIN scenario.block.body.transactions
                        \cap DOMAIN scenario.planned_transactions,
                envelope \in Offered}
        \cup {WithWitness(i, value) :
                i \in DOMAIN scenario.block.sidecar.witnesses, value \in Values}

\* Those that may be gossiped, the scenario's own among them.
OfferedTransactions ==
    Offered \cup {scenario.admission_transactions[i] :
                    i \in DOMAIN scenario.admission_transactions}

\* The scenario's block and blocks that differ from it in one place.
OfferedBlocks ==
    LET block == scenario.block
    IN  {block,
         [block EXCEPT !.header.witness_bytes = @ + 1],
         [block EXCEPT !.header.block_root = scenario.pre_state_root],
         [block EXCEPT !.header.state_root = scenario.pre_state_root],
         [block EXCEPT !.body.transactions = RemoveLast(@)],
         [block EXCEPT !.sidecar.witnesses = <<>>]}

Init ==
    /\ registry \in Registries
    /\ policy \in Policies
    /\ resolver \in Resolvers
    /\ max_witness_bytes \in Limits
    /\ observed \in {None, 0}
    /\ scenario = None
    /\ edits = 0
    /\ mempool = None
    /\ consensus = None
    /\ last = None
    /\ ran = FALSE

\* load_root_check_scenario and from_root_check_scenario.
LoadedScenarios ==
    {from_root_check_scenario(resolve_root_check_scenario(vector)) :
        vector \in {v \in Vectors : Resolves(v)}}

\* An adapter that borrows the scenario held before ends with it.
LoadScenario ==
    /\ scenario' \in LoadedScenarios
    /\ edits' = 0
    /\ consensus' = None
    /\ last' = None
    /\ ran' = FALSE
    /\ UNCHANGED <<registry, policy, observed, resolver, max_witness_bytes, mempool>>

EditScenario ==
    /\ scenario # None
    /\ edits < MaxEdits
    /\ scenario' \in Edits
    /\ edits' = edits + 1
    /\ consensus' = None
    /\ last' = None
    /\ ran' = FALSE
    /\ UNCHANGED <<registry, policy, observed, resolver, max_witness_bytes, mempool>>

\* The accounts of the transactions move on.
ViewMoves ==
    /\ observed # None
    /\ observed' \in observed + 1 .. MaxU64
    /\ last' = None
    /\ UNCHANGED <<registry, policy, resolver, max_witness_bytes, scenario, edits, mempool,
                   consensus, ran>>

Returns(call, result, object) ==
    last' = [call |-> call, result |-> result, object |-> object]

Borrowed == <<registry, policy, observed, resolver, max_witness_bytes, scenario, edits>>

Run ==
    /\ scenario # None
    /\ Returns("run", run, scenario.block)
    /\ ran' = (ran \/ run = Import!Ok)
    /\ UNCHANGED <<Borrowed, mempool, consensus>>

\* LocalReferenceNetworkMempoolAdapter::try_new: the adapter owns its keys.
NewMempoolAdapter ==
    /\ scenario # None
    /\ Returns("mempool", AdapterResult, None)
    /\ LET stored == admission_transactions_by_payload_root(scenario)
       IN  mempool' = IF AdapterResult # Import!Ok THEN mempool
                      ELSE [root \in DOMAIN stored |-> stored[root].materials]
    /\ UNCHANGED <<Borrowed, consensus, ran>>

\* LocalReferenceNetworkConsensusAdapter::try_new: the adapter borrows the scenario.
NewConsensusAdapter ==
    /\ scenario # None
    /\ Returns("consensus", AdapterResult, None)
    /\ consensus' = IF AdapterResult # Import!Ok THEN consensus
                    ELSE admission_transactions_by_payload_root(scenario)
    /\ UNCHANGED <<Borrowed, mempool, ran>>

GossipTransaction(envelope) ==
    /\ mempool # None
    /\ Returns("transaction", GossipResult(envelope), envelope)
    /\ UNCHANGED <<Borrowed, mempool, consensus, ran>>

GossipBlock(block) ==
    /\ consensus # None
    /\ Returns("block", validate_block_against_reference(block, consensus), block)
    /\ UNCHANGED <<Borrowed, mempool, consensus, ran>>

Next ==
    \/ LoadScenario
    \/ EditScenario
    \/ ViewMoves
    \/ Run
    \/ NewMempoolAdapter
    \/ NewConsensusAdapter
    \/ mempool # None /\ \E envelope \in OfferedTransactions : GossipTransaction(envelope)
    \/ consensus # None /\ \E block \in OfferedBlocks : GossipBlock(block)

Spec == Init /\ [][Next]_vars

-----------------------------------------------------------------------------
(* Properties.                                                             *)

BlockResults ==
    {ShapeError(e) : e \in {"AdmissionCount", "PlannedCount", "MaterialsCount"}}
      \cup {Duplicate}
      \cup {Import!Result("Admission", e) : e \in Results \ {"Ok"}}
      \cup Import!Results

\* Every call returns an error of its own error type (LocalReferenceError,
\* ValidationError, ConsensusError), the mempool adapter maps payload roots to keys, and
\* a scenario keeps its shape however it is changed.
TypeOK ==
    /\ edits \in 0 .. MaxEdits
    /\ observed \in 0 .. MaxU64 \cup {None}
    /\ scenario \in LocalReferenceScenarios \cup {None}
    /\ mempool = None \/ /\ DOMAIN mempool \subseteq PayloadRoots
                         /\ \A root \in DOMAIN mempool : mempool[root] \in Seq(PublicKeys)
    /\ ran \in BOOLEAN
    /\ last # None =>
          \/ last.call = "transaction" /\ last.result \in Results
          \/ /\ last.call \in {"run", "mempool", "consensus", "block"}
             /\ last.result \in BlockResults

AcceptedBlock ==
    /\ last # None
    /\ last.call \in {"run", "block"}
    /\ last.result = Import!Ok

\* The value a key has after the first n planned steps, from the leaves listed in
\* the scenario.
ValueAfter(n, key) ==
    LET steps == scenario.planned_transactions
        Writing == {i \in 1 .. n : steps[i].state_patch.accesses = <<key>>}
        Given == {i \in DOMAIN scenario.materialized_state :
                    scenario.materialized_state[i].key = key}
    IN  IF Writing # {}
        THEN steps[CHOOSE i \in Writing : \A j \in Writing : j <= i].state_patch.new_values[1]
        ELSE IF Given # {} THEN scenario.materialized_state[CHOOSE i \in Given : TRUE].value
        ELSE Absent

\* The block consists of exactly the planned transactions, its header commits the
\* state and receipts these lead to, and every witness of the scenario tells a leaf
\* of the pre-state, which the header's witness root commits.
Replays(block) ==
    LET transactions == block.body.transactions
        steps == scenario.planned_transactions
        witnesses == scenario.block.sidecar.witnesses
    IN  /\ Len(transactions) = Len(steps)
        /\ \A i \in DOMAIN steps : steps[i].transaction_root = canonical_root(transactions[i])
        /\ block.header.state_root = <<"digest", [key \in Keys |-> ValueAfter(Len(steps), key)]>>
        /\ block.header.receipts_root = <<"receipts", [i \in DOMAIN steps |-> steps[i].receipt]>>
        /\ block.header.execution_witnesses_root = <<"witnesses", witnesses>>
        /\ \A i \in DOMAIN witnesses :
              ValueAfter(0, witnesses[i].key) = witnesses[i].leaf_value

\* A block the runtime accepts, by running the scenario or from the network, replays
\* the plans of the scenario.
AcceptedBlockReplays == AcceptedBlock => Replays(last.object)

\* The outcome a peer sees for the last call.
LastOutcome ==
    IF last.call = "transaction" THEN validation_outcome(last.result)
    ELSE IF last.result.kind = "Admission" THEN validation_outcome(last.result.cause)
    ELSE Import!network_validation_outcome(last.result)

\* What has been run to its end is never invalid later: as the view moves, running
\* it again, its block and its transactions are refused by local policy at most.
OnceRunNeverInvalid ==
    LET stored == admission_transactions_by_payload_root(scenario)
        own == /\ last.call \in {"run", "block"}
               /\ last.object = scenario.block
        ownTransaction ==
            /\ last.call = "transaction"
            /\ mempool = [root \in DOMAIN stored |-> stored[root].materials]
            /\ \E i \in DOMAIN scenario.admission_transactions :
                  last.object = scenario.admission_transactions[i]
    IN  ran /\ last # None /\ (own \/ ownTransaction)
            => LastOutcome \in {"Accept", "PolicyReject"}

\* What resolve_root_check_scenario lets through fails for no reason it has
\* asserted: a scenario as loaded runs to its end unless the mempool refuses one
\* of its transactions, two share a payload, the header is refused by the guard or
\* its signature, or the committed roots, which are not recomputed, are wrong.
ResolvedScenariosRun ==
    last # None /\ last.call = "run" /\ edits = 0 =>
        \/ last.result \in {Import!Ok, Duplicate,
                            Import!Result("Execution", "PostStateRootMismatch"),
                            Import!Result("Execution", "ReceiptsRootMismatch")}
        \/ last.result.kind \in {"Admission", "WitnessByteLimitExceeded", "Crypto",
                                 "ProposerCredentialResolution"}

\* An adapter only exists over a scenario whose lists align: there is an admission
\* transaction, stored with its keys, for each transaction of the body, and a run
\* over lists that do not align says so, whatever else is wrong with them.
AlignedBeforeUse ==
    LET count == IF scenario = None THEN 0 ELSE Len(scenario.block.body.transactions)
        aligned == /\ Len(scenario.admission_transactions) = count
                   /\ Len(scenario.planned_transactions) = count
                   /\ Len(scenario.transaction_authorization_materials) = count
    IN  /\ consensus # None => /\ aligned
                               /\ Cardinality(DOMAIN consensus) = count
        /\ last # None /\ last.call \in {"run", "mempool", "consensus"}
              => (aligned <=> last.result.kind # "ScenarioShape")

-----------------------------------------------------------------------------
(* What the rules say of block import, and the runtime does not keep to.   *)

\* specs/validation-rules.md: "Optional mempool-only admission policies should not
\* be allowed to make a consensus-valid block fail."  The revalidator of the runtime
\* applies the fee floor and the nonce window to the transactions of a block, so one
\* that has been imported fails once the view has moved.
MempoolPolicyFailsNoBlock ==
    ran /\ last # None /\ last.call = "block" /\ last.object = scenario.block =>
        last.result \notin {Import!Result("TransactionValidation", e) :
                              e \in Import!PolicyErrors}

\* An authorization verifies for the payload of its envelope, under some key.
Verifies(envelope, authorization) ==
    /\ authorization.payload_root = envelope.payload_root
    /\ \E n \in DOMAIN registry.verifiers, key \in PublicKeys :
          /\ registry.verifiers[n].scheme_id = authorization.scheme_id
          /\ verify(registry.verifiers[n],
                    [public_key_material |-> key, signature |-> authorization.signature,
                     signing_root |-> <<policy.authorization_domain, envelope.payload_root>>])

\* specs/validation-rules.md: "block import must reapply the same explicit
\* multi-authorization policy used by transaction admission, which presently means
\* every authorization present in the envelope must verify successfully."  The
\* revalidator of the runtime admits the stored transaction with the same payload, so
\* the authorizations of the envelope that is in the block are never verified.
AcceptedEnvelopesAreAuthorized ==
    AcceptedBlock =>
        \A k \in DOMAIN last.object.body.transactions :
            LET envelope == last.object.body.transactions[k]
            IN  \A i \in DOMAIN envelope.authorizations :
                    Verifies(envelope, envelope.authorizations[i])

=============================================================================
