---------------------------- MODULE ImportChecks ----------------------------
(***************************************************************************)
(* What block import is given and the functions it is made of.             *)
(*                                                                         *)
(* An import is the block (header, body and sidecar, whose roots are       *)
(* stored fields) together with what the five services answer about it:    *)
(* the pipeline sees them only through traits, so any value of their       *)
(* error types is a possible answer.                                       *)
(* A body transaction is represented by its revalidator's answer.          *)
(***************************************************************************)
EXTENDS Integers, Sequences

CONSTANTS
    Hashes,     \* roots
    None,       \* Option::None
    Limits      \* settings of HeaderPrefilterConfig.max_witness_bytes

ASSUME NoneIsNeither == None \notin Nat /\ None \notin Hashes
ASSUME LimitsAreOptionalSizes == Limits \subseteq Nat \cup {None}

\* An error: its variant and what it carries.
Result(kind, cause) == [kind |-> kind, cause |-> cause]
Ok == Result("Ok", "-")

\* PrimitiveError: what decoding finds in the object, and what is ours.
DecodingErrors == {"MalformedSsz", "UnsupportedPayloadVariant", "PayloadRootMismatch",
                   "AuthorizationCount", "PrimitiveSignatureSize"}
PrimitiveInternals == {"SigningRootConstruction", "Unimplemented"}
PrimitiveErrors == DecodingErrors \cup PrimitiveInternals

\* ValidationError besides its primitive errors.
SignatureErrors == {"UnsupportedScheme", "SignatureSizeExceeded", "SignatureVerification"}
PolicyErrors == {"FeeFloor", "NoncePolicy"}
CallerErrors == {"SigningRootUnavailable", "AuthorizationMaterialCount"}

\* Answers of the services.
Resolutions == {"Ok", "NotFound", "ResolverUnavailable", "InvalidCredentialEncoding"}
Dispatches == {"Ok", "UnsupportedScheme", "VerificationFailed",
               "RepositoryRule", "LocalTransportGuard", "Scheme"}
Revalidations == {"Ok"} \cup PrimitiveErrors \cup SignatureErrors \cup PolicyErrors
                   \cup CallerErrors
Preparations == {"Ok", "InvalidStateKeyEncoding", "NonCanonicalWitnessOrdering",
                 "RootContinuityMismatch", "WitnessVerificationFailed",
                 "UnsupportedProofShape", "TransitionShapeMismatch", "Backend"}
Executions == {"Ok", "TransactionRoot", "StateTransition", "Executor",
               "PostStateRootMismatch", "ReceiptsRootMismatch"}

\* ConsensusError, with Ok for success.  Its Domain variant cannot arise: the
\* signing domain of validator messages is always defined.
Kinds == {"Ok", "Primitive", "Crypto", "TransactionValidation", "Execution", "State",
          "ProposerCredentialResolution", "WitnessByteLimitExceeded", "HeaderBodyRootMismatch",
          "SidecarBlockRootMismatch", "SidecarCommitmentMismatch"}
Causes == {"-"} \cup PrimitiveErrors \cup Resolutions \cup Dispatches \cup Revalidations
            \cup Preparations \cup Executions
Results == [kind : Kinds, cause : Causes]

\* block_root() of a header and transactions_root() of a body may fail.
RootResults == {"Ok"} \cup PrimitiveErrors

Headers == [block_root : Hashes, root_result : RootResults, witness_bytes : Nat,
            transactions_root : Hashes, execution_witnesses_root : Hashes,
            state_root : Hashes, receipts_root : Hashes]
Bodies == [transactions_root : Hashes, root_result : RootResults,
           transactions : Seq(Revalidations)]
Sidecars == [block_root : Hashes, committed_root : Hashes]
Services == [resolver : Resolutions, dispatcher : Dispatches, preparer : Preparations,
             engine : Executions, post_state_root : Hashes, receipts_root : Hashes]

AllImports == [header : Headers, body : Bodies, sidecar : Sidecars, services : Services]

ASSUME NoneIsNoImport == None \notin AllImports

-----------------------------------------------------------------------------

\* prefilter_header under HeaderPrefilterConfig.max_witness_bytes.
prefilter_header(import, max_witness_bytes) ==
    IF import.header.root_result # "Ok" THEN Result("Primitive", import.header.root_result)
    ELSE IF max_witness_bytes # None /\ import.header.witness_bytes > max_witness_bytes
    THEN Result("WitnessByteLimitExceeded", "-")
    ELSE Ok

verify_body_binding(import) ==
    IF import.body.root_result # "Ok" THEN Result("Primitive", import.body.root_result)
    ELSE IF import.body.transactions_root # import.header.transactions_root
    THEN Result("HeaderBodyRootMismatch", "-")
    ELSE Ok

\* verify_header_signature; building the signing data cannot fail.
verify_header_signature(import) ==
    IF import.services.resolver # "Ok"
    THEN Result("ProposerCredentialResolution", import.services.resolver)
    ELSE IF import.services.dispatcher # "Ok"
    THEN Result("Crypto", import.services.dispatcher)
    ELSE Ok

\* One turn of the loop of revalidate_body_transactions.
revalidate(import, i) ==
    IF import.body.transactions[i] # "Ok"
    THEN Result("TransactionValidation", import.body.transactions[i])
    ELSE Ok

verify_sidecar_binding(import) ==
    IF import.sidecar.block_root # import.header.block_root
    THEN Result("SidecarBlockRootMismatch", "-")
    ELSE IF import.sidecar.committed_root # import.header.execution_witnesses_root
    THEN Result("SidecarCommitmentMismatch", "-")
    ELSE IF import.services.preparer # "Ok" THEN Result("State", import.services.preparer)
    ELSE Ok

execute_and_compare(import) ==
    IF import.services.engine # "Ok" THEN Result("Execution", import.services.engine)
    ELSE IF import.services.post_state_root # import.header.state_root
    THEN Result("Execution", "PostStateRootMismatch")
    ELSE IF import.services.receipts_root # import.header.receipts_root
    THEN Result("Execution", "ReceiptsRootMismatch")
    ELSE Ok

\* ConsensusError::network_validation_outcome and the three it delegates to,
\* with "Internal" for None.  Ok is what the caller accepts.
network_validation_outcome(result) ==
    LET internal ==
            \/ result.kind \in {"Primitive", "TransactionValidation"}
                 /\ result.cause \in PrimitiveInternals \cup CallerErrors
            \/ result = Result("ProposerCredentialResolution", "ResolverUnavailable")
        policy ==
            \/ result.kind = "WitnessByteLimitExceeded"
            \/ result = Result("Crypto", "LocalTransportGuard")
            \/ result.kind = "TransactionValidation" /\ result.cause \in PolicyErrors
    IN  IF result = Ok THEN "Accept"
        ELSE IF internal THEN "Internal"
        ELSE IF policy THEN "PolicyReject"
        ELSE "Reject"

\* BlockImportOutcome: what a refused import returns, and what the header commits.
NoOutcome == [block_root |-> None, post_state_root |-> None, receipts_root |-> None]

Committed(import) ==
    [block_root |-> import.header.block_root, post_state_root |-> import.header.state_root,
     receipts_root |-> import.header.receipts_root]

=============================================================================
