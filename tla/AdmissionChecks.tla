-------------------------- MODULE AdmissionChecks ---------------------------
(***************************************************************************)
(* The checks of shell-mempool's AdmissionPipeline: screening (stages T1   *)
(* and T2: structure, fees, nonce) and the verification of authorizations  *)
(* (T3), as functions of the dispatcher and policy the pipeline was built  *)
(* with and of the nonce its state view observes.  Roots are named by what *)
(* they hash.                                                              *)
(***************************************************************************)
EXTENDS DispatchOps

CONSTANTS
    PayloadRoots,   \* hash_tree_root of payloads
    Domains,        \* domain types
    MaxU64,         \* u64::MAX
    MaxUserBytes,   \* MAX_USER_SIGNATURE_BYTES
    Registries,     \* the dispatchers a pipeline may borrow
    Policies        \* the admission policies it may be built with

Authorizations == [scheme_id : SchemeIds, payload_root : PayloadRoots, signature : Signatures]

AllEnvelopes == [payload_root : PayloadRoots, nonce : 0 .. MaxU64, regular : Nat,
                 max_witness_priority_fee : Nat, authorizations : Seq(Authorizations)]

AllPolicies == [payload_lane_base_fee : Nat, witness_lane_base_fee : Nat,
                max_future_nonce_gap : 0 .. MaxU64, authorization_domain : Domains]

ASSUME SmallestWidth == MaxU64 \in Nat /\ MaxUserBytes \in Nat
ASSUME SigningRootsAreDomainBound == Domains \X PayloadRoots \subseteq SigningRoots
ASSUME RegistriesAreDispatchers ==
    Registries \subseteq [config : Configs, verifiers : Seq(Verifiers)]
ASSUME PoliciesArePolicies == Policies \subseteq AllPolicies

VARIABLES
    registry,   \* the borrowed dispatcher
    policy,     \* AdmissionPipeline.policy
    observed    \* what AdmissionStateView::observed_nonce answers

TentativeAccepted(envelope) ==
    [payload_root |-> envelope.payload_root,
     authorization_count |-> Len(envelope.authorizations)]

-----------------------------------------------------------------------------
(* The checks.                                                             *)

\* Fault: wrapping_add.
wrapping_add(a, b) == (a + b) % (MaxU64 + 1)

saturating_add(a, b) == IF a + b > MaxU64 THEN MaxU64 ELSE a + b

\* check_nonce_policy; without a view, or where it knows no nonce, all pass.
check_nonce_policy(envelope) ==
    observed # None =>
        /\ envelope.nonce >= observed
        /\ envelope.nonce <= saturating_add(observed, policy.max_future_nonce_gap)

check_fee_policy(envelope) ==
    /\ envelope.regular >= policy.payload_lane_base_fee
    /\ envelope.max_witness_priority_fee >= policy.witness_lane_base_fee

check_authorization_count(envelope) == envelope.authorizations # <<>>

check_authorization_payload_roots(envelope) ==
    \A i \in DOMAIN envelope.authorizations :
        envelope.authorizations[i].payload_root = envelope.payload_root

\* check_user_signature_size of every authorization.
check_user_signature_sizes(envelope) ==
    \A i \in DOMAIN envelope.authorizations :
        envelope.authorizations[i].signature.size <= MaxUserBytes

\* Fault: the nonce is not looked at.
ScreenWithoutNonce(envelope) ==
    IF ~check_authorization_count(envelope) THEN "AuthorizationCount"
    ELSE IF ~check_authorization_payload_roots(envelope) THEN "PayloadRootMismatch"
    ELSE IF ~check_user_signature_sizes(envelope) THEN "PrimitiveSignatureSize"
    ELSE IF ~check_fee_policy(envelope) THEN "FeeFloor"
    ELSE "Ok"

\* screen_transaction: the first check that fails.  The payload root and the
\* payload tag of a decoded envelope cannot fail.
screen_transaction(envelope) ==
    IF ~check_authorization_count(envelope) THEN "AuthorizationCount"
    ELSE IF ~check_authorization_payload_roots(envelope) THEN "PayloadRootMismatch"
    ELSE IF ~check_user_signature_sizes(envelope) THEN "PrimitiveSignatureSize"
    ELSE IF ~check_fee_policy(envelope) THEN "FeeFloor"
    ELSE IF ~check_nonce_policy(envelope) THEN "NoncePolicy"
    ELSE "Ok"

\* TransactionAuthorizationDomain::signing_root; it cannot fail.
signing_root(payload_root) == <<policy.authorization_domain, payload_root>>

\* Fault: the error keeps the dispatcher's name.
Unmapped(error) == error

\* CryptoError as the ValidationError it becomes, "Ok" for none.
map_crypto_error(error) ==
    IF error = "VerificationFailed" THEN "SignatureVerification" ELSE error

\* What the dispatcher answers for the i-th authorization, over the payload root
\* of the screening.
AuthorizationResult(envelope, screening, materials, i) ==
    LET auth == envelope.authorizations[i]
        request == [public_key_material |-> materials[i],
                    signing_root |-> signing_root(screening.payload_root),
                    signature |-> auth.signature]
    IN  map_crypto_error(verify_for_path(registry.config, registry.verifiers, auth.scheme_id,
                                         request, "TransactionAuthorization").error)

\* Fault: one good authorization is enough.
RequireAny(envelope, screening, materials) ==
    LET count == Len(envelope.authorizations)
    IN  IF Len(materials) # count
        THEN [result |-> "AuthorizationMaterialCount", dispatched |-> 0]
        ELSE IF \E i \in 1 .. count : AuthorizationResult(envelope, screening, materials, i) = "Ok"
        THEN [result |-> "Ok", dispatched |-> count]
        ELSE [result |-> "SignatureVerification", dispatched |-> 1]

\* verify_authorizations under RequireAll: its result and how many requests
\* reached the dispatcher before it returned.  The envelope need not be the one
\* that was screened.
verify_authorizations(envelope, screening, materials) ==
    LET count == Len(envelope.authorizations)
        Failing == {i \in 1 .. count :
                      AuthorizationResult(envelope, screening, materials, i) # "Ok"}
        first == CHOOSE i \in Failing : \A j \in Failing : i <= j
    IN  IF Len(materials) # count
        THEN [result |-> "AuthorizationMaterialCount", dispatched |-> 0]
        ELSE IF Failing # {}
        THEN [result |-> AuthorizationResult(envelope, screening, materials, first),
              dispatched |-> first]
        ELSE [result |-> "Ok", dispatched |-> count]

\* Fault: the signatures are verified before the screening.
VerifyThenScreen(envelope, materials) ==
    LET verified == verify_authorizations(envelope, TentativeAccepted(envelope), materials)
    IN  IF verified.result # "Ok" THEN verified
        ELSE [verified EXCEPT !.result = screen_transaction(envelope)]

admit_and_verify(envelope, materials) ==
    IF screen_transaction(envelope) # "Ok"
    THEN [result |-> screen_transaction(envelope), dispatched |-> 0]
    ELSE verify_authorizations(envelope, TentativeAccepted(envelope), materials)

ScreeningErrors == {"AuthorizationCount", "PayloadRootMismatch", "PrimitiveSignatureSize",
                    "FeeFloor", "NoncePolicy"}
CryptoErrors == {"UnsupportedScheme", "SignatureSizeExceeded", "SignatureVerification"}
Results == {"Ok", "AuthorizationMaterialCount"} \cup ScreeningErrors \cup CryptoErrors

\* Fault: a nonce outside the window is consensus-invalid.
NonceIsInvalid(result) ==
    IF result = "FeeFloor" THEN "PolicyReject"
    ELSE IF result = "AuthorizationMaterialCount" THEN "Internal"
    ELSE IF result = "Ok" THEN "Accept"
    ELSE "Reject"

\* ValidationError::network_validation_outcome, with "Internal" for None.
validation_outcome(result) ==
    IF result \in {"FeeFloor", "NoncePolicy"} THEN "PolicyReject"
    ELSE IF result = "AuthorizationMaterialCount" THEN "Internal"
    ELSE IF result = "Ok" THEN "Accept"
    ELSE "Reject"

=============================================================================
