------------------------- MODULE SignatureDispatch --------------------------
(***************************************************************************)
(* VerifierRegistry: verifiers are boxed values that a caller hands over   *)
(* and gets back when a later one displaces them, and requests are         *)
(* dispatched under the size limits of their path.                         *)
(***************************************************************************)
EXTENDS DispatchOps

CONSTANTS
    Pool,           \* the verifiers the program owns
    Settings,       \* the dispatcher configurations it may be built with
    Submitted       \* the requests it may be asked to verify

ASSUME PoolOfVerifiers == Pool \subseteq Verifiers
ASSUME SettingsAreConfigs == Settings \subseteq Configs
ASSUME SubmittedAreRequests == Submitted \subseteq Requests

VARIABLES
    config,         \* VerifierRegistry.config
    verifiers,      \* VerifierRegistry.verifiers
    owned,          \* the verifiers the caller holds: not registered, or given back
    latest,         \* history: the verifier registered last for each scheme
    call            \* the last verification: what was asked and what it returned

dispatchVars == <<config, verifiers, owned, latest, call>>

Registered == {verifiers[i] : i \in DOMAIN verifiers}

Verifications == [scheme_id : SchemeIds, path : Paths, request : Requests, result : CryptoResults]

DispatchTypeOK ==
    /\ config \in Configs
    /\ verifiers \in Seq(Verifiers)
    /\ owned \subseteq Verifiers
    /\ latest \in [SchemeIds -> Verifiers \cup {None}]
    /\ call \in Verifications \cup {None}

DispatchInit ==
    /\ config \in Settings
    /\ verifiers = <<>>
    /\ owned = Pool
    /\ latest = [s \in SchemeIds |-> None]
    /\ call = None

RegisterVerifier(verifier) ==
    LET registration == register_verifier(verifiers, verifier)
    IN  /\ verifier \in owned
        /\ verifiers' = registration.verifiers
        /\ owned' = (owned \ {verifier}) \cup registration.displaced
        /\ latest' = [latest EXCEPT ![verifier.scheme_id] = verifier]
        /\ call' = None
        /\ UNCHANGED config

\* verify_transaction_authorization and verify_validator_message.
Verify(scheme_id, path, request) ==
    /\ call' = [scheme_id |-> scheme_id, path |-> path, request |-> request,
                result |-> verify_for_path(config, verifiers, scheme_id, request, path)]
    /\ UNCHANGED <<config, verifiers, owned, latest>>

DispatchNext ==
    \/ \E verifier \in Pool : RegisterVerifier(verifier)
    \/ \E scheme_id \in SchemeIds, path \in Paths, request \in Submitted :
          Verify(scheme_id, path, request)

DispatchSpec == DispatchInit /\ [][DispatchNext]_dispatchVars

-----------------------------------------------------------------------------
(* Correctness.                                                            *)

\* However often verifiers displace one another, a scheme is dispatched to the
\* one registered last and only to it: no shadowed entry stays in the list.
LastRegistrationWins ==
    \A s \in SchemeIds :
        {verifiers[i] : i \in Entries(verifiers, s)} = {latest[s]} \ {None}

\* A verifier is never lost or duplicated: each one of the pool is in the
\* registry at one place or with the caller, whoever displaced whom.
NoVerifierIsLost ==
    /\ owned \cap Registered = {}
    /\ owned \cup Registered = Pool
    /\ \A i, j \in DOMAIN verifiers : verifiers[i] = verifiers[j] => i = j

\* A request is judged by the cryptography only when the signature fits every
\* limit of its path: the configured one and the ceiling of the verifier.
OversizedIsNeverDispatched ==
    call # None /\ call.result \in {CryptoOk, VerificationFailed} =>
        LET size == call.request.signature.size
        IN  /\ \A limit \in ConfiguredLimit(config, call.path) : size <= limit.max_size
            /\ \A v \in {verifiers[i] : i \in Entries(verifiers, call.scheme_id)} :
                  v.ceiling[call.path] # None => size <= v.ceiling[call.path]

Unguarded == [config EXCEPT !.validator_path_max_signature_size = None]

\* The validator-path guard is local policy: wherever it changes the verdict,
\* the verdict is PolicyReject, and it accepts nothing that would be refused
\* without it.
GuardOnlyPolicyRejects ==
    call # None =>
        LET without == verify_for_path(Unguarded, verifiers, call.scheme_id, call.request,
                                       call.path)
        IN  call.result # without =>
                /\ call.result # CryptoOk
                /\ crypto_validation_outcome(call.result) = "PolicyReject"

\* A validator signature above the ceiling of its own verifier is
\* consensus-invalid, whatever the local guard is set to.
NativeCeilingIsConsensusInvalid ==
    call # None /\ call.path = "ValidatorMessage" =>
        \A v \in {verifiers[i] : i \in Entries(verifiers, call.scheme_id)} :
            v.ceiling[call.path] # None /\ call.request.signature.size > v.ceiling[call.path]
                => crypto_validation_outcome(call.result) = "Reject"

=============================================================================
