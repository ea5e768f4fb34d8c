---------------------------- MODULE DispatchOps -----------------------------
(***************************************************************************)
(* The values and pure operations of shell-crypto: verifiers, requests,    *)
(* signature limits and the dispatch of a request to a verifier.           *)
(*                                                                         *)
(* Signature algorithms are not modelled: a signature records the scheme,  *)
(* the key and the signing root it was made with and its length, and a     *)
(* verifier of that scheme accepts it for exactly that key and root.  A    *)
(* permissive verifier stands in for one, as those of the tests do.        *)
(***************************************************************************)
EXTENDS Integers, Sequences

CONSTANTS
    SchemeIds,      \* scheme ids (u8)
    Instances,      \* identities of boxed verifiers
    PublicKeys,     \* public key material
    SigningRoots,   \* signing roots
    None            \* Option::None

ASSUME NoneIsNoNumber == None \notin Nat

Paths == {"TransactionAuthorization", "ValidatorMessage"}
OptionalSizes == Nat \cup {None}

\* A boxed SignatureVerifier: ceiling is its max_signature_size for each path.
Verifiers == [instance : Instances, scheme_id : SchemeIds, permissive : BOOLEAN,
              ceiling : [Paths -> OptionalSizes]]

ASSUME NoneIsNoVerifier == None \notin Verifiers

Signatures == [scheme_id : SchemeIds, key : PublicKeys, signs : SigningRoots, size : Nat]

\* SignatureVerificationRequest.
Requests == [public_key_material : PublicKeys, signing_root : SigningRoots,
             signature : Signatures]

\* DispatcherConfig.
Configs == [user_path_max_signature_size : Nat,
            validator_path_max_signature_size : OptionalSizes]

LimitKinds == {"RepositoryRule", "LocalTransportGuard", "Scheme"}

\* CryptoError, or "Ok".  The kind of limit is "-" unless a limit was exceeded.
CryptoResult(error, kind) == [error |-> error, kind |-> kind]
CryptoOk == CryptoResult("Ok", "-")
UnsupportedScheme == CryptoResult("UnsupportedScheme", "-")
VerificationFailed == CryptoResult("VerificationFailed", "-")
SignatureSizeExceeded(kind) == CryptoResult("SignatureSizeExceeded", kind)

CryptoResults ==
    {CryptoOk, UnsupportedScheme, VerificationFailed}
      \cup {SignatureSizeExceeded(kind) : kind \in LimitKinds}

-----------------------------------------------------------------------------

\* The positions of the entries registered for a scheme.
Entries(verifiers, scheme_id) ==
    {i \in DOMAIN verifiers : verifiers[i].scheme_id = scheme_id}

\* Iterator::find: the first of them.
FirstEntry(verifiers, scheme_id) ==
    CHOOSE i \in Entries(verifiers, scheme_id) :
        \A j \in Entries(verifiers, scheme_id) : i <= j

\* Fault: a verifier is appended beside the one it should replace.
AppendAlways(verifiers, verifier) ==
    [verifiers |-> Append(verifiers, verifier), displaced |-> {}]

\* Fault: the displaced verifier is dropped.
DropDisplaced(verifiers, verifier) ==
    [verifiers |-> IF Entries(verifiers, verifier.scheme_id) = {}
                   THEN Append(verifiers, verifier)
                   ELSE [verifiers EXCEPT ![FirstEntry(verifiers, verifier.scheme_id)] = verifier],
     displaced |-> {}]

\* VerifierRegistry::register_verifier: the new list and the displaced verifier,
\* as a set of at most one.
register_verifier(verifiers, verifier) ==
    LET existing == FirstEntry(verifiers, verifier.scheme_id)
    IN  IF Entries(verifiers, verifier.scheme_id) # {}
        THEN [verifiers |-> [verifiers EXCEPT ![existing] = verifier],
              displaced |-> {verifiers[existing]}]
        ELSE [verifiers |-> Append(verifiers, verifier), displaced |-> {}]

\* The limit the configuration puts on a path, as a set of at most one.
ConfiguredLimit(config, path) ==
    IF path = "TransactionAuthorization"
    THEN {[max_size |-> config.user_path_max_signature_size, kind |-> "RepositoryRule"]}
    ELSE {[max_size |-> size, kind |-> "LocalTransportGuard"] :
            size \in {config.validator_path_max_signature_size} \ {None}}

\* Fault: the verifier's own ceiling is ignored.
ConfiguredLimitOnly(config, verifier, path) == ConfiguredLimit(config, path)

\* VerifierRegistry::max_signature_size: the verifier's ceiling wins only where
\* it is strictly below the configured limit.
max_signature_size(config, verifier, path) ==
    LET ceiling == verifier.ceiling[path]
        chosen == ConfiguredLimit(config, path)
    IN  IF ceiling # None /\ \A current \in chosen : ceiling < current.max_size
        THEN {[max_size |-> ceiling, kind |-> "Scheme"]}
        ELSE chosen

\* SignatureVerifier::verify.
verify(verifier, request) ==
    \/ verifier.permissive
    \/ /\ request.signature.scheme_id = verifier.scheme_id
       /\ request.signature.key = request.public_key_material
       /\ request.signature.signs = request.signing_root

\* VerifierRegistry::verify_for_path once the verifier is known.
VerifyWith(config, verifier, request, path) ==
    LET Exceeded == {limit \in max_signature_size(config, verifier, path) :
                        request.signature.size > limit.max_size}
    IN  IF Exceeded # {} THEN SignatureSizeExceeded((CHOOSE limit \in Exceeded : TRUE).kind)
        ELSE IF verify(verifier, request) THEN CryptoOk
        ELSE VerificationFailed

verify_for_path(config, verifiers, scheme_id, request, path) ==
    IF Entries(verifiers, scheme_id) = {} THEN UnsupportedScheme
    ELSE VerifyWith(config, verifiers[FirstEntry(verifiers, scheme_id)], request, path)

\* Fault: every size error is consensus-invalid.
AlwaysReject(result) == "Reject"

\* CryptoError::network_validation_outcome.  Every size error that names the
\* local guard comes from the validator path.
crypto_validation_outcome(result) ==
    IF result.error = "SignatureSizeExceeded" /\ result.kind = "LocalTransportGuard"
    THEN "PolicyReject"
    ELSE "Reject"

=============================================================================
