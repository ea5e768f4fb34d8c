-------------------------- MODULE ValidationProofs --------------------------
(***************************************************************************)
(* Proofs about the verifier registry, for any schemes, verifiers, limits  *)
(* and requests, about admission, for any transactions, policies and key   *)
(* material, and about block execution, for any plans, bodies and roots.   *)
(***************************************************************************)
EXTENDS Admission, SignatureDispatch, BlockExecution, NaturalLemmas, TLAPS

-----------------------------------------------------------------------------
(* The dispatch of one request.                                            *)

\* VerifyWith answers with a result of the dispatcher, and says Ok or
\* VerificationFailed only of a signature within every limit of its path.
LEMMA VerifyWithTypes ==
    ASSUME NEW c \in Configs, NEW v \in Verifiers, NEW r \in Requests, NEW p \in Paths
    PROVE  /\ VerifyWith(c, v, r, p) \in CryptoResults
           /\ VerifyWith(c, v, r, p) \in {CryptoOk, VerificationFailed} =>
                 /\ \A limit \in ConfiguredLimit(c, p) : r.signature.size <= limit.max_size
                 /\ v.ceiling[p] # None => r.signature.size <= v.ceiling[p]
<1> DEFINE Limits == max_signature_size(c, v, p)
           Exceeded == {limit \in Limits : r.signature.size > limit.max_size}
<1>1. /\ r.signature.size \in Nat
      /\ v.ceiling[p] \in Nat \cup {None}
      /\ c.user_path_max_signature_size \in Nat
      /\ c.validator_path_max_signature_size \in Nat \cup {None}
    BY Zenon DEF Requests, Signatures, Verifiers, Configs, OptionalSizes
<1>2. \A limit \in ConfiguredLimit(c, p) :
          limit.max_size \in Nat /\ limit.kind \in LimitKinds
    BY <1>1 DEF ConfiguredLimit, LimitKinds
<1>3. \A limit \in Limits : limit.max_size \in Nat /\ limit.kind \in LimitKinds
    BY <1>1, <1>2 DEF max_signature_size, LimitKinds
<1>4. CASE Exceeded # {}
    <2>1. (CHOOSE limit \in Exceeded : TRUE) \in Exceeded
        BY <1>4, Zenon
    <2>2. PICK kind \in LimitKinds : VerifyWith(c, v, r, p) = SignatureSizeExceeded(kind)
        BY <1>3, <1>4, <2>1, Zenon DEF VerifyWith
    <2>3. SignatureSizeExceeded(kind) \in CryptoResults
        BY Zenon DEF CryptoResults
    <2>4. SignatureSizeExceeded(kind) \notin {CryptoOk, VerificationFailed}
        BY Zenon DEF SignatureSizeExceeded, CryptoOk, VerificationFailed, CryptoResult
    <2> QED
        BY <2>2, <2>3, <2>4, Zenon
<1>5. CASE Exceeded = {}
    <2>1. VerifyWith(c, v, r, p) \in {CryptoOk, VerificationFailed}
        BY <1>5, Zenon DEF VerifyWith
    <2>2. \A limit \in Limits : r.signature.size <= limit.max_size
        BY <1>1, <1>3, <1>5
    <2>3. CASE v.ceiling[p] # None
               /\ \A current \in ConfiguredLimit(c, p) : v.ceiling[p] < current.max_size
        <3>1. [max_size |-> v.ceiling[p], kind |-> "Scheme"] \in Limits
            BY <2>3, Zenon DEF max_signature_size
        <3>2. r.signature.size <= v.ceiling[p]
            BY <2>2, <3>1, Zenon
        <3> QED
            BY <1>1, <1>2, <2>1, <2>3, <3>2 DEF CryptoResults
    <2>4. CASE ~(v.ceiling[p] # None
               /\ \A current \in ConfiguredLimit(c, p) : v.ceiling[p] < current.max_size)
        <3>1. Limits = ConfiguredLimit(c, p)
            BY <2>4, Zenon DEF max_signature_size
        <3> QED
            BY <1>1, <1>2, <2>1, <2>2, <2>4, <3>1 DEF CryptoResults
    <2> QED
        BY <2>3, <2>4, Zenon
<1> QED
    BY <1>4, <1>5, Zenon

\* Without the validator-path guard the verdict on a request is the same, or the
\* guard's own refusal takes its place.
LEMMA GuardOnlyAddsItsRefusal ==
    ASSUME NEW c \in Configs, NEW v \in Verifiers, NEW r \in Requests, NEW p \in Paths
    PROVE  LET without == [c EXCEPT !.validator_path_max_signature_size = None]
           IN  VerifyWith(c, v, r, p) \in {VerifyWith(without, v, r, p),
                                           SignatureSizeExceeded("LocalTransportGuard")}
<1> DEFINE without == [c EXCEPT !.validator_path_max_signature_size = None]
           guard == c.validator_path_max_signature_size
           size == r.signature.size
           ceiling == v.ceiling[p]
<1>1. /\ size \in Nat
      /\ ceiling \in Nat \cup {None}
      /\ guard \in Nat \cup {None}
    BY Zenon DEF Requests, Signatures, Verifiers, Configs, OptionalSizes
<1>2. /\ without.user_path_max_signature_size = c.user_path_max_signature_size
      /\ without.validator_path_max_signature_size = None
    BY Zenon DEF Configs
<1>3. CASE max_signature_size(c, v, p) = max_signature_size(without, v, p)
    BY <1>3, Zenon DEF VerifyWith
<1>4. CASE p = "TransactionAuthorization" \/ guard = None
    <2>1. ConfiguredLimit(c, p) = ConfiguredLimit(without, p)
        BY <1>2, <1>4, Zenon DEF ConfiguredLimit
    <2> QED
        BY <1>3, <2>1, Zenon DEF max_signature_size
<1>5. CASE p # "TransactionAuthorization" /\ guard # None
    <2> DEFINE limit == [max_size |-> guard, kind |-> "LocalTransportGuard"]
    <2>1. ConfiguredLimit(c, p) = {limit} /\ ConfiguredLimit(without, p) = {}
        BY <1>2, <1>5, Zenon DEF ConfiguredLimit
    <2>2. CASE ceiling # None /\ ceiling < guard
        <3>1. max_signature_size(c, v, p) = max_signature_size(without, v, p)
            BY <2>1, <2>2 DEF max_signature_size
        <3> QED
            BY <1>3, <3>1, Zenon
    <2>3. CASE ~(ceiling # None /\ ceiling < guard)
        <3>1. max_signature_size(c, v, p) = {limit}
            BY <2>1, <2>3 DEF max_signature_size
        <3>2. CASE size > guard
            <4>1. {l \in max_signature_size(c, v, p) : size > l.max_size} = {limit}
                BY <3>1, <3>2
            <4>2. (CHOOSE l \in {limit} : TRUE).kind = "LocalTransportGuard"
                <5>1. \A l \in {limit} : l.kind = "LocalTransportGuard"
                    OBVIOUS
                <5>2. (CHOOSE l \in {limit} : TRUE) \in {limit}
                    BY Zenon
                <5> QED
                    BY ONLY <5>1, <5>2, Zenon
            <4>3. VerifyWith(c, v, r, p) = SignatureSizeExceeded("LocalTransportGuard")
                BY <4>1, <4>2, Zenon DEF VerifyWith
            <4> QED
                BY <4>3, Zenon
        <3>3. CASE ~(size > guard)
            <4>1. {l \in max_signature_size(c, v, p) : size > l.max_size} = {}
                BY <3>1, <3>3
            <4>2. \A l \in max_signature_size(without, v, p) : l.max_size = ceiling /\ ceiling # None
                BY <2>1 DEF max_signature_size
            <4>3. {l \in max_signature_size(without, v, p) : size > l.max_size} = {}
                BY <1>1, <1>5, <2>3, <3>3, <4>2
            <4> QED
                BY <4>1, <4>3, Zenon DEF VerifyWith
        <3> QED
            BY <3>2, <3>3, Zenon
    <2> QED
        BY <2>2, <2>3, Zenon
<1> QED
    BY <1>4, <1>5, Zenon

-----------------------------------------------------------------------------
(* The registry.                                                           *)

\* No two entries have the same scheme, and the last answer is the one the
\* present registry gives.
DispatchInv ==
    /\ DispatchTypeOK
    /\ \A i, j \in DOMAIN verifiers : verifiers[i].scheme_id = verifiers[j].scheme_id => i = j
    /\ LastRegistrationWins
    /\ NoVerifierIsLost
    /\ call # None =>
          call.result = verify_for_path(config, verifiers, call.scheme_id, call.request, call.path)

\* With one entry per scheme, find returns it.
LEMMA FirstEntryIsTheEntry ==
    ASSUME NEW vs, NEW s, Entries(vs, s) # {},
           \A i, j \in DOMAIN vs : vs[i].scheme_id = vs[j].scheme_id => i = j,
           DOMAIN vs \subseteq Nat
    PROVE  /\ FirstEntry(vs, s) \in DOMAIN vs
           /\ vs[FirstEntry(vs, s)].scheme_id = s
<1>1. PICK e \in Entries(vs, s) : Entries(vs, s) = {e}
    BY Zenon DEF Entries
<1>2. e \in Nat /\ e <= e
    BY <1>1 DEF Entries
<1>3. \E i \in Entries(vs, s) : \A j \in Entries(vs, s) : i <= j
    BY <1>1, <1>2, Zenon
<1>4. FirstEntry(vs, s) \in Entries(vs, s)
    BY <1>3, Zenon DEF FirstEntry
<1> QED
    BY <1>4, Zenon DEF Entries

\* Init establishes the invariant.
LEMMA DispatchInitInv == DispatchInit => DispatchInv
<1> SUFFICES ASSUME DispatchInit PROVE DispatchInv
    BY Zenon
<1> USE DEF DispatchInit
<1>1. DispatchTypeOK
    BY PoolOfVerifiers, SettingsAreConfigs DEF DispatchTypeOK
<1>2. DOMAIN verifiers = {}
    OBVIOUS
<1>3. LastRegistrationWins
    BY <1>2, Zenon DEF LastRegistrationWins, Entries
<1>4. NoVerifierIsLost
    BY <1>2, Zenon DEF NoVerifierIsLost, Registered
<1> QED
    BY <1>1, <1>2, <1>3, <1>4, Zenon DEF DispatchInv

\* A registration keeps the invariant: the verifier takes the place of the one
\* entry of its scheme, or a new place at the end.
LEMMA RegistrationKeepsIInv ==
    ASSUME DispatchInv, NEW v \in Pool, RegisterVerifier(v)
    PROVE  DispatchInv'
<1> DEFINE s == v.scheme_id
           e == FirstEntry(verifiers, s)
<1>1. /\ v \in Verifiers /\ s \in SchemeIds /\ v # None
      /\ v \in owned
      /\ verifiers \in Seq(Verifiers)
      /\ DOMAIN verifiers = 1 .. Len(verifiers) /\ Len(verifiers) \in Nat
    BY PoolOfVerifiers, NoneIsNoVerifier DEF DispatchInv, DispatchTypeOK, RegisterVerifier, Verifiers
<1>2. \A i \in DOMAIN verifiers : verifiers[i] # v
    BY <1>1 DEF DispatchInv, NoVerifierIsLost, Registered
<1>3. latest' = [latest EXCEPT ![s] = v] /\ call' = None /\ config' = config
    BY Zenon DEF RegisterVerifier
<1>4. CASE Entries(verifiers, s) # {}
    <2>1. e \in DOMAIN verifiers /\ verifiers[e].scheme_id = s
        BY <1>1, <1>4, FirstEntryIsTheEntry DEF DispatchInv
    <2>2. /\ verifiers' = [verifiers EXCEPT ![e] = v]
          /\ owned' = (owned \ {v}) \cup {verifiers[e]}
        BY <1>4, Zenon DEF RegisterVerifier, register_verifier
    <2>3. DOMAIN verifiers' = DOMAIN verifiers
        BY <1>1, <2>2, Zenon
    <2>4. \A i \in DOMAIN verifiers : verifiers'[i] = IF i = e THEN v ELSE verifiers[i]
        BY <1>1, <2>2, Zenon
    <2>5. \A i \in DOMAIN verifiers : verifiers'[i].scheme_id = verifiers[i].scheme_id
        BY <2>1, <2>4, Zenon
    <2>6. DispatchTypeOK'
        <3>1. verifiers' \in Seq(Verifiers)
            BY <1>1, <2>1, <2>2
        <3>2. owned' \subseteq Verifiers
            BY <1>1, <2>1, <2>2 DEF DispatchInv, DispatchTypeOK
        <3> QED
            BY <1>1, <1>3, <3>1, <3>2, Zenon DEF DispatchInv, DispatchTypeOK
    <2>7. \A i, j \in DOMAIN verifiers' : verifiers'[i].scheme_id = verifiers'[j].scheme_id => i = j
        BY <2>3, <2>5, Zenon DEF DispatchInv
    <2>8. LastRegistrationWins'
        <3> SUFFICES ASSUME NEW t \in SchemeIds
                     PROVE  {verifiers'[i] : i \in Entries(verifiers', t)} = {latest'[t]} \ {None}
            BY Zenon DEF LastRegistrationWins
        <3>1. Entries(verifiers', t) = Entries(verifiers, t)
            BY <2>3, <2>5, Zenon DEF Entries
        <3>2. CASE t = s
            <4>1. Entries(verifiers, t) = {e}
                BY <2>1, <3>2, Zenon DEF DispatchInv, Entries
            <4>2. latest'[t] = v
                BY <1>1, <1>3, <3>2, Zenon DEF DispatchInv, DispatchTypeOK
            <4> QED
                BY <1>1, <2>1, <2>4, <3>1, <4>1, <4>2, Zenon
        <3>3. CASE t # s
            <4>1. \A i \in Entries(verifiers, t) : verifiers'[i] = verifiers[i]
                BY <2>1, <2>4, <3>3, Zenon DEF Entries
            <4>2. latest'[t] = latest[t]
                BY <1>1, <1>3, <3>3, Zenon DEF DispatchInv, DispatchTypeOK
            <4> QED
                BY <3>1, <4>1, <4>2 DEF DispatchInv, LastRegistrationWins
        <3> QED
            BY <3>2, <3>3, Zenon
    <2>9. NoVerifierIsLost'
        <3>1. Registered' = (Registered \ {verifiers[e]}) \cup {v}
            <4>1. \A i \in DOMAIN verifiers : i # e => verifiers[i] # verifiers[e]
                BY <2>1, Zenon DEF DispatchInv
            <4> QED
                BY <2>1, <2>3, <2>4, <4>1, Zenon DEF Registered
        <3>2. verifiers[e] \in Registered
            BY <2>1, Zenon DEF Registered
        <3>3. v \notin Registered
            BY <1>2, Zenon DEF Registered
        <3>4. owned' \cap Registered' = {} /\ owned' \cup Registered' = Pool
            BY <1>1, <2>2, <3>1, <3>2, <3>3, Zenon DEF DispatchInv, NoVerifierIsLost
        <3>5. \A i, j \in DOMAIN verifiers' : verifiers'[i] = verifiers'[j] => i = j
            BY <2>7, Zenon
        <3> QED
            BY <3>4, <3>5, Zenon DEF NoVerifierIsLost
    <2> QED
        BY <1>3, <2>6, <2>7, <2>8, <2>9, Zenon DEF DispatchInv
<1>5. CASE Entries(verifiers, s) = {}
    <2> DEFINE n == Len(verifiers) + 1
    <2>1. verifiers' = Append(verifiers, v) /\ owned' = owned \ {v}
        BY <1>5, Zenon DEF RegisterVerifier, register_verifier
    <2>2. /\ verifiers' \in Seq(Verifiers)
          /\ DOMAIN verifiers' = DOMAIN verifiers \cup {n}
          /\ n \notin DOMAIN verifiers
          /\ verifiers'[n] = v
          /\ \A i \in DOMAIN verifiers : verifiers'[i] = verifiers[i]
        BY <1>1, <2>1
    <2>3. DispatchTypeOK'
        BY <1>1, <1>3, <2>1, <2>2, Zenon DEF DispatchInv, DispatchTypeOK
    <2>4. \A i \in DOMAIN verifiers : verifiers[i].scheme_id # s
        BY <1>5, Zenon DEF Entries
    <2>5. \A i, j \in DOMAIN verifiers' : verifiers'[i].scheme_id = verifiers'[j].scheme_id => i = j
        BY <2>2, <2>4, Zenon DEF DispatchInv
    <2>6. LastRegistrationWins'
        <3> SUFFICES ASSUME NEW t \in SchemeIds
                     PROVE  {verifiers'[i] : i \in Entries(verifiers', t)} = {latest'[t]} \ {None}
            BY Zenon DEF LastRegistrationWins
        <3>1. CASE t = s
            <4>1. Entries(verifiers', t) = {n}
                BY <2>2, <2>4, <3>1, Zenon DEF Entries
            <4>2. latest'[t] = v
                BY <1>1, <1>3, <3>1, Zenon DEF DispatchInv, DispatchTypeOK
            <4> QED
                BY <1>1, <2>2, <4>1, <4>2, Zenon
        <3>2. CASE t # s
            <4>1. Entries(verifiers', t) = Entries(verifiers, t)
                BY <2>2, <3>2, Zenon DEF Entries
            <4>2. \A i \in Entries(verifiers, t) : verifiers'[i] = verifiers[i]
                BY <2>2, Zenon DEF Entries
            <4>3. latest'[t] = latest[t]
                BY <1>1, <1>3, <3>2, Zenon DEF DispatchInv, DispatchTypeOK
            <4> QED
                BY <4>1, <4>2, <4>3 DEF DispatchInv, LastRegistrationWins
        <3> QED
            BY <3>1, <3>2, Zenon
    <2>7. NoVerifierIsLost'
        <3>1. Registered' = Registered \cup {v}
            BY <2>2 DEF Registered
        <3>2. owned' \cap Registered' = {} /\ owned' \cup Registered' = Pool
            BY <1>1, <2>1, <3>1, Zenon DEF DispatchInv, NoVerifierIsLost
        <3>3. \A i, j \in DOMAIN verifiers' : verifiers'[i] = verifiers'[j] => i = j
            BY <2>5, Zenon
        <3> QED
            BY <3>2, <3>3, Zenon DEF NoVerifierIsLost
    <2> QED
        BY <1>3, <2>3, <2>5, <2>6, <2>7, Zenon DEF DispatchInv
<1> QED
    BY <1>4, <1>5, Zenon

\* A verification keeps it: nothing changes but the answer.
LEMMA VerificationKeepsIInv ==
    ASSUME DispatchInv, NEW s \in SchemeIds, NEW p \in Paths, NEW r \in Submitted, Verify(s, p, r)
    PROVE  DispatchInv'
<1> DEFINE answer == verify_for_path(config, verifiers, s, r, p)
<1>1. r \in Requests /\ config \in Configs /\ verifiers \in Seq(Verifiers)
    BY SubmittedAreRequests, Zenon DEF DispatchInv, DispatchTypeOK
<1>2. answer \in CryptoResults
    <2>1. CASE Entries(verifiers, s) = {}
        BY <2>1, Zenon DEF verify_for_path, CryptoResults
    <2>2. CASE Entries(verifiers, s) # {}
        <3>1. FirstEntry(verifiers, s) \in DOMAIN verifiers
            BY <1>1, <2>2, FirstEntryIsTheEntry DEF DispatchInv
        <3>2. verifiers[FirstEntry(verifiers, s)] \in Verifiers
            BY <1>1, <3>1
        <3> QED
            BY <1>1, <2>2, <3>2, VerifyWithTypes, Zenon DEF verify_for_path
    <2> QED
        BY <2>1, <2>2, Zenon
<1>3. /\ call' = [scheme_id |-> s, path |-> p, request |-> r, result |-> answer]
      /\ UNCHANGED <<config, verifiers, owned, latest>>
    BY Zenon DEF Verify
<1>4. call' \in Verifications
    BY <1>1, <1>2, <1>3, Zenon DEF Verifications
<1>5. DispatchTypeOK'
    BY <1>3, <1>4, Zenon DEF DispatchInv, DispatchTypeOK
<1>6. LastRegistrationWins' /\ NoVerifierIsLost'
    BY <1>3 DEF DispatchInv, LastRegistrationWins, NoVerifierIsLost, Registered
<1> QED
    BY <1>3, <1>5, <1>6, Zenon DEF DispatchInv

\* Every step keeps the invariant.
LEMMA DispatchNextInv == DispatchInv /\ [DispatchNext]_dispatchVars => DispatchInv'
<1> SUFFICES ASSUME DispatchInv, [DispatchNext]_dispatchVars PROVE DispatchInv'
    BY Zenon
<1>1. CASE UNCHANGED dispatchVars
    <2>1. UNCHANGED <<config, verifiers, owned, latest, call>>
        BY <1>1, Zenon DEF dispatchVars
    <2>2. DispatchTypeOK'
        BY <2>1, Zenon DEF DispatchInv, DispatchTypeOK
    <2>3. LastRegistrationWins' /\ NoVerifierIsLost'
        BY <2>1 DEF DispatchInv, LastRegistrationWins, NoVerifierIsLost, Registered
    <2> QED
        BY <2>1, <2>2, <2>3, Zenon DEF DispatchInv
<1> QED
    BY <1>1, RegistrationKeepsIInv, VerificationKeepsIInv, Zenon DEF DispatchNext

\* The invariant holds throughout.
THEOREM DispatchInvariance == DispatchSpec => []DispatchInv
BY DispatchInitInv, DispatchNextInv, PTL DEF DispatchSpec

\* All variables of the registry keep their types.
THEOREM DispatchTypeCorrect == DispatchSpec => []DispatchTypeOK
<1>1. DispatchInv => DispatchTypeOK
    BY Zenon DEF DispatchInv
<1> QED
    BY <1>1, DispatchInvariance, PTL

\* register_verifier leaves one entry per scheme, the one registered last.
THEOREM LastRegistrationAlwaysWins == DispatchSpec => []LastRegistrationWins
<1>1. DispatchInv => LastRegistrationWins
    BY Zenon DEF DispatchInv
<1> QED
    BY <1>1, DispatchInvariance, PTL

\* register_verifier hands back exactly what it displaces.
THEOREM NoVerifierIsEverLost == DispatchSpec => []NoVerifierIsLost
<1>1. DispatchInv => NoVerifierIsLost
    BY Zenon DEF DispatchInv
<1> QED
    BY <1>1, DispatchInvariance, PTL

\* What the last answer is about, where there is an entry for its scheme.
LEMMA AnswerOfTheEntry ==
    ASSUME DispatchInv, call # None
    PROVE  /\ config \in Configs /\ call.path \in Paths /\ call.request \in Requests
           /\ call.scheme_id \in SchemeIds
           /\ Entries(verifiers, call.scheme_id) # {} =>
                 LET e == FirstEntry(verifiers, call.scheme_id)
                 IN  /\ verifiers[e] \in Verifiers
                     /\ Entries(verifiers, call.scheme_id) = {e}
<1>1. call \in Verifications
    BY Zenon DEF DispatchInv, DispatchTypeOK
<1>2. verifiers \in Seq(Verifiers) /\ config \in Configs
    BY Zenon DEF DispatchInv, DispatchTypeOK
<1>3. ASSUME Entries(verifiers, call.scheme_id) # {}
      PROVE  LET e == FirstEntry(verifiers, call.scheme_id)
             IN  /\ verifiers[e] \in Verifiers
                 /\ Entries(verifiers, call.scheme_id) = {e}
    <2> DEFINE e == FirstEntry(verifiers, call.scheme_id)
    <2>1. e \in DOMAIN verifiers /\ verifiers[e].scheme_id = call.scheme_id
        BY <1>2, <1>3, FirstEntryIsTheEntry DEF DispatchInv
    <2>2. verifiers[e] \in Verifiers
        BY <1>2, <2>1
    <2>3. Entries(verifiers, call.scheme_id) = {e}
        BY <2>1, Zenon DEF DispatchInv, Entries
    <2> QED
        BY <2>2, <2>3, Zenon
<1> QED
    BY <1>1, <1>2, <1>3, Zenon DEF Verifications

\* verify_for_path reaches the cryptography only within every limit.
THEOREM OversizedIsNeverEverDispatched == DispatchSpec => []OversizedIsNeverDispatched
<1>1. DispatchInv => OversizedIsNeverDispatched
    <2> SUFFICES ASSUME DispatchInv, call # None, call.result \in {CryptoOk, VerificationFailed}
                 PROVE  /\ \A limit \in ConfiguredLimit(config, call.path) :
                              call.request.signature.size <= limit.max_size
                        /\ \A i \in Entries(verifiers, call.scheme_id) :
                              verifiers[i].ceiling[call.path] # None =>
                                call.request.signature.size <= verifiers[i].ceiling[call.path]
        BY Zenon DEF OversizedIsNeverDispatched
    <2> DEFINE e == FirstEntry(verifiers, call.scheme_id)
    <2>1. call.result = verify_for_path(config, verifiers, call.scheme_id, call.request, call.path)
        BY Zenon DEF DispatchInv
    <2>2. Entries(verifiers, call.scheme_id) # {}
        BY <2>1 DEF verify_for_path, UnsupportedScheme, CryptoOk, VerificationFailed, CryptoResult
    <2>3. call.result = VerifyWith(config, verifiers[e], call.request, call.path)
        BY <2>1, <2>2, Zenon DEF verify_for_path
    <2> QED
        BY <2>2, <2>3, AnswerOfTheEntry, VerifyWithTypes, Zenon
<1> QED
    BY <1>1, DispatchInvariance, PTL

\* The validator-path guard of the configuration only ever adds refusals of its
\* own, which CryptoError::network_validation_outcome calls policy.
THEOREM GuardAlwaysOnlyPolicyRejects == DispatchSpec => []GuardOnlyPolicyRejects
<1>1. DispatchInv => GuardOnlyPolicyRejects
    <2> SUFFICES ASSUME DispatchInv, call # None,
                        call.result # verify_for_path(Unguarded, verifiers, call.scheme_id,
                                                      call.request, call.path)
                 PROVE  /\ call.result # CryptoOk
                        /\ crypto_validation_outcome(call.result) = "PolicyReject"
        BY Zenon DEF GuardOnlyPolicyRejects
    <2> DEFINE e == FirstEntry(verifiers, call.scheme_id)
    <2>1. call.result = verify_for_path(config, verifiers, call.scheme_id, call.request, call.path)
        BY Zenon DEF DispatchInv
    <2>2. Entries(verifiers, call.scheme_id) # {}
        BY <2>1, Zenon DEF verify_for_path
    <2>3. /\ call.result = VerifyWith(config, verifiers[e], call.request, call.path)
          /\ call.result # VerifyWith(Unguarded, verifiers[e], call.request, call.path)
        BY <2>1, <2>2, Zenon DEF verify_for_path
    <2>4. call.result = SignatureSizeExceeded("LocalTransportGuard")
        BY <2>2, <2>3, AnswerOfTheEntry, GuardOnlyAddsItsRefusal, Zenon DEF Unguarded
    <2> QED
        BY <2>4 DEF crypto_validation_outcome, SignatureSizeExceeded, CryptoOk, CryptoResult
<1> QED
    BY <1>1, DispatchInvariance, PTL

-----------------------------------------------------------------------------
(* The checks.                                                             *)

\* The dispatcher answers Ok only where a verifier of the scheme accepts.
LEMMA DispatcherAnswers ==
    ASSUME NEW c, NEW vs \in Seq(Verifiers), NEW s, NEW r, NEW p
    PROVE  /\ verify_for_path(c, vs, s, r, p).error
                \in {"Ok", "UnsupportedScheme", "VerificationFailed", "SignatureSizeExceeded"}
           /\ verify_for_path(c, vs, s, r, p).error = "Ok" =>
                \E i \in DOMAIN vs : verify(vs[i], r)
<1> DEFINE first == FirstEntry(vs, s)
<1>1. CASE Entries(vs, s) = {}
    BY <1>1, Zenon DEF verify_for_path, UnsupportedScheme, CryptoResult
<1>2. CASE Entries(vs, s) # {}
    <2>1. Entries(vs, s) \in SUBSET Nat
        BY DEF Entries
    <2>2. first \in Entries(vs, s)
        BY <1>2, <2>1, LeastNatural, Zenon DEF FirstEntry
    <2>3. first \in DOMAIN vs
        BY <2>2, Zenon DEF Entries
    <2>4. verify_for_path(c, vs, s, r, p) = VerifyWith(c, vs[first], r, p)
        BY <1>2, Zenon DEF verify_for_path
    <2>5. /\ VerifyWith(c, vs[first], r, p).error
               \in {"Ok", "VerificationFailed", "SignatureSizeExceeded"}
          /\ VerifyWith(c, vs[first], r, p).error = "Ok" => verify(vs[first], r)
        BY ZenonT(40) DEF VerifyWith, CryptoOk, VerificationFailed, SignatureSizeExceeded, CryptoResult
    <2> QED
        BY <2>3, <2>4, <2>5, Zenon
<1> QED
    BY <1>1, <1>2, Zenon

\* An authorization passes only if its signature was made with the key beside it
\* over the root that was screened.
LEMMA AuthorizationAnswers ==
    ASSUME registry \in Registries, NEW e, NEW a, NEW ms, NEW i
    PROVE  /\ AuthorizationResult(e, a, ms, i) \in {"Ok"} \cup CryptoErrors
           /\ AuthorizationResult(e, a, ms, i) = "Ok" =>
                /\ e.authorizations[i].signature.key = ms[i]
                /\ e.authorizations[i].signature.signs = signing_root(a.payload_root)
<1> DEFINE r == [public_key_material |-> ms[i], signing_root |-> signing_root(a.payload_root),
                 signature |-> e.authorizations[i].signature]
           answer == verify_for_path(registry.config, registry.verifiers,
                                     e.authorizations[i].scheme_id, r,
                                     "TransactionAuthorization")
<1>1. registry.verifiers \in Seq(Verifiers)
    BY RegistriesAreDispatchers, Zenon
<1>2. AuthorizationResult(e, a, ms, i) = map_crypto_error(answer.error)
    BY ZenonT(40) DEF AuthorizationResult
<1>3. answer.error \in {"Ok", "UnsupportedScheme", "VerificationFailed", "SignatureSizeExceeded"}
    BY <1>1, DispatcherAnswers, Zenon
<1>4. ASSUME answer.error = "Ok"
      PROVE  r.signature.key = r.public_key_material /\ r.signature.signs = r.signing_root
    <2>1. PICK j \in DOMAIN registry.verifiers : verify(registry.verifiers[j], r)
        BY <1>1, <1>4, DispatcherAnswers, Zenon
    <2>2. ~registry.verifiers[j].permissive
        BY NoStandIns, Zenon
    <2> QED
        BY <2>1, <2>2, Zenon DEF verify
<1> QED
    BY <1>2, <1>3, <1>4, Zenon DEF map_crypto_error, CryptoErrors

\* RequireAll: the first authorization that fails ends the loop.
LEMMA VerificationAnswers ==
    ASSUME registry \in Registries, NEW e \in AllEnvelopes, NEW a, NEW ms
    PROVE  LET answer == verify_authorizations(e, a, ms)
               count == Len(e.authorizations)
           IN  /\ answer.result \in {"Ok", "AuthorizationMaterialCount"} \cup CryptoErrors
               /\ answer.dispatched \in Nat
               /\ answer.result = "Ok" =>
                     /\ Len(ms) = count
                     /\ \A i \in 1 .. count : AuthorizationResult(e, a, ms, i) = "Ok"
               /\ answer.result \in CryptoErrors =>
                     /\ answer.dispatched \in 1 .. count
                     /\ \A i \in 1 .. answer.dispatched - 1 :
                           AuthorizationResult(e, a, ms, i) = "Ok"
<1> DEFINE count == Len(e.authorizations)
           Failing == {i \in 1 .. count : AuthorizationResult(e, a, ms, i) # "Ok"}
           first == CHOOSE i \in Failing : \A j \in Failing : i <= j
           answer == verify_authorizations(e, a, ms)
<1>1. count \in Nat
    BY DEF AllEnvelopes
<1>2. CASE Len(ms) # count
    <2>1. answer = [result |-> "AuthorizationMaterialCount", dispatched |-> 0]
        BY <1>2, Zenon DEF verify_authorizations
    <2> QED
        BY <2>1 DEF CryptoErrors
<1>3. CASE Len(ms) = count /\ Failing # {}
    <2>1. Failing \in SUBSET Nat
        BY <1>1
    <2>2. first \in Failing /\ \A j \in Failing : first <= j
        <3>1. \E i \in Failing : \A j \in Failing : i <= j
            BY <1>3, <2>1, LeastNatural, Zenon
        <3> HIDE DEF Failing
        <3> QED
            BY <3>1, Zenon
    <2>3. answer = [result |-> AuthorizationResult(e, a, ms, first), dispatched |-> first]
        BY <1>3, Zenon DEF verify_authorizations
    <2> HIDE DEF first
    <2>4. first \in 1 .. count /\ AuthorizationResult(e, a, ms, first) # "Ok"
        BY <2>2, Zenon
    <2>5. AuthorizationResult(e, a, ms, first) \in CryptoErrors
        BY <2>4, AuthorizationAnswers, Zenon
    <2>6. \A i \in 1 .. first - 1 : AuthorizationResult(e, a, ms, i) = "Ok"
        BY <1>1, <2>2, <2>4
    <2>7. answer.result \in CryptoErrors /\ answer.dispatched = first
        BY <2>3, <2>5
    <2> QED
        BY <1>1, <2>4, <2>6, <2>7 DEF CryptoErrors
<1>4. CASE Len(ms) = count /\ Failing = {}
    <2>1. answer = [result |-> "Ok", dispatched |-> count]
        BY <1>4, Zenon DEF verify_authorizations
    <2> QED
        BY <1>1, <1>4, <2>1 DEF CryptoErrors
<1> QED
    BY <1>2, <1>3, <1>4, Zenon

\* A transaction is screened with the first check that fails.
LEMMA ScreeningAnswers ==
    ASSUME NEW e
    PROVE  /\ screen_transaction(e) \in {"Ok"} \cup ScreeningErrors
           /\ screen_transaction(e) = "Ok" <=>
                /\ check_authorization_count(e)
                /\ check_authorization_payload_roots(e)
                /\ check_user_signature_sizes(e)
                /\ check_fee_policy(e)
                /\ check_nonce_policy(e)
           /\ screen_transaction(e) = "NoncePolicy" => ~check_nonce_policy(e)
BY Zenon DEF screen_transaction, ScreeningErrors

\* The window does not depend on where observed plus gap ends up.
LEMMA NonceWindow ==
    ASSUME NEW e \in AllEnvelopes, policy \in Policies, observed \in 0 .. MaxU64
    PROVE  check_nonce_policy(e) <=>
             /\ 0 <= e.nonce - observed
             /\ e.nonce - observed <= policy.max_future_nonce_gap
<1>1. e.nonce \in 0 .. MaxU64 /\ policy.max_future_nonce_gap \in 0 .. MaxU64
    BY PoliciesArePolicies, Zenon DEF AllEnvelopes, AllPolicies
<1>2. observed # None
    BY NoneIsNoNumber, SmallestWidth
<1> QED
    BY <1>1, <1>2, SmallestWidth DEF check_nonce_policy, saturating_add

-----------------------------------------------------------------------------
(* The pipeline.                                                           *)

\* What the last call must have answered under the present view.
Answer ==
    CASE last.op = "screen" -> [result |-> screen_transaction(last.envelope), dispatched |-> 0]
      [] last.op = "verify" -> verify_authorizations(last.envelope, accepted, last.materials)
      [] last.op = "admit" -> admit_and_verify(last.envelope, last.materials)

\* All that screening demands of a transaction but its nonce.
WellFormed(e) ==
    /\ check_authorization_count(e)
    /\ check_authorization_payload_roots(e)
    /\ check_user_signature_sizes(e)
    /\ check_fee_policy(e)

\* All that admission demands of a transaction but its nonce.
Sound(e, ms) ==
    /\ WellFormed(e)
    /\ verify_authorizations(e, TentativeAccepted(e), ms).result = "Ok"

\* The held TentativeAccepted is about the envelope screened last, the last
\* answer is that of the present view, and what was admitted stays sound.
IInv ==
    /\ TypeOK
    /\ accepted # None =>
          /\ screened \in Envelopes
          /\ accepted = TentativeAccepted(screened)
          /\ WellFormed(screened)
    /\ last # None =>
          /\ last.op = "verify" => accepted # None
          /\ last.result = Answer.result
          /\ last.dispatched = Answer.dispatched
    /\ \A e \in Envelopes, ms \in MaterialLists : admitted = <<e, ms>> => Sound(e, ms)

\* Init establishes the invariant.
LEMMA InitIInv == Init => IInv
BY NoneIsNoAdmission, MaterialListsAreKeys DEF Init, IInv, TypeOK

\* admit_and_verify answers Ok for a sound transaction inside the nonce window.
LEMMA AdmissionAnswers ==
    ASSUME registry \in Registries, NEW e \in AllEnvelopes, NEW ms
    PROVE  /\ admit_and_verify(e, ms).result \in Results
           /\ admit_and_verify(e, ms).dispatched \in Nat
           /\ admit_and_verify(e, ms).result = "Ok" => Sound(e, ms) /\ check_nonce_policy(e)
           /\ Sound(e, ms) => admit_and_verify(e, ms).result \in {"Ok", "NoncePolicy"}
<1>1. CASE screen_transaction(e) # "Ok"
    <2>1. admit_and_verify(e, ms) = [result |-> screen_transaction(e), dispatched |-> 0]
        BY <1>1, Zenon DEF admit_and_verify
    <2>2. screen_transaction(e) \in ScreeningErrors
        BY <1>1, ScreeningAnswers, Zenon
    <2>3. Sound(e, ms) => screen_transaction(e) = "NoncePolicy"
        BY <1>1, Zenon DEF Sound, WellFormed, screen_transaction
    <2> QED
        BY <1>1, <2>1, <2>2, <2>3 DEF Results
<1>2. CASE screen_transaction(e) = "Ok"
    <2>1. admit_and_verify(e, ms) = verify_authorizations(e, TentativeAccepted(e), ms)
        BY <1>2, Zenon DEF admit_and_verify
    <2>2. /\ verify_authorizations(e, TentativeAccepted(e), ms).result \in Results
          /\ verify_authorizations(e, TentativeAccepted(e), ms).dispatched \in Nat
        BY VerificationAnswers, Zenon DEF Results
    <2> QED
        BY <1>2, <2>1, <2>2, ScreeningAnswers, Zenon DEF Sound, WellFormed
<1> QED
    BY <1>1, <1>2, Zenon

\* Every call keeps the invariant, and so does a view that moves.
LEMMA NextIInv == IInv /\ [Next]_vars => IInv'
<1> SUFFICES ASSUME IInv, [Next]_vars PROVE IInv'
    BY Zenon
<1>t. /\ registry \in Registries /\ policy \in Policies
      /\ observed \in (0 .. MaxU64) \cup {None}
      /\ accepted \in Screenings \cup {None}
      /\ screened \in Envelopes \cup {None}
      /\ admitted \in (Envelopes \X MaterialLists) \cup {None}
    BY Zenon DEF IInv, TypeOK
<1>s. ASSUME policy' = policy, registry' = registry, NEW e \in Envelopes, NEW ms \in MaterialLists
      PROVE  Sound(e, ms)' <=> Sound(e, ms)
    BY ONLY <1>s, SMTT(30)
       DEF Sound, WellFormed, check_authorization_count, check_authorization_payload_roots,
                check_user_signature_sizes, check_fee_policy, verify_authorizations,
                AuthorizationResult, signing_root
<1>1. ASSUME NEW e \in Envelopes, ScreenTransaction(e) PROVE IInv'
    <2> DEFINE answer == screen_transaction(e)
    <2>1. e \in AllEnvelopes /\ answer \in {"Ok"} \cup ScreeningErrors
        BY EnvelopesAreEnvelopes, ScreeningAnswers, Zenon
    <2>2. /\ last' = [op |-> "screen", envelope |-> e, materials |-> <<>>,
                      result |-> answer, dispatched |-> 0]
          /\ accepted' = IF answer = "Ok" THEN TentativeAccepted(e) ELSE accepted
          /\ screened' = IF answer = "Ok" THEN e ELSE screened
          /\ UNCHANGED <<registry, policy, observed, admitted>>
        BY <1>1, Zenon DEF ScreenTransaction, Call
    <2>3. TentativeAccepted(e) \in Screenings
        BY ONLY <2>1, SMTT(30) DEF TentativeAccepted, Screenings, AllEnvelopes
    <2>4. TypeOK'
        BY <1>t, <2>1, <2>2, <2>3, Zenon DEF TypeOK, Calls, Results
    <2>5. answer = "Ok" => WellFormed(e)
        BY ScreeningAnswers, Zenon DEF WellFormed
    <2>6. (accepted # None =>
              /\ screened \in Envelopes
              /\ accepted = TentativeAccepted(screened)
              /\ WellFormed(screened))'
        BY <2>2, <2>5, Zenon
           DEF IInv, TentativeAccepted, WellFormed, check_authorization_count,
                check_authorization_payload_roots, check_user_signature_sizes,
                check_fee_policy
    <2>7. screen_transaction(e)' = screen_transaction(e)
        BY <2>2, Zenon DEF screen_transaction, check_authorization_count,
                check_authorization_payload_roots, check_user_signature_sizes,
                check_fee_policy, check_nonce_policy
    <2>8. Answer' = [result |-> answer, dispatched |-> 0]
        BY <2>2, <2>7, Zenon DEF Answer
    <2> QED
        BY <1>s, <2>2, <2>4, <2>6, <2>8, Zenon DEF IInv
<1>2. ASSUME NEW e \in Envelopes, NEW ms \in MaterialLists, VerifyAuthorizations(e, ms)
      PROVE  IInv'
    <2> DEFINE answer == verify_authorizations(e, accepted, ms)
    <2>1. e \in AllEnvelopes
        BY EnvelopesAreEnvelopes, Zenon
    <2>2. /\ last' = [op |-> "verify", envelope |-> e, materials |-> ms,
                      result |-> answer.result, dispatched |-> answer.dispatched]
          /\ accepted # None
          /\ UNCHANGED <<registry, policy, observed, accepted, screened, admitted>>
        BY <1>2, Zenon DEF VerifyAuthorizations, Call
    <2>3. answer.result \in Results /\ answer.dispatched \in Nat
        BY <1>t, <2>1, VerificationAnswers, Zenon DEF Results
    <2>4. TypeOK'
        <3>1. last' \in Calls
            BY <2>2, <2>3, Zenon DEF Calls
        <3> QED
            BY <1>t, <2>2, <3>1, Zenon DEF TypeOK
    <2>5. verify_authorizations(e, accepted, ms)' = answer
        BY <2>2, ZenonT(40) DEF verify_authorizations, AuthorizationResult, signing_root
    <2>6. Answer' = answer
        BY <2>2, <2>5, Zenon DEF Answer
    <2> QED
        BY <1>s, <2>2, <2>4, <2>6, ZenonT(40) DEF IInv, TentativeAccepted, WellFormed,
            check_authorization_count, check_authorization_payload_roots,
            check_user_signature_sizes, check_fee_policy
<1>3. ASSUME NEW e \in Envelopes, NEW ms \in MaterialLists, AdmitAndVerify(e, ms) PROVE IInv'
    <2> DEFINE answer == admit_and_verify(e, ms)
    <2>1. e \in AllEnvelopes
        BY EnvelopesAreEnvelopes, Zenon
    <2>2. /\ last' = [op |-> "admit", envelope |-> e, materials |-> ms,
                      result |-> answer.result, dispatched |-> answer.dispatched]
          /\ admitted' = IF answer.result = "Ok" THEN <<e, ms>> ELSE admitted
          /\ UNCHANGED <<registry, policy, observed, accepted, screened>>
        BY <1>3, Zenon DEF AdmitAndVerify, Call
    <2>3. /\ answer.result \in Results /\ answer.dispatched \in Nat
          /\ answer.result = "Ok" => Sound(e, ms)
        BY <1>t, <2>1, AdmissionAnswers, Zenon
    <2>4. TypeOK'
        <3>1. last' \in Calls
            BY <2>2, <2>3, Zenon DEF Calls
        <3> QED
            BY <1>t, <2>2, <3>1, Zenon DEF TypeOK
    <2>5. admit_and_verify(e, ms)' = answer
        BY <2>2, ZenonT(40)
           DEF admit_and_verify, verify_authorizations, AuthorizationResult, signing_root,
                screen_transaction, check_authorization_count,
                check_authorization_payload_roots, check_user_signature_sizes,
                check_fee_policy, check_nonce_policy, TentativeAccepted
    <2>6. Answer' = answer
        BY <2>2, <2>5, Zenon DEF Answer
    <2>7. ASSUME NEW f \in Envelopes, NEW ns \in MaterialLists, admitted' = <<f, ns>>
          PROVE  Sound(f, ns)'
        <3>1. CASE answer.result = "Ok"
            <4>1. f = e /\ ns = ms
                BY ONLY <2>2, <2>7, <3>1, SMTT(30)
            <4> QED
                BY <1>s, <2>2, <2>3, <3>1, <4>1, Zenon
        <3>2. CASE answer.result # "Ok"
            BY <1>s, <2>2, <2>7, <3>2, ZenonT(40) DEF IInv
        <3> QED
            BY <3>1, <3>2, Zenon
    <2> QED
        BY <2>2, <2>4, <2>6, <2>7, Zenon DEF IInv, TentativeAccepted, WellFormed,
            check_authorization_count, check_authorization_payload_roots,
            check_user_signature_sizes, check_fee_policy
<1>4. ASSUME NEW nonce \in 0 .. MaxU64, ViewMoves(nonce) PROVE IInv'
    <2>1. /\ observed' = nonce /\ last' = None
          /\ UNCHANGED <<registry, policy, accepted, screened, admitted>>
        BY <1>4, Zenon DEF ViewMoves
    <2>2. TypeOK'
        BY <1>t, <2>1, Zenon DEF TypeOK
    <2> QED
        BY <1>s, <2>1, <2>2, Zenon DEF IInv, TentativeAccepted, WellFormed,
            check_authorization_count, check_authorization_payload_roots,
            check_user_signature_sizes, check_fee_policy
<1>5. CASE UNCHANGED vars
    <2>1. UNCHANGED <<registry, policy, observed, accepted, last, screened, admitted>>
        BY <1>5, Zenon DEF vars
    <2>2. TypeOK'
        BY <2>1, Zenon DEF IInv, TypeOK
    <2>3. Answer' = Answer
        BY ONLY <2>1, SMTT(30)
           DEF Answer, admit_and_verify, verify_authorizations, AuthorizationResult,
                signing_root, screen_transaction, check_authorization_count,
                check_authorization_payload_roots, check_user_signature_sizes,
                check_fee_policy, check_nonce_policy, TentativeAccepted
    <2> QED
        BY <1>s, <2>1, <2>2, <2>3, Zenon DEF IInv, TentativeAccepted, WellFormed,
            check_authorization_count, check_authorization_payload_roots,
            check_user_signature_sizes, check_fee_policy
<1> QED
    BY <1>1, <1>2, <1>3, <1>4, <1>5, Zenon DEF Next

\* The invariant holds throughout.
THEOREM Invariance == Spec => []IInv
BY InitIInv, NextIInv, PTL DEF Spec

\* All variables of the pipeline and its caller keep their types.
THEOREM TypeCorrect == Spec => []TypeOK
<1>1. IInv => TypeOK
    BY Zenon DEF IInv
<1> QED
    BY <1>1, Invariance, PTL

\* What the last call was, for the proofs below.
LEMMA LastCall ==
    ASSUME IInv, last # None
    PROVE  /\ registry \in Registries /\ policy \in Policies
           /\ last.envelope \in AllEnvelopes
           /\ last.op \in {"screen", "verify", "admit"}
           /\ last.op = "screen" => /\ last.result = screen_transaction(last.envelope)
                                    /\ last.dispatched = 0
           /\ last.op = "verify" =>
                 LET answer == verify_authorizations(last.envelope, accepted, last.materials)
                 IN  /\ last.result = answer.result /\ last.dispatched = answer.dispatched
                     /\ accepted = TentativeAccepted(screened) /\ screened \in AllEnvelopes
                     /\ WellFormed(screened)
           /\ last.op = "admit" =>
                 LET answer == admit_and_verify(last.envelope, last.materials)
                 IN  last.result = answer.result /\ last.dispatched = answer.dispatched
<1>1. last \in Calls /\ registry \in Registries /\ policy \in Policies
    BY Zenon DEF IInv, TypeOK
<1>2. last.envelope \in AllEnvelopes /\ last.op \in {"screen", "verify", "admit"}
    BY <1>1, EnvelopesAreEnvelopes, Zenon DEF Calls
<1> QED
    BY <1>1, <1>2, EnvelopesAreEnvelopes, Zenon DEF IInv, Answer

\* RequireAll holds of everything verify_authorizations lets through.
THEOREM VerifiedAlwaysMeansAuthorized == Spec => []VerifiedMeansAuthorized
<1>1. IInv => VerifiedMeansAuthorized
    <2> SUFFICES ASSUME IInv, last # None, last.op # "screen", last.result = "Ok"
                 PROVE  VerifiedMeansAuthorized
        BY Zenon DEF VerifiedMeansAuthorized
    <2> DEFINE e == last.envelope
               ms == last.materials
               count == Len(e.authorizations)
    <2>1. /\ registry \in Registries /\ e \in AllEnvelopes
          /\ verify_authorizations(e, CheckedAgainst, ms).result = "Ok"
        <3>1. CASE last.op = "verify"
            BY <3>1, LastCall, Zenon DEF CheckedAgainst
        <3>2. CASE last.op = "admit"
            BY <3>2, LastCall, AdmissionAnswers, Zenon DEF CheckedAgainst, Sound
        <3> QED
            BY <3>1, <3>2, LastCall, Zenon
    <2>2. /\ Len(ms) = count
          /\ \A i \in 1 .. count : AuthorizationResult(e, CheckedAgainst, ms, i) = "Ok"
        BY <2>1, VerificationAnswers, Zenon
    <2>3. \A i \in 1 .. count :
              /\ e.authorizations[i].signature.key = ms[i]
              /\ e.authorizations[i].signature.signs = signing_root(CheckedAgainst.payload_root)
        BY ONLY <2>1, <2>2, AuthorizationAnswers, SMTT(30)
    <2>4. count \in Nat /\ DOMAIN e.authorizations = 1 .. count
        BY ONLY <2>1, SMTT(30) DEF AllEnvelopes
    <2>5. last.op = "admit" \/ e = screened => WellFormed(e)
        BY LastCall, AdmissionAnswers, ZenonT(40) DEF Sound
    <2>6. WellFormed(e) =>
              /\ e.authorizations # <<>>
              /\ \A i \in 1 .. count : /\ e.authorizations[i].payload_root = e.payload_root
                                       /\ e.authorizations[i].signature.size <= MaxUserBytes
        BY <2>4, ZenonT(40)
           DEF WellFormed, check_authorization_count, check_authorization_payload_roots,
                    check_user_signature_sizes
    <2> QED
        BY <2>2, <2>3, <2>5, <2>6, LastCall, ZenonT(40) DEF VerifiedMeansAuthorized
<1> QED
    BY <1>1, Invariance, PTL

\* Of a screening only the nonce grows stale, for every policy and any number of
\* authorizations.
THEOREM SplitAdmissionAlwaysMissesOnlyTheNonce == Spec => []SplitAdmissionMissesOnlyTheNonce
<1>1. IInv => SplitAdmissionMissesOnlyTheNonce
    <2> SUFFICES ASSUME IInv, last # None, last.op = "verify", last.envelope = screened
                 PROVE  SplitAdmissionMissesOnlyTheNonce
        BY Zenon DEF SplitAdmissionMissesOnlyTheNonce
    <2> DEFINE e == last.envelope
               ms == last.materials
               answer == verify_authorizations(e, TentativeAccepted(e), ms)
    <2>1. last.result = answer.result /\ last.dispatched = answer.dispatched /\ WellFormed(e)
        BY LastCall, Zenon
    <2>2. CASE check_nonce_policy(e)
        <3>1. admit_and_verify(e, ms) = answer
            BY <2>1, <2>2, ScreeningAnswers, Zenon DEF admit_and_verify, WellFormed
        <3> QED
            BY <2>1, <2>2, <3>1, Zenon DEF SplitAdmissionMissesOnlyTheNonce
    <2>3. CASE ~check_nonce_policy(e)
        <3>1. screen_transaction(e) = "NoncePolicy"
            BY <2>1, <2>3, Zenon DEF screen_transaction, WellFormed
        <3>2. admit_and_verify(e, ms) = [result |-> "NoncePolicy", dispatched |-> 0]
            BY <3>1, Zenon DEF admit_and_verify
        <3> QED
            BY <2>3, <3>2, Zenon DEF SplitAdmissionMissesOnlyTheNonce
    <2> QED
        BY <2>2, <2>3, Zenon
<1> QED
    BY <1>1, Invariance, PTL

\* saturating_add makes the window of check_nonce_policy exact for any u64.
THEOREM NonceWindowIsAlwaysExact == Spec => []NonceWindowIsExact
<1>1. IInv => NonceWindowIsExact
    <2> SUFFICES ASSUME IInv, last # None, last.op \in {"screen", "admit"}, observed # None
                 PROVE  /\ last.result = "NoncePolicy" =>
                             ~(/\ 0 <= last.envelope.nonce - observed
                               /\ last.envelope.nonce - observed <= policy.max_future_nonce_gap)
                        /\ ~(/\ 0 <= last.envelope.nonce - observed
                             /\ last.envelope.nonce - observed <= policy.max_future_nonce_gap)
                             => last.result \in ScreeningErrors
        BY Zenon DEF NonceWindowIsExact
    <2> DEFINE e == last.envelope
    <2>1. observed \in 0 .. MaxU64
        BY ZenonT(40) DEF IInv, TypeOK
    <2>2. check_nonce_policy(e) <=>
             /\ 0 <= e.nonce - observed
             /\ e.nonce - observed <= policy.max_future_nonce_gap
        BY <2>1, LastCall, NonceWindow, Zenon
    <2>3. /\ last.result = "NoncePolicy" => screen_transaction(e) = "NoncePolicy"
          /\ screen_transaction(e) # "Ok" => last.result = screen_transaction(e)
        <3>1. CASE last.op = "screen"
            BY <3>1, LastCall, Zenon
        <3>2. CASE last.op = "admit"
            <4>1. verify_authorizations(e, TentativeAccepted(e), last.materials).result
                    \in {"Ok", "AuthorizationMaterialCount"} \cup CryptoErrors
                BY LastCall, VerificationAnswers, ZenonT(40)
            <4> QED
                BY <3>2, <4>1, LastCall, ZenonT(40) DEF admit_and_verify, CryptoErrors
        <3> QED
            BY <3>1, <3>2, Zenon
    <2> QED
        BY <2>2, <2>3, ScreeningAnswers, Zenon
<1> QED
    BY <1>1, Invariance, PTL

\* Screening comes before the dispatcher, and the loop over the authorizations
\* ends at the first that fails.
THEOREM CryptoAlwaysComesLast == Spec => []CryptoComesLast
<1>1. IInv => CryptoComesLast
    <2> SUFFICES ASSUME IInv, last # None PROVE CryptoComesLast
        BY Zenon DEF CryptoComesLast
    <2> DEFINE e == last.envelope
               answer == verify_authorizations(e, CheckedAgainst, last.materials)
    <2>1. CASE last.result = screen_transaction(e) /\ last.dispatched = 0
        BY <2>1, ScreeningAnswers, Zenon DEF CryptoComesLast, ScreeningErrors, CryptoErrors
    <2>2. CASE last.result = answer.result /\ last.dispatched = answer.dispatched
        <3>1. last.result \in {"Ok", "AuthorizationMaterialCount"} \cup CryptoErrors
            BY <2>2, LastCall, VerificationAnswers
        <3>2. last.result \notin ScreeningErrors
            BY <3>1, Zenon DEF CryptoErrors, ScreeningErrors
        <3>3. last.result \in CryptoErrors =>
                 /\ last.dispatched \in 1 .. Len(e.authorizations)
                 /\ \A i \in 1 .. last.dispatched - 1 :
                       AuthorizationResult(e, CheckedAgainst, last.materials, i) = "Ok"
            BY <2>2, LastCall, VerificationAnswers
        <3> QED
            BY <3>2, <3>3, ZenonT(40) DEF CryptoComesLast
    <2> QED
        BY <2>1, <2>2, LastCall, Zenon DEF CheckedAgainst, admit_and_verify
<1> QED
    BY <1>1, Invariance, PTL

\* A transaction once admitted is refused later for its nonce at most.
THEOREM OnceAdmittedIsNeverInvalid == Spec => []OnceAdmittedNeverInvalid
<1>1. IInv => OnceAdmittedNeverInvalid
    <2> SUFFICES ASSUME IInv, last # None, last.op = "admit",
                        <<last.envelope, last.materials>> = admitted
                 PROVE  validation_outcome(last.result) \in {"Accept", "PolicyReject"}
        BY Zenon DEF OnceAdmittedNeverInvalid
    <2>1. last \in Calls
        BY Zenon DEF IInv, TypeOK
    <2>2. last.materials \in MaterialLists
        <3>1. <<last.envelope, last.materials>> \in Envelopes \X Seq(PublicKeys)
            <4>1. <<>> \in Seq(PublicKeys)
                OBVIOUS
            <4>2. last.materials \in MaterialLists \cup {<<>>} /\ last.envelope \in Envelopes
                BY <2>1, Zenon DEF Calls
            <4>3. last.materials \in Seq(PublicKeys)
                BY <4>1, <4>2, MaterialListsAreKeys, Zenon
            <4> QED
                BY <4>2, <4>3, Zenon
        <3>2. admitted \in Envelopes \X MaterialLists
            BY <3>1, NoneIsNoAdmission, Zenon DEF IInv, TypeOK
        <3> QED
            BY <3>2, Zenon
    <2>3. Sound(last.envelope, last.materials)
        BY <2>1, <2>2, Zenon DEF IInv, Calls
    <2>4. last.result \in {"Ok", "NoncePolicy"}
        BY <2>3, LastCall, AdmissionAnswers, Zenon
    <2> QED
        BY <2>4, Zenon DEF validation_outcome
<1> QED
    BY <1>1, Invariance, PTL

-----------------------------------------------------------------------------
(* The pure operations of the state are well typed.                        *)

\* Applying the writes of a patch gives a leaf map again.
LEMMA ApplyLeavesType ==
    ASSUME NEW leaves \in Leaves, NEW patch \in StatePatches
    PROVE  apply_leaves(leaves, patch) \in Leaves
<1>1. ASSUME NEW k \in Keys, Writes(patch, k) # {}
      PROVE  patch.new_values[CHOOSE i \in Writes(patch, k) : TRUE] \in Values
    <2>1. PICK i \in Writes(patch, k) : i = CHOOSE j \in Writes(patch, k) : TRUE
        BY <1>1, Zenon
    <2>2. i \in DOMAIN patch.new_values
        BY <2>1, Zenon DEF Writes
    <2> QED
        BY <2>1, <2>2 DEF StatePatches
<1> QED
    BY <1>1, Zenon DEF apply_leaves, Leaves

\* Writing the leaves of a patch and recomputing the root gives an accumulator.
LEMMA TransitionedType ==
    ASSUME NEW a \in Accumulators, NEW patch \in StatePatches
    PROVE  Transitioned(a, patch) \in Accumulators
BY ApplyLeavesType, Zenon DEF Transitioned, Accumulators, Roots, compute_reference_root

\* A transition, accepted or refused, leaves an accumulator and a known result.
LEMMA ApplierType ==
    ASSUME NEW a \in Accumulators, NEW root \in Roots, NEW patch \in StatePatches
    PROVE  /\ applier_apply_transition(a, root, patch).acc \in Accumulators
           /\ applier_apply_transition(a, root, patch).result \in {"Ok"} \cup TransitionErrors
BY TransitionedType, Zenon
DEF applier_apply_transition, apply_transition, PatchResult, TransitionErrors

-----------------------------------------------------------------------------
(* The inductive invariant.                                                *)

\* What ties the program counter to the result: an error ends the loop, and the
\* loop ends without one only when the block is used up.
LoopInv ==
    /\ pc = "executing" => result = Ok
    /\ pc \in {"executed", "compared"} /\ result = Ok => Len(outcomes) = Len(body)
    /\ pc = "executed" => result \notin MismatchErrors
    /\ Len(outcomes) <= Len(body)

ExecutionInv ==
    /\ ExecutionTypeOK
    /\ LoopInv
    /\ CursorCountsHandedOutPlans
    /\ ContinuityHolds
    /\ AcceptedBlockIsATransition

\* An applied patch leaves the applier at the root it reports, and only a call
\* made with the applier's own root is applied.
LEMMA ApplierContinuity ==
    ASSUME NEW a, NEW root, NEW patch,
           applier_apply_transition(a, root, patch).result = "Ok"
    PROVE  a.root = root
BY Zenon DEF applier_apply_transition

\* A refused transition leaves the accumulator alone.
LEMMA ApplierRefusal ==
    ASSUME NEW a, NEW root, NEW patch,
           applier_apply_transition(a, root, patch).result # "Ok"
    PROVE  applier_apply_transition(a, root, patch).acc = a
BY Zenon DEF applier_apply_transition, apply_transition

\* The kind of each result, which tells them apart.
LEMMA ResultKinds ==
    /\ Ok.kind = "Ok"
    /\ MissingStep.kind = "Executor" /\ RootMismatch.kind = "Executor"
    /\ \A e : StateTransition(e).kind = "StateTransition"
    /\ PostStateRootMismatch.kind = "PostStateRootMismatch"
    /\ ReceiptsRootMismatch.kind = "ReceiptsRootMismatch"
BY Zenon DEF Ok, MissingStep, RootMismatch, StateTransition, PostStateRootMismatch,
       ReceiptsRootMismatch, Result

\* The digest of no receipts is a receipts root.
LEMMA EmptyReceiptsRoot == compute_receipts_root(<<>>) \in ReceiptsRoots
<1>1. <<>> \in Seq(Receipts)
    OBVIOUS
<1> QED
    BY <1>1, Zenon DEF compute_receipts_root, ReceiptsRoots

\* A planner, an applier and no call satisfy the invariant.
LEMMA ExecutionInitInv == ExecutionInit => ExecutionInv
<1> SUFFICES ASSUME ExecutionInit PROVE ExecutionInv
    BY Zenon
<1>1. EmptyAccumulator \in Accumulators /\ ZeroRoot \in Roots
    BY Zenon DEF EmptyAccumulator, Accumulators, ZeroRoot, Roots, Leaves, NoLeaves
<1>2. NotCompared \in [state_root : Roots, receipts_root : ReceiptsRoots]
    BY <1>1, EmptyReceiptsRoot, Zenon DEF NotCompared
<1>3. ExecutionTypeOK
    BY <1>1, <1>2, PlanningsAreScripts DEF ExecutionInit, ExecutionTypeOK
<1>4. LoopInv
    BY DEF ExecutionInit, LoopInv
<1>5. CursorCountsHandedOutPlans
    BY ResultKinds DEF ExecutionInit, CursorCountsHandedOutPlans
<1>6. ContinuityHolds /\ AcceptedBlockIsATransition
    BY Zenon DEF ExecutionInit, ContinuityHolds, AcceptedBlockIsATransition
<1> QED
    BY <1>3, <1>4, <1>5, <1>6, Zenon DEF ExecutionInv

\* Entering execute_block preserves the invariant.
LEMMA BeginBlockIInv ==
    ASSUME ExecutionInv, NEW root \in KnownRoots, NEW transactions \in Bodies,
           BeginBlock(root, transactions)
    PROVE  ExecutionInv'
<1> USE DEF ExecutionInv, BeginBlock
<1>1. NotCompared \in [state_root : Roots, receipts_root : ReceiptsRoots]
    BY EmptyReceiptsRoot, Zenon DEF NotCompared, Roots
<1>2. ExecutionTypeOK'
    BY <1>1, KnownRootsAreRoots, BodiesAreTxLists DEF ExecutionTypeOK
<1>3. LoopInv'
    BY BodiesAreTxLists DEF LoopInv
<1>4. CursorCountsHandedOutPlans'
    BY ResultKinds DEF CursorCountsHandedOutPlans, ExecutionTypeOK
<1> QED
    BY <1>2, <1>3, <1>4, Zenon DEF ContinuityHolds, AcceptedBlockIsATransition

\* A refusal of the executor preserves the invariant.
LEMMA ExecutorRefusesIInv == ExecutionInv /\ ExecutorRefuses => ExecutionInv'
<1> SUFFICES ASSUME ExecutionInv, ExecutorRefuses PROVE ExecutionInv'
    BY Zenon
<1>1. result' \in {MissingStep, RootMismatch} /\ result' # Ok /\ result = Ok
    BY Zenon DEF ExecutorRefuses, ExecutorResult, ExecutionInv, LoopInv
<1>2. pc' = "executed" /\ UNCHANGED <<planned, next_index, acc, pre_state_root, body,
                                      current_state_root, outcomes, committed, start>>
    BY Zenon DEF ExecutorRefuses
<1>3. ExecutionTypeOK'
    BY <1>1, <1>2, Zenon DEF ExecutionInv, ExecutionTypeOK, ExecutionErrors
<1>4. LoopInv'
    BY <1>1, <1>2, ResultKinds, Zenon DEF ExecutionInv, LoopInv, MismatchErrors
<1>5. CursorCountsHandedOutPlans'
    BY <1>1, <1>2, ResultKinds, Zenon DEF ExecutionInv, CursorCountsHandedOutPlans
<1>6. ContinuityHolds' /\ AcceptedBlockIsATransition'
    BY <1>1, <1>2, Zenon DEF ExecutionInv, ContinuityHolds, AcceptedBlockIsATransition
<1> QED
    BY <1>3, <1>4, <1>5, <1>6, Zenon DEF ExecutionInv

\* Cursors and lengths are numbers.
LEMMA ExecutionNumbers ==
    ASSUME ExecutionTypeOK
    PROVE  /\ next_index \in Nat /\ Len(planned) \in Nat /\ start.next_index \in Nat
           /\ Len(outcomes) \in Nat /\ Len(body) \in Nat
<1>1. /\ planned \in Seq(PlannedTransactions) /\ outcomes \in Seq(Outcomes) /\ body \in Seq(TxRoots)
      /\ next_index \in 0 .. Len(planned)
      /\ start \in [next_index : 0 .. Len(planned), acc : Accumulators]
    BY Zenon DEF ExecutionTypeOK
<1> QED
    BY ONLY <1>1, SMTT(30)

\* A plan that is handed out is one of the script.
LEMMA PlanIsLeft ==
    ASSUME ExecutionTypeOK, ExecuteTransaction
    PROVE  next_index < Len(planned)
<1>1. ~ next_index >= Len(planned)
    BY ResultKinds, Zenon DEF ExecuteTransaction, ExecutorResult
<1>2. next_index \in Nat /\ Len(planned) \in Nat
    BY ExecutionNumbers, Zenon
<1> QED
    BY ONLY <1>1, <1>2, SMTT(30)

\* A turn of the loop preserves the invariant, whether its patch is applied or not.
LEMMA ExecuteTransactionIInv == ExecutionInv /\ ExecuteTransaction => ExecutionInv'
<1> SUFFICES ASSUME ExecutionInv, ExecuteTransaction PROVE ExecutionInv'
    BY Zenon
<1> DEFINE tx == body[Len(outcomes) + 1]
           plan == planned[next_index + 1].plan
           transition == applier_apply_transition(acc, current_state_root, plan.state_patch)
<1>1. /\ pc = "executing" /\ Len(outcomes) < Len(body) /\ result = Ok
      /\ next_index' = next_index + 1
      /\ acc' = transition.acc
      /\ UNCHANGED <<planned, pre_state_root, body, committed, start>>
    BY Zenon DEF ExecuteTransaction, ExecutionInv, LoopInv
<1>2. next_index + 1 \in 1 .. Len(planned) /\ plan \in Plans /\ tx \in TxRoots
    <2>1. next_index < Len(planned)
        BY PlanIsLeft, Zenon DEF ExecutionInv
    <2>2. next_index + 1 \in 1 .. Len(planned) /\ Len(outcomes) + 1 \in 1 .. Len(body)
        <3>1. /\ next_index \in Nat /\ Len(planned) \in Nat
              /\ Len(outcomes) \in Nat /\ Len(body) \in Nat
            BY ExecutionNumbers, Zenon DEF ExecutionInv
        <3> QED
            BY ONLY <1>1, <2>1, <3>1, SMTT(30)
    <2>3. planned[next_index + 1] \in PlannedTransactions /\ tx \in TxRoots
        <3>1. planned \in Seq(PlannedTransactions) /\ body \in Seq(TxRoots)
            BY Zenon DEF ExecutionInv, ExecutionTypeOK
        <3> QED
            BY ONLY <2>2, <3>1, SMTT(30)
    <2> QED
        BY <2>2, <2>3, Zenon DEF PlannedTransactions
<1>3. transition.acc \in Accumulators /\ transition.result \in {"Ok"} \cup TransitionErrors
    BY <1>2, ApplierType, PatchesAreStatePatches, Zenon DEF Plans, ExecutionInv, ExecutionTypeOK
<1>4. next_index' \in 0 .. Len(planned') /\ acc' \in Accumulators
    BY <1>1, <1>2, <1>3
<1>5. CASE transition.result = "Ok"
    <2> DEFINE outcome == [transaction_root |-> tx, post_state_root |-> transition.acc.root,
                           receipt |-> plan.receipt]
    <2>1. /\ current_state_root' = transition.acc.root
          /\ outcomes' = Append(outcomes, outcome)
          /\ result' = result /\ pc' = pc
        BY <1>5, Zenon DEF ExecuteTransaction
    <2>2. current_state_root = acc.root
        BY <1>5, ApplierContinuity, Zenon
    <2>3. outcome \in Outcomes
        BY <1>2, <1>3, Zenon DEF Outcomes, Plans, Accumulators
    <2> HIDE DEF outcome, transition, plan, tx
    <2>4. outcomes' \in Seq(Outcomes) /\ Len(outcomes') = Len(outcomes) + 1
        BY <2>1, <2>3 DEF ExecutionInv, ExecutionTypeOK
    <2>5. ExecutionTypeOK'
        BY <1>1, <1>3, <1>4, <2>1, <2>4, Zenon DEF ExecutionInv, ExecutionTypeOK, Accumulators
    <2>6. LoopInv'
        BY ONLY <1>1, <2>1, <2>4, SMTT(30) DEF ExecutionInv, LoopInv, ExecutionTypeOK
    <2>7. CursorCountsHandedOutPlans'
        BY <1>1, <2>1, <2>4, ResultKinds, SMTT(30) DEF ExecutionInv, CursorCountsHandedOutPlans, ExecutionTypeOK
    <2>8. ContinuityHolds'
        <3>1. pre_state_root = start.acc.root
            BY <2>2, Zenon DEF ExecutionInv, ContinuityHolds
        <3>2. outcomes' # <<>>
            BY <2>4 DEF ExecutionInv, ExecutionTypeOK
        <3> QED
            BY <3>1, <3>2, <1>1, <2>1, Zenon DEF ContinuityHolds
    <2>9. AcceptedBlockIsATransition'
        BY <1>1, <2>1, ZenonT(40) DEF AcceptedBlockIsATransition
    <2> QED
        BY <2>5, <2>6, <2>7, <2>8, <2>9, Zenon DEF ExecutionInv
<1>6. CASE transition.result # "Ok"
    <2>1. /\ result' = StateTransition(transition.result)
          /\ pc' = "executed"
          /\ UNCHANGED <<current_state_root, outcomes>>
        BY <1>6, Zenon DEF ExecuteTransaction
    <2>2. acc' = acc
        BY <1>1, <1>6, ApplierRefusal, Zenon
    <2>3. result' \in ExecutionErrors
        BY <1>3, <1>6, <2>1, Zenon DEF ExecutionErrors
    <2> HIDE DEF transition, plan, tx
    <2>4. result'.kind = "StateTransition"
        BY <2>1, ResultKinds, Zenon
    <2>5. result' # Ok /\ result' \notin MismatchErrors
        BY <2>4, ResultKinds, Zenon DEF MismatchErrors
    <2>6. ExecutionTypeOK'
        BY <1>1, <1>4, <2>1, <2>2, <2>3, Zenon DEF ExecutionInv, ExecutionTypeOK
    <2>7. LoopInv'
        BY <1>1, <2>1, <2>5, Zenon DEF ExecutionInv, LoopInv
    <2>8. CursorCountsHandedOutPlans'
        BY <1>1, <2>1, <2>4, ResultKinds, SMTT(30) DEF ExecutionInv, CursorCountsHandedOutPlans, ExecutionTypeOK
    <2>9. ContinuityHolds' /\ AcceptedBlockIsATransition'
        BY <1>1, <2>1, <2>2, ZenonT(40) DEF ExecutionInv, ContinuityHolds, AcceptedBlockIsATransition
    <2> QED
        BY <2>6, <2>7, <2>8, <2>9, Zenon DEF ExecutionInv
<1> QED
    BY <1>5, <1>6, Zenon

\* Reaching the end of the block preserves the invariant.
LEMMA FinishBlockIInv == ExecutionInv /\ FinishBlock => ExecutionInv'
<1> SUFFICES ASSUME ExecutionInv, FinishBlock PROVE ExecutionInv'
    BY Zenon
<1>1. result = Ok
    BY Zenon DEF ExecutionInv, LoopInv, FinishBlock
<1>2. ExecutionTypeOK'
    BY Zenon DEF ExecutionInv, ExecutionTypeOK, FinishBlock
<1>3. LoopInv'
    BY <1>1, ResultKinds, Zenon DEF ExecutionInv, LoopInv, FinishBlock, MismatchErrors
<1> QED
    BY <1>2, <1>3, Zenon DEF ExecutionInv, FinishBlock, CursorCountsHandedOutPlans, ContinuityHolds,
                      AcceptedBlockIsATransition

\* The comparison with the committed roots preserves the invariant.
LEMMA ExecuteAndCompareIInv ==
    ASSUME ExecutionInv, NEW root \in KnownRoots, NEW receipts \in ReceiptLists,
           ExecuteAndCompare([state_root |-> root,
                              receipts_root |-> compute_receipts_root(receipts)])
    PROVE  ExecutionInv'
<1> DEFINE roots == [state_root |-> root, receipts_root |-> compute_receipts_root(receipts)]
<1>1. roots \in [state_root : Roots, receipts_root : ReceiptsRoots]
    BY KnownRootsAreRoots, ReceiptListsAreLists, Zenon DEF ReceiptsRoots, compute_receipts_root
<1>2. /\ pc = "executed" /\ pc' = "compared" /\ committed' = roots
      /\ result' = IF result = Ok THEN ensure_matches(roots) ELSE result
      /\ UNCHANGED <<planned, next_index, acc, pre_state_root, body, current_state_root,
                     outcomes, start>>
    BY Zenon DEF ExecuteAndCompare
<1> HIDE DEF roots
<1>3. /\ ensure_matches(roots) \in {Ok} \cup MismatchErrors
      /\ ensure_matches(roots) = Ok => /\ current_state_root = roots.state_root
                                       /\ receipts_root = roots.receipts_root
    BY ResultKinds, Zenon DEF ensure_matches, MismatchErrors
<1>4. ExecutionTypeOK'
    BY <1>1, <1>2, <1>3, Zenon DEF ExecutionInv, ExecutionTypeOK
<1>5. LoopInv'
    BY <1>2, Zenon DEF ExecutionInv, LoopInv
<1>6. CursorCountsHandedOutPlans'
    <2>1. result'.kind = "StateTransition" <=> result.kind = "StateTransition"
        BY <1>2, <1>3, ResultKinds, Zenon DEF MismatchErrors
    <2> QED
        BY <1>2, <2>1, Zenon DEF ExecutionInv, CursorCountsHandedOutPlans
<1>7. ContinuityHolds'
    BY <1>2, Zenon DEF ExecutionInv, ContinuityHolds
<1>8. AcceptedBlockIsATransition'
    <2> SUFFICES ASSUME result' = Ok
                 PROVE  /\ roots.receipts_root = receipts_root
                        /\ Len(outcomes) = Len(body)
                        /\ IF body = <<>>
                           THEN roots.state_root = pre_state_root /\ acc = start.acc
                           ELSE roots.state_root = acc.root /\ pre_state_root = start.acc.root
        BY <1>2, Zenon DEF AcceptedBlockIsATransition, receipts_root
    <2>1. result = Ok /\ ensure_matches(roots) = Ok
        BY <1>2, Zenon
    <2>2. Len(outcomes) = Len(body)
        BY <1>2, <2>1, Zenon DEF ExecutionInv, LoopInv
    <2>3. body = <<>> <=> outcomes = <<>>
        BY <2>2 DEF ExecutionInv, ExecutionTypeOK
    <2> QED
        BY <1>3, <2>1, <2>2, <2>3, Zenon DEF ExecutionInv, ContinuityHolds
<1> QED
    BY <1>4, <1>5, <1>6, <1>7, <1>8, Zenon DEF ExecutionInv

\* The inductive invariant holds in every reachable state.
THEOREM ExecutionInvariance == ExecutionSpec => []ExecutionInv
<1>1. ExecutionInv /\ UNCHANGED executionVars => ExecutionInv'
    BY Zenon DEF executionVars, ExecutionInv, ExecutionTypeOK, LoopInv, CursorCountsHandedOutPlans, ContinuityHolds,
           AcceptedBlockIsATransition, receipts_root
<1>2. ExecutionInv /\ [ExecutionNext]_executionVars => ExecutionInv'
    BY <1>1, BeginBlockIInv, ExecutorRefusesIInv, ExecuteTransactionIInv, FinishBlockIInv,
       ExecuteAndCompareIInv, Zenon DEF ExecutionNext
<1> QED
    BY <1>2, ExecutionInitInv, PTL DEF ExecutionSpec

\* The variables always hold values of their types; in particular the cursor
\* never runs past the script.
THEOREM ExecutionTypeCorrect == ExecutionSpec => []ExecutionTypeOK
<1>1. ExecutionInv => ExecutionTypeOK
    BY Zenon DEF ExecutionInv
<1> QED
    BY <1>1, ExecutionInvariance, PTL

\* One plan is handed out per executed transaction, and one more exactly when
\* the applier refused it.
THEOREM CursorAlwaysCounts == ExecutionSpec => []CursorCountsHandedOutPlans
<1>1. ExecutionInv => CursorCountsHandedOutPlans
    BY Zenon DEF ExecutionInv
<1> QED
    BY <1>1, ExecutionInvariance, PTL

\* Roots are continuous through a block, and a stale pre_state_root changes nothing.
THEOREM ContinuityAlwaysHolds == ExecutionSpec => []ContinuityHolds
<1>1. ExecutionInv => ContinuityHolds
    BY Zenon DEF ExecutionInv
<1> QED
    BY <1>1, ExecutionInvariance, PTL

\* An accepted block takes the applier from its pre_state_root to the committed root.
THEOREM AcceptedIsAlwaysATransition == ExecutionSpec => []AcceptedBlockIsATransition
<1>1. ExecutionInv => AcceptedBlockIsATransition
    BY Zenon DEF ExecutionInv
<1> QED
    BY <1>1, ExecutionInvariance, PTL

-----------------------------------------------------------------------------
(* The effects of a block, by induction over its transactions.             *)

\* The number of plans a call finds.
PlansLeft == Len(planned) - start.next_index

\* Replay is well defined: it starts with the accumulator the call found and
\* applies one planned patch after the other.
LEMMA ReplayUnfolds ==
    ASSUME ExecutionTypeOK
    PROVE  /\ PlansLeft \in Nat
           /\ Replay \in [0 .. PlansLeft -> Accumulators]
           /\ Replay[0] = start.acc
           /\ \A n \in 1 .. PlansLeft : Replay[n] = Transitioned(Replay[n - 1], PatchOf(n))
<1> DEFINE step == [n \in 1 .. PlansLeft |-> [a \in Accumulators |-> Transitioned(a, PatchOf(n))]]
           Unfolds(f) == f = [n \in 0 .. PlansLeft |->
                                IF n = 0 THEN start.acc ELSE Transitioned(f[n - 1], PatchOf(n))]
<1>1. PlansLeft \in Nat
    BY DEF ExecutionTypeOK, PlansLeft
<1>2. ASSUME NEW n \in 1 .. PlansLeft PROVE PatchOf(n) \in StatePatches
    <2>1. start.next_index + n \in 1 .. Len(planned)
        BY DEF ExecutionTypeOK, PlansLeft
    <2>2. planned[start.next_index + n] \in PlannedTransactions
        BY <2>1 DEF ExecutionTypeOK
    <2> QED
        BY <2>2, PatchesAreStatePatches, Zenon DEF PatchOf, PlannedTransactions, Plans
<1>3. step \in [1 .. PlansLeft -> [Accumulators -> Accumulators]]
    BY <1>2, TransitionedType, Zenon
<1>4. PICK f \in [0 .. PlansLeft -> Accumulators] : Follows(f, PlansLeft, start.acc, step)
    <2>1. start.acc \in Accumulators
        BY Zenon DEF ExecutionTypeOK
    <2> HIDE DEF step
    <2> QED
        BY <1>1, <1>3, <2>1, Recursion, Zenon
<1>5. Unfolds(f)
    <2>1. ASSUME NEW n \in 1 .. PlansLeft PROVE f[n] = Transitioned(f[n - 1], PatchOf(n))
        <3>1. f[n - 1] \in Accumulators
            BY <1>1
        <3> QED
            BY <1>4, <3>1, Zenon DEF Follows
    <2> QED
        BY <1>1, <1>4, <2>1 DEF Follows
<1>6. Unfolds(Replay)
    <2>1. Replay = CHOOSE g : Unfolds(g)
        BY Zenon DEF Replay, PlansLeft
    <2> HIDE DEF Unfolds
    <2> QED
        BY <1>5, <2>1, Zenon
<1>7. /\ Replay[0] = start.acc
      /\ \A n \in 1 .. PlansLeft : Replay[n] = Transitioned(Replay[n - 1], PatchOf(n))
    BY <1>1, <1>6
<1> DEFINE Typed == {n \in 0 .. PlansLeft : Replay[n] \in Accumulators}
<1>8. 0 .. PlansLeft \subseteq Typed
    <2>1. 0 \in Typed
        BY <1>1, <1>7 DEF ExecutionTypeOK
    <2>2. ASSUME NEW n \in 0 .. PlansLeft - 1, n \in Typed PROVE n + 1 \in Typed
        <3>1. n + 1 \in 1 .. PlansLeft /\ (n + 1) - 1 = n
            BY <1>1
        <3> QED
            BY <1>2, <1>7, <2>2, <3>1, TransitionedType
    <2> HIDE DEF Typed
    <2> QED
        BY ONLY <1>1, <2>1, <2>2, BoundedInduction, Zenon
<1> QED
    BY <1>1, <1>6, <1>7, <1>8, Zenon

\* What an applied patch leaves behind.
LEMMA ApplierApplies ==
    ASSUME NEW a, NEW root, NEW patch,
           applier_apply_transition(a, root, patch).result = "Ok"
    PROVE  applier_apply_transition(a, root, patch).acc = Transitioned(a, patch)
BY Zenon DEF applier_apply_transition, apply_transition, PatchResult

\* Replay starts with the accumulator the call found.
ReplayAtStart == ExecutionTypeOK => Replay[0] = start.acc

\* It does in every state, so in the one a step leads to.
LEMMA ReplayStarts == ReplayAtStart
BY ReplayUnfolds, Zenon DEF ReplayAtStart

\* Entering execute_block: nothing is reported and nothing has happened.
LEMMA BeginBlockEffects ==
    ASSUME ExecutionInv', NEW root, NEW transactions, BeginBlock(root, transactions)
    PROVE  EffectsAreTheReportedPrefix'
<1>1. outcomes' = <<>> /\ acc' = start'.acc
    BY Zenon DEF BeginBlock
<1>2. ReplayAtStart'
    BY ReplayStarts, PTL
<1> QED
    BY <1>1, <1>2 DEF EffectsAreTheReportedPrefix, ExecutionInv, ReplayAtStart

\* A turn of the loop adds one transaction to the effects and to the report, or
\* to neither.
LEMMA ExecuteTransactionEffects ==
    ExecutionInv /\ ExecuteTransaction /\ EffectsAreTheReportedPrefix => EffectsAreTheReportedPrefix'
<1> SUFFICES ASSUME ExecutionInv, ExecuteTransaction, EffectsAreTheReportedPrefix
             PROVE  EffectsAreTheReportedPrefix'
    BY Zenon
<1> DEFINE n == Len(outcomes) + 1
           plan == planned[next_index + 1].plan
           transition == applier_apply_transition(acc, current_state_root, plan.state_patch)
<1>1. /\ pc = "executing" /\ result = Ok
      /\ acc' = transition.acc
      /\ UNCHANGED <<planned, body, start>>
    BY Zenon DEF ExecuteTransaction, ExecutionInv, LoopInv
<1>2. Replay' = Replay
    BY ONLY <1>1, SMTT(30) DEF Replay, PatchOf
<1>3. CASE transition.result = "Ok"
    <2> DEFINE outcome == [transaction_root |-> body[n], post_state_root |-> transition.acc.root,
                           receipt |-> plan.receipt]
    <2>1. outcomes' = Append(outcomes, outcome)
        BY <1>3, Zenon DEF ExecuteTransaction
    <2>2. next_index + 1 = start.next_index + n /\ n \in 1 .. PlansLeft
        <3>1. next_index < Len(planned)
            BY PlanIsLeft, Zenon DEF ExecutionInv
        <3>2. /\ next_index \in Nat /\ Len(planned) \in Nat
              /\ Len(outcomes) \in Nat /\ start.next_index \in Nat
            BY ExecutionNumbers, Zenon DEF ExecutionInv
        <3>3. next_index = start.next_index + Len(outcomes) + 0
            BY <1>1, ResultKinds, Zenon DEF ExecutionInv, CursorCountsHandedOutPlans
        <3> QED
            BY ONLY <3>1, <3>2, <3>3, SMTT(30) DEF PlansLeft
    <2>3. acc' = Replay[n]
        <3>1. acc' = Transitioned(acc, plan.state_patch)
            BY <1>1, <1>3, ApplierApplies
        <3>2. plan.state_patch = PatchOf(n)
            BY <2>2, Zenon DEF PatchOf
        <3>3. n - 1 = Len(outcomes)
            BY DEF ExecutionInv, ExecutionTypeOK
        <3>4. acc = Replay[n - 1]
            BY <3>3, Zenon DEF EffectsAreTheReportedPrefix
        <3>5. Replay[n] = Transitioned(Replay[n - 1], PatchOf(n))
            BY <2>2, ReplayUnfolds, ZenonT(40) DEF ExecutionInv
        <3> QED
            BY <3>1, <3>2, <3>4, <3>5, Zenon
    <2>4. /\ Len(outcomes') = n
          /\ outcomes'[n] = outcome
          /\ \A i \in 1 .. Len(outcomes) : outcomes'[i] = outcomes[i]
        BY ONLY <2>1, SMTT(30) DEF ExecutionInv, ExecutionTypeOK
    <2>5. ASSUME NEW i \in 1 .. n
          PROVE  /\ outcomes'[i].transaction_root = body[i]
                 /\ outcomes'[i].post_state_root = Replay[i].root
                 /\ outcomes'[i].receipt = planned[start.next_index + i].plan.receipt
        <3>1. CASE i \in 1 .. Len(outcomes)
            BY <2>4, <3>1, Zenon DEF EffectsAreTheReportedPrefix
        <3>2. CASE i = n
            BY ONLY <1>1, <2>2, <2>3, <2>4, <3>2, SMTT(30)
        <3> QED
            BY <3>1, <3>2, SMTT(30) DEF ExecutionInv, ExecutionTypeOK
    <2> HIDE DEF n
    <2> QED
        BY <1>1, <1>2, <2>3, <2>4, <2>5, Zenon DEF EffectsAreTheReportedPrefix
<1>4. CASE transition.result # "Ok"
    <2>1. acc' = acc /\ outcomes' = outcomes
        BY <1>1, <1>4, ApplierRefusal, Zenon DEF ExecuteTransaction
    <2> QED
        BY <1>1, <1>2, <2>1, Zenon DEF EffectsAreTheReportedPrefix
<1> QED
    BY <1>3, <1>4, Zenon

\* However far a block got, and whether or not it failed, the shared accumulator
\* results from exactly the transactions that execute_block reports.
THEOREM EffectsAreAlwaysTheReportedPrefix == ExecutionSpec => []EffectsAreTheReportedPrefix
<1>1. ExecutionInit => EffectsAreTheReportedPrefix
    BY ONLY ExecutionInitInv, ReplayUnfolds, SMTT(30) DEF ExecutionInit, ExecutionInv, EffectsAreTheReportedPrefix
<1>2. ASSUME EffectsAreTheReportedPrefix,
             UNCHANGED <<planned, acc, body, outcomes, start>>
      PROVE  EffectsAreTheReportedPrefix'
    BY ONLY <1>2, SMTT(30) DEF EffectsAreTheReportedPrefix, Replay, PatchOf
<1>3. ExecutionInv /\ ExecutionInv' /\ EffectsAreTheReportedPrefix /\ [ExecutionNext]_executionVars
        => EffectsAreTheReportedPrefix'
    BY <1>2, BeginBlockEffects, ExecuteTransactionEffects, Zenon
       DEF ExecutionNext, executionVars, ExecutorRefuses, FinishBlock, ExecuteAndCompare
<1> QED
    BY <1>1, <1>3, ExecutionInvariance, PTL DEF ExecutionSpec

=============================================================================
