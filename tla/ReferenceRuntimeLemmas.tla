----------------------- MODULE ReferenceRuntimeLemmas -----------------------
(***************************************************************************)
(* What the functions of the local reference runtime answer, for any       *)
(* vectors, dispatchers, policies, resolvers, offered transactions and     *)
(* keys.                                                                   *)
(***************************************************************************)
EXTENDS ReferenceRuntime, NaturalLemmas, TLAPS

-----------------------------------------------------------------------------
(* The checks of admission.                                                *)

\* Length and elements of a concatenation.
LEMMA Concatenation ==
    ASSUME NEW S, NEW s \in Seq(S), NEW t \in Seq(S)
    PROVE  /\ s \o t \in Seq(S) /\ Len(s \o t) = Len(s) + Len(t)
           /\ \A i \in 1 .. Len(s) + Len(t) :
                (s \o t)[i] = IF i <= Len(s) THEN s[i] ELSE t[i - Len(s)]
OBVIOUS

\* A non-empty set of positions has a first one, and CHOOSE finds it.
LEMMA FirstOf ==
    ASSUME NEW T \in SUBSET Nat, T # {}
    PROVE  (CHOOSE i \in T : \A j \in T : i <= j) \in T
BY LeastNatural, Zenon

DispatchErrors == {"Ok", "UnsupportedScheme", "VerificationFailed", "SignatureSizeExceeded"}

\* The dispatcher answers one of its errors, a size error with the kind of limit, and
\* Ok only where a verifier of the scheme accepts.
LEMMA DispatcherAnswers ==
    ASSUME NEW c, NEW vs \in Seq(Verifiers), NEW s, NEW r, NEW p
    PROVE  LET answer == verify_for_path(c, vs, s, r, p)
           IN  /\ answer.error \in DispatchErrors
               /\ answer.error = "SignatureSizeExceeded" => answer.kind \in LimitKinds
               /\ answer.error = "Ok" =>
                     \E n \in DOMAIN vs : vs[n].scheme_id = s /\ verify(vs[n], r)
<1> DEFINE first == FirstEntry(vs, s)
<1>1. CASE Entries(vs, s) = {}
    BY <1>1, Zenon DEF verify_for_path, UnsupportedScheme, CryptoResult, DispatchErrors
<1>2. CASE Entries(vs, s) # {}
    <2>1. Entries(vs, s) \in SUBSET Nat
        BY DEF Entries
    <2>2. first \in Entries(vs, s)
        BY <1>2, <2>1, FirstOf, Zenon DEF FirstEntry
    <2>3. first \in DOMAIN vs /\ vs[first].scheme_id = s
        BY <2>2, Zenon DEF Entries
    <2>4. verify_for_path(c, vs, s, r, p) = VerifyWith(c, vs[first], r, p)
        BY <1>2, Zenon DEF verify_for_path
    <2>5. \A limit \in max_signature_size(c, vs[first], p) : limit.kind \in LimitKinds
        BY DEF max_signature_size, ConfiguredLimit, LimitKinds
    <2>6. LET answer == VerifyWith(c, vs[first], r, p)
          IN  /\ answer.error \in DispatchErrors
              /\ answer.error = "SignatureSizeExceeded" => answer.kind \in LimitKinds
              /\ answer.error = "Ok" => verify(vs[first], r)
        BY <2>5, Zenon
           DEF VerifyWith, CryptoOk, VerificationFailed, SignatureSizeExceeded, CryptoResult,
            DispatchErrors
    <2> QED
        BY <2>3, <2>4, <2>6, Zenon
<1> QED
    BY <1>1, <1>2, Zenon

\* An authorization passes only where a verifier of its scheme accepts it for the
\* payload that was screened.
LEMMA AuthorizationAnswers ==
    ASSUME registry \in Registries, NEW e, NEW a, NEW ms, NEW i
    PROVE  /\ AuthorizationResult(e, a, ms, i) \in {"Ok"} \cup CryptoErrors
           /\ AuthorizationResult(e, a, ms, i) = "Ok" =>
                \E n \in DOMAIN registry.verifiers :
                    /\ registry.verifiers[n].scheme_id = e.authorizations[i].scheme_id
                    /\ verify(registry.verifiers[n],
                              [public_key_material |-> ms[i],
                               signing_root |-> signing_root(a.payload_root),
                               signature |-> e.authorizations[i].signature])
<1> DEFINE r == [public_key_material |-> ms[i], signing_root |-> signing_root(a.payload_root),
                 signature |-> e.authorizations[i].signature]
           answer == verify_for_path(registry.config, registry.verifiers,
                                     e.authorizations[i].scheme_id, r,
                                     "TransactionAuthorization")
<1>1. registry.verifiers \in Seq(Verifiers)
    BY RegistriesAreDispatchers, Zenon
<1>2. AuthorizationResult(e, a, ms, i) = map_crypto_error(answer.error)
    BY Zenon DEF AuthorizationResult
<1>3. answer.error \in DispatchErrors
    BY <1>1, DispatcherAnswers
<1>4. ASSUME answer.error = "Ok"
      PROVE  \E n \in DOMAIN registry.verifiers :
                /\ registry.verifiers[n].scheme_id = e.authorizations[i].scheme_id
                /\ verify(registry.verifiers[n], r)
    BY <1>1, <1>4, DispatcherAnswers
<1> QED
    BY <1>2, <1>3, <1>4, Zenon DEF map_crypto_error, CryptoErrors, DispatchErrors

\* RequireAll: Ok only where every authorization passes, each with a key beside it.
LEMMA VerificationAnswers ==
    ASSUME registry \in Registries, NEW e \in AllEnvelopes, NEW a, NEW ms
    PROVE  LET answer == verify_authorizations(e, a, ms).result
           IN  /\ answer \in {"Ok", "AuthorizationMaterialCount"} \cup CryptoErrors
               /\ answer = "Ok" =>
                     /\ Len(ms) = Len(e.authorizations)
                     /\ \A i \in 1 .. Len(e.authorizations) :
                           AuthorizationResult(e, a, ms, i) = "Ok"
<1> DEFINE count == Len(e.authorizations)
           Failing == {i \in 1 .. count : AuthorizationResult(e, a, ms, i) # "Ok"}
           first == CHOOSE i \in Failing : \A j \in Failing : i <= j
<1>1. count \in Nat
    BY DEF AllEnvelopes
<1>2. CASE Len(ms) # count
    BY <1>2, Zenon DEF verify_authorizations
<1>3. CASE Len(ms) = count /\ Failing # {}
    <2>1. Failing \in SUBSET Nat
        BY <1>1
    <2>2. first \in Failing
        BY <1>3, <2>1, FirstOf, Zenon
    <2>3. verify_authorizations(e, a, ms).result = AuthorizationResult(e, a, ms, first)
        BY <1>3, Zenon DEF verify_authorizations
    <2> HIDE DEF first
    <2>4. AuthorizationResult(e, a, ms, first) \in CryptoErrors
        BY <2>2, AuthorizationAnswers, Zenon
    <2> QED
        BY <2>3, <2>4, Zenon DEF CryptoErrors
<1>4. CASE Len(ms) = count /\ Failing = {}
    <2>1. verify_authorizations(e, a, ms).result = "Ok"
        BY <1>4, Zenon DEF verify_authorizations
    <2> QED
        BY <1>4, <2>1, Zenon
<1> QED
    BY <1>2, <1>3, <1>4, Zenon

\* What does not depend on the observed nonce: every check of admission but one.
Sound(envelope, materials) ==
    /\ check_authorization_count(envelope)
    /\ check_authorization_payload_roots(envelope)
    /\ check_user_signature_sizes(envelope)
    /\ check_fee_policy(envelope)
    /\ verify_authorizations(envelope, TentativeAccepted(envelope), materials).result = "Ok"

\* Admission answers one of its results, accepts only what is sound, and refuses what
\* is sound for its nonce at most.
LEMMA AdmissionAnswers ==
    ASSUME registry \in Registries, NEW e \in AllEnvelopes, NEW ms \in Seq(PublicKeys)
    PROVE  LET answer == admit_and_verify(e, ms).result
           IN  /\ answer \in Results
               /\ answer = "Ok" => Sound(e, ms)
               /\ Sound(e, ms) => answer \in {"Ok", "NoncePolicy"}
<1> DEFINE screened == TentativeAccepted(e)
           answer == admit_and_verify(e, ms).result
<1>1. /\ screen_transaction(e) \in {"Ok"} \cup ScreeningErrors
      /\ screen_transaction(e) = "Ok" =>
            /\ check_authorization_count(e)
            /\ check_authorization_payload_roots(e)
            /\ check_user_signature_sizes(e)
            /\ check_fee_policy(e)
      /\ Sound(e, ms) => screen_transaction(e) \in {"Ok", "NoncePolicy"}
    BY Zenon DEF screen_transaction, ScreeningErrors, Sound
<1>2. answer = IF screen_transaction(e) # "Ok" THEN screen_transaction(e)
               ELSE verify_authorizations(e, screened, ms).result
    BY Zenon DEF admit_and_verify
<1>3. answer \in Results
    BY <1>1, <1>2, VerificationAnswers, Zenon DEF Results
<1>4. ASSUME answer = "Ok" PROVE Sound(e, ms)
    BY <1>1, <1>2, <1>4, Zenon DEF Sound
<1>5. ASSUME Sound(e, ms) PROVE answer \in {"Ok", "NoncePolicy"}
    BY <1>1, <1>2, <1>5, Zenon DEF Sound
<1> QED
    BY <1>3, <1>4, <1>5, Zenon

-----------------------------------------------------------------------------
(* Block import.                                                           *)

\* import_block answers Ok where every check passes, and the error of one otherwise.
LEMMA ImportAnswers ==
    ASSUME NEW import, NEW count \in Nat, DOMAIN import.body.transactions = 1 .. count
    PROVE  LET answer == import_block(import)
               Checks == {Import!prefilter_header(import, max_witness_bytes),
                          Import!verify_body_binding(import),
                          Import!verify_header_signature(import),
                          Import!verify_sidecar_binding(import),
                          Import!execute_and_compare(import)}
                           \cup {Import!revalidate(import, i) : i \in 1 .. count}
           IN  \/ answer = Import!Ok /\ Checks = {Import!Ok}
               \/ answer # Import!Ok /\ answer \in Checks
<1> DEFINE opening == <<Import!prefilter_header(import, max_witness_bytes),
                        Import!verify_body_binding(import),
                        Import!verify_header_signature(import)>>
           body == [i \in DOMAIN import.body.transactions |-> Import!revalidate(import, i)]
           closing == <<Import!verify_sidecar_binding(import),
                        Import!execute_and_compare(import)>>
           checks == opening \o body \o closing
           Checks == {Import!prefilter_header(import, max_witness_bytes),
                      Import!verify_body_binding(import),
                      Import!verify_header_signature(import),
                      Import!verify_sidecar_binding(import),
                      Import!execute_and_compare(import)}
                       \cup {Import!revalidate(import, i) : i \in 1 .. count}
           Failing == {i \in DOMAIN checks : checks[i] # Import!Ok}
           first == CHOOSE i \in Failing : \A j \in Failing : i <= j
<1>1. import_block(import) = IF Failing = {} THEN Import!Ok ELSE checks[first]
    BY Zenon DEF import_block
<1>2. DOMAIN checks = 1 .. count + 5 /\ {checks[i] : i \in DOMAIN checks} = Checks
    <2>1. opening \in Seq(Checks) /\ Len(opening) = 3
        OBVIOUS
    <2>2. body \in Seq(Checks) /\ Len(body) = count
        OBVIOUS
    <2>3. closing \in Seq(Checks) /\ Len(closing) = 2
        OBVIOUS
    <2>4. /\ opening \o body \in Seq(Checks) /\ Len(opening \o body) = 3 + count
          /\ \A i \in 1 .. 3 : (opening \o body)[i] = opening[i]
          /\ \A i \in 1 .. count : (opening \o body)[i + 3] = body[i]
        <3> HIDE DEF opening, body, Checks
        <3>1. /\ opening \o body \in Seq(Checks)
              /\ Len(opening \o body) = Len(opening) + Len(body)
              /\ \A i \in 1 .. Len(opening) + Len(body) : (opening \o body)[i] =
                    IF i <= Len(opening) THEN opening[i] ELSE body[i - Len(opening)]
            BY <2>1, <2>2, Concatenation, Zenon
        <3> DEFINE begin == opening \o body
        <3> HIDE DEF begin
        <3>2. begin \in Seq(Checks) /\ Len(begin) = 3 + count
            BY <2>1, <2>2, <3>1, Zenon DEF begin
        <3>3. \A i \in 1 .. 3 + count : begin[i] = IF i <= 3 THEN opening[i] ELSE body[i - 3]
            BY <2>1, <2>2, <3>1, Zenon DEF begin
        <3>4. \A i \in 1 .. count : i + 3 \in 1 .. 3 + count /\ (i + 3) - 3 = i /\ ~(i + 3 <= 3)
            OBVIOUS
        <3>5. \A i \in 1 .. 3 : begin[i] = opening[i]
            BY <3>3
        <3>6. \A i \in 1 .. count : begin[i + 3] = body[i]
            BY <3>3, <3>4, Zenon
        <3> QED
            BY <3>2, <3>5, <3>6, Zenon DEF begin
    <2>5. /\ checks \in Seq(Checks) /\ Len(checks) = count + 5
          /\ \A i \in 1 .. count + 3 : checks[i] = (opening \o body)[i]
          /\ \A i \in 1 .. 2 : checks[i + count + 3] = closing[i]
        <3> DEFINE begin == opening \o body
        <3> HIDE DEF opening, body, closing, begin, Checks
        <3>1. begin \in Seq(Checks) /\ Len(begin) = 3 + count
            BY <2>4, Zenon DEF begin
        <3>2. checks = begin \o closing
            BY Zenon DEF begin
        <3>3. /\ begin \o closing \in Seq(Checks)
              /\ Len(begin \o closing) = Len(begin) + Len(closing)
              /\ \A i \in 1 .. Len(begin) + Len(closing) : (begin \o closing)[i] =
                    IF i <= Len(begin) THEN begin[i] ELSE closing[i - Len(begin)]
            BY <2>3, <3>1, Concatenation, Zenon
        <3> HIDE DEF checks
        <3>4. checks \in Seq(Checks) /\ Len(checks) = count + 5
            BY <2>3, <3>1, <3>2, <3>3, SMTT(30)
        <3>5. \A i \in 1 .. count + 5 :
                checks[i] = IF i <= count + 3 THEN begin[i] ELSE closing[i - (count + 3)]
            BY <2>3, <3>1, <3>2, <3>3
        <3>6. \A i \in 1 .. count + 3 : checks[i] = begin[i]
            BY <3>5
        <3>7. \A i \in 1 .. 2 : checks[i + count + 3] = closing[i]
            BY <3>5
        <3> QED
            BY <3>4, <3>6, <3>7, Zenon DEF begin
    <2>6. \A c \in Checks : \E i \in 1 .. count + 5 : checks[i] = c
        <3>1. ASSUME NEW i \in 1 .. 3 PROVE checks[i] = opening[i]
            BY <2>4, <2>5, SMTT(30)
        <3>2. ASSUME NEW i \in 1 .. count
              PROVE  i + 3 \in 1 .. count + 5 /\ checks[i + 3] = Import!revalidate(import, i)
            <4>1. (opening \o body)[i + 3] = body[i] /\ i + 3 \in 1 .. count + 3
                BY <2>4
            <4> QED
                BY <2>5, <4>1
        <3>3. checks[count + 4] = closing[1] /\ checks[count + 5] = closing[2]
            <4>1. checks[1 + count + 3] = closing[1] /\ checks[2 + count + 3] = closing[2]
                BY <2>5
            <4>2. 1 + count + 3 = count + 4 /\ 2 + count + 3 = count + 5
                OBVIOUS
            <4> QED
                BY <4>1, <4>2, Zenon
        <3>4. /\ checks[1] = Import!prefilter_header(import, max_witness_bytes)
              /\ checks[2] = Import!verify_body_binding(import)
              /\ checks[3] = Import!verify_header_signature(import)
              /\ checks[count + 4] = Import!verify_sidecar_binding(import)
              /\ checks[count + 5] = Import!execute_and_compare(import)
            BY <3>1, <3>3, SMTT(30)
        <3> HIDE DEF checks
        <3> QED
            BY <3>2, <3>4, SMTT(30)
    <2> HIDE DEF checks, Checks
    <2> QED
        BY <2>5, <2>6, SMTT(30)
<1>3. Failing \in SUBSET Nat
    BY <1>2
<1>4. Failing # {} => first \in Failing
    BY <1>3, FirstOf, Zenon
<1> HIDE DEF first, checks, Checks
<1>5. \/ import_block(import) = Import!Ok /\ Checks = {Import!Ok}
      \/ import_block(import) # Import!Ok /\ import_block(import) \in Checks
    BY ONLY <1>1, <1>2, <1>4, SMTT(30)
<1> QED
    BY <1>5, Zenon DEF Checks

-----------------------------------------------------------------------------
(* Execution.                                                              *)

\* Applying the writes of a patch gives a leaf map again.
LEMMA ApplyLeavesType ==
    ASSUME NEW leaves \in Leaves, NEW patch \in StatePatches
    PROVE  apply_leaves(leaves, patch) \in Leaves
<1>1. ASSUME NEW k \in Keys, Writes(patch, k) # {}
      PROVE  patch.new_values[CHOOSE i \in Writes(patch, k) : TRUE] \in Values
    <2>1. PICK i \in Writes(patch, k) : i = CHOOSE j \in Writes(patch, k) : TRUE
        BY <1>1, Zenon
    <2>2. i \in DOMAIN patch.new_values
        BY <2>1, Zenon DEF Writes
    <2> QED
        BY <2>1, <2>2 DEF StatePatches
<1> QED
    BY <1>1, Zenon DEF apply_leaves, Leaves

\* Writing the leaves of a patch and recomputing the root gives an accumulator.
LEMMA TransitionedType ==
    ASSUME NEW a \in Accumulators, NEW patch \in StatePatches
    PROVE  Transitioned(a, patch) \in Accumulators
BY ApplyLeavesType, Zenon DEF Transitioned, Accumulators, Roots, compute_reference_root

\* What execute_block has reached after some transactions.
Turns == [result : {"Ok", "Executor", "StateTransition"}, acc : Accumulators,
          next_index : Nat, receipts : Seq(Receipts)]

FirstTurn(acc) == [result |-> "Ok", acc |-> acc, next_index |-> 0, receipts |-> <<>>]

\* A patch of one leaf passes the checks of a transition.
LEMMA LeafPatchPasses ==
    ASSUME NEW patch \in LeafPatches
    PROVE  patch \in StatePatches /\ PatchResult(patch) = "Ok"
<1>1. PICK key \in Keys, value \in Values :
        patch = [accesses |-> <<key>>, new_values |-> <<value>>]
    BY ONLY SMTT(30) DEF LeafPatches
<1> QED
    BY <1>1 DEF StatePatches, PatchResult, StrictlyIncreasing

\* One turn of the loop: an error stands, a plan that is missing or for another
\* transaction is one, and a plan for this transaction is applied and cannot fail.
LEMMA Turn ==
    ASSUME scenario \in LocalReferenceScenarios, NEW before \in Turns, NEW transaction
    PROVE  LET planned == scenario.planned_transactions
               next == before.next_index + 1
               after == ExecuteTransaction(before, transaction)
           IN  /\ after \in Turns
               /\ before.result # "Ok" => after = before
               /\ after.result = "Ok" =>
                     /\ before.result = "Ok"
                     /\ next \in DOMAIN planned
                     /\ planned[next].transaction_root = canonical_root(transaction)
               /\ /\ before.result = "Ok"
                  /\ next \in DOMAIN planned
                  /\ planned[next].transaction_root = canonical_root(transaction)
                  => after = [result |-> "Ok",
                              acc |-> Transitioned(before.acc, planned[next].state_patch),
                              next_index |-> next,
                              receipts |-> Append(before.receipts, planned[next].receipt)]
<1> DEFINE planned == scenario.planned_transactions
           next == before.next_index + 1
           after == ExecuteTransaction(before, transaction)
<1>1. planned \in Seq(PlannedTransactions) /\ before.next_index \in Nat
    BY Zenon DEF LocalReferenceScenarios, Turns
<1>2. CASE before.result # "Ok"
    <2>1. after = before
        BY <1>2, Zenon DEF ExecuteTransaction
    <2> QED
        BY <1>2, <2>1, Zenon
<1>3. CASE /\ before.result = "Ok"
           /\ ~ (next \in DOMAIN planned
                   /\ planned[next].transaction_root = canonical_root(transaction))
    <2>1. \/ before.next_index >= Len(planned)
          \/ planned[next].transaction_root # canonical_root(transaction)
        BY <1>1, <1>3, SMTT(30)
    <2>2. after = [before EXCEPT !.result = "Executor"]
        BY <1>3, <2>1, Zenon DEF ExecuteTransaction
    <2>3. after \in Turns /\ after.result = "Executor"
        BY <2>2, ZenonT(40) DEF Turns
    <2> QED
        BY <1>3, <2>3, Zenon
<1>4. CASE /\ before.result = "Ok"
           /\ next \in DOMAIN planned
           /\ planned[next].transaction_root = canonical_root(transaction)
    <2> DEFINE patch == planned[next].state_patch
    <2>1. patch \in LeafPatches /\ planned[next].receipt \in Receipts
        <3>1. planned[next] \in PlannedTransactions
            BY <1>1, <1>4, SMTT(30)
        <3> HIDE DEF planned, next
        <3> QED
            BY <3>1, Zenon DEF PlannedTransactions
    <2>2. patch \in StatePatches /\ PatchResult(patch) = "Ok"
        BY <2>1, LeafPatchPasses, Zenon
    <2>3. applier_apply_transition(before.acc, before.acc.root, patch)
            = [result |-> "Ok", acc |-> Transitioned(before.acc, patch)]
        BY <2>2, Zenon DEF applier_apply_transition, apply_transition
    <2>4. ~(before.next_index >= Len(planned))
        BY <1>1, <1>4 DEF Turns
    <2>5. after = [result |-> "Ok", acc |-> Transitioned(before.acc, patch), next_index |-> next,
                   receipts |-> Append(before.receipts, planned[next].receipt)]
        BY <1>4, <2>3, <2>4, SMTT(30) DEF ExecuteTransaction
    <2>6. Transitioned(before.acc, patch) \in Accumulators
        BY <2>2, TransitionedType, Zenon DEF Turns
    <2>7. Append(before.receipts, planned[next].receipt) \in Seq(Receipts)
        BY ONLY <2>1, SMTT(30) DEF Turns
    <2>8. after \in Turns
        BY <1>1, <2>5, <2>6, <2>7, SMTT(30) DEF Turns
    <2> QED
        BY <1>4, <2>5, <2>8, Zenon
<1> QED
    BY <1>2, <1>3, <1>4, Zenon

\* execute_block starts with the first turn and takes one for each transaction.
LEMMA ExecutedUnfolds ==
    ASSUME scenario \in LocalReferenceScenarios, NEW transactions \in Seq(AllEnvelopes),
           NEW acc \in Accumulators
    PROVE  \E After \in [0 .. Len(transactions) -> Turns] :
              /\ After[0] = FirstTurn(acc)
              /\ \A i \in 1 .. Len(transactions) :
                    After[i] = ExecuteTransaction(After[i - 1], transactions[i])
              /\ Executed(transactions, acc) = After[Len(transactions)]
<1> DEFINE N == Len(transactions)
           step == [i \in 1 .. N |->
                      [turn \in Turns |-> ExecuteTransaction(turn, transactions[i])]]
           Unfolds(f) == f = [i \in 0 .. N |->
                                IF i = 0 THEN [result |-> "Ok", acc |-> acc, next_index |-> 0,
                                               receipts |-> <<>>]
                                ELSE ExecuteTransaction(f[i - 1], transactions[i])]
           After == CHOOSE g : Unfolds(g)
<1>1. N \in Nat
    BY SMTT(30)
<1>2. step \in [1 .. N -> [Turns -> Turns]]
    BY Turn, Zenon
<1>3. FirstTurn(acc) \in Turns
    BY DEF FirstTurn, Turns
<1>4. PICK f \in [0 .. N -> Turns] : Follows(f, N, FirstTurn(acc), step)
    <2> HIDE DEF step, N
    <2> QED
        BY <1>1, <1>2, <1>3, Recursion, ZenonT(40)
<1>5. Unfolds(f)
    <2>1. ASSUME NEW i \in 1 .. N PROVE f[i] = ExecuteTransaction(f[i - 1], transactions[i])
        <3>1. f[i - 1] \in Turns
            BY <1>1
        <3> QED
            BY <1>4, <3>1, Zenon DEF Follows
    <2> QED
        BY <1>1, <1>4, <2>1 DEF Follows, FirstTurn
<1>6. Unfolds(After)
    <2> HIDE DEF Unfolds
    <2> QED
        BY <1>5, Zenon
<1>7. Executed(transactions, acc) = After[N]
    BY Zenon DEF Executed
<1> HIDE DEF After
<1>8. /\ After[0] = FirstTurn(acc)
      /\ \A i \in 1 .. N : After[i] = ExecuteTransaction(After[i - 1], transactions[i])
    BY <1>1, <1>6 DEF FirstTurn
<1> DEFINE Typed == {i \in 0 .. N : After[i] \in Turns}
<1>9. 0 .. N \subseteq Typed
    <2>1. 0 \in Typed
        BY ONLY <1>1, <1>3, <1>8, SMTT(30)
    <2>2. ASSUME NEW i \in 0 .. N - 1, i \in Typed PROVE i + 1 \in Typed
        <3>1. i + 1 \in 1 .. N /\ (i + 1) - 1 = i
            BY <1>1
        <3> QED
            BY <1>8, <2>2, <3>1, Turn, SMTT(30)
    <2> HIDE DEF Typed
    <2> QED
        BY ONLY <1>1, <2>1, <2>2, BoundedInduction, Zenon
<1>10. After \in [0 .. N -> Turns]
    BY <1>6, <1>9, Zenon
<1> QED
    BY <1>7, <1>8, <1>10, Zenon

\* The value a key has after the first n planned steps where it was given before.
Overwritten(n, key, given) ==
    LET steps == scenario.planned_transactions
        Writing == {i \in 1 .. n : steps[i].state_patch.accesses = <<key>>}
    IN  IF Writing # {}
        THEN steps[CHOOSE i \in Writing : \A j \in Writing : j <= i].state_patch.new_values[1]
        ELSE given

\* One more step writes its leaf and leaves the others.
LEMMA OneMoreStep ==
    ASSUME NEW n \in Nat, NEW key, NEW given
    PROVE  LET patch == scenario.planned_transactions[n + 1].state_patch
           IN  /\ Overwritten(0, key, given) = given
               /\ Overwritten(n + 1, key, given)
                    = IF patch.accesses = <<key>> THEN patch.new_values[1]
                      ELSE Overwritten(n, key, given)
<1> DEFINE steps == scenario.planned_transactions
           Writing(m) == {i \in 1 .. m : steps[i].state_patch.accesses = <<key>>}
           latest(m) == CHOOSE i \in Writing(m) : \A j \in Writing(m) : j <= i
<1>1. \A m \in Nat : Overwritten(m, key, given)
                = IF Writing(m) # {} THEN steps[latest(m)].state_patch.new_values[1] ELSE given
    BY Zenon DEF Overwritten
<1>2. Writing(0) = {}
    BY SMTT(30)
<1>3. CASE steps[n + 1].state_patch.accesses = <<key>>
    <2>1. n + 1 \in Writing(n + 1) /\ \A j \in Writing(n + 1) : j <= n + 1 /\ j \in Nat
        BY <1>3
    <2> HIDE DEF Writing
    <2>2. latest(n + 1) = n + 1
        BY ONLY <2>1, SMTT(30)
    <2> QED
        BY <1>1, <1>2, <1>3, <2>1, <2>2, Zenon
<1>4. CASE steps[n + 1].state_patch.accesses # <<key>>
    <2>1. Writing(n + 1) = Writing(n)
        BY <1>4, SMTT(30)
    <2> HIDE DEF Writing
    <2> QED
        BY <1>1, <1>2, <1>4, <2>1, SMTT(30)
<1> QED
    BY <1>3, <1>4, Zenon

\* A patch of one leaf changes that leaf.
LEMMA LeafPatchWrites ==
    ASSUME NEW patch \in LeafPatches, NEW leaves \in Leaves, NEW key \in Keys
    PROVE  apply_leaves(leaves, patch)[key]
             = IF patch.accesses = <<key>> THEN patch.new_values[1] ELSE leaves[key]
<1>1. PICK own \in Keys, value \in Values :
        patch = [accesses |-> <<own>>, new_values |-> <<value>>]
    BY DEF LeafPatches
<1>2. Writes(patch, key) = IF own = key THEN {1} ELSE {}
    BY <1>1 DEF Writes
<1>3. patch.accesses = <<key>> <=> own = key
    BY <1>1, Zenon
<1>4. apply_leaves(leaves, patch)[key]
        = IF Writes(patch, key) = {} THEN leaves[key]
          ELSE patch.new_values[CHOOSE i \in Writes(patch, key) : TRUE]
    BY Zenon DEF apply_leaves
<1> QED
    BY <1>2, <1>3, <1>4, Zenon

\* What the first n transactions have done to an accumulator if none failed: each
\* was the planned one, its leaf was written and its receipt taken.
DoneAfter(n, transactions, acc, turn) ==
    LET planned == scenario.planned_transactions
    IN  /\ turn.next_index = n
        /\ n <= Len(planned)
        /\ \A i \in 1 .. n : planned[i].transaction_root = canonical_root(transactions[i])
        /\ turn.receipts = [i \in 1 .. n |-> planned[i].receipt]
        /\ turn.acc.leaves = [key \in Keys |-> Overwritten(n, key, acc.leaves[key])]
        /\ turn.acc.root = IF n = 0 THEN acc.root ELSE compute_reference_root(turn.acc.leaves)

\* The first turn has done nothing.
LEMMA NothingDone ==
    ASSUME scenario \in LocalReferenceScenarios, NEW transactions, NEW acc \in Accumulators
    PROVE  DoneAfter(0, transactions, acc, FirstTurn(acc))
<1>1. Len(scenario.planned_transactions) \in Nat
    BY SMTT(30) DEF LocalReferenceScenarios
<1>2. acc.leaves = [key \in Keys |-> Overwritten(0, key, acc.leaves[key])]
    BY OneMoreStep, Zenon DEF Accumulators, Leaves
<1> QED
    BY <1>1, <1>2 DEF DoneAfter, FirstTurn

\* A turn that does not fail does the next planned step.
LEMMA OneMoreDone ==
    ASSUME scenario \in LocalReferenceScenarios, NEW transactions, NEW acc \in Accumulators,
           NEW n \in Nat, NEW before \in Turns, before.result = "Ok",
           DoneAfter(n, transactions, acc, before),
           ExecuteTransaction(before, transactions[n + 1]).result = "Ok"
    PROVE  DoneAfter(n + 1, transactions, acc, ExecuteTransaction(before, transactions[n + 1]))
<1> DEFINE planned == scenario.planned_transactions
           after == ExecuteTransaction(before, transactions[n + 1])
           patch == planned[n + 1].state_patch
<1>1. before.next_index = n
    BY Zenon DEF DoneAfter
<1>2. /\ n + 1 \in DOMAIN planned
      /\ planned[n + 1].transaction_root = canonical_root(transactions[n + 1])
      /\ after = [result |-> "Ok", acc |-> Transitioned(before.acc, patch), next_index |-> n + 1,
                  receipts |-> Append(before.receipts, planned[n + 1].receipt)]
    BY <1>1, Turn, Zenon
<1>3. planned \in Seq(PlannedTransactions)
    BY Zenon DEF LocalReferenceScenarios
<1>4. patch \in LeafPatches
    <2>1. planned[n + 1] \in PlannedTransactions
        BY ONLY <1>2, <1>3, SMTT(30)
    <2> HIDE DEF planned
    <2> QED
        BY <2>1, Zenon DEF PlannedTransactions
<1>5. n + 1 <= Len(planned)
    BY ONLY <1>2, <1>3, SMTT(30)
<1>6. \A i \in 1 .. n + 1 : planned[i].transaction_root = canonical_root(transactions[i])
    BY <1>2, SMTT(30) DEF DoneAfter
<1>7. after.receipts = [i \in 1 .. n + 1 |-> planned[i].receipt]
    BY <1>2 DEF DoneAfter
<1>8. before.acc \in Accumulators /\ before.acc.leaves \in Leaves
    BY Zenon DEF Turns, Accumulators
<1>9. /\ after.acc.leaves = apply_leaves(before.acc.leaves, patch)
      /\ after.acc.root = compute_reference_root(after.acc.leaves)
    BY <1>2, SMTT(30) DEF Transitioned
<1>10. after.acc.leaves = [key \in Keys |-> Overwritten(n + 1, key, acc.leaves[key])]
    <2>1. ASSUME NEW key \in Keys
          PROVE  apply_leaves(before.acc.leaves, patch)[key]
                   = Overwritten(n + 1, key, acc.leaves[key])
        <3>1. before.acc.leaves[key] = Overwritten(n, key, acc.leaves[key])
            BY ZenonT(40) DEF DoneAfter
        <3>2. apply_leaves(before.acc.leaves, patch)[key]
                = IF patch.accesses = <<key>> THEN patch.new_values[1] ELSE before.acc.leaves[key]
            <4> HIDE DEF patch
            <4> QED
                BY <1>4, <1>8, LeafPatchWrites, Zenon
        <3>3. Overwritten(n + 1, key, acc.leaves[key])
                = IF patch.accesses = <<key>> THEN patch.new_values[1]
                  ELSE Overwritten(n, key, acc.leaves[key])
            BY OneMoreStep, SMTT(30)
        <3> HIDE DEF patch
        <3> QED
            BY ONLY <3>1, <3>2, <3>3, Zenon
    <2>2. apply_leaves(before.acc.leaves, patch)
            = [key \in Keys |-> apply_leaves(before.acc.leaves, patch)[key]]
        BY SMTT(30) DEF apply_leaves
    <2> HIDE DEF patch, after
    <2> QED
        BY <1>9, <2>1, <2>2, Zenon
<1>11. after.next_index = n + 1 /\ n + 1 # 0
    BY <1>2, SMTT(30)
<1> HIDE DEF after, planned
<1> QED
    BY <1>5, <1>6, <1>7, <1>9, <1>10, <1>11, Zenon DEF DoneAfter, planned, after

\* Whether every transaction has its plan.
AllPlanned(transactions) ==
    \A i \in 1 .. Len(transactions) :
        /\ i \in DOMAIN scenario.planned_transactions
        /\ scenario.planned_transactions[i].transaction_root = canonical_root(transactions[i])

\* execute_block has done every transaction where it does not fail, and does not fail
\* where every transaction has its plan.
LEMMA ExecutedAnswers ==
    ASSUME scenario \in LocalReferenceScenarios, NEW transactions \in Seq(AllEnvelopes),
           NEW acc \in Accumulators
    PROVE  LET executed == Executed(transactions, acc)
           IN  /\ executed \in Turns
               /\ executed.result = "Ok" =>
                     DoneAfter(Len(transactions), transactions, acc, executed)
               /\ AllPlanned(transactions) => executed.result = "Ok"
<1> DEFINE N == Len(transactions)
<1>1. N \in Nat
    OBVIOUS
<1>2. PICK After \in [0 .. N -> Turns] :
        /\ After[0] = FirstTurn(acc)
        /\ \A i \in 1 .. N : After[i] = ExecuteTransaction(After[i - 1], transactions[i])
        /\ Executed(transactions, acc) = After[N]
    BY ExecutedUnfolds, Zenon
<1> DEFINE Reached == {i \in 0 .. N :
                          /\ After[i].result = "Ok" => DoneAfter(i, transactions, acc, After[i])
                          /\ AllPlanned(transactions) => After[i].result = "Ok"}
<1>3. 0 \in Reached
    <2>1. After[0].result = "Ok"
        BY <1>2, SMTT(30) DEF FirstTurn
    <2> QED
        BY <1>1, <1>2, <2>1, NothingDone, SMTT(30)
<1>4. ASSUME NEW i \in 0 .. N - 1, i \in Reached PROVE i + 1 \in Reached
    <2> HIDE DEF N
    <2>1. i \in Nat /\ i \in 0 .. N /\ i + 1 \in 1 .. N /\ i + 1 \in 0 .. N /\ (i + 1) - 1 = i
        BY <1>1, SMTT(30)
    <2>2. After[i + 1] = ExecuteTransaction(After[i], transactions[i + 1])
        BY <1>2, <2>1, Zenon
    <2>3. After[i] \in Turns
        BY <1>2, <2>1, Zenon
    <2>4. ASSUME After[i + 1].result = "Ok"
          PROVE  DoneAfter(i + 1, transactions, acc, After[i + 1])
        <3>1. After[i].result = "Ok"
            BY <2>2, <2>3, <2>4, Turn, Zenon
        <3>2. DoneAfter(i, transactions, acc, After[i])
            BY <1>4, <3>1, Zenon
        <3> QED
            BY <2>1, <2>2, <2>3, <2>4, <3>1, <3>2, OneMoreDone, Zenon
    <2>5. ASSUME AllPlanned(transactions) PROVE After[i + 1].result = "Ok"
        <3>1. After[i].result = "Ok" /\ DoneAfter(i, transactions, acc, After[i])
            BY <1>4, <2>5, Zenon
        <3>2. After[i].next_index = i
            BY <3>1, Zenon DEF DoneAfter
        <3>3. /\ i + 1 \in DOMAIN scenario.planned_transactions
              /\ scenario.planned_transactions[i + 1].transaction_root
                   = canonical_root(transactions[i + 1])
            BY <2>1, <2>5, Zenon DEF AllPlanned, N
        <3> QED
            BY <2>2, <2>3, <3>1, <3>2, <3>3, Turn, SMTT(30)
    <2> QED
        BY <2>1, <2>4, <2>5, Zenon
<1>5. 0 .. N \subseteq Reached
    <2> HIDE DEF Reached, N
    <2> QED
        BY ONLY <1>1, <1>3, <1>4, BoundedInduction, Zenon
<1>6. N \in Reached
    BY ONLY <1>1, <1>5, SMTT(30)
<1> QED
    BY <1>1, <1>2, <1>6, Zenon

-----------------------------------------------------------------------------
(* The pre-state.                                                          *)

\* The patch that writes a list of leaves is one.
LEMMA PatchOfLeaves ==
    ASSUME NEW leaves \in Seq(MaterializedLeaves)
    PROVE  /\ PatchOf(leaves) \in StatePatches
           /\ Len(PatchOf(leaves).accesses) = Len(leaves)
           /\ \A i \in 1 .. Len(leaves) : /\ PatchOf(leaves).accesses[i] = leaves[i].key
                                          /\ PatchOf(leaves).new_values[i] = leaves[i].value
<1>1. ASSUME NEW i \in DOMAIN leaves PROVE leaves[i].key \in Keys /\ leaves[i].value \in Values
    <2>1. leaves[i] \in MaterializedLeaves
        BY <1>1
    <2> QED
        BY <2>1, Zenon DEF MaterializedLeaves
<1>2. /\ [i \in DOMAIN leaves |-> leaves[i].key] \in Seq(Keys)
      /\ [i \in DOMAIN leaves |-> leaves[i].value] \in Seq(Values)
    BY <1>1
<1> QED
    BY <1>2 DEF PatchOf, StatePatches

\* The value a key is given in a list of leaves.
Listed(leaves, key) ==
    LET Given == {i \in DOMAIN leaves : leaves[i].key = key}
    IN  IF Given # {} THEN leaves[CHOOSE i \in Given : TRUE].value ELSE Absent

\* It is a value or absent.
LEMMA ListedType ==
    ASSUME NEW leaves \in Seq(MaterializedLeaves), NEW key
    PROVE  Listed(leaves, key) \in Values \cup {Absent}
<1> DEFINE Given == {i \in DOMAIN leaves : leaves[i].key = key}
<1>1. CASE Given # {}
    <2>1. PICK i \in Given : i = CHOOSE j \in Given : TRUE
        BY <1>1, Zenon
    <2>2. leaves[i] \in MaterializedLeaves
        BY <2>1
    <2>3. Listed(leaves, key) = leaves[i].value
        BY <1>1, <2>1, Zenon DEF Listed
    <2> QED
        BY <2>2, <2>3, Zenon DEF MaterializedLeaves
<1>2. CASE Given = {}
    BY <1>2, Zenon DEF Listed
<1> QED
    BY <1>1, <1>2, Zenon

\* A list that materializes gives every key the value it lists and the digest of these,
\* no leaves at all the zero root.
LEMMA MaterializeAnswers ==
    ASSUME NEW leaves \in Seq(MaterializedLeaves)
    PROVE  LET materialized == materialize_accumulator(leaves)
           IN  /\ materialized.acc \in Accumulators
               /\ materialized.result \in {"Ok"} \cup TransitionErrors
               /\ materialized.result = "Ok" =>
                     /\ materialized.acc.leaves = [key \in Keys |-> Listed(leaves, key)]
                     /\ leaves # <<>> => materialized.acc.root
                                           = compute_reference_root(materialized.acc.leaves)
<1> DEFINE patch == PatchOf(leaves)
<1>1. EmptyAccumulator \in Accumulators
    BY Zenon DEF EmptyAccumulator, Accumulators, NoLeaves, Leaves, Roots
<1>2. patch \in StatePatches /\ Transitioned(EmptyAccumulator, patch) \in Accumulators
    BY <1>1, PatchOfLeaves, TransitionedType, Zenon
<1>3. PatchResult(patch) \in {"Ok"} \cup TransitionErrors
    BY Zenon DEF PatchResult, TransitionErrors
<1>4. CASE leaves = <<>>
    <2>1. materialize_accumulator(leaves) = [result |-> "Ok", acc |-> EmptyAccumulator]
        BY <1>4, Zenon DEF materialize_accumulator
    <2>2. EmptyAccumulator.leaves = [key \in Keys |-> Listed(leaves, key)]
        BY <1>4, SMTT(30) DEF EmptyAccumulator, NoLeaves, Listed
    <2> QED
        BY <1>1, <1>4, <2>1, <2>2, SMTT(30)
<1>5. CASE leaves # <<>> /\ PatchResult(patch) # "Ok"
    <2>1. materialize_accumulator(leaves) = [result |-> PatchResult(patch), acc |-> EmptyAccumulator]
        BY <1>5, ZenonT(40) DEF materialize_accumulator, apply_transition
    <2> QED
        BY ONLY <1>1, <1>3, <1>5, <2>1, SMTT(30)
<1>6. CASE leaves # <<>> /\ PatchResult(patch) = "Ok"
    <2>1. materialize_accumulator(leaves)
            = [result |-> "Ok", acc |-> Transitioned(EmptyAccumulator, patch)]
        BY <1>6, Zenon DEF materialize_accumulator, apply_transition
    <2>2. ASSUME NEW key \in Keys
          PROVE  apply_leaves(NoLeaves, patch)[key] = Listed(leaves, key)
        <3> DEFINE Given == {i \in DOMAIN leaves : leaves[i].key = key}
        <3>1. Writes(patch, key) = Given
            BY Zenon DEF Writes, PatchOf
        <3>2. apply_leaves(NoLeaves, patch)[key]
                = IF Given = {} THEN Absent ELSE patch.new_values[CHOOSE i \in Given : TRUE]
            <4>1. apply_leaves(NoLeaves, patch)[key]
                    = IF Writes(patch, key) = {} THEN Absent
                      ELSE patch.new_values[CHOOSE i \in Writes(patch, key) : TRUE]
                BY SMTT(30) DEF apply_leaves, NoLeaves
            <4> HIDE DEF Given, patch
            <4> QED
                BY <3>1, <4>1, Zenon
        <3>3. ASSUME Given # {}
              PROVE  patch.new_values[CHOOSE i \in Given : TRUE]
                       = leaves[CHOOSE i \in Given : TRUE].value
            <4>1. PICK i \in Given : i = CHOOSE j \in Given : TRUE
                BY <3>3, Zenon
            <4>2. patch.new_values[i] = leaves[i].value
                BY <4>1, Zenon DEF PatchOf
            <4> QED
                BY <4>1, <4>2, Zenon
        <3>4. Listed(leaves, key)
                = IF Given # {} THEN leaves[CHOOSE i \in Given : TRUE].value ELSE Absent
            BY Zenon DEF Listed
        <3> HIDE DEF Given, patch
        <3>5. CASE Given = {}
            BY <3>2, <3>4, <3>5, ZenonT(40)
        <3>6. CASE Given # {}
            BY <3>2, <3>3, <3>4, <3>6, ZenonT(40)
        <3> QED
            BY <3>5, <3>6, Zenon
    <2>3. apply_leaves(NoLeaves, patch) = [key \in Keys |-> apply_leaves(NoLeaves, patch)[key]]
        BY SMTT(30) DEF apply_leaves
    <2>4. /\ Transitioned(EmptyAccumulator, patch).leaves = [key \in Keys |-> Listed(leaves, key)]
          /\ Transitioned(EmptyAccumulator, patch).root
               = compute_reference_root(Transitioned(EmptyAccumulator, patch).leaves)
        BY <2>2, <2>3, Zenon DEF Transitioned, EmptyAccumulator
    <2> QED
        BY ONLY <1>2, <2>1, <2>4, SMTT(30)
<1> QED
    BY <1>4, <1>5, <1>6, Zenon

\* Witnesses that verify tell leaves of the accumulator; the answer is one of the
\* errors of a witness.
LEMMA WitnessesAnswer ==
    ASSUME NEW acc \in Accumulators, NEW witnesses \in Seq(StateWitnesses), NEW root
    PROVE  LET answer == verify_witnesses(acc, witnesses, root)
           IN  /\ answer \in {"Ok", "NonCanonicalWitnessOrdering", "UnsupportedProofShape",
                              "Backend", "WitnessVerificationFailed"}
               /\ answer = "Ok" =>
                     \A i \in DOMAIN witnesses : /\ acc.leaves[witnesses[i].key] # Absent
                                                 /\ acc.leaves[witnesses[i].key]
                                                      = witnesses[i].leaf_value
<1> DEFINE Failing == {i \in 1 .. Len(witnesses) : verify_witness(acc, witnesses[i], root) # "Ok"}
           first == CHOOSE i \in Failing : \A j \in Failing : i <= j
           answer == verify_witnesses(acc, witnesses, root)
<1>1. \A w : verify_witness(acc, w, root)
                \in {"Ok", "UnsupportedProofShape", "Backend", "WitnessVerificationFailed"}
    BY Zenon DEF verify_witness
<1>2. answer = IF ~StrictlyIncreasing([i \in 1 .. Len(witnesses) |-> witnesses[i].key])
               THEN "NonCanonicalWitnessOrdering"
               ELSE IF Failing # {} THEN verify_witness(acc, witnesses[first], root)
               ELSE "Ok"
    BY Zenon DEF verify_witnesses
<1>3. Failing # {} => first \in Failing
    <2>1. Failing \in SUBSET Nat
        OBVIOUS
    <2> QED
        BY <2>1, FirstOf, ZenonT(40)
<1>4. ASSUME answer = "Ok", NEW i \in DOMAIN witnesses
      PROVE  /\ acc.leaves[witnesses[i].key] # Absent
             /\ acc.leaves[witnesses[i].key] = witnesses[i].leaf_value
    <2> HIDE DEF first
    <2>1. Failing = {}
        BY <1>2, <1>3, <1>4, Zenon
    <2>2. verify_witness(acc, witnesses[i], root) = "Ok"
        BY <1>4, <2>1, SMTT(30)
    <2> QED
        BY <2>2, ZenonT(40) DEF verify_witness, Materialized, PathAccepts, proof_path_for_access
<1> HIDE DEF first
<1> QED
    BY <1>1, <1>2, <1>4, Zenon

-----------------------------------------------------------------------------
(* What the runtime answers about a block.                                 *)

PreState == materialize_accumulator(scenario.materialized_state)

PreStateStands == PreState.result = "Ok" /\ PreState.acc.root = scenario.pre_state_root

\* The engine executes the planned transactions, all of them and no others.
LEMMA EngineAnswers ==
    ASSUME scenario \in LocalReferenceScenarios, NEW transactions \in Seq(AllEnvelopes)
    PROVE  LET executed == engine_execute_block(transactions)
               planned == scenario.planned_transactions
           IN  /\ executed \in Turns
               /\ executed.result = "Ok" =>
                     /\ PreStateStands
                     /\ Len(transactions) = Len(planned)
                     /\ DoneAfter(Len(planned), transactions, PreState.acc, executed)
               /\ PreStateStands /\ AllPlanned(transactions) /\ Len(transactions) = Len(planned)
                     => executed.result = "Ok"
<1> DEFINE planned == scenario.planned_transactions
           acc == PreState.acc
           executed == Executed(transactions, acc)
           answer == engine_execute_block(transactions)
<1>1. acc \in Accumulators
    BY MaterializeAnswers, Zenon DEF PreState, LocalReferenceScenarios
<1>2. executed \in Turns
    BY <1>1, ExecutedAnswers, Zenon
<1>3. executed.result = "Ok" => DoneAfter(Len(transactions), transactions, acc, executed)
    BY <1>1, ExecutedAnswers, Zenon
<1>4. AllPlanned(transactions) => executed.result = "Ok"
    BY <1>1, ExecutedAnswers, ZenonT(40)
<1>5. executed.result = "Ok" => executed.next_index = Len(transactions)
    BY <1>3, Zenon DEF DoneAfter
<1>6. answer = IF ~PreStateStands THEN [executed EXCEPT !.result = "StateTransition"]
               ELSE IF executed.result # "Ok" THEN executed
               ELSE IF executed.next_index # Len(planned)
               THEN [executed EXCEPT !.result = "Executor"]
               ELSE executed
    BY Zenon DEF engine_execute_block, ensure_exhausted, PreState, PreStateStands
<1> HIDE DEF executed, answer
<1>7. /\ [executed EXCEPT !.result = "StateTransition"] \in Turns
      /\ [executed EXCEPT !.result = "StateTransition"].result = "StateTransition"
      /\ [executed EXCEPT !.result = "Executor"] \in Turns
      /\ [executed EXCEPT !.result = "Executor"].result = "Executor"
    BY <1>2, Zenon DEF Turns
<1>8. answer \in Turns
    BY <1>2, <1>6, <1>7, Zenon
<1>9. ASSUME answer.result = "Ok"
      PROVE  /\ PreStateStands
             /\ Len(transactions) = Len(planned)
             /\ DoneAfter(Len(planned), transactions, acc, answer)
    <2>1. PreStateStands /\ executed.result = "Ok" /\ executed.next_index = Len(planned)
          /\ answer = executed
        BY <1>6, <1>7, <1>9, Zenon
    <2> QED
        BY <1>3, <1>5, <2>1, Zenon
<1>10. ASSUME PreStateStands, AllPlanned(transactions), Len(transactions) = Len(planned)
       PROVE  answer.result = "Ok"
    BY <1>4, <1>5, <1>6, <1>10, Zenon
<1> QED
    BY <1>8, <1>9, <1>10, Zenon DEF answer

\* The preparer answers one of its errors, and Ok only where the scenario's witnesses
\* are those the header commits and tell leaves of the pre-state.
LEMMA PreparerAnswers ==
    ASSUME scenario \in LocalReferenceScenarios, NEW header
    PROVE  LET answer == prepare_witness(header)
               witnesses == scenario.block.sidecar.witnesses
           IN  /\ answer \in Import!Preparations
               /\ answer = "Ok" =>
                     /\ compute_execution_witnesses_root(witnesses)
                          = header.execution_witnesses_root
                     /\ PreStateStands
                     /\ \A i \in DOMAIN witnesses :
                           /\ PreState.acc.leaves[witnesses[i].key] # Absent
                           /\ PreState.acc.leaves[witnesses[i].key] = witnesses[i].leaf_value
<1> DEFINE witnesses == scenario.block.sidecar.witnesses
           verified == verify_witnesses(PreState.acc, witnesses, scenario.pre_state_root)
<1>1. witnesses \in Seq(StateWitnesses)
    BY Zenon DEF LocalReferenceScenarios, CanonicalBlocks
<1>2. PreState.acc \in Accumulators /\ PreState.result \in {"Ok"} \cup TransitionErrors
    BY MaterializeAnswers, ZenonT(40) DEF PreState, LocalReferenceScenarios
<1>3. prepare_witness(header)
        = IF compute_execution_witnesses_root(witnesses) # header.execution_witnesses_root
          THEN "WitnessVerificationFailed"
          ELSE IF PreState.result # "Ok" THEN PreState.result
          ELSE IF PreState.acc.root # scenario.pre_state_root THEN "RootContinuityMismatch"
          ELSE verified
    BY Zenon DEF prepare_witness, PreState
<1>4. verified \in {"Ok", "NonCanonicalWitnessOrdering", "UnsupportedProofShape",
                    "Backend", "WitnessVerificationFailed"}
    BY <1>1, <1>2, WitnessesAnswer, Zenon
<1>5. verified = "Ok" => \A i \in DOMAIN witnesses :
                            /\ PreState.acc.leaves[witnesses[i].key] # Absent
                            /\ PreState.acc.leaves[witnesses[i].key] = witnesses[i].leaf_value
    BY <1>1, <1>2, WitnessesAnswer, ZenonT(40)
<1> HIDE DEF verified, witnesses
<1>6. prepare_witness(header) \in Import!Preparations
    BY <1>2, <1>3, <1>4, Zenon DEF TransitionErrors, Import!Preparations
<1>7. ASSUME prepare_witness(header) = "Ok"
      PROVE  /\ compute_execution_witnesses_root(witnesses) = header.execution_witnesses_root
             /\ PreStateStands
             /\ verified = "Ok"
    BY <1>2, <1>3, <1>7, Zenon DEF TransitionErrors, PreStateStands
<1> QED
    BY <1>5, <1>6, <1>7, ZenonT(40) DEF witnesses

\* The signature of a header is accepted or refused by one of the dispatcher's answers.
LEMMA SignatureAnswers ==
    ASSUME registry \in Registries, NEW header
    PROVE  HeaderSignatureResult(header) \in Import!Dispatches
<1> DEFINE answer == verify_for_path(registry.config, registry.verifiers, resolver.scheme_id,
                         [public_key_material |-> resolver.public_key_material,
                          signing_root |-> <<"ValidatorMessage", header.block_root>>,
                          signature |-> header.proposer_signature], "ValidatorMessage")
<1>1. registry.verifiers \in Seq(Verifiers)
    BY RegistriesAreDispatchers, Zenon
<1>2. /\ answer.error \in DispatchErrors
      /\ answer.error = "SignatureSizeExceeded" => answer.kind \in LimitKinds
    BY <1>1, DispatcherAnswers, SMTT(30)
<1>3. HeaderSignatureResult(header)
        = IF answer.error = "SignatureSizeExceeded" THEN answer.kind ELSE answer.error
    BY Zenon DEF HeaderSignatureResult
<1> HIDE DEF answer
<1> QED
    BY <1>2, <1>3, Zenon DEF DispatchErrors, LimitKinds, Import!Dispatches

\* The checks of a block in three groups, besides the revalidation of its
\* transactions.  None of them depends on the nonces the view observes.
HeaderPasses(block) ==
    /\ ~(max_witness_bytes # None /\ block.header.witness_bytes > max_witness_bytes)
    /\ resolver.answer = "Ok"
    /\ HeaderSignatureResult(block.header) = "Ok"

Bound(block) ==
    /\ block.body.transactions_root = block.header.transactions_root
    /\ block.sidecar.block_root = block.header.block_root
    /\ block.sidecar.execution_witnesses_root = block.header.execution_witnesses_root
    /\ prepare_witness(block.header) = "Ok"
    /\ engine_execute_block(block.body.transactions).result = "Ok"

RootsMatch(block) ==
    LET executed == engine_execute_block(block.body.transactions)
    IN  /\ executed.acc.root = block.header.state_root
        /\ compute_receipts_root(executed.receipts) = block.header.receipts_root

HeaderRefusals == {"WitnessByteLimitExceeded", "ProposerCredentialResolution", "Crypto"}
RootMismatches == {Import!Result("Execution", "PostStateRootMismatch"),
                   Import!Result("Execution", "ReceiptsRootMismatch")}

\* Admission transactions with their keys, by payload root.
Stores == UNION {[roots -> [transaction : AllEnvelopes, materials : Seq(PublicKeys)]] :
                    roots \in SUBSET PayloadRoots}

\* The revalidator answers a ValidationError, and Ok only for a payload it has stored.
LEMMA RevalidationAnswers ==
    ASSUME registry \in Registries, NEW stored \in Stores, NEW transaction
    PROVE  /\ reference_revalidate(stored, transaction) \in Results
           /\ reference_revalidate(stored, transaction) = "Ok" =>
                 transaction.payload_root \in DOMAIN stored
<1> DEFINE root == transaction.payload_root
<1>1. CASE root \notin DOMAIN stored
    BY <1>1, Zenon DEF reference_revalidate, Results
<1>2. CASE root \in DOMAIN stored
    <2>1. stored[root] \in [transaction : AllEnvelopes, materials : Seq(PublicKeys)]
        BY <1>2, SMTT(30) DEF Stores
    <2>2. /\ stored[root].transaction \in AllEnvelopes
          /\ stored[root].materials \in Seq(PublicKeys)
        BY <2>1, Zenon
    <2>3. admit_and_verify(stored[root].transaction, stored[root].materials).result \in Results
        BY <2>2, AdmissionAnswers, Zenon
    <2> QED
        BY <1>2, <2>3, Zenon DEF reference_revalidate
<1> QED
    BY <1>1, <1>2, Zenon

\* A block is accepted where every check passes, and refused by the error of one that
\* does not.
LEMMA ReferenceAnswers ==
    ASSUME scenario \in LocalReferenceScenarios, registry \in Registries,
           resolver \in Resolvers, NEW stored \in Stores, NEW block,
           block.body.transactions \in Seq(AllEnvelopes)
    PROVE  LET answer == validate_block_against_reference(block, stored)
               transactions == block.body.transactions
           IN  \/ /\ answer = Import!Ok
                  /\ HeaderPasses(block) /\ Bound(block) /\ RootsMatch(block)
                  /\ \A i \in DOMAIN transactions :
                        reference_revalidate(stored, transactions[i]) = "Ok"
               \/ /\ answer # Import!Ok /\ answer \in Import!Results
                  /\ \/ ~HeaderPasses(block) /\ answer.kind \in HeaderRefusals
                     \/ ~Bound(block)
                     \/ ~RootsMatch(block) /\ answer \in RootMismatches
                     \/ \E i \in DOMAIN transactions :
                           LET error == reference_revalidate(stored, transactions[i])
                           IN  /\ error # "Ok"
                               /\ answer = Import!Result("TransactionValidation", error)
<1> DEFINE transactions == block.body.transactions
           count == Len(transactions)
           executed == engine_execute_block(transactions)
           import == ReferenceImport(block, stored)
           answer == validate_block_against_reference(block, stored)
           Error(i) == reference_revalidate(stored, transactions[i])
           prefiltered == Import!prefilter_header(import, max_witness_bytes)
           bodyBound == Import!verify_body_binding(import)
           signed == Import!verify_header_signature(import)
           sidecarBound == Import!verify_sidecar_binding(import)
           compared == Import!execute_and_compare(import)
<1>1. executed \in Turns
    BY EngineAnswers, Zenon
<1>2. prepare_witness(block.header) \in Import!Preparations
    BY PreparerAnswers, Zenon
<1>3. HeaderSignatureResult(block.header) \in Import!Dispatches
    BY SignatureAnswers, Zenon
<1>4. resolver.answer \in {"Ok", "NotFound"}
    BY ResolversAreResolvers, Zenon
<1>5. \A i \in DOMAIN transactions : Error(i) \in Results
    BY RevalidationAnswers, Zenon
<1>6. prefiltered = IF max_witness_bytes # None /\ block.header.witness_bytes > max_witness_bytes
                    THEN Import!Result("WitnessByteLimitExceeded", "-") ELSE Import!Ok
    BY Zenon DEF Import!prefilter_header, ReferenceImport
<1>7. bodyBound = IF block.body.transactions_root # block.header.transactions_root
                  THEN Import!Result("HeaderBodyRootMismatch", "-") ELSE Import!Ok
    BY Zenon DEF Import!verify_body_binding, ReferenceImport
<1>8. signed = IF resolver.answer # "Ok"
               THEN Import!Result("ProposerCredentialResolution", resolver.answer)
               ELSE IF HeaderSignatureResult(block.header) # "Ok"
               THEN Import!Result("Crypto", HeaderSignatureResult(block.header))
               ELSE Import!Ok
    BY Zenon DEF Import!verify_header_signature, ReferenceImport
<1>9. sidecarBound
        = IF block.sidecar.block_root # block.header.block_root
          THEN Import!Result("SidecarBlockRootMismatch", "-")
          ELSE IF block.sidecar.execution_witnesses_root # block.header.execution_witnesses_root
          THEN Import!Result("SidecarCommitmentMismatch", "-")
          ELSE IF prepare_witness(block.header) # "Ok"
          THEN Import!Result("State", prepare_witness(block.header))
          ELSE Import!Ok
    BY Zenon DEF Import!verify_sidecar_binding, ReferenceImport
<1>10. compared
        = IF executed.result # "Ok" THEN Import!Result("Execution", executed.result)
          ELSE IF executed.acc.root # block.header.state_root
          THEN Import!Result("Execution", "PostStateRootMismatch")
          ELSE IF compute_receipts_root(executed.receipts) # block.header.receipts_root
          THEN Import!Result("Execution", "ReceiptsRootMismatch")
          ELSE Import!Ok
    BY ZenonT(40) DEF Import!execute_and_compare, ReferenceImport
<1>11. \A i \in DOMAIN transactions : Import!revalidate(import, i)
        = IF Error(i) # "Ok" THEN Import!Result("TransactionValidation", Error(i)) ELSE Import!Ok
    BY Zenon DEF Import!revalidate, ReferenceImport
<1>12. count \in Nat /\ DOMAIN transactions = 1 .. count
    OBVIOUS
<1>13. DOMAIN import.body.transactions = 1 .. count
    BY <1>12, Zenon DEF ReferenceImport
<1>14. answer = import_block(import)
    BY Zenon DEF validate_block_against_reference
<1> DEFINE Checks == {prefiltered, bodyBound, signed, sidecarBound, compared}
                       \cup {Import!revalidate(import, i) : i \in 1 .. count}
<1>15. \/ answer = Import!Ok /\ Checks = {Import!Ok}
       \/ answer # Import!Ok /\ answer \in Checks
    <2> HIDE DEF import, count, answer
    <2> QED
        BY <1>12, <1>13, <1>14, ImportAnswers, ZenonT(40)
<1> HIDE DEF executed, import, answer, transactions, count, prefiltered, bodyBound, signed,
             sidecarBound, compared
<1>16. ASSUME Checks = {Import!Ok}
       PROVE  /\ HeaderPasses(block) /\ Bound(block) /\ RootsMatch(block)
              /\ \A i \in DOMAIN transactions : Error(i) = "Ok"
    <2>1. \A kind, cause : kind # "Ok" => Import!Result(kind, cause) # Import!Ok
        BY Zenon DEF Import!Result, Import!Ok
    <2>2. /\ prefiltered = Import!Ok /\ bodyBound = Import!Ok /\ signed = Import!Ok
          /\ sidecarBound = Import!Ok /\ compared = Import!Ok
        BY <1>16, ZenonT(40)
    <2>3. HeaderPasses(block)
        BY <1>6, <1>8, <2>1, <2>2, Zenon DEF HeaderPasses
    <2>4. Bound(block)
        BY <1>7, <1>9, <1>10, <2>1, <2>2, Zenon DEF Bound, executed, transactions
    <2>5. RootsMatch(block)
        BY <1>10, <2>1, <2>2, Zenon DEF RootsMatch, executed, transactions
    <2>6. ASSUME NEW i \in DOMAIN transactions PROVE Error(i) = "Ok"
        <3>1. Import!revalidate(import, i) = Import!Ok
            BY <1>12, <1>16, ZenonT(40)
        <3> HIDE DEF Error
        <3> QED
            BY <1>11, <2>1, <3>1, Zenon
    <2> QED
        BY <2>3, <2>4, <2>5, <2>6, Zenon
<1>17. ASSUME answer # Import!Ok, answer \in Checks
       PROVE  /\ answer \in Import!Results
              /\ \/ ~HeaderPasses(block) /\ answer.kind \in HeaderRefusals
                 \/ ~Bound(block)
                 \/ ~RootsMatch(block) /\ answer \in RootMismatches
                 \/ \E i \in DOMAIN transactions :
                       /\ Error(i) # "Ok"
                       /\ answer = Import!Result("TransactionValidation", Error(i))
    <2>1. \A kind, cause : /\ Import!Result(kind, cause).kind = kind
                           /\ kind \in Import!Kinds /\ cause \in Import!Causes
                                => Import!Result(kind, cause) \in Import!Results
        BY Zenon DEF Import!Result, Import!Results
    <2>2. /\ {"-"} \cup Import!Resolutions \cup Import!Dispatches \cup Import!Preparations
               \cup Import!Executions \subseteq Import!Causes
          /\ Results \subseteq Import!Causes
        BY Zenon DEF Import!Causes, Import!Resolutions, Import!Dispatches, Import!Preparations,
               Import!Executions, Import!Revalidations, Import!PrimitiveErrors,
               Import!DecodingErrors, Import!SignatureErrors, Import!PolicyErrors,
               Import!CallerErrors, Results, ScreeningErrors, CryptoErrors
    <2>3. CASE answer = prefiltered
        BY <1>6, <1>17, <2>1, <2>2, <2>3, Zenon DEF HeaderPasses, HeaderRefusals, Import!Kinds
    <2>4. CASE answer = signed
        BY <1>3, <1>4, <1>8, <1>17, <2>1, <2>2, <2>4, Zenon
           DEF HeaderPasses, HeaderRefusals, Import!Kinds, Import!Resolutions
    <2>5. CASE answer = bodyBound
        BY <1>7, <1>17, <2>1, <2>2, <2>5, Zenon DEF Bound, Import!Kinds
    <2>6. CASE answer = sidecarBound
        BY <1>2, <1>9, <1>17, <2>1, <2>2, <2>6, Zenon DEF Bound, Import!Kinds
    <2>7. CASE answer = compared
        <3>1. executed.result \in Import!Executions
            BY <1>1, Zenon DEF Turns, Import!Executions
        <3>2. {"PostStateRootMismatch", "ReceiptsRootMismatch"} \subseteq Import!Executions
            BY Zenon DEF Import!Executions
        <3> QED
            BY <1>10, <1>17, <2>1, <2>2, <2>7, <3>1, <3>2, ZenonT(40)
            DEF Bound, RootsMatch, RootMismatches, executed, transactions, Import!Kinds
    <2>8. CASE \E i \in 1 .. count : answer = Import!revalidate(import, i)
        <3>1. PICK i \in DOMAIN transactions : answer = Import!revalidate(import, i)
            BY <1>12, <2>8, Zenon
        <3>2. Error(i) \in Results
            BY <1>5, Zenon
        <3> HIDE DEF Error
        <3>3. Error(i) # "Ok" /\ answer = Import!Result("TransactionValidation", Error(i))
            BY <1>11, <1>17, <3>1, Zenon
        <3>4. answer \in Import!Results
            BY <2>1, <2>2, <3>2, <3>3, Zenon DEF Import!Kinds
        <3> QED
            BY <3>3, <3>4, Zenon
    <2> QED
        BY <1>17, <2>3, <2>4, <2>5, <2>6, <2>7, <2>8, Zenon
<1> QED
    BY <1>15, <1>16, <1>17, Zenon DEF answer, transactions

\* Each stored transaction is an admission transaction of the scenario beside its keys,
\* and each of these is stored where no two carry one payload.
LEMMA StoredAdmissions ==
    ASSUME NEW s \in LocalReferenceScenarios
    PROVE  LET stored == admission_transactions_by_payload_root(s)
               Pair(i) == [transaction |-> s.admission_transactions[i],
                           materials |-> s.transaction_authorization_materials[i]]
               Root(i) == s.admission_transactions[i].payload_root
           IN  /\ stored \in Stores
               /\ DOMAIN stored = {Root(i) : i \in Zipped(s)}
               /\ \A root \in DOMAIN stored : \E i \in Zipped(s) :
                     Root(i) = root /\ stored[root] = Pair(i)
               /\ ~DuplicatePayloadRoot(s) => \A i \in Zipped(s) : stored[Root(i)] = Pair(i)
<1> DEFINE stored == admission_transactions_by_payload_root(s)
           Pair(i) == [transaction |-> s.admission_transactions[i],
                       materials |-> s.transaction_authorization_materials[i]]
           Root(i) == s.admission_transactions[i].payload_root
           Of(root) == CHOOSE i \in Zipped(s) : Root(i) = root
<1>1. stored = [root \in {Root(i) : i \in Zipped(s)} |-> Pair(Of(root))]
    BY Zenon DEF admission_transactions_by_payload_root
<1>2. ASSUME NEW root \in {Root(i) : i \in Zipped(s)}
      PROVE  Of(root) \in Zipped(s) /\ Root(Of(root)) = root
    BY Zenon
<1>3. ASSUME NEW i \in Zipped(s)
      PROVE  /\ Root(i) \in PayloadRoots
             /\ Pair(i) \in [transaction : AllEnvelopes, materials : Seq(PublicKeys)]
    <2>1. /\ s.admission_transactions \in Seq(AllEnvelopes)
          /\ s.transaction_authorization_materials \in Seq(Seq(PublicKeys))
        BY Zenon DEF LocalReferenceScenarios
    <2>2. /\ i \in DOMAIN s.admission_transactions
          /\ i \in DOMAIN s.transaction_authorization_materials
        BY <1>3, Zenon DEF Zipped
    <2>3. /\ s.admission_transactions[i] \in AllEnvelopes
          /\ s.transaction_authorization_materials[i] \in Seq(PublicKeys)
        BY <2>1, <2>2, SMTT(30)
    <2> QED
        BY <2>3, Zenon DEF AllEnvelopes
<1> HIDE DEF stored, Of, Pair, Root
<1>4. stored \in Stores
    <2> DEFINE roots == {Root(i) : i \in Zipped(s)}
    <2>1. roots \in SUBSET PayloadRoots
        BY <1>3, Zenon
    <2>2. stored \in [roots -> [transaction : AllEnvelopes, materials : Seq(PublicKeys)]]
        BY <1>1, <1>2, <1>3, Zenon
    <2> HIDE DEF roots
    <2> QED
        BY <2>1, <2>2, Zenon DEF Stores
<1>5. DOMAIN stored = {Root(i) : i \in Zipped(s)}
    BY <1>1, Zenon
<1>6. \A root \in DOMAIN stored : \E i \in Zipped(s) : Root(i) = root /\ stored[root] = Pair(i)
    BY <1>1, <1>2, <1>5, Zenon
<1>7. ASSUME ~DuplicatePayloadRoot(s), NEW i \in Zipped(s) PROVE stored[Root(i)] = Pair(i)
    <2>1. Root(i) \in DOMAIN stored
        BY <1>5, Zenon
    <2>2. PICK j \in Zipped(s) : Root(j) = Root(i) /\ stored[Root(i)] = Pair(j)
        BY <1>6, <2>1, Zenon
    <2>3. j = i
        BY <1>7, <2>2, Zenon DEF DuplicatePayloadRoot, Root
    <2> QED
        BY <2>2, <2>3, Zenon
<1> QED
    BY <1>4, <1>5, <1>6, <1>7, Zenon DEF stored, Pair, Root

-----------------------------------------------------------------------------
(* What an accepted block has to be.                                       *)

Stored == admission_transactions_by_payload_root(scenario)

\* The value of a key is the one listed for it, as far as it is not overwritten.
LEMMA ValuesAreOverwritten ==
    ASSUME NEW n \in Nat, NEW key
    PROVE  ValueAfter(n, key)
             = Overwritten(n, key, Listed(scenario.materialized_state, key))
BY Zenon DEF ValueAfter, Overwritten, Listed

\* The services of the runtime let a block pass only where it replays the plans.
LEMMA BoundBlocksReplay ==
    ASSUME scenario \in LocalReferenceScenarios, NEW block,
           block.body.transactions \in Seq(AllEnvelopes), Bound(block), RootsMatch(block)
    PROVE  Replays(block)
<1> DEFINE transactions == block.body.transactions
           steps == scenario.planned_transactions
           witnesses == scenario.block.sidecar.witnesses
           leaves == scenario.materialized_state
           executed == engine_execute_block(transactions)
           n == Len(steps)
<1>1. /\ Len(transactions) = n
      /\ DoneAfter(n, transactions, PreState.acc, executed)
      /\ PreStateStands
    BY EngineAnswers, Zenon DEF Bound
<1>2. /\ compute_execution_witnesses_root(witnesses) = block.header.execution_witnesses_root
      /\ \A i \in DOMAIN witnesses : /\ PreState.acc.leaves[witnesses[i].key] # Absent
                                     /\ PreState.acc.leaves[witnesses[i].key]
                                          = witnesses[i].leaf_value
    BY PreparerAnswers, Zenon DEF Bound
<1>3. /\ steps \in Seq(PlannedTransactions) /\ leaves \in Seq(MaterializedLeaves)
      /\ witnesses \in Seq(StateWitnesses) /\ witnesses # <<>>
    BY Zenon DEF LocalReferenceScenarios, CanonicalBlocks
<1>4. n \in Nat /\ DOMAIN steps = 1 .. n
    BY <1>3
<1>5. /\ PreState.acc.leaves = [key \in Keys |-> Listed(leaves, key)]
      /\ leaves # <<>> => PreState.acc.root = compute_reference_root(PreState.acc.leaves)
    BY <1>1, <1>3, MaterializeAnswers, ZenonT(40) DEF PreState, PreStateStands
<1>6. \A i \in DOMAIN witnesses : witnesses[i].key \in Keys
    <2>1. \A i \in DOMAIN witnesses : witnesses[i] \in StateWitnesses
        BY <1>3, SMTT(30)
    <2> HIDE DEF witnesses
    <2> QED
        BY <2>1, Zenon DEF StateWitnesses
<1>7. leaves # <<>>
    <2>1. 1 \in DOMAIN witnesses
        BY ONLY <1>3, SMTT(30)
    <2>2. Listed(leaves, witnesses[1].key) # Absent
        BY <1>2, <1>5, <1>6, <2>1, Zenon
    <2>3. Listed(<<>>, witnesses[1].key) = Absent
        BY SMTT(30) DEF Listed
    <2> HIDE DEF leaves, witnesses
    <2> QED
        BY <2>2, <2>3, Zenon
<1>8. \A key \in Keys : Overwritten(n, key, PreState.acc.leaves[key]) = ValueAfter(n, key)
    BY <1>4, <1>5, ValuesAreOverwritten, SMTT(30)
<1>9. executed.acc.leaves = [key \in Keys |-> ValueAfter(n, key)]
    BY <1>1, <1>8, ZenonT(40) DEF DoneAfter
<1>10. executed.acc.root = <<"digest", [key \in Keys |-> ValueAfter(n, key)]>>
    <2>1. CASE n # 0
        BY <1>1, <1>9, <2>1, ZenonT(40) DEF DoneAfter, compute_reference_root
    <2>2. CASE n = 0
        <3>1. executed.acc.root = PreState.acc.root
            BY <1>1, <2>2, Zenon DEF DoneAfter
        <3>2. PreState.acc.leaves = [key \in Keys |-> ValueAfter(n, key)]
            <4>1. \A key \in Keys : ValueAfter(0, key) = Listed(leaves, key)
                BY ONLY ValuesAreOverwritten, OneMoreStep, SMTT(30)
            <4> QED
                BY <1>5, <2>2, <4>1, Zenon
        <3> QED
            BY <1>5, <1>7, <3>1, <3>2, Zenon DEF compute_reference_root
    <2> QED
        BY <2>1, <2>2, ZenonT(40)
<1>11. block.header.state_root = <<"digest", [key \in Keys |-> ValueAfter(n, key)]>>
    BY <1>10, Zenon DEF RootsMatch
<1>12. block.header.receipts_root = <<"receipts", [i \in DOMAIN steps |-> steps[i].receipt]>>
    BY <1>1, <1>4, ZenonT(40) DEF RootsMatch, DoneAfter, compute_receipts_root
<1>13. \A i \in DOMAIN steps : steps[i].transaction_root = canonical_root(transactions[i])
    BY <1>1, <1>4, Zenon DEF DoneAfter
<1>14. \A i \in DOMAIN witnesses : ValueAfter(0, witnesses[i].key) = witnesses[i].leaf_value
    <2>1. \A key \in Keys : ValueAfter(0, key) = Listed(leaves, key)
        BY ValuesAreOverwritten, OneMoreStep
    <2> QED
        BY <1>2, <1>5, <1>6, <2>1, ZenonT(40)
<1>15. block.header.execution_witnesses_root = <<"witnesses", witnesses>>
    BY <1>2, ZenonT(40) DEF compute_execution_witnesses_root
<1> QED
    BY <1>1, <1>11, <1>12, <1>13, <1>14, <1>15, ZenonT(40) DEF Replays

-----------------------------------------------------------------------------
(* Scenarios as they are loaded and changed.                               *)

\* What resolve_root_check_scenario and from_root_check_scenario make sure of.
Consistent(s) ==
    LET block == s.block
        count == Len(block.body.transactions)
        witnesses == block.sidecar.witnesses
        materialized == materialize_accumulator(s.materialized_state)
    IN  /\ Len(s.admission_transactions) = count
        /\ Len(s.planned_transactions) = count
        /\ Len(s.transaction_authorization_materials) = count
        /\ \A i \in 1 .. count :
              /\ s.admission_transactions[i].payload_root
                   = block.body.transactions[i].payload_root
              /\ s.planned_transactions[i].transaction_root
                   = canonical_root(block.body.transactions[i])
        /\ block.body.transactions_root = block.header.transactions_root
        /\ block.sidecar.block_root = block.header.block_root
        /\ block.sidecar.execution_witnesses_root = block.header.execution_witnesses_root
        /\ compute_execution_witnesses_root(witnesses) = block.header.execution_witnesses_root
        /\ materialized.result = "Ok"
        /\ materialized.acc.root = s.pre_state_root
        /\ verify_witnesses(materialized.acc, witnesses, s.pre_state_root) = "Ok"

\* The transactions of a vector that resolves, as the block has them and as they are
\* admitted.
LEMMA ResolvedTransactions ==
    ASSUME NEW v \in RootCheckVectors, TransactionsResolve(v)
    PROVE  LET transactions == Transactions(v)
           IN  /\ transactions \in Seq(AllEnvelopes)
               /\ Len(transactions) = Len(v.transaction_vector_ids)
               /\ \A i \in DOMAIN transactions :
                     /\ synthesize_reference_admission_transaction(transactions[i]) \in AllEnvelopes
                     /\ synthesize_reference_admission_transaction(transactions[i]).payload_root
                          = transactions[i].payload_root
                     /\ DefaultMaterials(transactions[i]) \in Seq(PublicKeys)
                     /\ canonical_root(transactions[i]) \in EnvelopeRoots
<1> DEFINE ids == v.transaction_vector_ids
           transactions == Transactions(v)
           Envelope(i) == TransactionFixtures[ids[i]].envelope
<1>1. ids \in Seq(STRING)
    BY Zenon DEF RootCheckVectors
<1>2. ASSUME NEW i \in DOMAIN ids
      PROVE  Envelope(i) \in AllEnvelopes
    <2>1. ids[i] \in DOMAIN TransactionFixtures
        BY Zenon DEF TransactionsResolve
    <2>2. TransactionFixtures[ids[i]] \in AllTransactionVectors
        BY <2>1, FixturesAreVectors, Zenon
    <2> QED
        BY <2>2, Zenon DEF AllTransactionVectors
<1>3. transactions = [i \in DOMAIN ids |-> [Envelope(i) EXCEPT !.authorizations = <<>>]]
    BY Zenon DEF Transactions, TransactionVectors
<1>4. ASSUME NEW i \in DOMAIN ids
      PROVE  transactions[i] \in AllEnvelopes /\ transactions[i].authorizations = <<>>
    <2> HIDE DEF Envelope, transactions
    <2>1. transactions[i] = [Envelope(i) EXCEPT !.authorizations = <<>>]
        BY <1>3, <1>4, Zenon
    <2>2. Envelope(i) \in AllEnvelopes
        BY <1>2, <1>4, SMTT(30)
    <2>3. ASSUME NEW e \in AllEnvelopes
          PROVE  /\ [e EXCEPT !.authorizations = <<>>] \in AllEnvelopes
                 /\ [e EXCEPT !.authorizations = <<>>].authorizations = <<>>
        <3>1. <<>> \in Seq(Authorizations)
            OBVIOUS
        <3>2. \A none \in Seq(Authorizations) :
                /\ [e EXCEPT !.authorizations = none] \in AllEnvelopes
                /\ [e EXCEPT !.authorizations = none].authorizations = none
            BY Zenon DEF AllEnvelopes
        <3> QED
            BY <3>1, <3>2, Zenon
    <2> QED
        BY <2>1, <2>2, <2>3, Zenon
<1>5. transactions \in Seq(AllEnvelopes) /\ Len(transactions) = Len(ids)
    <2> HIDE DEF Envelope, ids
    <2>1. DOMAIN transactions = DOMAIN ids
        BY <1>3, Zenon
    <2> QED
        BY <1>1, <1>3, <1>4, SMTT(30)
<1>6. ASSUME NEW t \in AllEnvelopes, t.authorizations = <<>>
      PROVE  /\ synthesize_reference_admission_transaction(t) \in AllEnvelopes
             /\ synthesize_reference_admission_transaction(t).payload_root = t.payload_root
             /\ DefaultMaterials(t) \in Seq(PublicKeys)
             /\ canonical_root(t) \in EnvelopeRoots
    <2> DEFINE placeholder == [scheme_id |-> 0, payload_root |-> t.payload_root,
                               signature |-> ReferenceSignature]
    <2>1. placeholder \in Authorizations
        BY ReferenceCredentials, Zenon DEF Authorizations, AllEnvelopes
    <2>2. synthesize_reference_admission_transaction(t)
            = [t EXCEPT !.authorizations = <<placeholder>>]
        BY <1>6, Zenon DEF synthesize_reference_admission_transaction
    <2> HIDE DEF placeholder
    <2>3. <<placeholder>> \in Seq(Authorizations)
        BY <2>1
    <2>4. /\ synthesize_reference_admission_transaction(t) \in AllEnvelopes
          /\ synthesize_reference_admission_transaction(t).payload_root = t.payload_root
        BY <2>2, <2>3, ZenonT(40) DEF AllEnvelopes
    <2>5. DefaultMaterials(t) \in Seq(PublicKeys)
        BY <1>6, ReferenceCredentials, SMTT(30) DEF DefaultMaterials
    <2>6. canonical_root(t) \in EnvelopeRoots
        BY Zenon DEF canonical_root, EnvelopeRoots, AllEnvelopes
    <2> QED
        BY <2>4, <2>5, <2>6, Zenon
<1>7. DOMAIN transactions = DOMAIN ids
    BY <1>3, Zenon
<1> HIDE DEF transactions, ids
<1> QED
    BY <1>4, <1>5, <1>6, <1>7, Zenon DEF transactions, ids

\* The witnesses of a vector that resolves.
LEMMA ResolvedWitnesses ==
    ASSUME NEW v \in RootCheckVectors, WitnessesResolve(v)
    PROVE  /\ Len(WitnessVectors(v)) = Len(v.witness_vector_ids)
           /\ \A i \in DOMAIN v.witness_vector_ids :
                 /\ v.witness_vector_ids[i] \in DOMAIN WitnessFixtures
                 /\ WitnessVectors(v)[i] = WitnessFixtures[v.witness_vector_ids[i]]
                 /\ WitnessVectors(v)[i] \in AllWitnessVectors
                 /\ WitnessVectors(v)[i].witness \in StateWitnesses
           /\ Witnesses(v) \in Seq(StateWitnesses)
           /\ Len(Witnesses(v)) = Len(v.witness_vector_ids)
<1> DEFINE ids == v.witness_vector_ids
<1>1. ids \in Seq(STRING)
    BY Zenon DEF RootCheckVectors
<1>2. WitnessVectors(v) = [i \in DOMAIN ids |-> WitnessFixtures[ids[i]]]
    BY Zenon DEF WitnessVectors
<1>3. ASSUME NEW i \in DOMAIN ids
      PROVE  /\ ids[i] \in DOMAIN WitnessFixtures
             /\ WitnessVectors(v)[i] = WitnessFixtures[ids[i]]
             /\ WitnessVectors(v)[i] \in AllWitnessVectors
             /\ WitnessVectors(v)[i].witness \in StateWitnesses
    <2>1. ids[i] \in DOMAIN WitnessFixtures
        BY Zenon DEF WitnessesResolve
    <2>2. WitnessVectors(v)[i] = WitnessFixtures[ids[i]]
        BY <1>2, Zenon
    <2>3. WitnessFixtures[ids[i]] \in AllWitnessVectors
        BY <2>1, FixturesAreVectors, Zenon
    <2>4. WitnessVectors(v)[i].witness # None
        BY <1>2, Zenon DEF WitnessesResolve
    <2> QED
        BY <2>1, <2>2, <2>3, <2>4, Zenon DEF AllWitnessVectors
<1>4. Witnesses(v) = [i \in DOMAIN ids |-> WitnessVectors(v)[i].witness]
    BY Zenon DEF Witnesses
<1>5. Len(WitnessVectors(v)) = Len(ids)
    BY ONLY <1>1, <1>2, SMTT(30)
<1>6. Witnesses(v) \in Seq(StateWitnesses) /\ Len(Witnesses(v)) = Len(ids)
    <2> HIDE DEF ids
    <2> QED
        BY <1>1, <1>3, <1>4, SMTT(30)
<1> QED
    BY <1>3, <1>5, <1>6, Zenon

\* The plans of a vector that resolves: one for each transaction, of one leaf.
LEMMA ResolvedPlans ==
    ASSUME NEW v \in RootCheckVectors, TransactionsResolve(v), WitnessesResolve(v),
           StepsResolve(v)
    PROVE  LET steps == ResolvedSteps(v)
           IN  /\ DOMAIN steps = 1 .. Len(v.transaction_vector_ids)
               /\ \A i \in DOMAIN steps :
                     /\ PlannedStep(steps[i]) \in PlannedTransactions
                     /\ PlannedStep(steps[i]).transaction_root
                          = canonical_root(Transactions(v)[i])
<1> DEFINE ids == v.transaction_vector_ids
           steps == ResolvedSteps(v)
<1>1. ids \in Seq(STRING) /\ v.steps \in Seq(RootCheckExecutionSteps)
    BY Zenon DEF RootCheckVectors
<1>2. DOMAIN steps = DOMAIN ids /\ DOMAIN ids = 1 .. Len(ids)
    <2>1. DOMAIN steps = DOMAIN ids
        BY ONLY Zenon DEF ResolvedSteps
    <2> HIDE DEF steps, ids
    <2> QED
        BY ONLY <1>1, <2>1, SMTT(30)
<1>3. ASSUME NEW i \in DOMAIN ids
      PROVE  /\ PlannedStep(steps[i]) \in PlannedTransactions
             /\ PlannedStep(steps[i]).transaction_root = canonical_root(Transactions(v)[i])
    <2> DEFINE given == v.steps[i]
               witness == WitnessFixtures[given.witness_vector_id].witness
    <2>1. i \in DOMAIN v.steps
        BY <1>1, <1>2, <1>3, SMTT(30) DEF StepsResolve
    <2>2. given \in RootCheckExecutionSteps
        BY ONLY <1>1, <2>1, SMTT(30)
    <2>3. PICK w \in DOMAIN v.witness_vector_ids : v.witness_vector_ids[w] = given.witness_vector_id
        BY <1>3, Zenon DEF StepsResolve, WithId
    <2>4. witness \in StateWitnesses
        BY <2>3, ResolvedWitnesses, ZenonT(40)
    <2>5. steps[i] = [transaction_root |-> canonical_root(Transactions(v)[i]),
                      key |-> witness.key, new_leaf_value |-> given.new_leaf_value,
                      receipt |-> given.receipt]
        BY <1>3, Zenon DEF ResolvedSteps
    <2> HIDE DEF steps, witness, given
    <2>6. witness.key \in Keys /\ given.new_leaf_value \in Values /\ given.receipt \in Receipts
        BY <2>2, <2>4, Zenon DEF StateWitnesses, RootCheckExecutionSteps
    <2>7. canonical_root(Transactions(v)[i]) \in EnvelopeRoots
        <3>1. i \in DOMAIN Transactions(v)
            BY <1>2, <1>3, Zenon DEF Transactions
        <3> QED
            BY <3>1, ResolvedTransactions, Zenon
    <2>8. PICK root, key, value, receipt :
             root = canonical_root(Transactions(v)[i]) /\ key = witness.key
             /\ value = given.new_leaf_value /\ receipt = given.receipt
        BY Zenon
    <2>9. steps[i] = [transaction_root |-> root, key |-> key, new_leaf_value |-> value,
                      receipt |-> receipt]
        BY <2>5, <2>8, Zenon
    <2>10. root \in EnvelopeRoots /\ key \in Keys /\ value \in Values /\ receipt \in Receipts
        BY <2>6, <2>7, <2>8, Zenon
    <2>11. PICK step : step = steps[i]
        BY Zenon
    <2>12. /\ step.transaction_root = root /\ step.key = key
           /\ step.new_leaf_value = value /\ step.receipt = receipt
        BY ONLY <2>9, <2>11
    <2>13. PlannedStep(step)
             = [transaction_root |-> root,
                state_patch |-> [accesses |-> <<key>>, new_values |-> <<value>>],
                receipt |-> receipt]
        BY ONLY <2>12, Zenon DEF PlannedStep
    <2>14. [accesses |-> <<key>>, new_values |-> <<value>>] \in LeafPatches
        BY ONLY <2>10, SMTT(30) DEF LeafPatches
    <2>15. PICK patch : patch = [accesses |-> <<key>>, new_values |-> <<value>>]
        BY Zenon
    <2>16. PlannedStep(step)
             = [transaction_root |-> root, state_patch |-> patch, receipt |-> receipt]
           /\ patch \in LeafPatches
        BY ONLY <2>13, <2>14, <2>15, Zenon
    <2>17. PlannedStep(step) \in PlannedTransactions /\ PlannedStep(step).transaction_root = root
        BY ONLY <2>10, <2>16, SMTT(30) DEF PlannedTransactions
    <2> QED
        BY <2>8, <2>11, <2>17, Zenon
<1> HIDE DEF steps
<1> QED
    BY <1>2, <1>3, Zenon DEF steps

\* A list without its last element is one, also where it was empty.
LEMMA RemoveLastType ==
    ASSUME NEW S, NEW list \in Seq(S)
    PROVE  RemoveLast(list) \in Seq(S)
BY DEF RemoveLast

\* An offered envelope has a root.
LEMMA CanonicalRootType ==
    ASSUME NEW envelope \in AllEnvelopes
    PROVE  canonical_root(envelope) \in EnvelopeRoots
BY Zenon DEF AllEnvelopes, canonical_root, EnvelopeRoots

\* Committing to other witnesses keeps a scenario one.
LEMMA RecommittedType ==
    ASSUME scenario \in LocalReferenceScenarios,
           NEW witnesses \in Seq(StateWitnesses) \ {<<>>}
    PROVE  Recommitted(witnesses) \in LocalReferenceScenarios
<1> DEFINE root == compute_execution_witnesses_root(witnesses)
           block == scenario.block
           header == [block.header EXCEPT !.execution_witnesses_root = root]
           sidecar == [block.sidecar EXCEPT !.witnesses = witnesses,
                                            !.execution_witnesses_root = root]
           changed == [block EXCEPT !.sidecar = sidecar, !.header = header]
<1>1. root \in Hashes
    BY Zenon DEF compute_execution_witnesses_root, Hashes
<1>2. block \in CanonicalBlocks
    BY Zenon DEF LocalReferenceScenarios
<1>3. header \in CanonicalBlockHeaders
    <2>1. block.header \in CanonicalBlockHeaders
        BY <1>2, Zenon DEF CanonicalBlocks
    <2> HIDE DEF root, block
    <2> QED
        BY <1>1, <2>1, Zenon DEF CanonicalBlockHeaders
<1>4. sidecar \in [block_root : Hashes, execution_witnesses_root : Hashes,
                   witnesses : Seq(StateWitnesses) \ {<<>>}]
    <2>1. block.sidecar \in [block_root : Hashes, execution_witnesses_root : Hashes,
                             witnesses : Seq(StateWitnesses) \ {<<>>}]
        BY <1>2, Zenon DEF CanonicalBlocks
    <2> HIDE DEF root, block
    <2> QED
        BY <1>1, <2>1, ZenonT(40)
<1>5. changed \in CanonicalBlocks
    <2> HIDE DEF header, sidecar, block
    <2> QED
        BY <1>2, <1>3, <1>4, ZenonT(40) DEF CanonicalBlocks
<1>6. Recommitted(witnesses) = [scenario EXCEPT !.block = changed]
    <2> HIDE DEF root
    <2>1. Recommitted(witnesses)
            = [scenario EXCEPT !.block.sidecar.witnesses = witnesses,
                               !.block.sidecar.execution_witnesses_root = root,
                               !.block.header.execution_witnesses_root = root]
        BY Zenon DEF Recommitted, root
    <2> QED
        BY <1>2, <2>1, ZenonT(40) DEF LocalReferenceScenarios, CanonicalBlocks, CanonicalBlockHeaders
<1> HIDE DEF changed
<1> QED
    BY <1>5, <1>6, Zenon DEF LocalReferenceScenarios

\* A changed scenario is one, whatever field is changed.
LEMMA EditsType ==
    ASSUME scenario \in LocalReferenceScenarios, NEW s \in Edits
    PROVE  s \in LocalReferenceScenarios
<1> DEFINE block == scenario.block
           admissions == scenario.admission_transactions
           plans == scenario.planned_transactions
           materials == scenario.transaction_authorization_materials
<1>1. /\ block \in CanonicalBlocks /\ admissions \in Seq(AllEnvelopes)
      /\ plans \in Seq(PlannedTransactions) /\ materials \in Seq(Seq(PublicKeys))
      /\ scenario.pre_state_root \in Hashes
      /\ scenario.materialized_state \in Seq(MaterializedLeaves)
    BY Zenon DEF LocalReferenceScenarios
<1>2. /\ RemoveLast(admissions) \in Seq(AllEnvelopes)
      /\ RemoveLast(plans) \in Seq(PlannedTransactions)
      /\ RemoveLast(materials) \in Seq(Seq(PublicKeys))
    BY <1>1, RemoveLastType, Zenon
<1>3. ZeroRoot \in Hashes
    BY Zenon DEF ZeroRoot, Roots, Hashes
<1>4. \/ s = [scenario EXCEPT !.admission_transactions = RemoveLast(@)]
      \/ s = [scenario EXCEPT !.planned_transactions = RemoveLast(@)]
      \/ s = [scenario EXCEPT !.transaction_authorization_materials = RemoveLast(@)]
      \/ s = [scenario EXCEPT !.pre_state_root = ZeroRoot]
      \/ s = [scenario EXCEPT !.materialized_state = <<>>]
      \/ \E i \in DOMAIN admissions, envelope \in Offered : s = WithAdmission(i, envelope)
      \/ \E i \in DOMAIN materials, keys \in MaterialLists : s = WithKeys(i, keys)
      \/ \E i \in DOMAIN block.body.transactions \cap DOMAIN plans, envelope \in Offered :
            s = WithTransaction(i, envelope)
      \/ \E i \in DOMAIN block.sidecar.witnesses, value \in Values : s = WithWitness(i, value)
    <2>1. \/ s \in Reduced
          \/ \E i \in DOMAIN admissions, envelope \in Offered : s = WithAdmission(i, envelope)
          \/ \E i \in DOMAIN materials, keys \in MaterialLists : s = WithKeys(i, keys)
          \/ \E i \in DOMAIN block.body.transactions \cap DOMAIN plans, envelope \in Offered :
                s = WithTransaction(i, envelope)
          \/ \E i \in DOMAIN block.sidecar.witnesses, value \in Values :
                s = WithWitness(i, value)
        BY DEF Edits
    <2> QED
        BY <2>1, ZenonT(40) DEF Reduced
<1>5. CASE s = [scenario EXCEPT !.admission_transactions = RemoveLast(@)]
    BY <1>2, <1>5, Zenon DEF LocalReferenceScenarios
<1>6. CASE s = [scenario EXCEPT !.planned_transactions = RemoveLast(@)]
    BY <1>2, <1>6, Zenon DEF LocalReferenceScenarios
<1>7. CASE s = [scenario EXCEPT !.transaction_authorization_materials = RemoveLast(@)]
    BY <1>2, <1>7, Zenon DEF LocalReferenceScenarios
<1>8. CASE s = [scenario EXCEPT !.pre_state_root = ZeroRoot]
    BY <1>3, <1>8, Zenon DEF LocalReferenceScenarios
<1>9. CASE s = [scenario EXCEPT !.materialized_state = <<>>]
    <2>1. \A none \in Seq(MaterializedLeaves) :
            [scenario EXCEPT !.materialized_state = none] \in LocalReferenceScenarios
        BY Zenon DEF LocalReferenceScenarios
    <2> QED
        BY <1>9, <2>1, <<>> \in Seq(MaterializedLeaves), Zenon
<1>10. ASSUME NEW i \in DOMAIN admissions, NEW envelope \in Offered,
              s = WithAdmission(i, envelope)
       PROVE  s \in LocalReferenceScenarios
    <2>1. [admissions EXCEPT ![i] = envelope] \in Seq(AllEnvelopes)
        BY <1>1, OfferedAreEnvelopes, SMTT(30)
    <2>2. s = [scenario EXCEPT !.admission_transactions = [admissions EXCEPT ![i] = envelope]]
        BY <1>10, Zenon DEF WithAdmission
    <2> DEFINE list == [admissions EXCEPT ![i] = envelope]
    <2> HIDE DEF list
    <2> QED
        BY <2>1, <2>2, Zenon DEF LocalReferenceScenarios, list
<1>11. ASSUME NEW i \in DOMAIN materials, NEW keys \in MaterialLists,
              s = WithKeys(i, keys)
       PROVE  s \in LocalReferenceScenarios
    <2>1. [materials EXCEPT ![i] = keys] \in Seq(Seq(PublicKeys))
        BY <1>1, MaterialListsAreKeys, SMTT(30)
    <2>2. s = [scenario EXCEPT !.transaction_authorization_materials
                                   = [materials EXCEPT ![i] = keys]]
        BY <1>11, Zenon DEF WithKeys
    <2> DEFINE list == [materials EXCEPT ![i] = keys]
    <2> HIDE DEF list
    <2> QED
        BY <2>1, <2>2, ZenonT(40) DEF LocalReferenceScenarios, list
<1>12. ASSUME NEW i \in DOMAIN block.body.transactions \cap DOMAIN plans,
              NEW envelope \in Offered,
              s = WithTransaction(i, envelope)
       PROVE  s \in LocalReferenceScenarios
    <2> DEFINE transactions == [block.body.transactions EXCEPT ![i] = envelope]
               body == [block.body EXCEPT !.transactions = transactions]
               changed == [block EXCEPT !.body = body]
               plan == [plans[i] EXCEPT !.transaction_root = canonical_root(envelope)]
               list == [plans EXCEPT ![i] = plan]
    <2>1. envelope \in AllEnvelopes /\ canonical_root(envelope) \in EnvelopeRoots
        BY OfferedAreEnvelopes, CanonicalRootType, ZenonT(40)
    <2>2. block.body \in [transactions : Seq(AllEnvelopes), transactions_root : Hashes]
        BY <1>1, Zenon DEF CanonicalBlocks
    <2>3. transactions \in Seq(AllEnvelopes)
        BY <2>1, <2>2, SMTT(30)
    <2>4. body \in [transactions : Seq(AllEnvelopes), transactions_root : Hashes]
        BY <2>2, <2>3, Zenon
    <2>5. changed \in CanonicalBlocks
        <3> HIDE DEF body, block
        <3> QED
            BY <1>1, <2>4, ZenonT(40) DEF CanonicalBlocks
    <2>6. plan \in PlannedTransactions
        <3>1. plans[i] \in PlannedTransactions
            BY <1>1, SMTT(30)
        <3> HIDE DEF plans
        <3> QED
            BY <2>1, <3>1, Zenon DEF PlannedTransactions
    <2>7. list \in Seq(PlannedTransactions)
        <3> HIDE DEF plan, plans
        <3> QED
            BY <1>1, <2>6, SMTT(30)
    <2>8. s = [scenario EXCEPT !.block = changed, !.planned_transactions = list]
        BY <1>12, Zenon DEF WithTransaction, LocalReferenceScenarios
    <2> HIDE DEF changed, list
    <2> QED
        BY <2>5, <2>7, <2>8, ZenonT(40) DEF LocalReferenceScenarios
<1>13. ASSUME NEW i \in DOMAIN block.sidecar.witnesses, NEW value \in Values,
              s = WithWitness(i, value)
       PROVE  s \in LocalReferenceScenarios
    <2> DEFINE witnesses == block.sidecar.witnesses
               told == [witnesses[i] EXCEPT !.leaf_value = value]
               list == [witnesses EXCEPT ![i] = told]
    <2>1. witnesses \in Seq(StateWitnesses) /\ i \in DOMAIN witnesses
        BY <1>1, Zenon DEF CanonicalBlocks
    <2>2. told \in StateWitnesses
        <3>1. witnesses[i] \in StateWitnesses
            BY <2>1
        <3> HIDE DEF witnesses
        <3> QED
            BY <3>1, Zenon DEF StateWitnesses
    <2>3. [witnesses EXCEPT ![i].leaf_value = value] = list
        BY Zenon
    <2>4. list \in Seq(StateWitnesses) \ {<<>>}
        <3> HIDE DEF told, witnesses
        <3>1. list \in Seq(StateWitnesses)
            BY <2>1, <2>2, SMTT(30)
        <3>2. DOMAIN list = DOMAIN witnesses /\ i \in DOMAIN list
            BY <2>1, Zenon
        <3>3. Len(list) # 0
            <4> HIDE DEF list
            <4> QED
                BY <3>1, <3>2, SMTT(30)
        <3> HIDE DEF list
        <3> QED
            BY <3>1, <3>3, SMTT(30)
    <2> HIDE DEF list
    <2> QED
        BY <1>13, <2>3, <2>4, RecommittedType, ZenonT(40) DEF WithWitness
<1> HIDE DEF block, admissions, plans, materials
<1> QED
    BY <1>4, <1>5, <1>6, <1>7, <1>8, <1>9, <1>10, <1>11, <1>12, <1>13, Zenon

\* What may be gossiped are envelopes, and blocks over envelopes.
LEMMA OfferedType ==
    ASSUME scenario \in LocalReferenceScenarios
    PROVE  /\ OfferedTransactions \subseteq AllEnvelopes
           /\ \A block \in OfferedBlocks : block.body.transactions \in Seq(AllEnvelopes)
<1> DEFINE own == scenario.block
<1>1. own \in CanonicalBlocks /\ scenario.admission_transactions \in Seq(AllEnvelopes)
    BY Zenon DEF LocalReferenceScenarios
<1>2. OfferedTransactions \subseteq AllEnvelopes
    BY <1>1, OfferedAreEnvelopes, SMTT(30) DEF OfferedTransactions
<1>3. own.body.transactions \in Seq(AllEnvelopes)
    BY <1>1, Zenon DEF CanonicalBlocks
<1>4. ASSUME NEW block \in OfferedBlocks
      PROVE  block.body.transactions \in Seq(AllEnvelopes)
    <2>1. \/ block = own
          \/ block = [own EXCEPT !.header.witness_bytes = @ + 1]
          \/ block = [own EXCEPT !.header.block_root = scenario.pre_state_root]
          \/ block = [own EXCEPT !.header.state_root = scenario.pre_state_root]
          \/ block = [own EXCEPT !.body.transactions = RemoveLast(@)]
          \/ block = [own EXCEPT !.sidecar.witnesses = <<>>]
        BY Zenon DEF OfferedBlocks
    <2>2. RemoveLast(own.body.transactions) \in Seq(AllEnvelopes)
        BY <1>3, RemoveLastType, Zenon
    <2> HIDE DEF own
    <2>3. CASE block = [own EXCEPT !.sidecar.witnesses = <<>>]
        <3>1. \A none : [own EXCEPT !.sidecar.witnesses = none].body = own.body
            BY <1>1, Zenon DEF CanonicalBlocks
        <3> QED
            BY <1>3, <2>3, <3>1, ZenonT(40)
    <2>4. CASE block = [own EXCEPT !.body.transactions = RemoveLast(@)]
        <3>1. block.body.transactions = RemoveLast(own.body.transactions)
            BY <1>1, <2>4, Zenon DEF CanonicalBlocks
        <3> QED
            BY <2>2, <3>1, Zenon
    <2>5. CASE \/ block = own
               \/ block = [own EXCEPT !.header.witness_bytes = @ + 1]
               \/ block = [own EXCEPT !.header.block_root = scenario.pre_state_root]
               \/ block = [own EXCEPT !.header.state_root = scenario.pre_state_root]
        <3>1. block.body = own.body
            BY <1>1, <2>5, Zenon DEF CanonicalBlocks
        <3> QED
            BY <1>3, <3>1, Zenon
    <2> QED
        BY <2>1, <2>3, <2>4, <2>5, Zenon
<1> QED
    BY <1>2, <1>4, Zenon

-----------------------------------------------------------------------------
(* What the runtime answers about a scenario.                              *)

Aligned ==
    LET count == Len(scenario.block.body.transactions)
    IN  /\ Len(scenario.admission_transactions) = count
        /\ Len(scenario.planned_transactions) = count
        /\ Len(scenario.transaction_authorization_materials) = count

ShapeErrors == {"AdmissionCount", "PlannedCount", "MaterialsCount"}

\* The shape check passes exactly where the lists align.
LEMMA ShapeAnswers ==
    /\ validate_scenario_shape(scenario) \in {"Ok"} \cup ShapeErrors
    /\ validate_scenario_shape(scenario) = "Ok" <=> Aligned
BY Zenon DEF validate_scenario_shape, Aligned, ShapeErrors

\* An adapter is refused for its shape exactly where the lists do not align.
LEMMA AdapterAnswers ==
    /\ AdapterResult \in BlockResults
    /\ AdapterResult.kind # "ScenarioShape" <=> Aligned
    /\ AdapterResult = Import!Ok =>
          /\ validate_scenario_shape(scenario) = "Ok"
          /\ ~DuplicatePayloadRoot(scenario)
<1> DEFINE shape == validate_scenario_shape(scenario)
<1>1. shape \in {"Ok"} \cup ShapeErrors /\ (shape = "Ok" <=> Aligned)
    BY ShapeAnswers, Zenon
<1>2. Import!Ok \in Import!Results
    BY Zenon DEF Import!Ok, Import!Result, Import!Results, Import!Kinds, Import!Causes
<1>3. CASE shape # "Ok"
    <2> HIDE DEF shape
    <2>1. AdapterResult = ShapeError(shape)
        BY <1>3, Zenon DEF AdapterResult, shape
    <2>2. AdapterResult \in BlockResults
        BY <1>1, <1>3, <2>1, Zenon DEF BlockResults, ShapeErrors
    <2>3. AdapterResult.kind = "ScenarioShape" /\ AdapterResult # Import!Ok
        BY <2>1, Zenon DEF ShapeError, Import!Result, Import!Ok
    <2> QED
        BY <1>1, <1>3, <2>2, <2>3, Zenon
<1>4. CASE shape = "Ok"
    <2>1. AdapterResult = IF DuplicatePayloadRoot(scenario) THEN Duplicate ELSE Import!Ok
        BY <1>4, Zenon DEF AdapterResult
    <2>2. AdapterResult \in BlockResults
        BY <1>2, <2>1, Zenon DEF BlockResults
    <2>3. AdapterResult.kind # "ScenarioShape"
        BY <2>1, Zenon DEF Duplicate, Import!Ok, Import!Result
    <2>4. Duplicate # Import!Ok
        BY Zenon DEF Duplicate, Import!Ok, Import!Result
    <2> QED
        BY <1>1, <1>4, <2>1, <2>2, <2>3, <2>4, Zenon
<1> QED
    BY <1>3, <1>4, Zenon

\* What a scenario has passed that was run to its end: every check that does not
\* depend on the observed nonces.
Passed ==
    /\ validate_scenario_shape(scenario) = "Ok"
    /\ ~DuplicatePayloadRoot(scenario)
    /\ \A i \in Zipped(scenario) :
          Sound(scenario.admission_transactions[i],
                scenario.transaction_authorization_materials[i])
    /\ HeaderPasses(scenario.block)
    /\ Bound(scenario.block)
    /\ RootsMatch(scenario.block)
    /\ \A k \in DOMAIN scenario.block.body.transactions :
          scenario.block.body.transactions[k].payload_root \in DOMAIN Stored

\* Types of what is zipped.
LEMMA ZippedType ==
    ASSUME scenario \in LocalReferenceScenarios
    PROVE  /\ scenario.block.body.transactions \in Seq(AllEnvelopes)
           /\ Zipped(scenario) \in SUBSET Nat
           /\ \A i \in Zipped(scenario) :
                 /\ scenario.admission_transactions[i] \in AllEnvelopes
                 /\ scenario.transaction_authorization_materials[i] \in Seq(PublicKeys)
<1>1. /\ scenario.block \in CanonicalBlocks
      /\ scenario.admission_transactions \in Seq(AllEnvelopes)
      /\ scenario.transaction_authorization_materials \in Seq(Seq(PublicKeys))
    BY Zenon DEF LocalReferenceScenarios
<1>2. scenario.block.body.transactions \in Seq(AllEnvelopes)
    BY <1>1, Zenon DEF CanonicalBlocks
<1> QED
    BY <1>1, <1>2, SMTT(30) DEF Zipped

\* A block validated against the stored transactions of the scenario is answered by a
\* ConsensusError, and accepted only where it replays.
LEMMA BlockAnswers ==
    ASSUME scenario \in LocalReferenceScenarios, registry \in Registries,
           resolver \in Resolvers, NEW block, block.body.transactions \in Seq(AllEnvelopes)
    PROVE  LET answer == validate_block_against_reference(block, Stored)
           IN  /\ answer \in Import!Results
               /\ answer = Import!Ok => Replays(block)
<1> DEFINE answer == validate_block_against_reference(block, Stored)
<1>1. Stored \in Stores
    BY StoredAdmissions, ZenonT(40) DEF Stored
<1>2. Import!Ok \in Import!Results
    BY Zenon DEF Import!Ok, Import!Result, Import!Results, Import!Kinds, Import!Causes
<1>3. \/ /\ answer = Import!Ok
         /\ Bound(block) /\ RootsMatch(block)
         /\ \A i \in DOMAIN block.body.transactions :
               reference_revalidate(Stored, block.body.transactions[i]) = "Ok"
      \/ answer # Import!Ok /\ answer \in Import!Results
    BY <1>1, ReferenceAnswers, Zenon
<1> HIDE DEF answer
<1>4. answer \in Import!Results
    BY <1>2, <1>3, Zenon
<1>5. ASSUME answer = Import!Ok PROVE Replays(block)
    BY <1>3, <1>5, BoundBlocksReplay, Zenon
<1> QED
    BY <1>4, <1>5, Zenon DEF answer

\* The transaction admitted again for a payload of the scenario is refused for its
\* nonce at most, once everything else has passed.
LEMMA PassedRevalidations ==
    ASSUME scenario \in LocalReferenceScenarios, registry \in Registries, Passed,
           NEW k \in DOMAIN scenario.block.body.transactions
    PROVE  reference_revalidate(Stored, scenario.block.body.transactions[k])
             \in {"Ok", "NoncePolicy"}
<1> DEFINE root == scenario.block.body.transactions[k].payload_root
<1>1. root \in DOMAIN Stored
    BY Zenon DEF Passed
<1>2. PICK i \in Zipped(scenario) :
          Stored[root] = [transaction |-> scenario.admission_transactions[i],
                          materials |-> scenario.transaction_authorization_materials[i]]
    BY <1>1, StoredAdmissions, ZenonT(40) DEF Stored
<1>3. reference_revalidate(Stored, scenario.block.body.transactions[k])
        = admit_and_verify(Stored[root].transaction, Stored[root].materials).result
    BY <1>1, Zenon DEF reference_revalidate
<1>4. /\ Stored[root].transaction = scenario.admission_transactions[i]
      /\ Stored[root].materials = scenario.transaction_authorization_materials[i]
    BY ONLY <1>2, SMTT(30)
<1>5. Sound(scenario.admission_transactions[i],
            scenario.transaction_authorization_materials[i])
    BY Zenon DEF Passed
<1> QED
    BY <1>3, <1>4, <1>5, ZippedType, AdmissionAnswers, ZenonT(40)

\* The scenario's own block is refused for the nonce of a transaction at most, once
\* everything else has passed.
LEMMA PassedBlocks ==
    ASSUME scenario \in LocalReferenceScenarios, registry \in Registries,
           resolver \in Resolvers, Passed
    PROVE  validate_block_against_reference(scenario.block, Stored)
             \in {Import!Ok, Import!Result("TransactionValidation", "NoncePolicy")}
<1> DEFINE block == scenario.block
           answer == validate_block_against_reference(block, Stored)
<1>1. Stored \in Stores
    BY StoredAdmissions, ZenonT(40) DEF Stored
<1>2. block.body.transactions \in Seq(AllEnvelopes)
    BY ZippedType, ZenonT(40)
<1>3. HeaderPasses(block) /\ Bound(block) /\ RootsMatch(block)
    BY Zenon DEF Passed
<1>4. \/ answer = Import!Ok
      \/ \E i \in DOMAIN block.body.transactions :
            LET error == reference_revalidate(Stored, block.body.transactions[i])
            IN  error # "Ok" /\ answer = Import!Result("TransactionValidation", error)
    BY <1>1, <1>2, <1>3, ReferenceAnswers, ZenonT(40)
<1> QED
    BY <1>4, PassedRevalidations, Zenon

\* run stops at the first check that fails: the shape, the admission of a transaction,
\* two payloads that are alike, or the validation of the scenario's block.
LEMMA RunUnfolds ==
    ASSUME scenario \in LocalReferenceScenarios, registry \in Registries
    PROVE  \/ ~Aligned /\ \E error \in ShapeErrors : run = ShapeError(error)
           \/ Aligned /\ \E i \in Zipped(scenario) :
                 Admitted(i) # "Ok" /\ run = Import!Result("Admission", Admitted(i))
           \/ Aligned /\ DuplicatePayloadRoot(scenario) /\ run = Duplicate
           \/ /\ Aligned /\ ~DuplicatePayloadRoot(scenario)
              /\ \A i \in Zipped(scenario) : Admitted(i) = "Ok"
              /\ run = validate_block_against_reference(scenario.block, Stored)
<1> DEFINE shape == validate_scenario_shape(scenario)
           Refused == {i \in Zipped(scenario) : Admitted(i) # "Ok"}
           first == CHOOSE i \in Refused : \A j \in Refused : i <= j
<1>1. shape \in {"Ok"} \cup ShapeErrors /\ (shape = "Ok" <=> Aligned)
    BY ShapeAnswers, Zenon
<1>2. run = IF shape # "Ok" THEN ShapeError(shape)
            ELSE IF Refused # {} THEN Import!Result("Admission", Admitted(first))
            ELSE IF DuplicatePayloadRoot(scenario) THEN Duplicate
            ELSE validate_block_against_reference(scenario.block, Stored)
    BY Zenon DEF run, Stored
<1>3. Refused # {} => first \in Refused
    <2>1. Refused \in SUBSET Nat
        BY ZippedType, Zenon
    <2> QED
        BY <2>1, FirstOf, ZenonT(40)
<1>4. Refused # {} => first \in Zipped(scenario) /\ Admitted(first) # "Ok"
    BY <1>3, Zenon
<1>5. Refused = {} => \A i \in Zipped(scenario) : Admitted(i) = "Ok"
    BY Zenon
<1> HIDE DEF shape, Refused, first
<1> QED
    BY <1>1, <1>2, <1>4, <1>5, Zenon

\* What run answers: one of its errors; one of shape exactly where the lists do not
\* align; Ok only where everything has passed, and then the nonces are all that can be
\* wrong.
LEMMA RunAnswers ==
    ASSUME scenario \in LocalReferenceScenarios, registry \in Registries,
           resolver \in Resolvers
    PROVE  /\ run \in BlockResults
           /\ run.kind # "ScenarioShape" <=> Aligned
           /\ run = Import!Ok =>
                 Passed /\ Replays(scenario.block)
           /\ Passed => run \in {Import!Ok, Import!Result("Admission", "NoncePolicy"),
                                 Import!Result("TransactionValidation", "NoncePolicy")}
<1> DEFINE block == scenario.block
           answer == validate_block_against_reference(block, Stored)
<1>1. /\ answer \in Import!Results
      /\ answer = Import!Ok => Replays(block)
    BY ZippedType, BlockAnswers, ZenonT(40)
<1>2. ASSUME NEW i \in Zipped(scenario)
      PROVE  /\ Admitted(i) \in Results
             /\ Admitted(i) = "Ok" => Sound(scenario.admission_transactions[i],
                                            scenario.transaction_authorization_materials[i])
             /\ Sound(scenario.admission_transactions[i],
                      scenario.transaction_authorization_materials[i])
                  => Admitted(i) \in {"Ok", "NoncePolicy"}
    BY ZippedType, AdmissionAnswers, ZenonT(40) DEF Admitted
<1>3. validate_scenario_shape(scenario) = "Ok" <=> Aligned
    BY ShapeAnswers, Zenon
<1>4. CASE ~Aligned /\ \E error \in ShapeErrors : run = ShapeError(error)
    <2>1. PICK error \in ShapeErrors : run = ShapeError(error)
        BY <1>4, Zenon
    <2>2. run \in BlockResults
        BY <2>1, Zenon DEF BlockResults, ShapeErrors
    <2>3. run.kind = "ScenarioShape" /\ run # Import!Ok
        BY <2>1, Zenon DEF ShapeError, Import!Result, Import!Ok
    <2>4. ~Passed
        BY <1>3, <1>4, ZenonT(40) DEF Passed
    <2> QED
        BY <1>4, <2>2, <2>3, <2>4, Zenon
<1>5. CASE Aligned /\ \E i \in Zipped(scenario) :
             Admitted(i) # "Ok" /\ run = Import!Result("Admission", Admitted(i))
    <2>1. PICK i \in Zipped(scenario) :
              Admitted(i) # "Ok" /\ run = Import!Result("Admission", Admitted(i))
        BY <1>5, ZenonT(40)
    <2>2. run \in BlockResults
        BY <1>2, <2>1, ZenonT(40) DEF BlockResults
    <2>3. run.kind = "Admission" /\ run # Import!Ok
        BY <2>1, Zenon DEF Import!Result, Import!Ok
    <2>4. ASSUME Passed PROVE Admitted(i) = "NoncePolicy"
        BY <1>2, <2>1, <2>4, ZenonT(40) DEF Passed
    <2> QED
        BY <1>5, <2>1, <2>2, <2>3, <2>4, Zenon
<1>6. CASE Aligned /\ DuplicatePayloadRoot(scenario) /\ run = Duplicate
    <2>1. run \in BlockResults
        BY <1>6, Zenon DEF BlockResults
    <2>2. run.kind = "DuplicateAdmissionPayloadRoot" /\ run # Import!Ok
        BY <1>6, Zenon DEF Duplicate, Import!Result, Import!Ok
    <2>3. ~Passed
        BY <1>6, Zenon DEF Passed
    <2> QED
        BY <1>6, <2>1, <2>2, <2>3, SMTT(30)
<1>7. CASE /\ Aligned /\ ~DuplicatePayloadRoot(scenario)
           /\ \A i \in Zipped(scenario) : Admitted(i) = "Ok"
           /\ run = answer
    <2>1. run \in BlockResults
        BY <1>1, <1>7, Zenon DEF BlockResults
    <2>2. run.kind # "ScenarioShape"
        <3>1. answer.kind \in Import!Kinds
            BY <1>1, Zenon DEF Import!Results
        <3> HIDE DEF answer
        <3> QED
            BY <1>7, <3>1, Zenon DEF Import!Kinds
    <2>3. ASSUME answer = Import!Ok PROVE Passed
        <3>1. Stored \in Stores
            BY StoredAdmissions, Zenon DEF Stored
        <3>3. /\ HeaderPasses(block) /\ Bound(block) /\ RootsMatch(block)
              /\ \A k \in DOMAIN block.body.transactions :
                    reference_revalidate(Stored, block.body.transactions[k]) = "Ok"
            BY <2>3, <3>1, ZippedType, ReferenceAnswers, ZenonT(40)
        <3>4. \A k \in DOMAIN block.body.transactions :
                 block.body.transactions[k].payload_root \in DOMAIN Stored
            BY <3>1, <3>3, RevalidationAnswers, Zenon
        <3>5. \A i \in Zipped(scenario) : Sound(scenario.admission_transactions[i],
                                                scenario.transaction_authorization_materials[i])
            BY <1>2, <1>7, ZenonT(40)
        <3> QED
            BY <1>3, <1>7, <3>3, <3>4, <3>5, ZenonT(40) DEF Passed
    <2>4. ASSUME Passed
          PROVE  answer \in {Import!Ok, Import!Result("TransactionValidation", "NoncePolicy")}
        BY <2>4, PassedBlocks, Zenon
    <2> HIDE DEF answer
    <2> QED
        BY <1>1, <1>7, <2>1, <2>2, <2>3, <2>4, Zenon
<1>8. \/ ~Aligned /\ \E error \in ShapeErrors : run = ShapeError(error)
      \/ Aligned /\ \E i \in Zipped(scenario) :
            Admitted(i) # "Ok" /\ run = Import!Result("Admission", Admitted(i))
      \/ Aligned /\ DuplicatePayloadRoot(scenario) /\ run = Duplicate
      \/ /\ Aligned /\ ~DuplicatePayloadRoot(scenario)
         /\ \A i \in Zipped(scenario) : Admitted(i) = "Ok"
         /\ run = answer
    BY RunUnfolds, Zenon
<1> HIDE DEF answer
<1> QED
    BY <1>4, <1>5, <1>6, <1>7, <1>8, ZenonT(40)

\* What a scenario as loaded can be refused for.
LoadedAnswers ==
    {Import!Ok, Duplicate} \cup RootMismatches

LoadedRefusals == {"Admission"} \cup HeaderRefusals

\* A consistent scenario has a block that is bound: the lists, roots, witnesses and plans
\* that resolve_root_check_scenario has checked are all that the services look at.
LEMMA ConsistentIsBound ==
    ASSUME scenario \in LocalReferenceScenarios, Consistent(scenario)
    PROVE  Aligned /\ Bound(scenario.block)
<1> DEFINE block == scenario.block
           transactions == block.body.transactions
           planned == scenario.planned_transactions
<1>1. transactions \in Seq(AllEnvelopes)
    BY ZippedType, Zenon
<1>2. Aligned
    BY Zenon DEF Aligned, Consistent
<1>3. PreStateStands
    BY Zenon DEF PreStateStands, PreState, Consistent
<1>4. prepare_witness(block.header) = "Ok"
    BY ZenonT(40) DEF prepare_witness, Consistent
<1>5. engine_execute_block(transactions).result = "Ok"
    <2>1. Len(transactions) = Len(planned)
        BY Zenon DEF Consistent
    <2>2. planned \in Seq(PlannedTransactions)
        BY Zenon DEF LocalReferenceScenarios
    <2>3. \A i \in 1 .. Len(transactions) :
             planned[i].transaction_root = canonical_root(transactions[i])
        BY Zenon DEF Consistent
    <2>4. AllPlanned(transactions)
        BY ONLY <2>1, <2>2, <2>3, SMTT(30) DEF AllPlanned
    <2> QED
        BY <1>1, <1>3, <2>1, <2>4, EngineAnswers, Zenon
<1>6. /\ block.body.transactions_root = block.header.transactions_root
      /\ block.sidecar.block_root = block.header.block_root
      /\ block.sidecar.execution_witnesses_root = block.header.execution_witnesses_root
    BY Zenon DEF Consistent
<1> QED
    BY <1>2, <1>4, <1>5, <1>6, Zenon DEF Bound

\* A consistent scenario whose transactions are all admitted has them revalidated: the
\* revalidator finds for each body transaction the one that was admitted in its place.
LEMMA ConsistentRevalidates ==
    ASSUME scenario \in LocalReferenceScenarios, Consistent(scenario),
           ~DuplicatePayloadRoot(scenario),
           \A i \in Zipped(scenario) : Admitted(i) = "Ok",
           NEW k \in DOMAIN scenario.block.body.transactions
    PROVE  reference_revalidate(Stored, scenario.block.body.transactions[k]) = "Ok"
<1> DEFINE transactions == scenario.block.body.transactions
           admissions == scenario.admission_transactions
           materials == scenario.transaction_authorization_materials
           root == transactions[k].payload_root
<1>1. /\ transactions \in Seq(AllEnvelopes) /\ admissions \in Seq(AllEnvelopes)
      /\ materials \in Seq(Seq(PublicKeys))
    BY ZippedType, Zenon DEF LocalReferenceScenarios
<1>2. Len(admissions) = Len(transactions) /\ Len(materials) = Len(transactions)
    BY ZenonT(40) DEF Consistent
<1>3. k \in 1 .. Len(transactions)
    BY ONLY <1>1, SMTT(30)
<1>4. k \in Zipped(scenario)
    BY <1>1, <1>2, <1>3, SMTT(30) DEF Zipped
<1>5. admissions[k].payload_root = root
    BY <1>3, Zenon DEF Consistent
<1>6. root \in DOMAIN Stored /\ Stored[root] = [transaction |-> admissions[k],
                                                materials |-> materials[k]]
    <2>1. /\ DOMAIN Stored = {admissions[i].payload_root : i \in Zipped(scenario)}
          /\ \A i \in Zipped(scenario) :
                Stored[admissions[i].payload_root] = [transaction |-> admissions[i],
                                                      materials |-> materials[i]]
        BY StoredAdmissions, Zenon DEF Stored
    <2> HIDE DEF admissions, materials, root
    <2>2. admissions[k].payload_root \in DOMAIN Stored
        BY <1>4, <2>1, ZenonT(40)
    <2> QED
        BY <1>4, <1>5, <2>1, <2>2, ZenonT(40)
<1>7. reference_revalidate(Stored, transactions[k])
        = admit_and_verify(Stored[root].transaction, Stored[root].materials).result
    BY <1>6, ZenonT(40) DEF reference_revalidate
<1>8. Stored[root].transaction = admissions[k] /\ Stored[root].materials = materials[k]
    BY ONLY <1>6, SMTT(30)
<1> QED
    BY <1>4, <1>7, <1>8, ZenonT(40) DEF Admitted

\* A consistent scenario runs to its end, but for what loading does not check.
LEMMA ConsistentRuns ==
    ASSUME scenario \in LocalReferenceScenarios, registry \in Registries,
           resolver \in Resolvers, Consistent(scenario)
    PROVE  run \in LoadedAnswers \/ run.kind \in LoadedRefusals
<1> DEFINE block == scenario.block
           answer == validate_block_against_reference(block, Stored)
<1>1. Aligned /\ Bound(block)
    BY ConsistentIsBound, Zenon
<1>2. CASE \E i \in Zipped(scenario) :
             Admitted(i) # "Ok" /\ run = Import!Result("Admission", Admitted(i))
    BY <1>2, SMTT(30) DEF Import!Result, LoadedRefusals
<1>3. CASE run = Duplicate
    BY <1>3, Zenon DEF LoadedAnswers
<1>4. CASE /\ ~DuplicatePayloadRoot(scenario)
           /\ \A i \in Zipped(scenario) : Admitted(i) = "Ok"
           /\ run = answer
    <2>1. \A k \in DOMAIN block.body.transactions :
             reference_revalidate(Stored, block.body.transactions[k]) = "Ok"
        BY <1>4, ConsistentRevalidates, Zenon
    <2>2. Stored \in Stores
        BY StoredAdmissions, Zenon DEF Stored
    <2>3. \/ answer = Import!Ok
          \/ answer.kind \in HeaderRefusals
          \/ answer \in RootMismatches
        BY <1>1, <2>1, <2>2, ZippedType, ReferenceAnswers, ZenonT(40)
    <2> HIDE DEF answer
    <2> QED
        BY <1>4, <2>3, ZenonT(40) DEF LoadedAnswers, LoadedRefusals
<1> HIDE DEF answer
<1> QED
    BY <1>1, <1>2, <1>3, <1>4, RunUnfolds, Zenon DEF answer

\* Gossip is answered by a ValidationError.
LEMMA GossipAnswers ==
    ASSUME registry \in Registries, NEW envelope \in AllEnvelopes,
           \A root \in DOMAIN mempool : mempool[root] \in Seq(PublicKeys)
    PROVE  GossipResult(envelope) \in Results
<1>1. CASE envelope.payload_root \notin DOMAIN mempool
    BY <1>1, Zenon DEF GossipResult, Results
<1>2. CASE envelope.payload_root \in DOMAIN mempool
    BY <1>2, AdmissionAnswers, ZenonT(40) DEF GossipResult
<1> QED
    BY <1>1, <1>2, Zenon

\* The keys an adapter built over the scenario has.
OwnKeys == [root \in DOMAIN Stored |-> Stored[root].materials]

\* An admission transaction of a scenario that was run to its end is refused for its
\* nonce at most, by an adapter built over that scenario.
LEMMA PassedTransactions ==
    ASSUME scenario \in LocalReferenceScenarios, registry \in Registries, Passed,
           mempool = OwnKeys, NEW i \in DOMAIN scenario.admission_transactions
    PROVE  GossipResult(scenario.admission_transactions[i]) \in {"Ok", "NoncePolicy"}
<1> DEFINE envelope == scenario.admission_transactions[i]
           keys == scenario.transaction_authorization_materials[i]
<1>1. i \in Zipped(scenario)
    <2>1. Aligned
        BY ShapeAnswers, Zenon DEF Passed
    <2> QED
        BY ONLY <2>1, SMTT(30) DEF Aligned, Zipped, LocalReferenceScenarios
<1>2. /\ envelope.payload_root \in DOMAIN Stored
      /\ Stored[envelope.payload_root] = [transaction |-> envelope, materials |-> keys]
    <2>1. ~DuplicatePayloadRoot(scenario)
        BY Zenon DEF Passed
    <2> QED
        BY <1>1, <2>1, StoredAdmissions, ZenonT(40) DEF Stored
<1>3. Stored[envelope.payload_root].materials = keys
    BY ONLY <1>2, SMTT(30)
<1>4. envelope.payload_root \in DOMAIN mempool /\ mempool[envelope.payload_root] = keys
    BY <1>2, <1>3, Zenon DEF OwnKeys
<1>5. Sound(envelope, keys)
    BY <1>1, ZenonT(40) DEF Passed
<1>6. envelope \in AllEnvelopes /\ keys \in Seq(PublicKeys)
    BY <1>1, ZippedType, Zenon
<1>7. admit_and_verify(envelope, keys).result \in {"Ok", "NoncePolicy"}
    BY <1>5, <1>6, AdmissionAnswers, Zenon
<1> HIDE DEF envelope, keys
<1>8. GossipResult(envelope) = admit_and_verify(envelope, keys).result
    BY <1>4, Zenon DEF GossipResult
<1> QED
    BY <1>7, <1>8, ZenonT(40) DEF envelope

=============================================================================
