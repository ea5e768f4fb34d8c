----------------------------- MODULE Admission ------------------------------
(***************************************************************************)
(* AdmissionPipeline and its callers: a transaction is screened and its    *)
(* authorizations are verified, in one call or in two, while the nonce the *)
(* state view observes moves on between calls.                             *)
(***************************************************************************)
EXTENDS AdmissionChecks

CONSTANTS
    Envelopes,      \* the transactions it may be asked about
    MaterialLists   \* the key material that may come with them

ASSUME EnvelopesAreEnvelopes == Envelopes \subseteq AllEnvelopes
ASSUME MaterialListsAreKeys == MaterialLists \subseteq Seq(PublicKeys)
ASSUME NoStandIns ==
    \A r \in Registries : \A i \in DOMAIN r.verifiers : ~r.verifiers[i].permissive
ASSUME NoneIsNoAdmission == None \notin Envelopes \X Seq(PublicKeys)

VARIABLES
    accepted,   \* the TentativeAccepted the caller holds, None before
    last,       \* the last call under the present view: arguments, result, dispatches
    screened,   \* history: the envelope that accepted is about
    admitted    \* history: what admit_and_verify accepted last

vars == <<registry, policy, observed, accepted, last, screened, admitted>>

-----------------------------------------------------------------------------
(* The pipeline and its callers.                                           *)

Screenings == [payload_root : PayloadRoots, authorization_count : Nat]

Calls == [op : {"screen", "verify", "admit"}, envelope : Envelopes,
          materials : MaterialLists \cup {<<>>}, result : Results, dispatched : Nat]

TypeOK ==
    /\ registry \in Registries
    /\ policy \in Policies
    /\ observed \in (0 .. MaxU64) \cup {None}
    /\ accepted \in Screenings \cup {None}
    /\ last \in Calls \cup {None}
    /\ screened \in Envelopes \cup {None}
    /\ admitted \in (Envelopes \X MaterialLists) \cup {None}

Init ==
    /\ registry \in Registries
    /\ policy \in Policies
    /\ observed = None
    /\ accepted = None
    /\ last = None
    /\ screened = None
    /\ admitted = None

Call(op, envelope, materials, answer) ==
    [op |-> op, envelope |-> envelope, materials |-> materials,
     result |-> answer.result, dispatched |-> answer.dispatched]

ScreenTransaction(envelope) ==
    LET result == screen_transaction(envelope)
    IN  /\ last' = Call("screen", envelope, <<>>, [result |-> result, dispatched |-> 0])
        /\ accepted' = IF result = "Ok" THEN TentativeAccepted(envelope) ELSE accepted
        /\ screened' = IF result = "Ok" THEN envelope ELSE screened
        /\ UNCHANGED <<registry, policy, observed, admitted>>

\* T3 with the TentativeAccepted of an earlier screening, on any envelope.
VerifyAuthorizations(envelope, materials) ==
    /\ accepted # None
    /\ last' = Call("verify", envelope, materials,
                    verify_authorizations(envelope, accepted, materials))
    /\ UNCHANGED <<registry, policy, observed, accepted, screened, admitted>>

AdmitAndVerify(envelope, materials) ==
    LET answer == admit_and_verify(envelope, materials)
    IN  /\ last' = Call("admit", envelope, materials, answer)
        /\ admitted' = IF answer.result = "Ok" THEN <<envelope, materials>> ELSE admitted
        /\ UNCHANGED <<registry, policy, observed, accepted, screened>>

\* The chain moves on: the view reports another nonce.
ViewMoves(nonce) ==
    /\ observed' = nonce
    /\ last' = None
    /\ UNCHANGED <<registry, policy, accepted, screened, admitted>>

Next ==
    \/ \E envelope \in Envelopes : ScreenTransaction(envelope)
    \/ \E envelope \in Envelopes, materials \in MaterialLists :
          VerifyAuthorizations(envelope, materials) \/ AdmitAndVerify(envelope, materials)
    \/ \E nonce \in 0 .. MaxU64 : ViewMoves(nonce)

Spec == Init /\ [][Next]_vars

-----------------------------------------------------------------------------
(* Correctness.                                                            *)

\* What the authorizations of a call were checked against.
CheckedAgainst == IF last.op = "verify" THEN accepted ELSE TentativeAccepted(last.envelope)

\* RequireAll: whatever was verified, in one call or two, every authorization of
\* the envelope was made with the key supplied for it, in the transaction domain,
\* over the payload that was screened.  For the screened envelope itself there is
\* at least one, all are bound to its payload and none is above 8 KB.
VerifiedMeansAuthorized ==
    last # None /\ last.op # "screen" /\ last.result = "Ok" =>
        LET auths == last.envelope.authorizations
        IN  /\ Len(last.materials) = Len(auths)
            /\ \A i \in 1 .. Len(auths) :
                  /\ auths[i].signature.key = last.materials[i]
                  /\ auths[i].signature.signs = signing_root(CheckedAgainst.payload_root)
            /\ last.op = "admit" \/ last.envelope = screened =>
                  /\ auths # <<>>
                  /\ \A i \in 1 .. Len(auths) :
                        /\ auths[i].payload_root = last.envelope.payload_root
                        /\ auths[i].signature.size <= MaxUserBytes

\* Screening now and verifying later misses nothing but the nonce: an envelope
\* verified with its own screening gets, however the view has moved in between,
\* the answer and the dispatches admit_and_verify would give it at that moment,
\* unless its nonce has left the window, which only screening looks at.
SplitAdmissionMissesOnlyTheNonce ==
    last # None /\ last.op = "verify" /\ last.envelope = screened =>
        LET now == admit_and_verify(last.envelope, last.materials)
        IN  IF check_nonce_policy(last.envelope)
            THEN now.result = last.result /\ now.dispatched = last.dispatched
            ELSE now = [result |-> "NoncePolicy", dispatched |-> 0]

\* The replay lane window is exact up to the last nonce: where the nonce is what
\* decides, a transaction passes just if its distance from the observed nonce is
\* between zero and the gap, also where observed plus gap exceeds a u64.
NonceWindowIsExact ==
    last # None /\ last.op \in {"screen", "admit"} /\ observed # None =>
        LET distance == last.envelope.nonce - observed
            inside == 0 <= distance /\ distance <= policy.max_future_nonce_gap
        IN  /\ last.result = "NoncePolicy" => ~inside
            /\ ~inside => last.result \in ScreeningErrors

\* Cheap checks first: a screening error costs no verification, and dispatch
\* stops at the first authorization that fails, having verified those before it.
CryptoComesLast ==
    last # None =>
        /\ last.result \in ScreeningErrors => last.dispatched = 0
        /\ last.result \in CryptoErrors =>
              /\ last.dispatched \in 1 .. Len(last.envelope.authorizations)
              /\ \A i \in 1 .. last.dispatched - 1 :
                    AuthorizationResult(last.envelope, CheckedAgainst, last.materials, i) = "Ok"

\* A stale snapshot is never held against a transaction: once it was admitted,
\* only the nonce window can refuse it later, and that is a policy outcome.
OnceAdmittedNeverInvalid ==
    last # None /\ last.op = "admit" /\ <<last.envelope, last.materials>> = admitted =>
        validation_outcome(last.result) \in {"Accept", "PolicyReject"}

=============================================================================
