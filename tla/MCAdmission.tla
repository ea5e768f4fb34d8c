---------------------------- MODULE MCAdmission -----------------------------
(* A two-bit u64, so that the nonce window reaches past its end; envelopes    *)
(* that fail each check in turn, alone or behind a good authorization.        *)
EXTENDS Admission

CONSTANTS i1, k1, k2, p1, p2

MCSigningRoots == Domains \X PayloadRoots

\* One Ed25519-like verifier whose ceiling is below the 8 KB rule.
MCRegistries ==
    {[config |-> [user_path_max_signature_size |-> 2,
                  validator_path_max_signature_size |-> None],
      verifiers |-> <<[instance |-> i1, scheme_id |-> 0, permissive |-> FALSE,
                       ceiling |-> [path \in Paths |-> 1]]>>]}

MCPolicies ==
    [payload_lane_base_fee : {1}, witness_lane_base_fee : {1},
     max_future_nonce_gap : {0, 2}, authorization_domain : {"TransactionAuthorization"}]

Auth(key) ==
    [scheme_id |-> 0, payload_root |-> p1,
     signature |-> [scheme_id |-> 0, key |-> key, size |-> 1,
                    signs |-> <<"TransactionAuthorization", p1>>]]

Envelope(nonce, authorizations) ==
    [payload_root |-> p1, nonce |-> nonce, regular |-> 1, max_witness_priority_fee |-> 1,
     authorizations |-> authorizations]

Oversized == [Auth(k1) EXCEPT !.signature.size = 3]
OverCeiling == [Auth(k1) EXCEPT !.signature.size = 2]
Unbound == [Auth(k1) EXCEPT !.payload_root = p2]
Unsupported == [Auth(k1) EXCEPT !.scheme_id = 1]
WrongDomain == [Auth(k1) EXCEPT !.signature.signs = <<"ValidatorMessage", p1>>]
WrongPayload == [Auth(k1) EXCEPT !.signature.signs = <<"TransactionAuthorization", p2>>]

\* Another payload, well authorized.
Other ==
    [Envelope(1, <<[WrongPayload EXCEPT !.payload_root = p2]>>) EXCEPT !.payload_root = p2]

\* Against a view that moves over every nonce, two nonces stand at every distance
\* from it: behind, level, at the gap's edge, beyond it, and at the end of u64.
MCEnvelopes ==
    {Envelope(nonce, <<Auth(k1)>>) : nonce \in {1, MaxU64}}
      \cup {Envelope(1, <<bad>>) : bad \in {OverCeiling, WrongDomain}}
      \cup {Envelope(1, <<Auth(k2), second>>) :
              second \in {Auth(k1), Oversized, Unbound, Unsupported, WrongPayload}}
      \cup {Envelope(1, <<>>), Other,
            [Envelope(1, <<Auth(k1)>>) EXCEPT !.regular = 0],
            [Envelope(1, <<Auth(k1)>>) EXCEPT !.max_witness_priority_fee = 0]}

MCMaterialLists == {<<>>, <<k1>>, <<k2>>, <<k2, k1>>}
=============================================================================
