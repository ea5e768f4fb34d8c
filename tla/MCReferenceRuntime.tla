------------------------- MODULE MCReferenceRuntime -------------------------
(* Vectors of one and two transactions over two leaves, and ones that do not   *)
(* resolve or commit other roots; a dispatcher that verifies and one that      *)
(* accepts all, as those of the tests do; nonces from 0 to 2.                  *)
EXTENDS ReferenceRuntime, TLC

CONSTANTS i1, k1, k2, p1, p2, p3, b1, unsigned, v1, v2, r1

MCSigningRoots ==
    Domains \X PayloadRoots \cup {<<"ValidatorMessage", b1>>, <<"-", unsigned>>}

Registry(permissive, guard) ==
    [config |-> [user_path_max_signature_size |-> 2,
                 validator_path_max_signature_size |-> guard],
     verifiers |-> <<[instance |-> i1, scheme_id |-> 0, permissive |-> permissive,
                      ceiling |-> [path \in Paths |-> None]]>>]

MCRegistries == {Registry(TRUE, None), Registry(FALSE, 1)}

MCPolicies ==
    {[payload_lane_base_fee |-> 1, witness_lane_base_fee |-> 0, max_future_nonce_gap |-> 1,
      authorization_domain |-> "TransactionAuthorization"]}

MCResolvers == [answer : {"Ok"}, scheme_id : {0}, public_key_material : {k2}]

Signature(key, root) == [scheme_id |-> 0, key |-> key, signs |-> root, size |-> 1]

MCReferenceSignature == Signature(k2, <<"-", unsigned>>)

\* What a payload contains is a function of its root.
Envelope(root, keys) ==
    [payload_root |-> root, nonce |-> IF root = p2 THEN 1 ELSE 0,
     regular |-> IF root = p3 THEN 0 ELSE 1, max_witness_priority_fee |-> 0,
     authorizations |-> [i \in DOMAIN keys |->
        [scheme_id |-> 0, payload_root |-> root,
         signature |-> Signature(keys[i], <<"TransactionAuthorization", root>>)]]]

\* The envelope of p1 with a signature of another payload, which no key verifies.
SignedForAnother ==
    [Envelope(p1, <<k1>>) EXCEPT !.authorizations[1].signature =
        Signature(k1, <<"TransactionAuthorization", p2>>)]

MCOffered ==
    {Envelope(p1, <<k1>>), Envelope(p1, <<k1, k2>>), SignedForAnother, Envelope(p3, <<k1>>)}

MCMaterialLists == {<<k1, k2>>}

-----------------------------------------------------------------------------

MCTransactionFixtures ==
    [t1 |-> [expected_outcome |-> "accept", envelope |-> Envelope(p1, <<>>)],
     t2 |-> [expected_outcome |-> "accept", envelope |-> Envelope(p2, <<>>)],
     t3 |-> [expected_outcome |-> "accept", envelope |-> Envelope(p3, <<>>)],
     malformed |-> [expected_outcome |-> "reject", envelope |-> Envelope(p1, <<>>)]]

\* Leaves as a vector lists them, which need not be in order.
State == <<[key |-> 2, value |-> v2], [key |-> 1, value |-> v1]>>
StateRoot(first, second) == <<"digest", [k \in Keys |-> IF k = 1 THEN first ELSE second]>>

WitnessVector(key, value) ==
    [expected_outcome |-> "accept",
     witness |-> [key |-> key, leaf_value |-> value, proof_empty |-> TRUE],
     materialized_state |-> State, expected_state_root |-> StateRoot(v1, v2)]

MCWitnessFixtures ==
    [w1 |-> WitnessVector(1, v1),
     w2 |-> WitnessVector(2, v2),
     wrong |-> WitnessVector(1, v2),
     several |-> [WitnessVector(1, v1) EXCEPT !.witness = None]]

\* A vector that sets the leaf of each step's witness to v2.
Vector(transactions, witnesses, state_root) ==
    LET envelopes == [i \in DOMAIN transactions |->
                        MCTransactionFixtures[transactions[i]].envelope]
        told == [i \in DOMAIN witnesses |-> MCWitnessFixtures[witnesses[i]].witness]
        roots == [transactions_root |-> compute_transactions_root(envelopes),
                  execution_witnesses_root |->
                      IF \E i \in DOMAIN told : told[i] = None THEN b1
                      ELSE compute_execution_witnesses_root(told),
                  state_root |-> state_root,
                  receipts_root |-> compute_receipts_root([i \in DOMAIN transactions |-> r1])]
    IN  [transaction_vector_ids |-> transactions, witness_vector_ids |-> witnesses,
         header |-> roots @@
            [block_root |-> b1, witness_bytes |-> 1,
             proposer_signature |-> Signature(k2, <<"ValidatorMessage", b1>>)],
         sidecar_block_root |-> b1,
         steps |-> [i \in DOMAIN transactions |->
            [transaction_vector_id |-> transactions[i],
             witness_vector_id |-> witnesses[IF i > Len(witnesses) THEN 1 ELSE i],
             new_leaf_value |-> v2, receipt |-> r1]]] @@ roots

MCVectors ==
    {Vector(<<"t1">>, <<"w1">>, StateRoot(v2, v2)),
     Vector(<<"t2", "t1">>, <<"w1", "w2">>, StateRoot(v2, v2)),
     Vector(<<"t1", "t1">>, <<"w1">>, StateRoot(v2, v2)),
     Vector(<<"t3">>, <<"w1">>, StateRoot(v2, v2)),
     Vector(<<"t1">>, <<"w1">>, StateRoot(v1, v1)),
     Vector(<<"t1">>, <<"wrong">>, StateRoot(v2, v2)),
     Vector(<<"t1">>, <<"w2", "w1">>, StateRoot(v1, v2)),
     Vector(<<"t1">>, <<"several">>, StateRoot(v2, v2)),
     Vector(<<"malformed">>, <<"w1">>, StateRoot(v2, v2)),
     [Vector(<<"t1">>, <<"w1">>, StateRoot(v2, v2)) EXCEPT !.transaction_vector_ids = <<"none">>]}
=============================================================================
