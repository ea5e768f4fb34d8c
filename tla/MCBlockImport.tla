--------------------------- MODULE MCBlockImport ----------------------------
(* Blocks of at most two transactions with at most two faults, in any two     *)
(* places, under no limit, a limit that admits them and one that does not.    *)
EXTENDS BlockImport

CONSTANTS h1, h2

MCLimits == {1, None}

Candidate(root_result, bytes, tx_root, tx_result, resolver, dispatcher, txs, side, preparer, engine, post) ==
    [header |-> [block_root |-> h1, root_result |-> root_result, witness_bytes |-> bytes,
                 transactions_root |-> h1,
                 execution_witnesses_root |-> h1, state_root |-> h1, receipts_root |-> h2],
     body |-> [transactions_root |-> tx_root, root_result |-> tx_result, transactions |-> txs],
     sidecar |-> side,
     services |-> [resolver |-> resolver, dispatcher |-> dispatcher, preparer |-> preparer,
                   engine |-> engine, post_state_root |-> post[1], receipts_root |-> post[2]]]

Good == [root_result |-> "Ok", bytes |-> 1, tx_root |-> h1, tx_result |-> "Ok", resolver |-> "Ok", dispatcher |-> "Ok",
         txs |-> <<"Ok", "Ok">>, side |-> [block_root |-> h1, committed_root |-> h1],
         preparer |-> "Ok", engine |-> "Ok", post |-> <<h1, h2>>]

Faults ==
    [root_result : {"MalformedSsz", "Unimplemented"}]
      \cup [bytes : {2}] \cup [tx_root : {h2}] \cup [tx_result : {"MalformedSsz"}]
      \cup [resolver : {"NotFound", "ResolverUnavailable"}]
      \cup [dispatcher : {"VerificationFailed", "LocalTransportGuard"}]
      \cup [txs : {<<>>, <<"Ok">>, <<"NoncePolicy", "Ok">>, <<"Ok", "SignatureVerification">>,
                   <<"AuthorizationMaterialCount", "PayloadRootMismatch">>}]
      \cup [side : {[block_root |-> h2, committed_root |-> h1],
                    [block_root |-> h1, committed_root |-> h2]}]
      \cup [preparer : {"WitnessVerificationFailed"}]
      \cup [engine : {"Executor"}]
      \cup [post : {<<h2, h2>>, <<h1, h1>>, <<h2, h1>>}]

With(block, fault) == [f \in DOMAIN block |-> IF f \in DOMAIN fault THEN fault[f] ELSE block[f]]

MCImports ==
    {Candidate(b.root_result, b.bytes, b.tx_root, b.tx_result, b.resolver, b.dispatcher, b.txs, b.side,
               b.preparer, b.engine, b.post) :
       b \in {With(With(Good, f), g) : f \in Faults, g \in Faults} \cup {Good}}
=============================================================================
