---------------------------- MODULE MCGossipNode ----------------------------
(* A peer and the node's own builder; a good block, one block for each kind of *)
(* error import can return, some of them oversized besides, and blocks with a  *)
(* worse fault behind a soft one.                                              *)
EXTENDS GossipNode

CONSTANTS h1, h2, p1

MCLimits == {1, None}

MCOrigins == {[kind |-> "Gossip", peer |-> p1], [kind |-> "LocalBuilder", peer |-> None]}

MCScoreFloor == -10

MCTxResults == {"MalformedSsz", "SignatureVerification", "NoncePolicy", "Unimplemented",
                "AuthorizationMaterialCount", "PrimitiveSignatureSize", "SignatureSizeExceeded"}

Good == [header |-> [block_root |-> h1, root_result |-> "Ok", witness_bytes |-> 1, transactions_root |-> h1,
                     execution_witnesses_root |-> h1, state_root |-> h1, receipts_root |-> h1],
         body |-> [transactions_root |-> h1, root_result |-> "Ok", transactions |-> <<"Ok">>],
         sidecar |-> [block_root |-> h1, committed_root |-> h1],
         services |-> [resolver |-> "Ok", dispatcher |-> "Ok", preparer |-> "Ok",
                       engine |-> "Ok", post_state_root |-> h1, receipts_root |-> h1]]

Large == [Good EXCEPT !.header.witness_bytes = 2]

MCImports ==
    {Good, Large, [Good EXCEPT !.header.root_result = "MalformedSsz"],
     [Good EXCEPT !.header.root_result = "Unimplemented"],
     [Large EXCEPT !.body.transactions_root = h2],
     [Good EXCEPT !.sidecar.committed_root = h2],
     [Large EXCEPT !.services.preparer = "WitnessVerificationFailed"],
     [Good EXCEPT !.services.receipts_root = h2],
     [Good EXCEPT !.services.engine = "Executor"],
     [Good EXCEPT !.services.preparer = "Backend"],
     [Good EXCEPT !.services.resolver = "ResolverUnavailable", !.sidecar.block_root = h2],
     [Good EXCEPT !.services.dispatcher = "LocalTransportGuard", !.services.engine = "Executor"],
     [Good EXCEPT !.body.transactions = <<"NoncePolicy", "SignatureVerification">>]}
      \cup {[Good EXCEPT !.services.resolver = r] : r \in {"NotFound", "ResolverUnavailable"}}
      \cup {[Good EXCEPT !.services.dispatcher = d] :
              d \in {"VerificationFailed", "LocalTransportGuard"}}
      \cup {[Good EXCEPT !.body.transactions = <<t>>] :
              t \in {"FeeFloor", "AuthorizationMaterialCount", "UnsupportedScheme"}}
=============================================================================
