----------------------------- MODULE PeerPolicy -----------------------------
(***************************************************************************)
(* shell-network's translation of validation results into peer actions,    *)
(* and its decision whether to fetch a sidecar.                            *)
(***************************************************************************)
EXTENDS ImportChecks

CONSTANT Peers

ASSUME NoneIsNoPeer == None \notin Peers

\* NetworkOrigin; only the first three carry a peer.
RemoteKinds == {"Gossip", "Fetch", "Sync"}
LocalKinds == {"LocalRpc", "LocalBuilder", "TestHarness"}
AllOrigins == [kind : RemoteKinds, peer : Peers] \cup [kind : LocalKinds, peer : {None}]

penalizes_peer(origin) == origin.kind \in RemoteKinds

\* PeerAction; value is 0 but for AdjustReputation.
Hints == {"RejectedObject", "MalformedAnnouncement", "InvalidTransaction", "InvalidBlock",
          "InvalidSignature", "OversizedObject", "PolicyRejected", "InternalError"}
PeerActions == [act : {"Accept", "Ignore", "AdjustReputation", "Disconnect"},
                value : {0, -5, -10}, hint : Hints \cup {None}]

Action(act, value, hint) == [act |-> act, value |-> value, hint |-> hint]

POLICY_REPUTATION_DELTA == -10
OVERSIZED_REPUTATION_DELTA == -5

Ignore(hint) == Action("Ignore", 0, hint)

disconnect_action(origin, hint) ==
    IF penalizes_peer(origin) THEN Action("Disconnect", 0, hint) ELSE Ignore(hint)

policy_action(origin, value, hint) ==
    IF penalizes_peer(origin) THEN Action("AdjustReputation", value, hint) ELSE Ignore(hint)

peer_action_for_validation_outcome(origin, outcome) ==
    CASE outcome = "Accept" -> Action("Accept", 0, None)
      [] outcome = "Reject" -> disconnect_action(origin, "RejectedObject")
      [] outcome = "PolicyReject" ->
           policy_action(origin, POLICY_REPUTATION_DELTA, "PolicyRejected")

\* Of the stages only T0 matters: there a malformed object is an announcement.
peer_action_for_mempool_error(origin, stage, error) ==
    CASE error = "MalformedSsz" /\ stage = "T0" ->
           disconnect_action(origin, "MalformedAnnouncement")
      [] error \in DecodingErrors /\ ~(error = "MalformedSsz" /\ stage = "T0") ->
           disconnect_action(origin, "InvalidTransaction")
      [] error \in SignatureErrors -> disconnect_action(origin, "InvalidSignature")
      [] error \in PolicyErrors ->
           policy_action(origin, POLICY_REPUTATION_DELTA, "PolicyRejected")
      [] error \in PrimitiveInternals \cup CallerErrors -> Ignore("InternalError")

\* Fault: the node's own resolver being away counts against the peer.
UnavailableDisconnects(origin, error) == disconnect_action(origin, "InvalidBlock")

peer_action_for_proposer_credential_error(origin, error) ==
    IF error = "ResolverUnavailable" THEN Ignore("InternalError")
    ELSE disconnect_action(origin, "InvalidBlock")

\* Fault: the local transport guard counts as an invalid signature.
EveryCryptoErrorDisconnects(origin, error) == disconnect_action(origin, "InvalidSignature")

peer_action_for_consensus_crypto_error(origin, error) ==
    IF error = "LocalTransportGuard"
    THEN policy_action(origin, OVERSIZED_REPUTATION_DELTA, "OversizedObject")
    ELSE disconnect_action(origin, "InvalidSignature")

\* Whatever the primitive error is, ours included, it disconnects.
peer_action_for_consensus_error(origin, error) ==
    CASE error.kind = "Primitive" -> disconnect_action(origin, "MalformedAnnouncement")
      [] error.kind = "ProposerCredentialResolution" ->
           peer_action_for_proposer_credential_error(origin, error.cause)
      [] error.kind = "Crypto" -> peer_action_for_consensus_crypto_error(origin, error.cause)
      [] error.kind = "TransactionValidation" ->
           peer_action_for_mempool_error(origin, "B3", error.cause)
      [] error.kind = "WitnessByteLimitExceeded" ->
           policy_action(origin, OVERSIZED_REPUTATION_DELTA, "OversizedObject")
      [] error.kind \in {"Execution", "State", "HeaderBodyRootMismatch",
                         "SidecarBlockRootMismatch", "SidecarCommitmentMismatch"} ->
           disconnect_action(origin, "InvalidBlock")

\* SidecarFetchPolicy::decide_for_header.
FetchPolicies == [max_witness_bytes : Limits, require_explicit_request : BOOLEAN]

\* Fault: the limit is off by one.
FetchOneTooLarge(policy, header, was_requested) ==
    IF policy.max_witness_bytes # None /\ header.witness_bytes > policy.max_witness_bytes + 1
    THEN "Skip"
    ELSE IF policy.require_explicit_request /\ ~was_requested THEN "Defer"
    ELSE "Fetch"

decide_for_header(policy, header, was_requested) ==
    IF policy.max_witness_bytes # None /\ header.witness_bytes > policy.max_witness_bytes
    THEN "Skip"
    ELSE IF policy.require_explicit_request /\ ~was_requested THEN "Defer"
    ELSE "Fetch"

=============================================================================
