----------------------------- MODULE GossipNode -----------------------------
(***************************************************************************)
(* Blocks reaching the import pipeline from peers and from the node        *)
(* itself: the fetch decision on the announced header, the import, the     *)
(* consensus adapter that turns its result into an outcome or an error,    *)
(* and the peer action that follows.  The stores the actions are applied   *)
(* to are traits: the model keeps the plainest ones.                       *)
(***************************************************************************)
EXTENDS BlockImport, PeerPolicy

CONSTANTS
    Origins,        \* where objects come from
    TxResults,      \* what validating a gossiped transaction may return
    ScoreFloor      \* bound: reputations are followed down to this one

ASSUME OriginsAreOrigins == Origins \subseteq AllOrigins
ASSUME TxResultsAreResults == TxResults \subseteq Revalidations

VARIABLES
    fetch_policy,   \* SidecarFetchPolicy
    announced,      \* the announcement being handled, None when there is none
    connected,      \* PeerStore: is_connected
    reputation,     \* ReputationStore
    blamed          \* history: what each disconnected peer was disconnected for

nodeVars == <<fetch_policy, announced, connected, reputation, blamed>>
allVars == <<vars, nodeVars>>

Announcements == [import : Imports, origin : Origins, was_requested : BOOLEAN,
                  fetched : BOOLEAN]

\* A block, or what was wrong with a transaction.
Blames == [block : Imports \cup {None}, tx_error : TxResults \cup {None}]
Block(i) == [block |-> i, tx_error |-> None]
Transaction(error) == [block |-> None, tx_error |-> error]
NoBlame == [block |-> None, tx_error |-> None]

NodeTypeOK ==
    /\ TypeOK
    /\ fetch_policy \in FetchPolicies
    /\ announced \in Announcements \cup {None}
    /\ connected \subseteq Peers
    /\ reputation \in [Peers -> Int]
    /\ blamed \in [Peers -> Blames]

NodeInit ==
    /\ Init
    /\ fetch_policy \in FetchPolicies
    /\ announced = None
    /\ connected = Peers
    /\ reputation = [p \in Peers |-> 0]
    /\ blamed = [p \in Peers |-> NoBlame]

CanSend(origin) ==
    penalizes_peer(origin) => origin.peer \in connected /\ reputation[origin.peer] > ScoreFloor

AnnounceBlock(i, origin) ==
    /\ announced = None
    /\ CanSend(origin)
    /\ announced' = [import |-> i, origin |-> origin, was_requested |-> FALSE, fetched |-> FALSE]
    /\ UNCHANGED <<vars, fetch_policy, connected, reputation, blamed>>

Decision == decide_for_header(fetch_policy, announced.import.header, announced.was_requested)

SkipSidecar ==
    /\ announced # None /\ ~announced.fetched /\ Decision = "Skip"
    /\ announced' = None
    /\ UNCHANGED <<vars, fetch_policy, connected, reputation, blamed>>

RequestSidecar ==
    /\ announced # None /\ ~announced.fetched /\ Decision = "Defer"
    /\ announced' = [announced EXCEPT !.was_requested = TRUE]
    /\ UNCHANGED <<vars, fetch_policy, connected, reputation, blamed>>

FetchBlock ==
    /\ announced # None /\ ~announced.fetched /\ Decision = "Fetch"
    /\ BeginImport(announced.import)
    /\ announced' = [announced EXCEPT !.fetched = TRUE]
    /\ UNCHANGED <<fetch_policy, connected, reputation, blamed>>

ImportStep == Check /\ UNCHANGED nodeVars

\* What a peer action does to the stores.
Apply(action, origin, object) ==
    /\ reputation' = IF action.act # "AdjustReputation" THEN reputation
                     ELSE [reputation EXCEPT ![origin.peer] = @ + action.value]
    /\ connected' = IF action.act # "Disconnect" THEN connected
                    ELSE connected \ {origin.peer}
    /\ blamed' = IF action.act # "Disconnect" THEN blamed
                 ELSE [blamed EXCEPT ![origin.peer] = object]

\* validate_gossip_block answers an outcome where the error has one, and hands
\* the error itself to the caller where it has none.
AdapterAction(origin, error) ==
    IF network_validation_outcome(error) # "Internal"
    THEN peer_action_for_validation_outcome(origin, network_validation_outcome(error))
    ELSE peer_action_for_consensus_error(origin, error)

\* A caller of the pipeline itself has the error in every case.
PipelineAction(origin, error) ==
    IF error = Ok THEN peer_action_for_validation_outcome(origin, "Accept")
    ELSE peer_action_for_consensus_error(origin, error)

HandleVerdict ==
    /\ announced # None /\ announced.fetched /\ stage = "done"
    /\ \E action \in {AdapterAction(announced.origin, result),
                      PipelineAction(announced.origin, result)} :
          Apply(action, announced.origin, Block(announced.import))
    /\ announced' = None
    /\ UNCHANGED <<vars, fetch_policy>>

\* A gossiped transaction and what validating it returned.
HandleTransaction(origin, error) ==
    /\ announced = None
    /\ CanSend(origin)
    /\ error # "Ok"
    /\ \E s \in {"T0", "T3"} :
          Apply(peer_action_for_mempool_error(origin, s, error), origin, Transaction(error))
    /\ UNCHANGED <<vars, fetch_policy, announced>>

NodeNext ==
    \/ \E i \in Imports, o \in Origins : AnnounceBlock(i, o)
    \/ SkipSidecar
    \/ RequestSidecar
    \/ FetchBlock
    \/ ImportStep
    \/ HandleVerdict
    \/ \E o \in Origins, e \in TxResults : HandleTransaction(o, e)

NodeSpec == NodeInit /\ [][NodeNext]_allVars

-----------------------------------------------------------------------------
(* Correctness.                                                            *)

\* The two routes from an import to the peer agree: through the adapter's
\* outcome or from the error itself, both accept, both ignore, both lower the
\* reputation or both disconnect; and for a block of the node's own neither
\* punishes anyone.
RoutesPunishAlike ==
    announced # None /\ announced.fetched /\ stage = "done" =>
        LET adapter == AdapterAction(announced.origin, result).act
            pipeline == PipelineAction(announced.origin, result).act
        IN  /\ adapter = pipeline
            /\ announced.origin.peer = None => adapter \in {"Accept", "Ignore"}

\* What the rules on peer handling call soft: fees and nonces, and what is no
\* word about the object at all, the bookkeeping of the caller.
SoftErrors == PolicyErrors \cup CallerErrors \cup PrimitiveInternals

SoftFailure(f) ==
    \/ f.kind = "WitnessByteLimitExceeded"
    \/ f.kind = "Crypto" /\ f.cause = "LocalTransportGuard"
    \/ f.kind = "ProposerCredentialResolution" /\ f.cause = "ResolverUnavailable"
    \/ f.kind = "TransactionValidation" /\ f.cause \in SoftErrors

\* The first thing wrong with a transaction, or with a block in the prescribed
\* order of checks, is not soft.
DisconnectGrade(object) ==
    \/ object.tx_error \in Revalidations \ ({"Ok"} \cup SoftErrors)
    \/ /\ object.block # None
       /\ LET checks == PrescribedOrder(object.block)
          IN  \E k \in DOMAIN checks :
                 /\ checks[k] # Ok /\ ~SoftFailure(checks[k])
                 /\ \A j \in 1 .. k - 1 : checks[j] = Ok

\* No peer is disconnected for a witness volume above our limit, our transport
\* guard, a resolver that is away, a fee, a nonce or our own bookkeeping, not even
\* where its block has a worse fault behind that one.  For everything else the
\* scoring does disconnect, and that is more than what the object is guilty of: it
\* includes user signatures above the 8 KB rule or the configured size, a failing
\* state backend, and any primitive error on the roots of a block.
SoftFailuresNeverDisconnect ==
    \A p \in Peers : p \notin connected => DisconnectGrade(blamed[p])

\* With one witness limit for fetching and for importing, a fetched block is
\* never refused for its size: both comparisons draw the line at one place.
FetchedIsNeverOversized ==
    fetch_policy.max_witness_bytes = max_witness_bytes =>
        result.kind # "WitnessByteLimitExceeded"

=============================================================================
