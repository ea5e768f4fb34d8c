# A TLA+ model of shell-chain

shell-chain is a Rust workspace for a post-quantum chain. It is a library and a
local reference harness, not a node: it is single-threaded (shared state sits in
`Cell` and `RefCell`), it persists nothing and has no transport. What is hard in it
is therefore not concurrency. It is the order of checks, what remains after a call
failed half way, values that were read before something moved, and the edges of
numeric limits. The models are about those.

## The system

| part | crate | state | operations that change it | what makes it hard |
|---|---|---|---|---|
| state accumulator | `shell-state` | leaf map and root | `apply_transition`; witnesses are read and verified | refused patches, stale roots, stale witnesses, the zero root |
| block execution | `shell-execution` | planner cursor, shared applier | `execute_block`, then the comparison of roots | a block fails after part of it was applied; planners are reused |
| signature dispatch | `shell-crypto` | verifier list, limits | `register_verifier`, the two verification paths | replacement, limits that tie or cross |
| admission | `shell-mempool` | none of its own; reads a nonce view | `screen_transaction`, `verify_authorizations`, `admit_and_verify` | cheap checks first, a nonce view that moves, `u64` saturation |
| block import | `shell-consensus` | none between calls; five services | `import_block` | six stages in a fixed order, each may fail |
| peer policy | `shell-network` | peer and reputation stores behind traits | scoring, fetch decisions | two routes from a result to a peer action |
| adapters, runtime | `shell-cli` | scenario, two adapters, a nonce view | `run`, both `try_new`, the two gossip calls | what is verified is not always what was offered; lists that must align |
| fixtures | `shell-fixtures` | none | resolution of root-check vectors | parts of a vector that disagree |
| codec, Merkleization, types | `shell-primitives` | none | pure byte-level functions | offsets, length limits, byte orders |

Import calls on dispatch, revalidation (admission), witness verification (state) and
execution, in that order. Execution drives the state applier. The network layer
turns what import and admission return into an action on the peer.

## Modules

* `StateOps` holds the values and pure operations of `shell-state`. A state key is
  its rank in the canonical order. A root is named by what was hashed, which is
  collision resistance as an assumption. `StateAccumulator` is the accumulator
  behind its applier, with a caller that keeps old roots and old witnesses.
* `BlockExecution` is `execute_block`, one action per turn of its loop, then
  `execute_and_compare`. Planner and accumulator outlive the call.
* `DispatchOps` holds the operations of the verifier registry. `SignatureDispatch`
  is the registry with a caller that owns boxed verifiers and gets displaced ones
  back. A signature records the key and root it was made with; the arithmetic of a
  scheme is abstract.
* `AdmissionChecks` holds the checks of the admission pipeline over a dispatcher.
  `Admission` calls them in the one-call and the two-call form, with an observed
  nonce that moves between calls and with a screening of another envelope than the
  one then verified, which the types of the code allow.
* `ImportChecks` holds the checks of block import as functions of the block and of
  what the five services answer about it. `BlockImport` runs them one action each.
  `ImportVerdict` is the abstract specification: accept when nothing is wrong and
  return the roots the header commits, otherwise refuse for a reason that applies.
* `PeerPolicy` holds the scoring functions and the sidecar fetch policy.
  `GossipNode` composes them with `BlockImport`: announcement, fetch decision,
  import, adapter, peer action. The stores and the scheduler are traits in the code,
  so these actions are external: the plainest implementation is modelled.
* `ReferenceScenario` resolves a root-check vector into a scenario, with every
  assertion on the way, and holds the helpers of the harness. `ReferenceRuntime` is
  `LocalReferenceRuntime` over the operations of admission, dispatch, import and
  state: a caller loads a scenario, edits its public fields, runs it, makes the two
  adapters and offers them transactions and blocks while the nonce view moves. It
  composes the real services where `BlockImport` takes any answer of a trait. The
  mempool adapter owns its keys and outlives the scenario; the consensus adapter
  borrows the scenario and ends with an edit, as the borrow checker has it.
* `WireCodec` is the SSZ codec on sequences of bytes, with the size of a byte and the
  widths of the fields as parameters. `Merkle` is `ssz.rs` and the signing domains; a
  digest is named by its preimage. The recursion of `merkleize` over slices of the
  chunks is written as a table of slices for each depth. `Wire` sends envelopes
  through a channel that may change, drop or add a byte (external). `WireRoots` adds
  the roots of what was received.
* `KeysAndFees` encodes state keys, compares them and the little-endian fees, sorts a
  materialized state, asserts that it is not empty and hands it to the accumulator's
  order check. `Encodings` puts it beside `WireRoots`: all that the workspace writes as
  bytes, in one specification.
* The `MC...` modules give the constants their values.

Operators introduced by a comment that begins with "Fault:" are plausible mistakes in the
definition that follows them. No specification uses them. Each property fails when
one of them takes the place of that definition, which shows that the property says
something.

Some error paths cannot be taken in the code and are left out: payload roots,
signing roots and domain construction never fail, and the applier is never
re-entered. Import, which sees blocks only through traits, does allow a block root
or body root to fail with any primitive error, and its services to answer with any
value of their error types, some of which no implementation here returns.

## Runs

| run | bounds | distinct states |
|---|---|---|
| `state_accumulator` | 3 keys, 2 values, patches of at most 2 writes, 3 observed states | about 5 000 |
| `block_execution` | 4 scripts of up to 3 steps, blocks of up to 2 transactions | about 30 000 |
| `signature_dispatch` | 2 schemes, 4 verifiers, sizes 0 to 4 around limits 1 to 4 | about 1 500 |
| `native_ceiling` | as above | violated |
| `admission` | a two-bit `u64`, 2 nonces against every observed one, envelopes of up to 2 authorizations | about 48 000 |
| `block_import` | up to 2 transactions, up to 2 faults in any two places | about 1 900 |
| `gossip_node` | one peer and the local builder, one block per kind of error and some with a second fault | about 174 000 |
| `reference_runtime` | 10 vectors of up to 2 transactions over 2 leaves, one edit, nonces 0 to 2 | about 143 000 |
| `policy_at_import` | as above | violated |
| `block_authorizations` | as above, two edits | violated |
| `encodings` | six-valued bytes, roots, words, indices and fees of 2, addresses of 1, list limits of 4 bytes and 2 elements, 2 damaged bytes, 3 leaves | about 208 000 |
| `list_limits` | as above | violated |

The bounds are chosen so that the cases differ. Three keys give a leaf a neighbour
on both sides; three observed states let the accumulator leave a state and return.
Three steps and two transactions let a planner be reused, be out of step and run
dry in the middle of a block. A two-bit nonce reaches its end with a gap of two, and
the nonces 1 and 3 stand behind, level with, inside, on the edge of and beyond the
window as the observed one moves.
Two faults in a block are enough to tell which check comes first.
`ScoreFloor` bounds reputations: a peer at or below it sends nothing more.
The vectors of `reference_runtime` include a witness that tells a wrong value, one
with several witnesses, a malformed transaction, two transactions with one payload, a
fee below the floor and a header that commits another state; one edit of the scenario
(`MaxEdits`) is enough to put any list or root out of step with the others, and three
nonces to move past a transaction. In `encodings` the widths are as small as they
can be while every field differs from its neighbours, offsets need both their bytes,
and a list can be over its limit without being past the reach of an offset; two
damaged bytes can turn one valid encoding into another. Three leaves are a sort that
is more than a swap, and two-byte numbers are ordered differently from either end.

What they show:

* `state_accumulator`: root and leaves never part (`RootCommitsLeaves`), witnesses are
  good for their root and no other (`WitnessesBindToTheirRoot`), `verify_witness` is
  exact (`VerifyWitnessIsExact`), and refusals are atomic
  (`RefusedCallsChangeNothing`).
* `block_execution`: whatever fails, the accumulator holds exactly the transactions
  reported so far (`EffectsAreTheReportedPrefix`). The cursor is one ahead after a
  refused patch (`CursorCountsHandedOutPlans`). A stale pre-state root changes
  nothing (`ContinuityHolds`). An accepted block is a transition to the committed
  roots (`AcceptedBlockIsATransition`); a block without transactions is the
  exception, since no continuity check runs for it.
* `signature_dispatch`: `LastRegistrationWins`, `NoVerifierIsLost`,
  `OversizedIsNeverDispatched`, and the local guard only ever turns a verdict into a
  policy rejection (`GuardOnlyPolicyRejects`).
* `native_ceiling`: the rules keep verifier-native ceilings consensus-invalidating;
  the code reports the guard where the guard is at or below the ceiling, so a
  signature above both is only policy-rejected.
* `admission`: `VerifiedMeansAuthorized`, `NonceWindowIsExact`, `CryptoComesLast`,
  and a transaction once admitted is later refused by policy at most
  (`OnceAdmittedNeverInvalid`). A caller who screens and verifies in two calls misses
  nothing that one call would have found but a nonce that moved in between
  (`SplitAdmissionMissesOnlyTheNonce`). `verify_authorizations` never compares the
  screening it is given with the envelope: what it verifies is over the payload that
  was screened.
* `block_import`: `ImplementsVerdict`, `FirstFailureIsReported`, and no service is called
  on before every cheaper check has passed (`ServicesInCostOrder`); witness preparation
  and execution follow both bindings of the sidecar, its block root and its committed
  witness root.
* `gossip_node`: `RoutesPunishAlike`, `FetchedIsNeverOversized`, and no peer is
  disconnected where the first thing wrong with its object is soft, which is a witness
  volume above the limit, the transport guard, an unavailable resolver, a fee, a nonce or
  the caller's bookkeeping (`SoftFailuresNeverDisconnect`). All else disconnects. This
  includes three failures one may not count against the peer: a user signature above the
  8 KB rule or the configured size, although `validation-rules.md` lists the first as a
  local stress-control rule (lines 26 and 44) and objects that are "merely too large"
  under lower reputation (line 84); a state backend that fails while import prepares or
  executes; and a primitive error on a block's roots, also an internal one that has no
  network outcome, which no header type in the repository returns.
* `reference_runtime`: an accepted block consists of the planned transactions and
  commits the state, receipts and witnesses they lead to (`AcceptedBlockReplays`). The
  witnesses are those of the scenario, which the preparer verifies. Those of an
  offered sidecar are bound only by its stored root: the scenario's block with an
  emptied sidecar is accepted too, so no property says that a block brings its
  witnesses. What ran once is later refused by policy at most (`OnceRunNeverInvalid`),
  what resolved fails only for reasons the resolution does not assert
  (`ResolvedScenariosRun`), and lists that do not align are reported before any is
  used (`AlignedBeforeUse`). The type invariant says that each call returns an error
  of its own type.
* `policy_at_import`: the rules say mempool policy should not make a consensus-valid
  block fail. The runtime's revalidator applies it, so a block it has imported is
  refused once the nonce view has moved.
* `block_authorizations`: the rules say block import must verify every authorization in
  the envelope again. The runtime's revalidator admits the stored transaction with the
  same payload, and the authorizations in the block's own envelope are never looked at.
  Two edits show it, an admission transaction that is properly signed and a body
  transaction with the same payload and a signature of another one.
* `encodings`: decoding inverts encoding, and an offset that does not fit is an error
  (`RoundTrip`); an envelope has one encoding (`DecodingIsCanonical`); within the list
  limits roots tell envelopes apart (`RootBindsEnvelope`) and signing roots payloads
  and domains (`SigningRootBindsPayloadAndDomain`); the sparse `merkleize` computes the
  root of the padded tree (`MerkleizeIsPadded`). The order of encoded keys is that by
  kind, address and number (`KeysInReferenceOrder`), sorting makes a state materialize
  unless it is empty or lists a key twice (`CanonicalStateMaterializes`), and fees are
  compared as numbers (`FeeFloorsAreNumeric`). This is what lets the other models take
  keys for ranks and fees for numbers.
* `list_limits`: `merkleize` asserts, in debug builds, that a list is within its limit.
  The decoder does not check limits, so a decoded list can be over it.

The type invariants of state, execution, dispatch, admission, import and gossip node
are proved (below) and not repeated in the runs.

No fairness is assumed and no liveness property stated. Every operation is a synchronous
Rust call whose loops run over finite lists, and nothing in the workspace waits, retries
or is scheduled, so that a call returns is the shape of the code and nothing to check.

## Proofs

Theorems hold for all values of the constants under the assumptions named in the
modules: keys are naturals, `Absent` is no value, `None` is none of the values it
stands beside (`NoneIsNoVerifier`, `NoneIsNoAdmission`, `NoneIsNoImport`,
`NoneIsNoPeer`, `NoneIsNoScenario` and others), and the given patches, scripts,
envelopes, imports, origins, fixtures and vectors have their types. About the list
limits it is assumed what the constants of the code satisfy: they are powers of two, that
of byte lists times the size of a chunk (`LimitsArePowersOfTwo`), and fit a `u64`
(`LimitsAreWords`).

* `NaturalLemmas`: a non-empty set of naturals has a least element, which gives the
  first failure of a loop, induction up to a bound over a set of numbers, and the
  equation of a function defined by recursion from the one before. The library states
  the last two with an operator as parameter, which the provers cannot instantiate;
  here the set and the step function are the parameters.
* `RootProofs`, first part, on `StateAccumulator`: types and every property of the
  run. The invariant adds to the types that every observed accumulator commits its
  leaves and that the held witnesses were read under the root held with them, with
  increasing keys. Without the second, an arbitrary list could be held and would not
  verify.
* `ValidationProofs`, on `BlockExecution`: types and every property of the run. The
  invariant adds what the loop knows: nothing has failed while it runs, no more outcomes are
  reported than the block has transactions, a call that ends without an error has
  reported all of them, and no root is found to differ before the comparison. With
  these, that the effects are the reported prefix is inductive as it stands: the replay
  of a list of outcomes unfolds, by the recursion of `NaturalLemmas`, into that of the
  list without its last element, and no action touches the elements before.
* `ValidationProofs`, on `SignatureDispatch`: types and every property of the run. The
  invariant adds that a scheme has at most one entry, from which the first entry found
  is the one registered last, and that the last answer is what the present registry
  answers.
* `ValidationProofs`, on `Admission`: types and every property of the run, for
  envelopes of any length and any `u64` width. The invariant adds that the screening
  held was made of the envelope remembered with it and that this envelope is well
  formed and pays its fees, which is all of screening but the nonce, that the last
  answer is the one under the present view, and that what was admitted passes every
  check but the nonce's. Without the last, a moved nonce could uncover another error.
  The first failing authorization is picked with the least number of `NaturalLemmas`.
* `GossipNodeProofs`, first part, on `BlockImport`: types, the cost order, the first
  failure and the refinement of `ImportVerdict`. The invariant adds, for each stage,
  that the checks before it have passed and the services they call on were consulted,
  and that the loop has revalidated a prefix of the body. Every check that passes is
  then a stutter of the abstract specification, every failure a refusal, and the last
  step an acceptance. The positions of the checks in the prescribed order give
  `FirstFailureIsReported`.
* `GossipNodeProofs`, second part: types and every property of the run, for any number
  of peers. It rests on the invariant of block import and adds that an import that has ended
  reports one of the block's failures, that the import under way is that of the
  announcement in hand, and that what was fetched is within the limit for fetching. It
  carries `FirstFailureIsReported` along, from which the failure a peer is disconnected
  for is the first one of its block. One lemma lists the errors import can return and
  shows that the two routes agree on each and spare the soft ones.
* `ReferenceRuntimeLemmas` and `ReferenceRuntimeProofs`: types and every property of
  the run, for all fixtures and vectors, blocks of any length and any number of edits.
  The invariant has two parts. `Kept` is about the scenario held: it is well typed, it
  is consistent while nobody has changed it (the witnesses hash to the committed root
  and verify against the materialized pre-state, the plans are for the transactions,
  in order), a scenario that ran has `Passed`, and the consensus adapter holds the
  admission transactions of a scenario whose lists align. `Passed` is everything a run
  checks that does not depend on the nonce view; without it a moved nonce could
  uncover another error. `Told` is about the last answer: each property restated for
  an answer that is still the one the present state gives. The lemmas, in a module of
  their own, follow the code: what resolving a vector guarantees, what each service
  then answers, what an accepted block implies, and, by induction over the
  transactions, that executing the plans and replaying the leaves they write agree.
* `WireProofs`, on `Wire`: both properties of the codec, `RoundTrip` and
  `DecodingIsCanonical`, for every base of a byte, every width of the fields, lists of any
  length and any damage. The invariant says that at most one message is under way, that
  undamaged it is the encoding of what was sent, and that what was received was decoded
  from it. The rest is about the functions. In one direction each field is the slice of
  the encoding at the place where the decoder reads it, and little-endian bytes give
  their number back. In the other the fields decoded so far, encoded again, are the bytes
  up to a place, and the next field moves that place on until the bytes are used up. The
  list of authorizations is the hard part: the offsets increase from the size of the
  table, every element is the slice between two offsets, and the slices in order are
  the rest of the bytes. That is an induction over the elements with `NaturalLemmas`.
* `RootProofs`, second part, on `WireRoots`: the three properties of roots, for every width
  and every limit. The table of subtrees `merkleize` builds is unfolded depth by depth.
  Two trees of one depth with one root have, by induction over the depth, the same leaves
  within the limit. From this every container binds its fields, a list binds its elements
  because its length is mixed in (lists of different lengths may have the same padded
  tree), and a union binds its variant by the selector. `MerkleizeMatchesPadding` is
  another induction over the depth: an entry of the table is the node of the padded tree
  at the same place, and where no chunks are left that node is `zero_hash`.
* `CodecProofs`, on `KeysAndFees`, with the lemmas of `WireProofs` on numbers and
  slices: the three properties of keys and fees, for every base of a byte, every width
  of addresses, roots, indices and fees, and any number of leaves. A number is below
  the weight after its last byte, so the first byte that differs, from the most
  significant end, decides; that the loop over bytes finds this byte is the recursion
  of `NaturalLemmas` unfolded. Keys of one kind have one length, so bodies compare
  slot by slot. The order of keys is then total and transitive, a leaf's place in the
  sorted list is the number of leaves up to it, and places are a bijection.
  `EncodingsKeepApart` shows that `Encodings` implements both of the specifications it
  puts side by side, which carries the theorems on each over to the run.

Some proof modules hold the proofs of several components, which is why the specifications
of `StateAccumulator` and `BlockExecution` carry names of their own (`AccumulatorSpec`,
`ExecutionSpec`). The pragmas `Zenon` and `SMTT` in a proof name the prover that finds a
step, and the time it may take.

Every property of the passing runs is proved. The properties of the four violated runs
are false of the code.

## Not modelled

* `AnnouncementFilter` of `shell-network`. It is a pure function that nothing in the
  workspace calls, and its decision on sidecars repeats the fetch policy, which is
  modelled.
* Reading and parsing the JSON of the fixtures, and the vector families other than
  root checks: input only, with no protocol state. The resolution of root checks, with
  its assertions, is modelled.
* The metadata traits of `shell-primitives`, which hand out fields.
* The arithmetic of signature schemes and hashes: a signature records what it was made
  with, a digest its preimage.
* Peer and reputation stores, block schedulers and transports, which are traits without
  an implementation here. `GossipNode` and `Wire` stand in for them.
