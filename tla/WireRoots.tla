------------------------------ MODULE WireRoots -----------------------------
(***************************************************************************)
(* The roots of what is sent and received: a node that decodes a           *)
(* transaction knows it by its hash_tree_root from then on, and verifies   *)
(* signatures over signing roots derived from it.                          *)
(***************************************************************************)
EXTENDS Wire, Merkle

\* The limits SSZ puts on the lists, which merkleize asserts.
WithinLimits(envelope) ==
    /\ Len(envelope.payload.input) <= ByteListLimit
    /\ Len(envelope.authorizations) <= ListLimit
    /\ \A i \in DOMAIN envelope.authorizations :
          Len(envelope.authorizations[i].signature) <= ByteListLimit

\* Within the list limits a root stands for one envelope: damage that passes the
\* decoder shows in the root, be it a zero added to a list, a byte moved from
\* one list to the next, or another payload variant with the same fields.
RootBindsEnvelope ==
    \A envelope \in Taken :
        WithinLimits(envelope) /\ WithinLimits(sent) =>
            (canonical_root(envelope) = canonical_root(sent)) = (envelope = sent)

\* A signature for one payload and purpose is good for no other: signing roots
\* are equal only for the same payload in the same domain.
SigningRootBindsPayloadAndDomain ==
    \A envelope \in Taken : \A d, e \in DomainSelectors :
        /\ WithinLimits(envelope) /\ WithinLimits(sent)
        /\ signing_root(payload_root(envelope.payload), d)
             = signing_root(payload_root(sent.payload), e)
        => d = e /\ envelope.payload = sent.payload

\* The complete tree, level by level: the leaves padded with zero chunks up to
\* the limit, then pairs of pairs.
Padded(chunks, limit) ==
    [i \in 1 .. limit |-> IF i <= Len(chunks) THEN chunks[i] ELSE ZeroChunk]

Pairs(level, count) == [i \in 1 .. count |-> sha256_pair(level[2 * i - 1], level[2 * i])]

PaddedRoot(chunks, limit) ==
    LET top == trailing_zeros(limit)
        level[d \in 0 .. top] ==
            IF d = 0 THEN Padded(chunks, limit) ELSE Pairs(level[d - 1], Two[top - d])
    IN  level[top][1]

\* merkleize, which descends only where there are chunks and takes zero_hash for
\* the rest, computes the root of the complete padded tree.
MerkleizeIsPadded ==
    \A envelope \in Taken :
        LET chunks == pack_bytes(envelope.payload.input)
        IN  \A limit \in {CHUNK_LIMIT, 2 * CHUNK_LIMIT} :
               Len(chunks) <= limit => merkleize(chunks, limit) = PaddedRoot(chunks, limit)

\* merkleize is never given more chunks than its limit.
ListsWithinLimits == \A envelope \in Taken : WithinLimits(envelope)

=============================================================================
