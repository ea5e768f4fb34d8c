------------------------------- MODULE Merkle -------------------------------
(***************************************************************************)
(* hash_tree_root of shell-primitives.  A tree node is a chunk of bytes or *)
(* the SHA-256 of two nodes, and a hash is named by the pair it hashes:    *)
(* SHA-256 is taken to be collision free, also against plain chunks.       *)
(***************************************************************************)
EXTENDS WireCodec

CONSTANTS
    ByteListLimit,  \* MOCK_PROGRESSIVE_BYTE_LIST_LIMIT
    ListLimit       \* MOCK_PROGRESSIVE_LIST_LIMIT

\* Powers of two: 1 << n.
Two[n \in Nat] == IF n = 0 THEN 1 ELSE 2 * Two[n - 1]

\* The width of usize.
USIZE_BITS == 64

ASSUME LimitsArePowersOfTwo ==
    /\ \E i \in 0 .. USIZE_BITS - 2 : ByteListLimit = RootWidth * Two[i]
    /\ \E i \in 0 .. USIZE_BITS - 2 : ListLimit = Two[i]

\* Casting the length of a list within its limit to u64 loses nothing.
ASSUME LimitsAreWords ==
    ByteListLimit \in Below(WordWidth) /\ ListLimit \in Below(WordWidth)

\* A chunk, padded with zeros on the right.
Chunk(bytes) ==
    [bytes |-> [i \in 1 .. RootWidth |-> IF i <= Len(bytes) THEN bytes[i] ELSE 0], pair |-> <<>>]
ZeroChunk == Chunk(<<>>)

sha256_pair(left, right) == [bytes |-> <<>>, pair |-> <<left, right>>]

zero_hash(depth) ==
    LET h[i \in 0 .. depth] == IF i = 0 THEN ZeroChunk ELSE sha256_pair(h[i - 1], h[i - 1])
    IN  h[depth]

trailing_zeros(n) == CHOOSE i \in 0 .. USIZE_BITS - 1 : Two[i] = n

Smaller(a, b) == IF a < b THEN a ELSE b

\* merkleize over the slices chunks[from..to], one depth of the tree at a time: a
\* table of limit 1, and the table of limit 1 << depth from the one below.
Leaf(chunks) ==
    [from \in 0 .. Len(chunks) |-> [to \in 0 .. Len(chunks) |->
        IF from < to THEN chunks[from + 1] ELSE ZeroChunk]]

\* Fault: the zero subtree has the depth of the whole tree.
TooDeep(chunks, depth, child) ==
    LET half == Two[depth - 1]
    IN  [from \in 0 .. Len(chunks) |-> [to \in 0 .. Len(chunks) |->
            sha256_pair(child[from][Smaller(to, from + half)],
                        IF to > from + half THEN child[from + half][to]
                        ELSE zero_hash(depth))]]

Node(chunks, depth, child) ==
    LET half == Two[depth - 1]
    IN  [from \in 0 .. Len(chunks) |-> [to \in 0 .. Len(chunks) |->
            sha256_pair(child[from][Smaller(to, from + half)],
                        IF to > from + half THEN child[from + half][to]
                        ELSE zero_hash(depth - 1))]]

Subtrees(chunks, top) ==
    LET subtree[depth \in 0 .. top] ==
            IF depth = 0 THEN Leaf(chunks) ELSE Node(chunks, depth, subtree[depth - 1])
    IN  subtree

\* merkleize of a release build, where the asserted bound on the number of
\* chunks is not checked and what lies beyond the limit is dropped.
merkleize(chunks, limit) ==
    IF limit = 0 THEN ZeroChunk
    ELSE Subtrees(chunks, trailing_zeros(limit))[trailing_zeros(limit)][0][Len(chunks)]

pack_bytes(bytes) ==
    [i \in 1 .. (Len(bytes) + RootWidth - 1) \div RootWidth |->
        Chunk(SubSeq(bytes, (i - 1) * RootWidth + 1,
                     IF i * RootWidth < Len(bytes) THEN i * RootWidth ELSE Len(bytes)))]

htr_u64(n) == Chunk(to_le_bytes(n, WordWidth))

\* Fault: the length is not mixed in.
NoLength(root, length) == root

mix_in_length(root, length) == sha256_pair(root, htr_u64(length))

mix_in_selector(root, selector) == sha256_pair(root, Chunk(<<selector>>))

htr_fees(fees) ==
    merkleize(<<Chunk(fees.regular), Chunk(fees.max_priority_fee_per_gas),
                Chunk(fees.max_witness_priority_fee), ZeroChunk>>, 4)

CHUNK_LIMIT == ByteListLimit \div RootWidth

htr_byte_list(bytes) == mix_in_length(merkleize(pack_bytes(bytes), CHUNK_LIMIT), Len(bytes))

htr_basic_payload(p) ==
    merkleize(<<Chunk(p.chain_id), htr_u64(p.nonce), htr_u64(p.gas_limit), htr_fees(p.fees),
                Chunk(p.to), Chunk(p.value), htr_byte_list(p.input),
                Chunk(p.access_commitment)>>, 8)

htr_create_payload(p) ==
    merkleize(<<Chunk(p.chain_id), htr_u64(p.nonce), htr_u64(p.gas_limit), htr_fees(p.fees),
                Chunk(p.value), htr_byte_list(p.input), Chunk(p.access_commitment),
                ZeroChunk>>, 8)

\* TransactionPayloadSsz::hash_tree_root.
payload_root(p) ==
    mix_in_selector(IF p.tag = TAG_BASIC THEN htr_basic_payload(p) ELSE htr_create_payload(p),
                    p.tag)

htr_authorization(a) ==
    merkleize(<<Chunk(<<a.scheme_id>>), Chunk(a.payload_root), htr_byte_list(a.signature),
                ZeroChunk>>, 4)

htr_authorization_list(authorizations) ==
    mix_in_length(merkleize([i \in 1 .. Len(authorizations) |->
                                htr_authorization(authorizations[i])], ListLimit),
                  Len(authorizations))

\* TransactionEnvelope::hash_tree_root.
canonical_root(envelope) ==
    merkleize(<<payload_root(envelope.payload),
                htr_authorization_list(envelope.authorizations)>>, 2)

\* DomainSelector::domain_type: a constant number in its first byte.
DomainSelectors == {"TransactionAuthorization", "ValidatorMessage"}
domain_type(domain) == IF domain = "TransactionAuthorization" THEN <<1>> ELSE <<2>>

\* Fault: every object is signed in the transaction domain.
OneDomain(object_root, domain) == merkleize(<<object_root, Chunk(<<1>>)>>, 2)

\* build_signing_data and SigningData::hash_tree_root.
signing_root(object_root, domain) ==
    merkleize(<<object_root, Chunk(domain_type(domain))>>, 2)
=============================================================================
