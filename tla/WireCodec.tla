----------------------------- MODULE WireCodec ------------------------------
(***************************************************************************)
(* The SSZ wire format of shell-primitives: payloads, authorizations and   *)
(* transaction envelopes as sequences of bytes.                            *)
(*                                                                         *)
(* The widths of the fields and the number of values of a byte are         *)
(* parameters: the code has 32, 8, 20 and 4 bytes of 256 values.  Roots,   *)
(* addresses and 256-bit numbers are kept as bytes, as in the code.        *)
(***************************************************************************)
EXTENDS Integers, Sequences

CONSTANTS
    Base,           \* values of a byte
    RootWidth,      \* Root, U256 and Bytes32
    WordWidth,      \* u64
    AddressWidth,   \* ExecutionAddress
    OffsetWidth     \* u32 offsets

ASSUME WidthsArePositive ==
    /\ Base \in Nat \ {0, 1}
    /\ RootWidth \in Nat \ {0}
    /\ WordWidth \in 1 .. RootWidth
    /\ AddressWidth \in 1 .. RootWidth
    /\ OffsetWidth \in Nat \ {0}

Bytes == 0 .. Base - 1
Fixed(width) == [1 .. width -> Bytes]

\* The weight of the byte after the first n.
Weight[n \in Nat] == IF n = 0 THEN 1 ELSE Base * Weight[n - 1]

\* Unsigned integers of a width; u32::try_from fails on what is not Below it.
Below(width) == 0 .. Weight[width] - 1

\* to_le_bytes and from_le_bytes.
to_le_bytes(n, width) == [i \in 1 .. width |-> (n \div Weight[i - 1]) % Base]

from_le_bytes(bytes) ==
    LET value[i \in 0 .. Len(bytes)] ==
            IF i = 0 THEN 0 ELSE value[i - 1] + bytes[i] * Weight[i - 1]
    IN  value[Len(bytes)]

\* bytes[from..from + width] of Rust, whose indices count from zero.
Slice(bytes, from, width) == SubSeq(bytes, from + 1, from + width)
From(bytes, from) == SubSeq(bytes, from + 1, Len(bytes))

Fees == [regular : Fixed(RootWidth), max_priority_fee_per_gas : Fixed(RootWidth),
         max_witness_priority_fee : Fixed(RootWidth)]

\* A Create payload has no recipient; input stands for its initcode too.
TAG_BASIC == 0
TAG_CREATE == 1

BasicPayloads ==
    [tag : {TAG_BASIC}, chain_id : Fixed(RootWidth), nonce : Below(WordWidth),
     gas_limit : Below(WordWidth), fees : Fees, to : Fixed(AddressWidth),
     value : Fixed(RootWidth), input : Seq(Bytes), access_commitment : Fixed(RootWidth)]

CreatePayloads ==
    [tag : {TAG_CREATE}, chain_id : Fixed(RootWidth), nonce : Below(WordWidth),
     gas_limit : Below(WordWidth), fees : Fees,
     value : Fixed(RootWidth), input : Seq(Bytes), access_commitment : Fixed(RootWidth)]

Authorizations ==
    [scheme_id : Bytes, payload_root : Fixed(RootWidth), signature : Seq(Bytes)]

Envelopes == [payload : BasicPayloads \cup CreatePayloads, authorizations : Seq(Authorizations)]

FEES_SIZE == 3 * RootWidth
BASIC_FIXED_SIZE == 3 * RootWidth + 2 * WordWidth + FEES_SIZE + AddressWidth + OffsetWidth
CREATE_FIXED_SIZE == 3 * RootWidth + 2 * WordWidth + FEES_SIZE + OffsetWidth
AUTHORIZATION_FIXED_SIZE == 1 + RootWidth + OffsetWidth
ENVELOPE_FIXED_SIZE == 2 * OffsetWidth

\* Result<_, PrimitiveError>: the value is a set of at most one.
Decoded(value) == [error |-> "Ok", value |-> {value}]
Failed(error) == [error |-> error, value |-> {}]
MalformedSsz == Failed("MalformedSsz")

-----------------------------------------------------------------------------
(* Encoding.  A number that an offset cannot hold is an error; the sizes   *)
(* the code casts to u32 are constants that fit.                           *)

push_offset(n) == to_le_bytes(n, OffsetWidth)
push_fees(fees) == fees.regular \o fees.max_priority_fee_per_gas \o fees.max_witness_priority_fee

encode_basic(p) ==
    p.chain_id \o to_le_bytes(p.nonce, WordWidth) \o to_le_bytes(p.gas_limit, WordWidth)
      \o push_fees(p.fees) \o p.to \o p.value \o push_offset(BASIC_FIXED_SIZE)
      \o p.access_commitment \o p.input

encode_create(p) ==
    p.chain_id \o to_le_bytes(p.nonce, WordWidth) \o to_le_bytes(p.gas_limit, WordWidth)
      \o push_fees(p.fees) \o p.value \o push_offset(CREATE_FIXED_SIZE)
      \o p.access_commitment \o p.input

encode_payload(p) ==
    <<p.tag>> \o (IF p.tag = TAG_BASIC THEN encode_basic(p) ELSE encode_create(p))

encode_authorization(a) ==
    <<a.scheme_id>> \o a.payload_root \o push_offset(AUTHORIZATION_FIXED_SIZE) \o a.signature

\* next_offset when the i-th authorization is encoded.
ElementOffset(authorizations, i) ==
    LET start[k \in 1 .. Len(authorizations)] ==
            IF k = 1 THEN OffsetWidth * Len(authorizations)
            ELSE start[k - 1] + Len(encode_authorization(authorizations[k - 1]))
    IN  start[i]

encode_authorization_list(authorizations) ==
    LET count == Len(authorizations)
        table[i \in 0 .. count] ==
            IF i = 0 THEN <<>>
            ELSE table[i - 1] \o push_offset(ElementOffset(authorizations, i))
        parts[i \in 0 .. count] ==
            IF i = 0 THEN <<>> ELSE parts[i - 1] \o encode_authorization(authorizations[i])
    IN  IF \A i \in 1 .. count : ElementOffset(authorizations, i) \in Below(OffsetWidth)
        THEN Decoded(table[count] \o parts[count])
        ELSE MalformedSsz

\* Fault: an authorizations offset that is too large is cut to its width.
CutOffset(envelope) ==
    LET payload_bytes == encode_payload(envelope.payload)
        list == encode_authorization_list(envelope.authorizations)
    IN  IF list.error # "Ok" THEN list
        ELSE Decoded(push_offset(ENVELOPE_FIXED_SIZE)
                       \o push_offset(ENVELOPE_FIXED_SIZE + Len(payload_bytes))
                       \o payload_bytes \o (CHOOSE bytes \in list.value : TRUE))

encode_envelope(envelope) ==
    LET payload_bytes == encode_payload(envelope.payload)
        list == encode_authorization_list(envelope.authorizations)
        authorizations_offset == ENVELOPE_FIXED_SIZE + Len(payload_bytes)
    IN  IF list.error # "Ok" THEN list
        ELSE IF authorizations_offset \notin Below(OffsetWidth) THEN MalformedSsz
        ELSE Decoded(push_offset(ENVELOPE_FIXED_SIZE) \o push_offset(authorizations_offset)
                       \o payload_bytes \o (CHOOSE bytes \in list.value : TRUE))

-----------------------------------------------------------------------------
(* Decoding.  The fields are read at the offsets the code names.           *)

read_uint(bytes, from, width) == from_le_bytes(Slice(bytes, from, width))
read_offset(bytes, from) == read_uint(bytes, from, OffsetWidth)

read_fees(bytes, from) ==
    [regular |-> Slice(bytes, from, RootWidth),
     max_priority_fee_per_gas |-> Slice(bytes, from + RootWidth, RootWidth),
     max_witness_priority_fee |-> Slice(bytes, from + 2 * RootWidth, RootWidth)]

\* Where the fields after the fees begin.
AfterFees == RootWidth + 2 * WordWidth + FEES_SIZE

decode_basic(bytes) ==
    LET value_at == AfterFees + AddressWidth
        offset_at == value_at + RootWidth
    IN  IF Len(bytes) < BASIC_FIXED_SIZE THEN MalformedSsz
        ELSE IF read_offset(bytes, offset_at) # BASIC_FIXED_SIZE THEN MalformedSsz
        ELSE Decoded(
               [tag |-> TAG_BASIC,
                chain_id |-> Slice(bytes, 0, RootWidth),
                nonce |-> read_uint(bytes, RootWidth, WordWidth),
                gas_limit |-> read_uint(bytes, RootWidth + WordWidth, WordWidth),
                fees |-> read_fees(bytes, RootWidth + 2 * WordWidth),
                to |-> Slice(bytes, AfterFees, AddressWidth),
                value |-> Slice(bytes, value_at, RootWidth),
                input |-> From(bytes, BASIC_FIXED_SIZE),
                access_commitment |-> Slice(bytes, offset_at + OffsetWidth, RootWidth)])

decode_create(bytes) ==
    LET offset_at == AfterFees + RootWidth
    IN  IF Len(bytes) < CREATE_FIXED_SIZE THEN MalformedSsz
        ELSE IF read_offset(bytes, offset_at) # CREATE_FIXED_SIZE THEN MalformedSsz
        ELSE Decoded(
               [tag |-> TAG_CREATE,
                chain_id |-> Slice(bytes, 0, RootWidth),
                nonce |-> read_uint(bytes, RootWidth, WordWidth),
                gas_limit |-> read_uint(bytes, RootWidth + WordWidth, WordWidth),
                fees |-> read_fees(bytes, RootWidth + 2 * WordWidth),
                value |-> Slice(bytes, AfterFees, RootWidth),
                input |-> From(bytes, CREATE_FIXED_SIZE),
                access_commitment |-> Slice(bytes, offset_at + OffsetWidth, RootWidth)])

decode_payload(bytes) ==
    IF bytes = <<>> THEN MalformedSsz
    ELSE IF Head(bytes) = TAG_BASIC THEN decode_basic(Tail(bytes))
    ELSE IF Head(bytes) = TAG_CREATE THEN decode_create(Tail(bytes))
    ELSE Failed("UnsupportedPayloadVariant")

\* Fault: the signature is whatever follows its offset.
AnySignatureOffset(bytes) ==
    IF Len(bytes) < AUTHORIZATION_FIXED_SIZE THEN MalformedSsz
    ELSE Decoded([scheme_id |-> Head(bytes),
                  payload_root |-> Slice(bytes, 1, RootWidth),
                  signature |-> From(bytes, read_offset(bytes, 1 + RootWidth))])

decode_authorization(bytes) ==
    IF Len(bytes) < AUTHORIZATION_FIXED_SIZE THEN MalformedSsz
    ELSE IF read_offset(bytes, 1 + RootWidth) # AUTHORIZATION_FIXED_SIZE THEN MalformedSsz
    ELSE Decoded([scheme_id |-> Head(bytes),
                  payload_root |-> Slice(bytes, 1, RootWidth),
                  signature |-> From(bytes, AUTHORIZATION_FIXED_SIZE)])

\* Every way in which a list can be wrong is the same error, so the order of the
\* checks shows only in that the offsets are in range before they are used.
decode_authorization_list(bytes) ==
    LET first_offset == read_offset(bytes, 0)
        count == first_offset \div OffsetWidth
        Start(i) == read_offset(bytes, (i - 1) * OffsetWidth)
        End(i) == IF i = count THEN Len(bytes) ELSE Start(i + 1)
        elements == [i \in 1 .. count |-> decode_authorization(SubSeq(bytes, Start(i) + 1, End(i)))]
    IN  IF bytes = <<>> THEN Decoded(<<>>)
        ELSE IF Len(bytes) < OffsetWidth THEN MalformedSsz
        ELSE IF first_offset = 0 \/ first_offset % OffsetWidth # 0 THEN MalformedSsz
        ELSE IF first_offset > Len(bytes) THEN MalformedSsz
        ELSE IF \E i \in 1 .. count : Start(i) < first_offset \/ Start(i) > Len(bytes)
        THEN MalformedSsz
        ELSE IF \E i \in 1 .. count : End(i) < Start(i) \/ elements[i].error # "Ok"
        THEN MalformedSsz
        ELSE Decoded([i \in 1 .. count |-> CHOOSE a \in elements[i].value : TRUE])

\* The payload is decoded first, so an unknown tag is reported before a bad list.
decode_envelope(bytes) ==
    LET payload_offset == read_offset(bytes, 0)
        authorizations_offset == read_offset(bytes, OffsetWidth)
        payload == decode_payload(SubSeq(bytes, payload_offset + 1, authorizations_offset))
        list == decode_authorization_list(From(bytes, authorizations_offset))
    IN  IF Len(bytes) < ENVELOPE_FIXED_SIZE THEN MalformedSsz
        ELSE IF payload_offset # ENVELOPE_FIXED_SIZE THEN MalformedSsz
        ELSE IF authorizations_offset < payload_offset \/ authorizations_offset > Len(bytes)
        THEN MalformedSsz
        ELSE IF payload.error # "Ok" THEN payload
        ELSE IF list.error # "Ok" THEN list
        ELSE Decoded([payload |-> CHOOSE p \in payload.value : TRUE,
                      authorizations |-> CHOOSE a \in list.value : TRUE])
=============================================================================
