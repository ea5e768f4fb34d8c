---------------------------- MODULE KeysAndFees -----------------------------
(***************************************************************************)
(* The two orders on byte strings: state keys, compared by their encoding  *)
(* from the first byte on, and fees, little-endian numbers compared from   *)
(* the last byte down.  The models of state and admission take keys for    *)
(* ranks and fees for numbers; this module is what justifies it.           *)
(***************************************************************************)
EXTENDS WireCodec, FiniteSets

CONSTANTS
    IndexWidth,     \* chunk_index: u32
    Indices,        \* the chunk indices in use
    Accounts,       \* the addresses in use
    Slots,          \* the storage slots and raw tree keys in use
    Stems,          \* the stems in use, one byte shorter
    Prices,         \* the gas prices in use, 256-bit numbers
    MaxLeaves       \* bound: the leaves of a materialized state

ASSUME KeyParts ==
    /\ IndexWidth \in Nat \ {0}
    /\ Indices \subseteq Below(IndexWidth)
    /\ Accounts \subseteq Fixed(AddressWidth)
    /\ Slots \subseteq Fixed(RootWidth)
    /\ Stems \subseteq Fixed(RootWidth - 1)
    /\ Prices \subseteq Fixed(RootWidth)
    /\ MaxLeaves \in Nat

Empty == <<>>

\* enum StateKey; a part a variant does not have is empty, an index absent is 0.
StateKeys ==
    [kind : {"AccountHeader"}, address : Accounts, bytes : {Empty}, index : {0}]
      \cup [kind : {"StorageSlot"}, address : Accounts, bytes : Slots, index : {0}]
      \cup [kind : {"CodeChunk"}, address : Accounts, bytes : {Empty}, index : Indices]
      \cup [kind : {"RawTreeKey"}, address : {Empty}, bytes : Slots, index : {0}]
      \cup [kind : {"Stem"}, address : {Empty}, bytes : Stems, index : {0}]

-----------------------------------------------------------------------------
(* State keys.                                                             *)

\* The address right-aligned in 32 bytes.
canonicalize_execution_address(address) ==
    [i \in 1 .. RootWidth - AddressWidth |-> 0] \o address

\* Fault: the index is written little-endian, as on the wire.
IndexAsOnTheWire(n) == to_le_bytes(n, IndexWidth)

to_be_bytes(n) ==
    [i \in 1 .. IndexWidth |-> to_le_bytes(n, IndexWidth)[IndexWidth + 1 - i]]

encode_state_key(key) ==
    CASE key.kind = "AccountHeader" -> <<0>> \o canonicalize_execution_address(key.address)
      [] key.kind = "StorageSlot" ->
           <<1>> \o canonicalize_execution_address(key.address) \o key.bytes
      [] key.kind = "CodeChunk" ->
           <<2>> \o canonicalize_execution_address(key.address) \o to_be_bytes(key.index)
      [] key.kind = "RawTreeKey" -> <<3>> \o key.bytes
      [] key.kind = "Stem" -> <<4>> \o key.bytes

\* The order of two numbers, and Ord for [u8]: the first byte that differs
\* decides, and a prefix is less.
NumberOrder(m, n) == IF m < n THEN "Less" ELSE IF m > n THEN "Greater" ELSE "Equal"

SliceOrder(left, right) ==
    LET Differ == {i \in DOMAIN left \cap DOMAIN right : left[i] # right[i]}
        first == CHOOSE i \in Differ : \A j \in Differ : i <= j
    IN  IF Differ # {} THEN NumberOrder(left[first], right[first])
        ELSE NumberOrder(Len(left), Len(right))

compare_state_keys(left, right) == SliceOrder(encode_state_key(left), encode_state_key(right))

\* Fault: leaves are sorted by what they hold.
SortedByValue(leaves) ==
    CHOOSE sorted \in {[i \in DOMAIN leaves |-> leaves[p[i]]] :
                          p \in {q \in [DOMAIN leaves -> DOMAIN leaves] :
                                    \A i, j \in DOMAIN leaves : q[i] = q[j] => i = j}} :
        \A i \in 1 .. Len(sorted) - 1 : sorted[i].value <= sorted[i + 1].value

\* sort_by compare_state_keys, which is stable.
Place(leaves, i) ==
    Cardinality({j \in DOMAIN leaves :
                    LET order == compare_state_keys(leaves[j].key, leaves[i].key)
                    IN  order = "Less" \/ (order = "Equal" /\ j <= i)})

SortedByKey(leaves) ==
    [place \in DOMAIN leaves |->
        leaves[CHOOSE i \in DOMAIN leaves : Place(leaves, i) = place]]

\* canonical_root_check_materialized_state; a list without leaves does not pass
\* its assertion.
canonical_materialized_state(leaves) ==
    {sorted \in {SortedByKey(leaves)} : sorted # <<>>}

\* ensure_canonical_access_order on the keys of a state.
ensure_canonical_access_order(leaves) ==
    \A i \in 1 .. Len(leaves) - 1 :
        compare_state_keys(leaves[i].key, leaves[i + 1].key) = "Less"

-----------------------------------------------------------------------------
(* Fees.                                                                   *)

\* Fault: the derived order of U256, which reads from the first byte on.
DerivedOrder(left, right) == SliceOrder(left, right)

\* compare_u256: the last byte that differs decides.
compare_u256(left, right) ==
    LET Differ == {i \in 1 .. RootWidth : left[i] # right[i]}
        highest == CHOOSE i \in Differ : \A j \in Differ : j <= i
    IN  IF Differ = {} THEN "Equal" ELSE NumberOrder(left[highest], right[highest])

gas_price_covers(actual, required) == compare_u256(actual, required) # "Less"

\* check_fee_policy: "Ok", or the lane of the FeeFloorError.
check_fee_policy(fees, schedule) ==
    IF ~gas_price_covers(fees.regular, schedule.payload_lane_base_fee) THEN "Payload"
    ELSE IF ~gas_price_covers(fees.max_witness_priority_fee, schedule.witness_lane_base_fee)
    THEN "Witness"
    ELSE "Ok"

-----------------------------------------------------------------------------
(* A fixture lists the leaves of a state in any order and they are         *)
(* materialized; a pipeline checks fees.  The two share no state.          *)

VARIABLES
    leaves,         \* a materialized state as a fixture lists it
    checked         \* the last fee check, if any: fees, schedule and result

ordersVars == <<leaves, checked>>

Schedules == [payload_lane_base_fee : Prices, witness_lane_base_fee : Prices]
LaneFees == [regular : Prices, max_witness_priority_fee : Prices]

OrdersInit ==
    /\ leaves = <<>>
    /\ checked = {}

\* One more leaf; its value is its place in the list, so that all are told apart.
ListLeaf(key) ==
    /\ checked = {}
    /\ Len(leaves) < MaxLeaves
    /\ leaves' = Append(leaves, [key |-> key, value |-> Len(leaves)])
    /\ UNCHANGED checked

\* The next fixture.
NextFixture ==
    /\ leaves # <<>>
    /\ leaves' = <<>>
    /\ UNCHANGED checked

CheckFees(fees, schedule) ==
    /\ leaves = <<>>
    /\ checked' = {[fees |-> fees, schedule |-> schedule,
                    result |-> check_fee_policy(fees, schedule)]}
    /\ UNCHANGED leaves

OrdersNext ==
    \/ \E key \in StateKeys : ListLeaf(key)
    \/ NextFixture
    \/ \E fees \in LaneFees, schedule \in Schedules : CheckFees(fees, schedule)

OrdersSpec == OrdersInit /\ [][OrdersNext]_ordersVars

-----------------------------------------------------------------------------
(* Correctness.                                                            *)

\* The value of a big-endian byte string.
BigEndian(bytes) == from_le_bytes([i \in 1 .. Len(bytes) |-> bytes[Len(bytes) + 1 - i]])

\* The order the key types suggest: by kind, then address, then slot or index,
\* all as numbers.
KindRank(kind) ==
    CHOOSE i \in 1 .. 5 :
        kind = <<"AccountHeader", "StorageSlot", "CodeChunk", "RawTreeKey", "Stem">>[i]

ReferenceOrder(a, b) ==
    LET fields == <<<<KindRank(a.kind), KindRank(b.kind)>>,
                    <<BigEndian(a.address), BigEndian(b.address)>>,
                    <<BigEndian(a.bytes), BigEndian(b.bytes)>>, <<a.index, b.index>>>>
        Differ == {i \in DOMAIN fields : fields[i][1] # fields[i][2]}
        first == CHOOSE i \in Differ : \A j \in Differ : i <= j
    IN  IF Differ = {} THEN "Equal" ELSE NumberOrder(fields[first][1], fields[first][2])

\* compare_state_keys, which knows only the encoded bytes, orders keys by kind,
\* address and then slot or chunk number, and tells any two keys apart: neither
\* the padding of addresses nor the different lengths of the kinds interfere, and
\* chunks are in the order of their index.
KeysInReferenceOrder ==
    \A i, j \in DOMAIN leaves :
        compare_state_keys(leaves[i].key, leaves[j].key)
          = ReferenceOrder(leaves[i].key, leaves[j].key)

\* Sorting the leaves of a fixture loses and adds none and brings them into the
\* order apply_transition demands.  A fixture does not materialize in two cases
\* only: it lists no leaf, which canonical_root_check_materialized_state asserts
\* against, or one key twice, which apply_transition refuses.
CanonicalStateMaterializes ==
    LET canonical == canonical_materialized_state(leaves)
    IN  /\ \A sorted \in canonical :
              /\ Len(sorted) = Len(leaves)
              /\ \A i \in DOMAIN leaves : \E p \in DOMAIN sorted : sorted[p] = leaves[i]
        /\ (\E sorted \in canonical : ensure_canonical_access_order(sorted)) <=>
              /\ leaves # <<>>
              /\ \A i, j \in DOMAIN leaves : leaves[i].key = leaves[j].key => i = j

\* Fees are compared as the little-endian numbers they are: the payload lane is
\* refused just if its fee is below its floor, the witness lane just if the
\* payload lane passed and its own fee is below its floor.
FeeFloorsAreNumeric ==
    \A check \in checked :
        LET short(fee, floor) == from_le_bytes(fee) < from_le_bytes(floor)
            payload == short(check.fees.regular, check.schedule.payload_lane_base_fee)
            witness == short(check.fees.max_witness_priority_fee,
                             check.schedule.witness_lane_base_fee)
        IN  check.result = IF payload THEN "Payload" ELSE IF witness THEN "Witness" ELSE "Ok"

=============================================================================
