---------------------------- MODULE CodecProofs -----------------------------
(***************************************************************************)
(* The orders on encoded values, for every number of values of a byte and  *)
(* every width: fees and state keys as they are compared, which is as      *)
(* their bytes are, and the leaves of a state in the order of their keys.  *)
(***************************************************************************)
EXTENDS Encodings, WireProofs, FiniteSetTheorems

-----------------------------------------------------------------------------
(* Fees.                                                                   *)

\* compare_u256 orders numbers by their value.
LEMMA CompareIsNumeric ==
    ASSUME NEW left \in Fixed(RootWidth), NEW right \in Fixed(RootWidth)
    PROVE  compare_u256(left, right) = NumberOrder(from_le_bytes(left), from_le_bytes(right))
<1> DEFINE Differ == {i \in 1 .. RootWidth : left[i] # right[i]}
           m == from_le_bytes(left)
           n == from_le_bytes(right)
<1>1. RootWidth \in Nat
    BY WidthsArePositive, Zenon
<1>2. /\ left \in Seq(Bytes) /\ Len(left) = RootWidth /\ m \in Nat
      /\ right \in Seq(Bytes) /\ Len(right) = RootWidth /\ n \in Nat
    BY <1>1, FixedType, Zenon
<1>3. CASE Differ = {}
    <2>1. left = right
        BY <1>2, <1>3, SMTT(30)
    <2>2. compare_u256(left, right) = "Equal"
        BY <1>3, Zenon DEF compare_u256
    <2> QED
        BY <1>2, <2>1, <2>2, SMTT(30) DEF NumberOrder
<1>4. CASE Differ # {}
    <2> DEFINE Highest(i) == i \in Differ /\ \A j \in Differ : j <= i
    <2>1. \E i : Highest(i)
        BY <1>1, <1>4, GreatestUpTo, ZenonT(40)
    <2>2. PICK h : h = CHOOSE i \in Differ : \A j \in Differ : j <= i
        BY Zenon
    <2>3. Highest(h)
        BY <2>1, <2>2, Zenon
    <2>4. compare_u256(left, right) = NumberOrder(left[h], right[h])
        BY <1>4, <2>2, Zenon DEF compare_u256
    <2>5. h \in 1 .. RootWidth /\ \A j \in h + 1 .. RootWidth : left[j] = right[j]
        BY <1>1, <2>3, SMTT(30)
    <2>6. left[h] \in Nat /\ right[h] \in Nat /\ left[h] # right[h]
        BY <1>2, <2>3, ByteFacts, SMTT(30)
    <2> HIDE DEF m, n
    <2>7. CASE left[h] < right[h]
        <3>1. m < n
            BY <1>2, <2>5, <2>7, LastByteDecides, Zenon DEF m, n
        <3> QED
            BY <1>2, <2>4, <2>6, <2>7, <3>1, Zenon DEF NumberOrder, m, n
    <2>8. CASE right[h] < left[h]
        <3>1. n < m
            BY <1>2, <2>5, <2>8, LastByteDecides, Zenon DEF m, n
        <3> QED
            BY <1>2, <2>4, <2>6, <2>8, <3>1, SMTT(30) DEF NumberOrder, m, n
    <2> QED
        BY <2>6, <2>7, <2>8, SMTT(30)
<1> QED
    BY <1>3, <1>4, Zenon

\* What the last check was made of.
FeeInv ==
    \A check \in checked :
        /\ check.fees \in LaneFees /\ check.schedule \in Schedules
        /\ check.result = check_fee_policy(check.fees, check.schedule)

\* A floor is missed just if the fee is the smaller number.
LEMMA CoversIsNumeric ==
    ASSUME NEW fee \in Prices, NEW floor \in Prices
    PROVE  gas_price_covers(fee, floor) <=> ~(from_le_bytes(fee) < from_le_bytes(floor))
<1>1. RootWidth \in Nat /\ fee \in Fixed(RootWidth) /\ floor \in Fixed(RootWidth)
    BY WidthsArePositive, KeyParts, Zenon
<1>2. from_le_bytes(fee) \in Nat /\ from_le_bytes(floor) \in Nat
    BY <1>1, FixedType, Zenon
<1> QED
    BY <1>1, <1>2, CompareIsNumeric, Zenon DEF gas_price_covers, NumberOrder

\* Fees are compared as the little-endian numbers they are: a lane is refused just
\* if its fee is below its floor, for numbers of any width.
THEOREM FeeFloorsAreAlwaysNumeric == OrdersSpec => []FeeFloorsAreNumeric
<1>1. OrdersInit => FeeInv
    BY Zenon DEF OrdersInit, FeeInv
<1>2. FeeInv /\ [OrdersNext]_ordersVars => FeeInv'
    <2> SUFFICES ASSUME FeeInv, [OrdersNext]_ordersVars PROVE FeeInv'
        BY Zenon
    <2>1. CASE checked' = checked
        BY <2>1, Zenon DEF FeeInv
    <2>2. ASSUME NEW fees \in LaneFees, NEW schedule \in Schedules, CheckFees(fees, schedule)
          PROVE  FeeInv'
        BY <2>2, SMTT(30) DEF CheckFees, FeeInv
    <2> QED
        BY <2>1, <2>2, ZenonT(40) DEF OrdersNext, ordersVars, ListLeaf, NextFixture
<1>3. FeeInv => FeeFloorsAreNumeric
    <2> SUFFICES ASSUME FeeInv, NEW check \in checked
                 PROVE  LET short(fee, floor) == from_le_bytes(fee) < from_le_bytes(floor)
                            payload == short(check.fees.regular,
                                             check.schedule.payload_lane_base_fee)
                            witness == short(check.fees.max_witness_priority_fee,
                                             check.schedule.witness_lane_base_fee)
                        IN  check.result = IF payload THEN "Payload"
                                           ELSE IF witness THEN "Witness" ELSE "Ok"
        BY Zenon DEF FeeFloorsAreNumeric
    <2>1. /\ check.fees.regular \in Prices /\ check.fees.max_witness_priority_fee \in Prices
          /\ check.schedule.payload_lane_base_fee \in Prices
          /\ check.schedule.witness_lane_base_fee \in Prices
          /\ check.result = check_fee_policy(check.fees, check.schedule)
        BY Zenon DEF FeeInv, LaneFees, Schedules
    <2> QED
        BY <2>1, CoversIsNumeric, Zenon DEF check_fee_policy
<1> QED
    BY <1>1, <1>2, <1>3, PTL DEF OrdersSpec

-----------------------------------------------------------------------------
(* State keys.                                                             *)

\* The places where two sequences differ.
Differences(s, t) == {i \in DOMAIN s \cap DOMAIN t : s[i] # t[i]}

\* What slices of encoded keys are made of: bytes and the tags in front.
Symbols == Nat

\* Slices of bytes are such slices, and the tags are such numbers.
LEMMA BytesAreSymbols ==
    /\ \A s \in Seq(Bytes) : s \in Seq(Symbols)
    /\ \A n \in Nat : <<n>> \in Seq(Symbols) /\ n \in Symbols
BY ByteFacts, SMTT(30) DEF Symbols

\* The first place where two slices differ decides.
LEMMA SliceFirst ==
    ASSUME NEW s \in Seq(Symbols), NEW t \in Seq(Symbols), NEW f \in Differences(s, t),
           \A i \in Differences(s, t) : f <= i
    PROVE  SliceOrder(s, t) = NumberOrder(s[f], t[f])
<1> DEFINE First(i) == i \in Differences(s, t) /\ \A j \in Differences(s, t) : i <= j
<1>1. PICK first : first = CHOOSE i \in Differences(s, t) : \A j \in Differences(s, t) : i <= j
    BY Zenon
<1>2. First(first)
    BY <1>1, Zenon
<1>3. SliceOrder(s, t) = NumberOrder(s[first], t[first])
    BY <1>1, <1>2, Zenon DEF SliceOrder, Differences
<1>4. first = f
    <2>1. first \in Int /\ f \in Int
        BY <1>2 DEF Differences
    <2> QED
        BY <1>2, <2>1, SMTT(30)
<1> QED
    BY <1>3, <1>4, Zenon

\* Slices that differ do so at a first place.
LEMMA FirstDifference ==
    ASSUME NEW s \in Seq(Symbols), NEW t \in Seq(Symbols), Differences(s, t) # {}
    PROVE  \E f \in Differences(s, t) : \A i \in Differences(s, t) : f <= i
<1>1. Differences(s, t) \in SUBSET Nat
    BY DEF Differences
<1> QED
    BY <1>1, LeastNatural, Zenon

\* A number is compared with itself.
LEMMA NumberOrderEqual ==
    ASSUME NEW m \in Nat, NEW n \in Nat
    PROVE  NumberOrder(m, n) = "Equal" <=> m = n
BY DEF NumberOrder

\* Slices of one length are in the order of the big-endian numbers.
LEMMA SliceIsNumeric ==
    ASSUME NEW s \in Seq(Bytes), NEW t \in Seq(Bytes), Len(s) = Len(t)
    PROVE  /\ SliceOrder(s, t) = NumberOrder(BigEndian(s), BigEndian(t))
           /\ BigEndian(s) \in Nat /\ BigEndian(t) \in Nat
           /\ BigEndian(s) = BigEndian(t) <=> s = t
<1> DEFINE N == Len(s)
           rs == [i \in 1 .. N |-> s[N + 1 - i]]
           rt == [i \in 1 .. N |-> t[N + 1 - i]]
           m == from_le_bytes(rs)
           n == from_le_bytes(rt)
<1>1. N \in Nat /\ N = Len(t) /\ s \in Seq(Symbols) /\ t \in Seq(Symbols)
    BY BytesAreSymbols, SMTT(30)
<1>2. rs \in Fixed(N) /\ rt \in Fixed(N)
    <2>1. ASSUME NEW i \in 1 .. N PROVE s[N + 1 - i] \in Bytes /\ t[N + 1 - i] \in Bytes
        <3>1. N + 1 - i \in 1 .. N
            BY <1>1, SMTT(30)
        <3> QED
            BY <1>1, <3>1, SMTT(30)
    <2> QED
        BY <2>1, Zenon DEF Fixed
<1>3. BigEndian(s) = m /\ BigEndian(t) = n
    BY <1>1, Zenon DEF BigEndian
<1>4. ASSUME NEW i \in 1 .. N PROVE rs[i] = s[N + 1 - i] /\ rt[i] = t[N + 1 - i]
    BY Zenon
<1> HIDE DEF rs, rt
<1>5. /\ rs \in Seq(Bytes) /\ Len(rs) = N /\ m \in Nat
      /\ rt \in Seq(Bytes) /\ Len(rt) = N /\ n \in Nat
    BY <1>1, <1>2, FixedType, Zenon
<1>6. CASE Differences(s, t) = {}
    <2>1. s = t
        BY <1>1, <1>6, SMTT(30) DEF Differences
    <2>2. SliceOrder(s, t) = "Equal"
        BY <1>1, <1>6, SMTT(30) DEF SliceOrder, Differences, NumberOrder
    <2> QED
        BY <1>3, <1>5, <2>1, <2>2, NumberOrderEqual, SMTT(30)
<1>7. CASE Differences(s, t) # {}
    <2>1. PICK f \in Differences(s, t) : \A i \in Differences(s, t) : f <= i
        BY <1>1, <1>7, FirstDifference, Zenon
    <2>2. SliceOrder(s, t) = NumberOrder(s[f], t[f])
        BY <1>1, <2>1, SliceFirst, Zenon
    <2> DEFINE h == N + 1 - f
    <2>3. f \in 1 .. N /\ h \in 1 .. N /\ N + 1 - h = f
        BY <1>1, <2>1, SMTT(30) DEF Differences
    <2>4. s[f] \in Nat /\ t[f] \in Nat /\ s[f] # t[f] /\ rs[h] = s[f] /\ rt[h] = t[f]
        <3>1. s[f] \in Bytes /\ t[f] \in Bytes
            BY <1>1, <2>3, SMTT(30)
        <3>2. s[f] # t[f]
            BY <2>1, Zenon DEF Differences
        <3>3. rs[h] = s[f] /\ rt[h] = t[f]
            BY <1>4, <2>3, Zenon
        <3> QED
            BY <3>1, <3>2, <3>3, ByteFacts, Zenon
    <2>5. ASSUME NEW j \in h + 1 .. N PROVE rs[j] = rt[j]
        <3>1. j \in 1 .. N /\ N + 1 - j \in 1 .. N /\ ~(f <= N + 1 - j)
            BY <1>1, <2>3, SMTT(30)
        <3>2. N + 1 - j \notin Differences(s, t)
            BY <2>1, <3>1, SMTT(30)
        <3> QED
            BY <1>1, <1>4, <3>1, <3>2, SMTT(30) DEF Differences
    <2> HIDE DEF h, m, n
    <2>6. CASE s[f] < t[f]
        <3>1. m < n
            BY <1>1, <1>5, <2>3, <2>4, <2>5, <2>6, LastByteDecides, SMTT(30) DEF m, n
        <3> QED
            BY <1>3, <1>5, <2>2, <2>4, <2>6, <3>1, SMTT(30) DEF NumberOrder
    <2>7. CASE t[f] < s[f]
        <3>1. n < m
            BY <1>1, <1>5, <2>3, <2>4, <2>5, <2>7, LastByteDecides, SMTT(30) DEF m, n
        <3> QED
            BY <1>3, <1>5, <2>2, <2>4, <2>7, <3>1, SMTT(30) DEF NumberOrder
    <2> QED
        BY <2>4, <2>6, <2>7, SMTT(30)
<1> QED
    BY <1>6, <1>7, Zenon

\* Slices that begin with parts of one length are in the order of these parts or,
\* where they are the same, of what follows.
LEMMA SliceOfConcat ==
    ASSUME NEW a \in Seq(Symbols), NEW b \in Seq(Symbols), NEW c \in Seq(Symbols), NEW d \in Seq(Symbols),
           Len(a) = Len(c)
    PROVE  /\ a # c => SliceOrder(a \o b, c \o d) = SliceOrder(a, c)
           /\ a = c => SliceOrder(a \o b, c \o d) = SliceOrder(b, d)
<1> DEFINE s == a \o b
           t == c \o d
<1>1. /\ s \in Seq(Symbols) /\ Len(s) = Len(a) + Len(b)
      /\ t \in Seq(Symbols) /\ Len(t) = Len(a) + Len(d)
      /\ Len(a) \in Nat /\ Len(b) \in Nat /\ Len(d) \in Nat
    <2>1. s \in Seq(Symbols) /\ Len(s) = Len(a) + Len(b)
        BY Concatenation, ZenonT(40)
    <2>2. t \in Seq(Symbols) /\ Len(t) = Len(a) + Len(d)
        BY Concatenation, SMTT(30)
    <2> QED
        BY <2>1, <2>2, SMTT(30)
<1>2. \A i \in 1 .. Len(a) : s[i] = a[i] /\ t[i] = c[i]
    OBVIOUS
<1>3. (\A i \in 1 .. Len(b) : s[Len(a) + i] = b[i]) /\ (\A i \in 1 .. Len(d) : t[Len(a) + i] = d[i])
    OBVIOUS
<1> HIDE DEF s, t
<1>4. ASSUME a # c PROVE SliceOrder(s, t) = SliceOrder(a, c)
    <2>1. Differences(a, c) # {}
        BY <1>4, SMTT(30) DEF Differences
    <2>2. PICK f \in Differences(a, c) : \A i \in Differences(a, c) : f <= i
        BY <2>1, FirstDifference, Zenon
    <2>3. f \in Differences(s, t) /\ f \in 1 .. Len(a) /\ s[f] = a[f] /\ t[f] = c[f]
        BY <1>1, <1>2, <2>2, SMTT(30) DEF Differences
    <2>4. ASSUME NEW i \in Differences(s, t) PROVE f <= i
        <3>1. i \in Nat /\ (i \in 1 .. Len(a) => i \in Differences(a, c))
            BY <1>1, <1>2, <2>4, SMTT(30) DEF Differences
        <3>2. i \in 1 .. Len(a) \/ Len(a) < i
            BY <1>1, <2>4, SMTT(30) DEF Differences
        <3> QED
            BY <1>1, <2>2, <2>3, <3>1, <3>2, SMTT(30)
    <2>5. SliceOrder(s, t) = NumberOrder(s[f], t[f])
        BY <1>1, <2>3, <2>4, SliceFirst, ZenonT(40)
    <2>6. SliceOrder(a, c) = NumberOrder(a[f], c[f])
        BY <2>2, SliceFirst, Zenon
    <2> QED
        BY <2>3, <2>5, <2>6, Zenon
<1>5. ASSUME a = c PROVE SliceOrder(s, t) = SliceOrder(b, d)
    <2>1. ASSUME NEW i \in Differences(s, t)
          PROVE  i - Len(a) \in Differences(b, d) /\ i \in Nat
        <3>1. i \in 1 .. Len(s) /\ i \in 1 .. Len(t) /\ s[i] # t[i]
            BY <1>1, <2>1, SMTT(30) DEF Differences
        <3>2. i \notin 1 .. Len(a)
            BY <1>2, <1>5, <3>1, Zenon
        <3>3. i - Len(a) \in 1 .. Len(b) /\ i - Len(a) \in 1 .. Len(d) /\ Len(a) + (i - Len(a)) = i
            BY <1>1, <3>1, <3>2, SMTT(30)
        <3>4. s[i] = b[i - Len(a)] /\ t[i] = d[i - Len(a)]
            BY <1>3, <3>3, ZenonT(40)
        <3> QED
            BY <3>1, <3>3, <3>4, SMTT(30) DEF Differences
    <2>2. ASSUME NEW i \in Differences(b, d)
          PROVE  /\ Len(a) + i \in Differences(s, t) /\ i \in Nat
                 /\ s[Len(a) + i] = b[i] /\ t[Len(a) + i] = d[i]
        <3>1. i \in 1 .. Len(b) /\ i \in 1 .. Len(d) /\ b[i] # d[i]
            BY <2>2, SMTT(30) DEF Differences
        <3>2. s[Len(a) + i] = b[i] /\ t[Len(a) + i] = d[i]
            BY <1>3, <3>1, Zenon
        <3>3. Len(a) + i \in 1 .. Len(s) /\ Len(a) + i \in 1 .. Len(t) /\ i \in Nat
            BY <1>1, <3>1, SMTT(30)
        <3> QED
            BY <1>1, <3>1, <3>2, <3>3, SMTT(30) DEF Differences
    <2>3. CASE Differences(b, d) = {}
        <3>1. Differences(s, t) = {}
            BY <2>1, <2>3, Zenon
        <3>2. SliceOrder(s, t) = NumberOrder(Len(s), Len(t))
            BY <3>1, Zenon DEF SliceOrder, Differences
        <3>3. SliceOrder(b, d) = NumberOrder(Len(b), Len(d))
            BY <2>3, Zenon DEF SliceOrder, Differences
        <3> QED
            BY <1>1, <3>2, <3>3, SMTT(30) DEF NumberOrder
    <2>4. CASE Differences(b, d) # {}
        <3>1. PICK f \in Differences(b, d) : \A i \in Differences(b, d) : f <= i
            BY <2>4, FirstDifference, Zenon
        <3>2. SliceOrder(b, d) = NumberOrder(b[f], d[f])
            BY <3>1, SliceFirst, Zenon
        <3>3. Len(a) + f \in Differences(s, t) /\ s[Len(a) + f] = b[f] /\ t[Len(a) + f] = d[f] /\ f \in Nat
            BY <2>2, <3>1, Zenon
        <3>4. ASSUME NEW i \in Differences(s, t) PROVE Len(a) + f <= i
            <4>1. i - Len(a) \in Differences(b, d) /\ i \in Nat
                BY <2>1, Zenon
            <4>2. f <= i - Len(a)
                BY <3>1, <4>1, Zenon
            <4> QED
                BY <1>1, <3>3, <4>1, <4>2, SMTT(30)
        <3>5. SliceOrder(s, t) = NumberOrder(s[Len(a) + f], t[Len(a) + f])
            BY <1>1, <3>3, <3>4, SliceFirst, ZenonT(40)
        <3> QED
            BY <3>2, <3>3, <3>5, Zenon
    <2> QED
        BY <2>3, <2>4, Zenon
<1> QED
    BY <1>4, <1>5, Zenon DEF s, t

\* ReferenceOrder goes through the fields one by one.
LEMMA ReferenceUnfolds ==
    ASSUME NEW a, NEW b
    PROVE  ReferenceOrder(a, b) =
             IF KindRank(a.kind) # KindRank(b.kind)
             THEN NumberOrder(KindRank(a.kind), KindRank(b.kind))
             ELSE IF BigEndian(a.address) # BigEndian(b.address)
             THEN NumberOrder(BigEndian(a.address), BigEndian(b.address))
             ELSE IF BigEndian(a.bytes) # BigEndian(b.bytes)
             THEN NumberOrder(BigEndian(a.bytes), BigEndian(b.bytes))
             ELSE IF a.index # b.index THEN NumberOrder(a.index, b.index)
             ELSE "Equal"
<1> DEFINE fields == <<<<KindRank(a.kind), KindRank(b.kind)>>,
                       <<BigEndian(a.address), BigEndian(b.address)>>,
                       <<BigEndian(a.bytes), BigEndian(b.bytes)>>, <<a.index, b.index>>>>
           Differ == {i \in DOMAIN fields : fields[i][1] # fields[i][2]}
           first == CHOOSE i \in Differ : \A j \in Differ : i <= j
<1>1. ReferenceOrder(a, b) =
        IF Differ = {} THEN "Equal" ELSE NumberOrder(fields[first][1], fields[first][2])
    BY Zenon DEF ReferenceOrder
<1>2. /\ DOMAIN fields = {1, 2, 3, 4}
      /\ fields[1][1] = KindRank(a.kind) /\ fields[1][2] = KindRank(b.kind)
      /\ fields[2][1] = BigEndian(a.address) /\ fields[2][2] = BigEndian(b.address)
      /\ fields[3][1] = BigEndian(a.bytes) /\ fields[3][2] = BigEndian(b.bytes)
      /\ fields[4][1] = a.index /\ fields[4][2] = b.index
    OBVIOUS
<1> HIDE DEF fields
<1>3. ASSUME NEW i \in {1, 2, 3, 4}, fields[i][1] # fields[i][2],
             \A j \in {1, 2, 3, 4} : j < i => fields[j][1] = fields[j][2]
      PROVE  ReferenceOrder(a, b) = NumberOrder(fields[i][1], fields[i][2])
    <2>1. i \in Differ /\ \A j \in Differ : i <= j
        BY <1>2, <1>3, SMTT(30)
    <2>2. PICK f : f = first
        BY Zenon
    <2>3. f \in Differ /\ \A j \in Differ : f <= j
        BY <2>1, <2>2, Zenon
    <2>4. f = i
        BY <1>2, <2>1, <2>3, SMTT(30)
    <2> QED
        BY <1>1, <2>1, <2>2, <2>4, ZenonT(40)
<1>4. ASSUME \A i \in {1, 2, 3, 4} : fields[i][1] = fields[i][2]
      PROVE  ReferenceOrder(a, b) = "Equal"
    BY <1>1, <1>2, <1>4, Zenon
<1> HIDE DEF Differ, first
<1> QED
    BY <1>2, <1>3, <1>4, SMTT(30)

\* The rank of a kind.
LEMMA KindRanks ==
    /\ KindRank("AccountHeader") = 1 /\ KindRank("StorageSlot") = 2 /\ KindRank("CodeChunk") = 3
    /\ KindRank("RawTreeKey") = 4 /\ KindRank("Stem") = 5
<1> DEFINE kinds == <<"AccountHeader", "StorageSlot", "CodeChunk", "RawTreeKey", "Stem">>
<1>1. /\ kinds[1] = "AccountHeader" /\ kinds[2] = "StorageSlot" /\ kinds[3] = "CodeChunk"
      /\ kinds[4] = "RawTreeKey" /\ kinds[5] = "Stem"
    BY Zenon
<1>2. \A kind : KindRank(kind) = CHOOSE i \in 1 .. 5 : kind = kinds[i]
    BY Zenon DEF KindRank
<1> HIDE DEF kinds
<1>3. ASSUME NEW i \in 1 .. 5 PROVE KindRank(kinds[i]) = i
    <2>1. PICK r : r = CHOOSE j \in 1 .. 5 : kinds[i] = kinds[j]
        BY Zenon
    <2>2. r \in 1 .. 5 /\ kinds[i] = kinds[r]
        BY <2>1, Zenon
    <2>3. \A x, y \in 1 .. 5 : kinds[x] = kinds[y] => x = y
        <3>1. \A x \in 1 .. 5 : x = 1 \/ x = 2 \/ x = 3 \/ x = 4 \/ x = 5
            BY SMTT(30)
        <3> QED
            BY <1>1, <3>1, Zenon
    <2> QED
        BY <1>2, <2>1, <2>2, <2>3, SMTT(30)
<1> QED
    BY <1>1, <1>3, SMTT(30)

\* The padding of an address keeps its order and its identity.
LEMMA AddressOrder ==
    ASSUME NEW a \in Accounts, NEW c \in Accounts
    PROVE  LET s == canonicalize_execution_address(a)
               t == canonicalize_execution_address(c)
           IN  /\ s \in Seq(Bytes) /\ t \in Seq(Bytes) /\ Len(s) = RootWidth /\ Len(t) = RootWidth
               /\ SliceOrder(s, t) = NumberOrder(BigEndian(a), BigEndian(c))
               /\ s = t <=> a = c
               /\ BigEndian(a) = BigEndian(c) <=> a = c
<1> DEFINE padding == [i \in 1 .. RootWidth - AddressWidth |-> 0]
           s == padding \o a
           t == padding \o c
<1>1. RootWidth \in Nat /\ AddressWidth \in Nat /\ RootWidth - AddressWidth \in Nat
    BY WidthsArePositive, SMTT(30)
<1>2. padding \in Seq(Bytes) /\ Len(padding) = RootWidth - AddressWidth
    <2>1. 0 \in Bytes
        BY WidthsArePositive, SMTT(30) DEF Bytes
    <2> QED
        BY <1>1, <2>1, SMTT(30)
<1> HIDE DEF padding
<1>3. a \in Seq(Bytes) /\ c \in Seq(Bytes) /\ Len(a) = AddressWidth /\ Len(c) = AddressWidth
    <2>1. a \in Fixed(AddressWidth) /\ c \in Fixed(AddressWidth)
        BY KeyParts, Zenon
    <2> QED
        BY <1>1, <2>1, FixedType, Zenon
<1>4. canonicalize_execution_address(a) = s /\ canonicalize_execution_address(c) = t
    BY Zenon DEF canonicalize_execution_address, padding
<1>5. s \in Seq(Bytes) /\ t \in Seq(Bytes) /\ Len(s) = RootWidth /\ Len(t) = RootWidth
    <2>1. s \in Seq(Bytes) /\ Len(s) = Len(padding) + Len(a)
        BY <1>2, <1>3, Concatenation, ZenonT(40)
    <2>2. t \in Seq(Bytes) /\ Len(t) = Len(padding) + Len(c)
        BY <1>2, <1>3, Concatenation, ZenonT(40)
    <2> QED
        BY <1>1, <1>2, <1>3, <2>1, <2>2, SMTT(30)
<1>6. SliceOrder(s, t) = SliceOrder(a, c)
    BY <1>2, <1>3, BytesAreSymbols, SliceOfConcat, SMTT(30)
<1>7. /\ SliceOrder(a, c) = NumberOrder(BigEndian(a), BigEndian(c))
      /\ BigEndian(a) = BigEndian(c) <=> a = c
    BY <1>3, SliceIsNumeric, Zenon
<1>8. ASSUME s = t PROVE a = c
    <2>1. \A i \in 1 .. AddressWidth :
             s[Len(padding) + i] = a[i] /\ t[Len(padding) + i] = c[i]
        BY <1>1, <1>2, <1>3, SMTT(30)
    <2>2. \A i \in 1 .. AddressWidth : a[i] = c[i]
        BY <1>8, <2>1, ZenonT(40)
    <2> QED
        BY <1>3, <2>2, SameSequence, Zenon
<1> QED
    BY <1>4, <1>5, <1>6, <1>7, <1>8, SMTT(30)

\* The big-endian bytes of an index are in the order of the indices.
LEMMA IndexOrder ==
    ASSUME NEW m \in Below(IndexWidth), NEW n \in Below(IndexWidth)
    PROVE  /\ to_be_bytes(m) \in Seq(Bytes) /\ to_be_bytes(n) \in Seq(Bytes)
           /\ SliceOrder(to_be_bytes(m), to_be_bytes(n)) = NumberOrder(m, n)
<1>1. IndexWidth \in Nat /\ Below(IndexWidth) \subseteq Nat
    BY KeyParts, WeightStep, SMTT(30) DEF Below
<1>2. ASSUME NEW k \in Below(IndexWidth)
      PROVE  /\ to_be_bytes(k) \in Seq(Bytes) /\ Len(to_be_bytes(k)) = IndexWidth
             /\ BigEndian(to_be_bytes(k)) = k
    <2> DEFINE little == to_le_bytes(k, IndexWidth)
               big == to_be_bytes(k)
    <2>1. little \in [1 .. IndexWidth -> Bytes]
        BY <1>1, ToBytesType, Zenon
    <2>2. big = [i \in 1 .. IndexWidth |-> little[IndexWidth + 1 - i]]
        BY Zenon DEF to_be_bytes
    <2> HIDE DEF little, big
    <2>3. \A i \in 1 .. IndexWidth :
             IndexWidth + 1 - i \in 1 .. IndexWidth /\ IndexWidth + 1 - (IndexWidth + 1 - i) = i
        BY <1>1, SMTT(30)
    <2>4. big \in Fixed(IndexWidth)
        BY <2>1, <2>2, <2>3, Zenon DEF Fixed
    <2>5. big \in Seq(Bytes) /\ Len(big) = IndexWidth
        BY <1>1, <2>4, FixedType, Zenon
    <2>6. [i \in 1 .. Len(big) |-> big[Len(big) + 1 - i]] = little
        BY <2>1, <2>2, <2>3, <2>5, ZenonT(40)
    <2>7. BigEndian(big) = from_le_bytes(little)
        BY <2>6, Zenon DEF BigEndian
    <2> QED
        BY <1>1, <2>5, <2>7, NumberRoundTrip, Zenon DEF little, big
<1>3. /\ to_be_bytes(m) \in Seq(Bytes) /\ to_be_bytes(n) \in Seq(Bytes)
      /\ Len(to_be_bytes(m)) = Len(to_be_bytes(n))
      /\ BigEndian(to_be_bytes(m)) = m /\ BigEndian(to_be_bytes(n)) = n
    BY <1>2, Zenon
<1> QED
    BY <1>3, SliceIsNumeric, Zenon

\* Keys of one kind and keys of two: the tag in front decides first.
LEMMA TagOrder ==
    ASSUME NEW x \in Nat, NEW y \in Nat, NEW s \in Seq(Symbols), NEW t \in Seq(Symbols)
    PROVE  /\ <<x>> \o s \in Seq(Symbols)
           /\ x # y => SliceOrder(<<x>> \o s, <<y>> \o t) = NumberOrder(x, y)
           /\ x = y => SliceOrder(<<x>> \o s, <<y>> \o t) = SliceOrder(s, t)
<1> DEFINE a == <<x>>
           c == <<y>>
<1>1. a \in Seq(Symbols) /\ c \in Seq(Symbols)
    BY BytesAreSymbols, Zenon
<1>2. (a = c <=> x = y) /\ a[1] = x /\ c[1] = y /\ DOMAIN a = {1} /\ DOMAIN c = {1}
    OBVIOUS
<1>3. Len(a) = 1 /\ Len(c) = 1
    BY Zenon
<1> HIDE DEF a, c
<1>4. a \o s \in Seq(Symbols)
    BY <1>1, Concatenation, Zenon
<1>5. /\ a # c => SliceOrder(a \o s, c \o t) = SliceOrder(a, c)
      /\ a = c => SliceOrder(a \o s, c \o t) = SliceOrder(s, t)
    BY <1>1, <1>3, SliceOfConcat, SMTT(30)
<1>6. ASSUME x # y PROVE SliceOrder(a, c) = NumberOrder(x, y)
    <2>1. 1 \in Differences(a, c) /\ \A i \in Differences(a, c) : 1 <= i
        BY <1>2, <1>6, SMTT(30) DEF Differences
    <2>2. SliceOrder(a, c) = NumberOrder(a[1], c[1])
        BY <1>1, <2>1, SliceFirst, Zenon
    <2> QED
        BY <1>2, <2>2, Zenon
<1> QED
    BY <1>2, <1>4, <1>5, <1>6, SMTT(30) DEF a, c

\* What follows the tag, and the tag.
KeyBody(key) ==
    CASE key.kind = "AccountHeader" -> canonicalize_execution_address(key.address)
      [] key.kind = "StorageSlot" -> canonicalize_execution_address(key.address) \o key.bytes
      [] key.kind = "CodeChunk" ->
           canonicalize_execution_address(key.address) \o to_be_bytes(key.index)
      [] key.kind = "RawTreeKey" -> key.bytes
      [] key.kind = "Stem" -> key.bytes

\* The parts of a key by its kind.
LEMMA KeyCases ==
    ASSUME NEW key \in StateKeys
    PROVE  \/ /\ key.kind = "AccountHeader" /\ key.address \in Accounts
              /\ key.bytes = Empty /\ key.index = 0
           \/ /\ key.kind = "StorageSlot" /\ key.address \in Accounts
              /\ key.bytes \in Slots /\ key.index = 0
           \/ /\ key.kind = "CodeChunk" /\ key.address \in Accounts
              /\ key.bytes = Empty /\ key.index \in Below(IndexWidth)
           \/ /\ key.kind = "RawTreeKey" /\ key.address = Empty
              /\ key.bytes \in Slots /\ key.index = 0
           \/ /\ key.kind = "Stem" /\ key.address = Empty
              /\ key.bytes \in Stems /\ key.index = 0
BY KeyParts, Zenon DEF StateKeys

\* The bytes of slots and stems.
LEMMA SlotTypes ==
    /\ \A slot \in Slots : slot \in Seq(Bytes) /\ Len(slot) = RootWidth
    /\ \A stem \in Stems : stem \in Seq(Bytes) /\ Len(stem) = RootWidth - 1
    /\ Empty \in Seq(Bytes)
<1>1. RootWidth \in Nat /\ RootWidth - 1 \in Nat
    BY WidthsArePositive, SMTT(30)
<1>2. ASSUME NEW slot \in Slots PROVE slot \in Seq(Bytes) /\ Len(slot) = RootWidth
    <2>1. slot \in Fixed(RootWidth)
        BY KeyParts, Zenon
    <2> QED
        BY <1>1, <2>1, FixedType, Zenon
<1>3. ASSUME NEW stem \in Stems PROVE stem \in Seq(Bytes) /\ Len(stem) = RootWidth - 1
    <2>1. stem \in Fixed(RootWidth - 1)
        BY KeyParts, Zenon
    <2> QED
        BY <1>1, <2>1, FixedType, Zenon
<1> QED
    BY <1>2, <1>3, SMTT(30) DEF Empty

\* The encoding is a tag, one less than the rank of the kind, and what follows.
LEMMA EncodingOfKey ==
    ASSUME NEW key \in StateKeys
    PROVE  /\ KindRank(key.kind) \in 1 .. 5
           /\ KeyBody(key) \in Seq(Symbols)
           /\ encode_state_key(key) = <<KindRank(key.kind) - 1>> \o KeyBody(key)
<1>1. ASSUME key.address \in Accounts
      PROVE  canonicalize_execution_address(key.address) \in Seq(Bytes)
    BY <1>1, AddressOrder, Zenon
<1>2. CASE key.kind = "AccountHeader" /\ key.address \in Accounts
    <2>1. encode_state_key(key) = <<0>> \o canonicalize_execution_address(key.address)
          /\ KeyBody(key) = canonicalize_execution_address(key.address)
        BY <1>2, Zenon DEF encode_state_key, KeyBody
    <2>2. KindRank(key.kind) = 1 /\ 1 - 1 = 0
        BY <1>2, KindRanks, SMTT(30)
    <2> QED
        BY <1>1, <1>2, <2>1, <2>2, BytesAreSymbols, SMTT(30)
<1>3. CASE key.kind = "StorageSlot" /\ key.address \in Accounts /\ key.bytes \in Slots
    <2> DEFINE address == canonicalize_execution_address(key.address)
               bytes == key.bytes
    <2>1. encode_state_key(key) = <<1>> \o address \o bytes /\ KeyBody(key) = address \o bytes
        BY <1>3, ZenonT(40) DEF encode_state_key, KeyBody
    <2>2. KindRank(key.kind) = 2 /\ 2 - 1 = 1
        BY <1>3, KindRanks, SMTT(30)
    <2>3. address \in Seq(Symbols) /\ bytes \in Seq(Symbols) /\ <<1>> \in Seq(Symbols)
        BY <1>1, <1>3, SlotTypes, BytesAreSymbols, Zenon
    <2> HIDE DEF address, bytes
    <2>4. address \o bytes \in Seq(Symbols) /\ (<<1>> \o address) \o bytes = <<1>> \o (address \o bytes)
        BY <2>3, Concatenation, Associative, SMTT(30)
    <2> QED
        BY <2>1, <2>2, <2>4, SMTT(30)
<1>4. CASE key.kind = "CodeChunk" /\ key.address \in Accounts /\ key.index \in Below(IndexWidth)
    <2> DEFINE address == canonicalize_execution_address(key.address)
               index == to_be_bytes(key.index)
    <2>1. encode_state_key(key) = <<2>> \o address \o index /\ KeyBody(key) = address \o index
        BY <1>4, Zenon DEF encode_state_key, KeyBody
    <2>2. KindRank(key.kind) = 3 /\ 3 - 1 = 2
        BY <1>4, KindRanks, SMTT(30)
    <2>3. address \in Seq(Symbols) /\ index \in Seq(Symbols) /\ <<2>> \in Seq(Symbols)
        BY <1>1, <1>4, IndexOrder, BytesAreSymbols, SMTT(30)
    <2> HIDE DEF address, index
    <2>4. address \o index \in Seq(Symbols) /\ (<<2>> \o address) \o index = <<2>> \o (address \o index)
        BY <2>3, Concatenation, Associative, SMTT(30)
    <2> QED
        BY <2>1, <2>2, <2>4, SMTT(30)
<1>5. CASE key.kind = "RawTreeKey" /\ key.bytes \in Slots
    <2>1. encode_state_key(key) = <<3>> \o key.bytes /\ KeyBody(key) = key.bytes
        BY <1>5, Zenon DEF encode_state_key, KeyBody
    <2>2. KindRank(key.kind) = 4 /\ 4 - 1 = 3
        BY <1>5, KindRanks, SMTT(30)
    <2> QED
        BY <1>5, <2>1, <2>2, SlotTypes, BytesAreSymbols, SMTT(30)
<1>6. CASE key.kind = "Stem" /\ key.bytes \in Stems
    <2>1. encode_state_key(key) = <<4>> \o key.bytes /\ KeyBody(key) = key.bytes
        BY <1>6, Zenon DEF encode_state_key, KeyBody
    <2>2. KindRank(key.kind) = 5 /\ 5 - 1 = 4
        BY <1>6, KindRanks, SMTT(30)
    <2> QED
        BY <1>6, <2>1, <2>2, SlotTypes, BytesAreSymbols, SMTT(30)
<1> QED
    BY <1>2, <1>3, <1>4, <1>5, <1>6, KeyCases, SMTT(30)

\* The order of two keys of one kind: by address, then slot or stem, then index.
ByParts(a, b) ==
    IF BigEndian(a.address) # BigEndian(b.address)
    THEN NumberOrder(BigEndian(a.address), BigEndian(b.address))
    ELSE IF BigEndian(a.bytes) # BigEndian(b.bytes)
    THEN NumberOrder(BigEndian(a.bytes), BigEndian(b.bytes))
    ELSE IF a.index # b.index THEN NumberOrder(a.index, b.index)
    ELSE "Equal"

\* The parts of a key are numbers, the same ones just for the same parts.
LEMMA PartNumbers ==
    ASSUME NEW a \in StateKeys, NEW b \in StateKeys, a.kind = b.kind
    PROVE  /\ BigEndian(a.address) \in Nat /\ BigEndian(b.address) \in Nat
           /\ BigEndian(a.address) = BigEndian(b.address) <=> a.address = b.address
           /\ BigEndian(a.bytes) \in Nat /\ BigEndian(b.bytes) \in Nat
           /\ BigEndian(a.bytes) = BigEndian(b.bytes) <=> a.bytes = b.bytes
           /\ SliceOrder(a.bytes, b.bytes) = NumberOrder(BigEndian(a.bytes), BigEndian(b.bytes))
           /\ a.index \in Nat /\ b.index \in Nat
<1>1. \A account \in Accounts : account \in Seq(Bytes) /\ Len(account) = AddressWidth
    <2> TAKE account \in Accounts
    <2>1. account \in Fixed(AddressWidth) /\ AddressWidth \in Nat
        BY KeyParts, WidthsArePositive, SMTT(30)
    <2> QED
        BY <2>1, FixedType, Zenon
<1>2. /\ a.address \in Seq(Bytes) /\ b.address \in Seq(Bytes) /\ Len(a.address) = Len(b.address)
      /\ a.bytes \in Seq(Bytes) /\ b.bytes \in Seq(Bytes) /\ Len(a.bytes) = Len(b.bytes)
    <2>1. \/ a.address \in Accounts /\ b.address \in Accounts
          \/ a.address = Empty /\ b.address = Empty
        BY KeyCases, Zenon
    <2>2. \/ a.bytes \in Slots /\ b.bytes \in Slots
          \/ a.bytes \in Stems /\ b.bytes \in Stems
          \/ a.bytes = Empty /\ b.bytes = Empty
        BY KeyCases, Zenon
    <2>3. a.address \in Seq(Bytes) /\ b.address \in Seq(Bytes) /\ Len(a.address) = Len(b.address)
        BY <1>1, <2>1, SlotTypes, Zenon
    <2>4. a.bytes \in Seq(Bytes) /\ b.bytes \in Seq(Bytes) /\ Len(a.bytes) = Len(b.bytes)
        BY <2>2, SlotTypes, Zenon
    <2> QED
        BY <2>3, <2>4, Zenon
<1>3. a.index \in Nat /\ b.index \in Nat
    <2>1. Below(IndexWidth) \subseteq Nat /\ 0 \in Nat
        BY KeyParts, WeightStep, SMTT(30) DEF Below
    <2>2. a.index \in Below(IndexWidth) \cup {0} /\ b.index \in Below(IndexWidth) \cup {0}
        BY KeyCases, Zenon
    <2> QED
        BY <2>1, <2>2, Zenon
<1> QED
    BY <1>2, <1>3, SliceIsNumeric, ZenonT(40)

\* Keys of one kind: what follows the tag is in the order of the parts.
LEMMA BodyOrder ==
    ASSUME NEW a \in StateKeys, NEW b \in StateKeys, a.kind = b.kind
    PROVE  SliceOrder(KeyBody(a), KeyBody(b)) = ByParts(a, b)
<1> DEFINE s == canonicalize_execution_address(a.address)
           t == canonicalize_execution_address(b.address)
<1>1. ASSUME a.address \in Accounts, b.address \in Accounts
      PROVE  /\ s \in Seq(Symbols) /\ t \in Seq(Symbols) /\ Len(s) = Len(t)
             /\ SliceOrder(s, t) = NumberOrder(BigEndian(a.address), BigEndian(b.address))
             /\ s = t <=> a.address = b.address
    BY <1>1, AddressOrder, BytesAreSymbols, SMTT(30)
<1>2. \A n \in Nat : NumberOrder(n, n) = "Equal"
    BY SMTT(30) DEF NumberOrder
<1>3. CASE a.kind = "AccountHeader"
    <2>1. /\ a.address \in Accounts /\ a.bytes = Empty /\ a.index = 0
          /\ b.address \in Accounts /\ b.bytes = Empty /\ b.index = 0
        BY <1>3, KeyCases, ZenonT(40)
    <2>2. KeyBody(a) = s /\ KeyBody(b) = t
        BY <1>3, Zenon DEF KeyBody
    <2> HIDE DEF s, t
    <2> QED
        BY <1>1, <1>2, <2>1, <2>2, PartNumbers, SMTT(30) DEF ByParts
<1>4. CASE a.kind = "StorageSlot"
    <2>1. /\ a.address \in Accounts /\ a.bytes \in Slots /\ a.index = 0
          /\ b.address \in Accounts /\ b.bytes \in Slots /\ b.index = 0
        BY <1>4, KeyCases, ZenonT(40)
    <2>2. KeyBody(a) = s \o a.bytes /\ KeyBody(b) = t \o b.bytes
        BY <1>4, ZenonT(40) DEF KeyBody
    <2>3. a.bytes \in Seq(Symbols) /\ b.bytes \in Seq(Symbols)
        BY <2>1, SlotTypes, BytesAreSymbols, SMTT(30)
    <2> HIDE DEF s, t
    <2>4. /\ s # t => SliceOrder(KeyBody(a), KeyBody(b)) = SliceOrder(s, t)
          /\ s = t => SliceOrder(KeyBody(a), KeyBody(b)) = SliceOrder(a.bytes, b.bytes)
        BY <1>1, <2>1, <2>2, <2>3, SliceOfConcat, SMTT(30)
    <2> QED
        BY <1>1, <1>2, <2>1, <2>4, PartNumbers, SMTT(30) DEF ByParts
<1>5. CASE a.kind = "CodeChunk"
    <2> DEFINE m == to_be_bytes(a.index)
               n == to_be_bytes(b.index)
    <2>1. /\ a.address \in Accounts /\ a.bytes = Empty /\ a.index \in Below(IndexWidth)
          /\ b.address \in Accounts /\ b.bytes = Empty /\ b.index \in Below(IndexWidth)
        BY <1>5, KeyCases, ZenonT(40)
    <2>2. KeyBody(a) = s \o m /\ KeyBody(b) = t \o n
        BY <1>5, Zenon DEF KeyBody
    <2>3. m \in Seq(Symbols) /\ n \in Seq(Symbols) /\ SliceOrder(m, n) = NumberOrder(a.index, b.index)
        BY <2>1, IndexOrder, BytesAreSymbols, SMTT(30)
    <2> HIDE DEF s, t, m, n
    <2>4. /\ s # t => SliceOrder(KeyBody(a), KeyBody(b)) = SliceOrder(s, t)
          /\ s = t => SliceOrder(KeyBody(a), KeyBody(b)) = SliceOrder(m, n)
        BY <1>1, <2>1, <2>2, <2>3, SliceOfConcat, SMTT(30)
    <2> QED
        BY <1>1, <1>2, <2>1, <2>3, <2>4, PartNumbers, SMTT(30) DEF ByParts
<1>6. CASE a.kind \in {"RawTreeKey", "Stem"}
    <2>1. a.address = Empty /\ b.address = Empty /\ a.index = 0 /\ b.index = 0
        BY <1>6, KeyCases, Zenon
    <2>2. KeyBody(a) = a.bytes /\ KeyBody(b) = b.bytes
        BY <1>6, Zenon DEF KeyBody
    <2> QED
        BY <1>2, <2>1, <2>2, PartNumbers, SMTT(30) DEF ByParts
<1> QED
    BY <1>3, <1>4, <1>5, <1>6, KeyCases, Zenon

\* The order of the encodings is the reference order.
LEMMA KeyOrder ==
    ASSUME NEW a \in StateKeys, NEW b \in StateKeys
    PROVE  compare_state_keys(a, b) = ReferenceOrder(a, b)
<1> DEFINE m == KindRank(a.kind)
           n == KindRank(b.kind)
<1>1. /\ m \in 1 .. 5 /\ KeyBody(a) \in Seq(Symbols)
      /\ encode_state_key(a) = <<m - 1>> \o KeyBody(a)
    BY EncodingOfKey, Zenon
<1>2. /\ n \in 1 .. 5 /\ KeyBody(b) \in Seq(Symbols)
      /\ encode_state_key(b) = <<n - 1>> \o KeyBody(b)
    BY EncodingOfKey, Zenon
<1>3. m = n <=> a.kind = b.kind
    BY KeyCases, KindRanks, SMTT(30)
<1>4. ReferenceOrder(a, b) = IF m # n THEN NumberOrder(m, n) ELSE ByParts(a, b)
    BY ReferenceUnfolds, Zenon DEF ByParts
<1> HIDE DEF m, n
<1>5. m - 1 \in Nat /\ n - 1 \in Nat /\ (m - 1 = n - 1 <=> m = n)
    BY <1>1, <1>2, SMTT(30)
<1>6. NumberOrder(m - 1, n - 1) = NumberOrder(m, n)
    BY <1>1, <1>2, SMTT(30) DEF NumberOrder
<1>7. CASE m # n
    <2> DEFINE x == m - 1
               y == n - 1
    <2> HIDE DEF x, y
    <2>1. SliceOrder(<<x>> \o KeyBody(a), <<y>> \o KeyBody(b)) = NumberOrder(x, y)
        <3>1. x \in Nat /\ y \in Nat /\ x # y
            BY <1>5, <1>7, Zenon DEF x, y
        <3> QED
            BY <1>1, <1>2, <3>1, TagOrder, SMTT(30)
    <2>2. compare_state_keys(a, b) = NumberOrder(m - 1, n - 1)
        BY <1>1, <1>2, <2>1, ZenonT(40) DEF compare_state_keys, x, y
    <2> QED
        BY <1>4, <1>6, <1>7, <2>2, SMTT(30)
<1>8. CASE m = n
    <2>1. compare_state_keys(a, b) = SliceOrder(KeyBody(a), KeyBody(b))
        BY <1>1, <1>2, <1>5, <1>8, TagOrder, SMTT(30) DEF compare_state_keys
    <2> QED
        BY <1>3, <1>4, <1>8, <2>1, BodyOrder, SMTT(30)
<1> QED
    BY <1>7, <1>8, Zenon

\* The leaves of a fixture have state keys.
Leaves == [key : StateKeys, value : Nat]
KeysInv == leaves \in Seq(Leaves)

\* Whatever is listed, and however often the fixture changes, the leaves have keys.
LEMMA KeysInvariance == OrdersSpec => []KeysInv
<1>1. OrdersInit => KeysInv
    BY DEF OrdersInit, KeysInv
<1>2. KeysInv /\ [OrdersNext]_ordersVars => KeysInv'
    <2> SUFFICES ASSUME KeysInv, [OrdersNext]_ordersVars PROVE KeysInv'
        BY Zenon
    <2>1. ASSUME NEW key \in StateKeys, ListLeaf(key) PROVE KeysInv'
        <3> DEFINE leaf == [key |-> key, value |-> Len(leaves)]
        <3>1. leaf \in Leaves
            BY DEF KeysInv, Leaves
        <3> HIDE DEF leaf
        <3>2. leaves' = Append(leaves, leaf)
            BY <2>1, Zenon DEF ListLeaf, leaf
        <3> QED
            BY <3>1, <3>2, SMTT(30) DEF KeysInv
    <2>2. ASSUME NextFixture PROVE KeysInv'
        BY <2>2, SMTT(30) DEF NextFixture, KeysInv
    <2>3. ASSUME NEW fees, NEW schedule, CheckFees(fees, schedule) PROVE KeysInv'
        BY <2>3, Zenon DEF CheckFees, KeysInv
    <2>4. CASE UNCHANGED ordersVars
        BY <2>4, Zenon DEF ordersVars, KeysInv
    <2> QED
        BY <2>1, <2>2, <2>3, <2>4, SMTT(30) DEF OrdersNext
<1> QED
    BY <1>1, <1>2, PTL DEF OrdersSpec

\* compare_state_keys, which only compares encoded bytes, orders keys by kind, address
\* and slot or chunk number, for every width of a byte, an address, a root and an index.
THEOREM KeysAreAlwaysInReferenceOrder == OrdersSpec => []KeysInReferenceOrder
<1>1. KeysInv => KeysInReferenceOrder
    <2> SUFFICES ASSUME KeysInv, NEW i \in DOMAIN leaves, NEW j \in DOMAIN leaves
                 PROVE  compare_state_keys(leaves[i].key, leaves[j].key)
                          = ReferenceOrder(leaves[i].key, leaves[j].key)
        BY Zenon DEF KeysInReferenceOrder
    <2>1. leaves[i] \in Leaves /\ leaves[j] \in Leaves
        BY DEF KeysInv
    <2>2. leaves[i].key \in StateKeys /\ leaves[j].key \in StateKeys
        BY <2>1, Zenon DEF Leaves
    <2> QED
        BY <2>2, KeyOrder, Zenon
<1> QED
    BY <1>1, KeysInvariance, PTL

\* The order of keys is total and strict.
LEMMA KeyOrderIsTotal ==
    ASSUME NEW a \in StateKeys, NEW b \in StateKeys
    PROVE  /\ compare_state_keys(a, b) \in {"Less", "Equal", "Greater"}
           /\ compare_state_keys(a, b) = "Equal" <=> a = b
           /\ compare_state_keys(a, b) = "Greater" <=> compare_state_keys(b, a) = "Less"
<1>1. /\ KindRank(a.kind) \in Nat /\ BigEndian(a.address) \in Nat /\ BigEndian(a.bytes) \in Nat
      /\ a.index \in Nat
      /\ KindRank(b.kind) \in Nat /\ BigEndian(b.address) \in Nat /\ BigEndian(b.bytes) \in Nat
      /\ b.index \in Nat
    BY KeyCases, KindRanks, PartNumbers, SMTT(30)
<1>2. compare_state_keys(a, b) = ReferenceOrder(a, b) /\ compare_state_keys(b, a) = ReferenceOrder(b, a)
    BY KeyOrder, Zenon
<1>3. compare_state_keys(a, b) \in {"Less", "Equal", "Greater"}
    BY <1>1, <1>2, ReferenceUnfolds, SMTT(30) DEF NumberOrder
<1>4. compare_state_keys(a, b) = "Greater" <=> compare_state_keys(b, a) = "Less"
    BY <1>1, <1>2, ReferenceUnfolds, SMTT(30) DEF NumberOrder
<1>5. ReferenceOrder(a, b) = "Equal" <=>
         /\ KindRank(a.kind) = KindRank(b.kind) /\ BigEndian(a.address) = BigEndian(b.address)
         /\ BigEndian(a.bytes) = BigEndian(b.bytes) /\ a.index = b.index
    BY <1>1, ReferenceUnfolds, SMTT(30) DEF NumberOrder
<1>6. ASSUME ReferenceOrder(a, b) = "Equal" PROVE a = b
    <2>1. a.kind = b.kind
        BY <1>5, <1>6, KeyCases, KindRanks, SMTT(30)
    <2>2. a.address = b.address /\ a.bytes = b.bytes /\ a.index = b.index
        BY <1>5, <1>6, <2>1, PartNumbers, SMTT(30)
    <2>3. /\ a = [kind |-> a.kind, address |-> a.address, bytes |-> a.bytes, index |-> a.index]
          /\ b = [kind |-> b.kind, address |-> b.address, bytes |-> b.bytes, index |-> b.index]
        BY Zenon DEF StateKeys
    <2> QED
        BY <2>1, <2>2, <2>3, ZenonT(40)
<1> QED
    BY <1>2, <1>3, <1>4, <1>5, <1>6, SMTT(30)

\* The order of keys is transitive.
LEMMA KeyOrderIsTransitive ==
    ASSUME NEW a \in StateKeys, NEW b \in StateKeys, NEW c \in StateKeys,
           compare_state_keys(a, b) = "Less", compare_state_keys(b, c) = "Less"
    PROVE  compare_state_keys(a, c) = "Less"
<1>1. ASSUME NEW k \in StateKeys
      PROVE  /\ KindRank(k.kind) \in Nat /\ BigEndian(k.address) \in Nat
             /\ BigEndian(k.bytes) \in Nat /\ k.index \in Nat
    BY KeyCases, KindRanks, PartNumbers, SMTT(30)
<1>2. ASSUME NEW k \in StateKeys, NEW l \in StateKeys
      PROVE  compare_state_keys(k, l) = "Less" <=>
               \/ KindRank(k.kind) < KindRank(l.kind)
               \/ /\ KindRank(k.kind) = KindRank(l.kind)
                  /\ \/ BigEndian(k.address) < BigEndian(l.address)
                     \/ /\ BigEndian(k.address) = BigEndian(l.address)
                        /\ \/ BigEndian(k.bytes) < BigEndian(l.bytes)
                           \/ BigEndian(k.bytes) = BigEndian(l.bytes) /\ k.index < l.index
    <2>1. compare_state_keys(k, l) = ReferenceOrder(k, l)
        BY KeyOrder, Zenon
    <2> QED
        BY <1>1, <2>1, ReferenceUnfolds, SMTT(30) DEF NumberOrder
<1> QED
    BY <1>1, <1>2, SMTT(30)

-----------------------------------------------------------------------------
(* The canonical order of a list of leaves.                                *)

\* What the stable sort compares: by key, and by place where the keys are the same.
Before(list, j, i) ==
    LET order == compare_state_keys(list[j].key, list[i].key)
    IN  order = "Less" \/ (order = "Equal" /\ j <= i)

\* The places of a list up to that of a leaf, in the order of the keys.
BeforeOrAt(list, i) == {j \in DOMAIN list : Before(list, j, i)}

\* It is a linear order on the places.
LEMMA BeforeIsLinear ==
    ASSUME NEW list \in Seq(Leaves), NEW i \in DOMAIN list, NEW j \in DOMAIN list
    PROVE  /\ i \in Nat /\ j \in Nat /\ list[i].key \in StateKeys /\ list[j].key \in StateKeys
           /\ Before(list, i, i)
           /\ Before(list, i, j) \/ Before(list, j, i)
           /\ Before(list, i, j) /\ Before(list, j, i) => i = j
           /\ \A k \in DOMAIN list :
                 Before(list, i, j) /\ Before(list, j, k) => Before(list, i, k)
<1>1. ASSUME NEW k \in DOMAIN list PROVE k \in Nat /\ list[k].key \in StateKeys
    <2>1. list[k] \in Leaves /\ k \in Nat
        BY SMTT(30)
    <2> QED
        BY <2>1, Zenon DEF Leaves
<1>2. Before(list, i, i)
    BY <1>1, KeyOrderIsTotal, SMTT(30) DEF Before
<1>3. Before(list, i, j) \/ Before(list, j, i)
    BY <1>1, KeyOrderIsTotal, SMTT(30) DEF Before
<1>4. Before(list, i, j) /\ Before(list, j, i) => i = j
    BY <1>1, KeyOrderIsTotal, SMTT(30) DEF Before
<1>5. ASSUME NEW k \in DOMAIN list, Before(list, i, j), Before(list, j, k)
      PROVE  Before(list, i, k)
    <2> DEFINE a == list[i].key
               b == list[j].key
               c == list[k].key
    <2>1. /\ compare_state_keys(a, b) = "Less" \/ (a = b /\ i <= j)
          /\ compare_state_keys(b, c) = "Less" \/ (b = c /\ j <= k)
          /\ a \in StateKeys /\ b \in StateKeys /\ c \in StateKeys
          /\ i \in Nat /\ j \in Nat /\ k \in Nat
        BY <1>1, <1>5, KeyOrderIsTotal, SMTT(30) DEF Before
    <2>2. compare_state_keys(a, c) = "Less" \/ (compare_state_keys(a, c) = "Equal" /\ i <= k)
        <3> HIDE DEF a, b, c
        <3> QED
            BY <2>1, KeyOrderIsTransitive, KeyOrderIsTotal, SMTT(30)
    <2> QED
        BY <2>2, Zenon DEF Before
<1> QED
    BY <1>1, <1>2, <1>3, <1>4, <1>5, SMTT(30)

\* Every leaf has a place of its own, every place a leaf, and places are in the order
\* of what is sorted.
LEMMA Places ==
    ASSUME NEW list \in Seq(Leaves)
    PROVE  /\ \A i \in DOMAIN list : Place(list, i) \in DOMAIN list
           /\ \A i, j \in DOMAIN list :
                 i # j /\ Before(list, i, j) => Place(list, i) < Place(list, j)
           /\ \A p \in DOMAIN list : \E i \in DOMAIN list : Place(list, i) = p
<1> DEFINE D == DOMAIN list
           place == [i \in D |-> Place(list, i)]
<1>1. D = 1 .. Len(list) /\ Len(list) \in Nat
    OBVIOUS
<1>2. IsFiniteSet(D) /\ Cardinality(D) = Len(list)
    <2>1. IsFiniteSet(1 .. Len(list)) /\ Cardinality(1 .. Len(list)) = Len(list)
        BY <1>1, FS_Interval, SMTT(30)
    <2> QED
        BY <1>1, <2>1, Zenon
<1> HIDE DEF D
<1>3. ASSUME NEW i \in D
      PROVE  /\ Place(list, i) = Cardinality(BeforeOrAt(list, i))
             /\ IsFiniteSet(BeforeOrAt(list, i)) /\ Place(list, i) \in D
    <2>1. BeforeOrAt(list, i) \in SUBSET D /\ i \in BeforeOrAt(list, i)
        BY <1>3, BeforeIsLinear, Zenon DEF D, BeforeOrAt
    <2>2. Place(list, i) = Cardinality(BeforeOrAt(list, i))
        BY Zenon DEF Place, BeforeOrAt, Before
    <2>3. /\ IsFiniteSet(BeforeOrAt(list, i))
          /\ Cardinality(BeforeOrAt(list, i)) <= Len(list)
        BY <1>2, <2>1, FS_Subset, SMTT(30)
    <2>4. Cardinality(BeforeOrAt(list, i)) \in Nat /\ Cardinality(BeforeOrAt(list, i)) # 0
        BY <2>1, <2>3, FS_CardinalityType, FS_EmptySet, SMTT(30)
    <2> QED
        BY <1>1, <2>2, <2>3, <2>4
<1>4. ASSUME NEW i \in D, NEW j \in D, i # j, Before(list, i, j)
      PROVE  Place(list, i) < Place(list, j)
    <2>1. BeforeOrAt(list, i) \in SUBSET BeforeOrAt(list, j)
        BY <1>4, BeforeIsLinear, Zenon DEF D, BeforeOrAt
    <2>2. j \in BeforeOrAt(list, j) /\ j \notin BeforeOrAt(list, i)
        BY <1>4, BeforeIsLinear, Zenon DEF D, BeforeOrAt
    <2>3. /\ Cardinality(BeforeOrAt(list, i)) <= Cardinality(BeforeOrAt(list, j))
          /\ Cardinality(BeforeOrAt(list, i)) # Cardinality(BeforeOrAt(list, j))
        BY <1>3, <2>1, <2>2, FS_Subset, SMTT(30)
    <2>4. Place(list, i) \in Nat /\ Place(list, j) \in Nat
        BY <1>1, <1>3, SMTT(30)
    <2> QED
        BY <1>3, <2>3, <2>4, SMTT(30)
<1>5. place \in Injection(D, D)
    <2>1. place \in [D -> D]
        BY <1>3, Zenon
    <2>2. ASSUME NEW i \in D, NEW j \in D, i # j PROVE place[i] # place[j]
        <3>1. Place(list, i) < Place(list, j) \/ Place(list, j) < Place(list, i)
            BY <1>4, <2>2, BeforeIsLinear, SMTT(30) DEF D
        <3>2. Place(list, i) \in Nat /\ Place(list, j) \in Nat
            BY <1>1, <1>3
        <3> QED
            BY <3>1, <3>2, SMTT(30)
    <2> HIDE DEF place
    <2> QED
        BY <2>1, <2>2, Zenon DEF Injection, IsInjective
<1>6. place \in Surjection(D, D)
    <2> HIDE DEF place
    <2> QED
        BY <1>2, <1>5, FS_Injection, Zenon
<1>7. ASSUME NEW p \in D PROVE \E i \in D : Place(list, i) = p
    BY <1>6, ZenonT(40) DEF Surjection
<1> QED
    BY <1>3, <1>4, <1>7, Zenon DEF D

\* A list sorted: what is at each place, and what comes next to it.
LEMMA SortedList ==
    ASSUME NEW list \in Seq(Leaves)
    PROVE  LET sorted == SortedByKey(list)
           IN  /\ DOMAIN sorted = DOMAIN list /\ Len(sorted) = Len(list)
               /\ \A i \in DOMAIN list : sorted[Place(list, i)] = list[i]
<1> DEFINE sorted == SortedByKey(list)
<1>1. DOMAIN list = 1 .. Len(list) /\ Len(list) \in Nat
    OBVIOUS
<1>2. DOMAIN sorted = DOMAIN list
    BY Zenon DEF SortedByKey
<1>3. Len(sorted) = Len(list)
    <2>1. sorted = [p \in 1 .. Len(list) |->
                      list[CHOOSE i \in DOMAIN list : Place(list, i) = p]]
        BY <1>1, Zenon DEF SortedByKey
    <2> QED
        BY <1>1, <2>1, SMTT(30)
<1>4. ASSUME NEW i \in DOMAIN list PROVE sorted[Place(list, i)] = list[i]
    <2> DEFINE p == Place(list, i)
    <2>1. p \in DOMAIN list
        BY <1>4, Places, Zenon
    <2>2. PICK at : at = CHOOSE j \in DOMAIN list : Place(list, j) = p
        BY Zenon
    <2>3. at \in DOMAIN list /\ Place(list, at) = p
        BY <1>4, <2>2, Zenon
    <2>4. sorted[p] = list[at]
        BY <2>1, <2>2, Zenon DEF SortedByKey
    <2>5. at = i
        <3>1. at # i => Place(list, at) < Place(list, i) \/ Place(list, i) < Place(list, at)
            BY <1>4, <2>3, Places, BeforeIsLinear, SMTT(30)
        <3>2. p \in Nat
            BY <1>1, <2>1, SMTT(30)
        <3> QED
            BY <2>3, <3>1, <3>2, SMTT(30)
    <2> QED
        BY <2>4, <2>5, Zenon
<1> QED
    BY <1>2, <1>3, <1>4, Zenon

\* Neighbours in the sorted list are in order; they have one key only if it is listed
\* twice, and a key that is listed twice stands next to itself.
LEMMA SortedNeighbours ==
    ASSUME NEW list \in Seq(Leaves)
    PROVE  ensure_canonical_access_order(SortedByKey(list))
             <=> \A i, j \in DOMAIN list : list[i].key = list[j].key => i = j
<1> DEFINE sorted == SortedByKey(list)
           Distinct == \A i, j \in DOMAIN list : list[i].key = list[j].key => i = j
           Ordered == \A p \in 1 .. Len(list) - 1 :
                         compare_state_keys(sorted[p].key, sorted[p + 1].key) = "Less"
<1>1. DOMAIN list = 1 .. Len(list) /\ Len(list) \in Nat
    OBVIOUS
<1>2. ensure_canonical_access_order(sorted) <=> Ordered
    <2>1. Len(sorted) = Len(list)
        BY SortedList, Zenon
    <2> QED
        BY <2>1, Zenon DEF ensure_canonical_access_order
<1>3. ASSUME NEW i \in DOMAIN list
      PROVE  sorted[Place(list, i)] = list[i] /\ Place(list, i) \in DOMAIN list
    BY SortedList, Places, Zenon
<1>4. ASSUME NEW i \in DOMAIN list, NEW j \in DOMAIN list, Place(list, i) < Place(list, j)
      PROVE  i # j /\ Before(list, i, j)
    <2>1. Place(list, i) \in Nat /\ Place(list, j) \in Nat
        BY <1>1, <1>3, SMTT(30)
    <2>2. i # j
        BY <1>4, <2>1, SMTT(30)
    <2>3. Before(list, j, i) => Place(list, j) < Place(list, i)
        BY <2>2, Places, Zenon
    <2> QED
        BY <1>4, <2>1, <2>2, <2>3, BeforeIsLinear, SMTT(30)
<1> HIDE DEF sorted
<1>5. ASSUME Distinct PROVE Ordered
    <2> SUFFICES ASSUME NEW p \in 1 .. Len(list) - 1
                 PROVE  compare_state_keys(sorted[p].key, sorted[p + 1].key) = "Less"
        BY Zenon
    <2>1. p \in DOMAIN list /\ p + 1 \in DOMAIN list /\ p < p + 1
        BY <1>1, SMTT(30)
    <2>2. PICK i \in DOMAIN list : Place(list, i) = p
        BY <2>1, Places, Zenon
    <2>3. PICK j \in DOMAIN list : Place(list, j) = p + 1
        BY <2>1, Places, Zenon
    <2>4. i # j /\ Before(list, i, j)
        BY <1>4, <2>1, <2>2, <2>3, SMTT(30)
    <2>5. list[i].key # list[j].key
        BY <1>5, <2>4, Zenon
    <2>6. compare_state_keys(list[i].key, list[j].key) = "Less"
        BY <2>4, <2>5, BeforeIsLinear, KeyOrderIsTotal, SMTT(30) DEF Before
    <2> QED
        BY <1>3, <2>2, <2>3, <2>6, SMTT(30)
<1>6. ASSUME Ordered, NEW i \in DOMAIN list, NEW j \in DOMAIN list,
             Place(list, i) < Place(list, j)
      PROVE  list[i].key # list[j].key
    <2> DEFINE p == Place(list, i)
               q == Place(list, j)
    <2>1. p \in 1 .. Len(list) /\ q \in 1 .. Len(list) /\ p < q
        BY <1>1, <1>3, <1>6, SMTT(30)
    <2> HIDE DEF p, q
    <2>2. p \in 1 .. Len(list) - 1 /\ p + 1 \in DOMAIN list /\ p + 1 <= q
        BY <1>1, <2>1, SMTT(30)
    <2>3. PICK k \in DOMAIN list : Place(list, k) = p + 1
        BY <2>2, Places, Zenon
    <2>4. compare_state_keys(sorted[p].key, sorted[p + 1].key) = "Less"
        BY <1>6, <2>2, Zenon
    <2>5. compare_state_keys(list[i].key, list[k].key) = "Less"
        BY <1>3, <2>3, <2>4, SMTT(30) DEF p
    <2>6. CASE p + 1 = q
        <3>1. list[k] = list[j]
            BY <1>3, <2>3, <2>6, SMTT(30) DEF q
        <3> QED
            BY <2>5, <3>1, BeforeIsLinear, KeyOrderIsTotal, SMTT(30)
    <2>7. CASE p + 1 < q
        <3>1. Before(list, k, j)
            BY <1>4, <2>3, <2>7, SMTT(30) DEF q
        <3>2. list[i].key \in StateKeys /\ list[j].key \in StateKeys /\ list[k].key \in StateKeys
            BY BeforeIsLinear, Zenon
        <3>3. compare_state_keys(list[k].key, list[j].key) = "Less" \/ list[k].key = list[j].key
            BY <3>1, <3>2, KeyOrderIsTotal, Zenon DEF Before
        <3>4. compare_state_keys(list[i].key, list[j].key) = "Less"
            BY <2>5, <3>2, <3>3, KeyOrderIsTransitive, Zenon
        <3> QED
            BY <3>2, <3>4, KeyOrderIsTotal, SMTT(30)
    <2> QED
        BY <2>1, <2>2, <2>6, <2>7, SMTT(30)
<1>7. ASSUME Ordered PROVE Distinct
    <2> SUFFICES ASSUME NEW i \in DOMAIN list, NEW j \in DOMAIN list, i # j
                 PROVE  list[i].key # list[j].key
        BY Zenon
    <2>1. Place(list, i) < Place(list, j) \/ Place(list, j) < Place(list, i)
        BY Places, BeforeIsLinear, SMTT(30)
    <2> QED
        BY <1>6, <1>7, <2>1, Zenon
<1> QED
    BY <1>2, <1>5, <1>7, SMTT(30) DEF sorted

\* Sorting the leaves of a fixture loses none, and the state materializes just if it has
\* a leaf and no key is listed twice, for any number of leaves and every width of keys.
THEOREM CanonicalStateAlwaysMaterializes == OrdersSpec => []CanonicalStateMaterializes
<1>1. KeysInv => CanonicalStateMaterializes
    <2> SUFFICES ASSUME KeysInv PROVE CanonicalStateMaterializes
        BY Zenon
    <2> DEFINE sorted == SortedByKey(leaves)
               canonical == canonical_materialized_state(leaves)
               Distinct == \A i, j \in DOMAIN leaves : leaves[i].key = leaves[j].key => i = j
    <2>1. leaves \in Seq(Leaves)
        BY Zenon DEF KeysInv
    <2>2. DOMAIN sorted = DOMAIN leaves /\ Len(sorted) = Len(leaves)
        BY <2>1, SortedList, Zenon
    <2>3. ASSUME NEW i \in DOMAIN leaves PROVE \E p \in DOMAIN sorted : sorted[p] = leaves[i]
        <3>1. sorted[Place(leaves, i)] = leaves[i] /\ Place(leaves, i) \in DOMAIN leaves
            BY <2>1, SortedList, Places, Zenon
        <3> QED
            BY <2>2, <3>1, Zenon
    <2>4. ensure_canonical_access_order(sorted) <=> Distinct
        BY <2>1, SortedNeighbours, Zenon
    <2>5. sorted # <<>> <=> leaves # <<>>
        <3>1. sorted = [p \in DOMAIN leaves |->
                          leaves[CHOOSE i \in DOMAIN leaves : Place(leaves, i) = p]]
            BY Zenon DEF SortedByKey
        <3> HIDE DEF sorted
        <3>2. sorted = <<>> => DOMAIN leaves = {}
            BY <2>2, SMTT(30)
        <3>3. leaves = <<>> => sorted = <<>>
            BY <3>1, SMTT(30)
        <3>4. DOMAIN leaves = {} => leaves = <<>>
            BY <2>1, SMTT(30)
        <3> QED
            BY <3>2, <3>3, <3>4, Zenon
    <2>6. \A other : other \in canonical <=> other = sorted /\ sorted # <<>>
        BY Zenon DEF canonical_materialized_state
    <2> HIDE DEF sorted, canonical
    <2>7. ASSUME NEW other \in canonical
          PROVE  /\ Len(other) = Len(leaves)
                 /\ \A i \in DOMAIN leaves : \E p \in DOMAIN other : other[p] = leaves[i]
        <3>1. other = sorted
            BY <2>6, <2>7, Zenon
        <3> QED
            BY <2>2, <2>3, <3>1, Zenon
    <2>8. (\E other \in canonical : ensure_canonical_access_order(other))
            <=> leaves # <<>> /\ Distinct
        <3> HIDE DEF Distinct
        <3>1. ASSUME NEW other \in canonical, ensure_canonical_access_order(other)
              PROVE  leaves # <<>> /\ Distinct
            <4>1. other = sorted /\ sorted # <<>>
                BY <2>6, <3>1, Zenon
            <4> QED
                BY <2>4, <2>5, <3>1, <4>1, Zenon
        <3>2. ASSUME leaves # <<>>, Distinct
              PROVE  sorted \in canonical /\ ensure_canonical_access_order(sorted)
            BY <2>4, <2>5, <2>6, <3>2, Zenon
        <3> QED
            BY <3>1, <3>2, Zenon
    <2> QED
        BY <2>7, <2>8, Zenon DEF CanonicalStateMaterializes, canonical
<1> QED
    BY <1>1, KeysInvariance, PTL

-----------------------------------------------------------------------------

\* A node that uses the codec for messages, keys and fees does with each what the
\* specification of each says; the theorems about Spec and OrdersSpec hold of it.
THEOREM EncodingsKeepApart == EncodingsSpec => Spec /\ OrdersSpec
<1>1. EncodingsInit => Init /\ OrdersInit
    BY Zenon DEF EncodingsInit
<1>2. [EncodingsNext]_encodingsVars => [Next]_vars /\ [OrdersNext]_ordersVars
    BY Zenon DEF EncodingsNext, encodingsVars
<1> QED
    BY <1>1, <1>2, PTL DEF EncodingsSpec, Spec, OrdersSpec

=============================================================================
