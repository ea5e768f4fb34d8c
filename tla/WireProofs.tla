----------------------------- MODULE WireProofs -----------------------------
(***************************************************************************)
(* Envelopes as they are encoded and decoded, for every number of values   *)
(* of a byte and every width of the fields: numbers and their              *)
(* little-endian bytes, slices of what was put together, and from them     *)
(* both directions: decoding inverts encoding, and encoding inverts        *)
(* decoding.                                                               *)
(***************************************************************************)
EXTENDS Wire, NaturalLemmas, TLAPS

-----------------------------------------------------------------------------
(* Sequences.                                                              *)

\* Length and elements of a concatenation.
LEMMA Concatenation ==
    ASSUME NEW S, NEW s \in Seq(S), NEW t \in Seq(S)
    PROVE  /\ s \o t \in Seq(S) /\ Len(s \o t) = Len(s) + Len(t)
           /\ \A i \in 1 .. Len(s) + Len(t) :
                (s \o t)[i] = IF i <= Len(s) THEN s[i] ELSE t[i - Len(s)]
OBVIOUS

\* Concatenation is associative.
LEMMA Associative ==
    ASSUME NEW S, NEW s \in Seq(S), NEW t \in Seq(S), NEW u \in Seq(S)
    PROVE  (s \o t) \o u = s \o (t \o u)
BY SMTT(30)

\* Sequences with the same elements are the same.
LEMMA SameSequence ==
    ASSUME NEW S, NEW s \in Seq(S), NEW t \in Seq(S), Len(s) = Len(t),
           \A i \in 1 .. Len(s) : s[i] = t[i]
    PROVE  s = t
OBVIOUS

-----------------------------------------------------------------------------
(* Numbers and digits.                                                     *)

\* Adding a digit carries into the next weight only when the digit is full.
LEMMA Carry ==
    ASSUME NEW v \in Nat, NEW p \in Nat, NEW d \in Nat, NEW e \in Nat, v < p, d < e
    PROVE  v + d * p < e * p
OBVIOUS

\* Quotient and remainder are what they are known by.
LEMMA Division ==
    ASSUME NEW n \in Nat, NEW d \in Nat \ {0}, NEW q \in Nat, NEW r \in Nat, r < d, n = q * d + r
    PROVE  n \div d = q /\ n % d = r
OBVIOUS

\* A number is its quotient times the divisor, and the remainder.
LEMMA Divided ==
    ASSUME NEW n \in Nat, NEW d \in Nat \ {0}
    PROVE  n \div d \in Nat /\ n % d \in 0 .. d - 1 /\ n = (n \div d) * d + (n % d)
OBVIOUS

\* The weights are positive and each is Base times the one before.
LEMMA WeightUnfolds ==
    /\ Weight \in [Nat -> Nat \ {0}]
    /\ Weight[0] = 1
    /\ \A n \in Nat \ {0} : Weight[n] = Base * Weight[n - 1]
<1> DEFINE Positive == Nat \ {0}
           step == [n \in Nat \ {0} |-> [w \in Positive |-> Base * w]]
           Unfolds(f) == f = [n \in Nat |-> IF n = 0 THEN 1 ELSE Base * f[n - 1]]
<1>1. step \in [Nat \ {0} -> [Positive -> Positive]] /\ 1 \in Positive
    <2>1. ASSUME NEW w \in Positive PROVE Base * w \in Positive
        BY WidthsArePositive
    <2> QED
        BY <2>1
<1>2. PICK f \in [Nat -> Positive] : FollowsForever(f, 1, step)
    <2> HIDE DEF step, Positive
    <2> QED
        BY <1>1, UnboundedRecursion, Zenon
<1>3. Unfolds(f)
    <2>1. ASSUME NEW n \in Nat \ {0} PROVE f[n] = Base * f[n - 1]
        <3>1. f[n - 1] \in Positive
            OBVIOUS
        <3> QED
            BY <1>2, <3>1, Zenon DEF FollowsForever
    <2> QED
        BY <1>2, <2>1, Zenon DEF FollowsForever
<1>4. Unfolds(Weight)
    <2>1. Weight = CHOOSE g : Unfolds(g)
        BY Zenon DEF Weight
    <2> HIDE DEF Unfolds
    <2> QED
        BY <1>3, <2>1, Zenon
<1>5. Weight[0] = 1 /\ \A n \in Nat \ {0} : Weight[n] = Base * Weight[n - 1]
    BY <1>4, Zenon
<1>6. ASSUME NEW N \in Nat PROVE Weight[N] \in Positive
    <2> DEFINE Typed == {n \in Nat : Weight[n] \in Positive}
    <2>1. 0 \in Typed
        BY <1>5
    <2>2. ASSUME NEW n \in 0 .. N - 1, n \in Typed PROVE n + 1 \in Typed
        <3>1. n + 1 \in Nat \ {0} /\ (n + 1) - 1 = n
            OBVIOUS
        <3>2. Weight[n + 1] = Base * Weight[n]
            BY <1>5, <3>1, Zenon
        <3> QED
            BY <2>2, <3>1, <3>2, WidthsArePositive
    <2> HIDE DEF Typed
    <2>3. 0 .. N \subseteq Typed
        BY ONLY <2>1, <2>2, BoundedInduction, N \in Nat, Zenon
    <2> QED
        BY <2>3 DEF Typed
<1> QED
    BY <1>4, <1>5, <1>6, Zenon

\* The value of the first i bytes, for each i.
Sums(bytes, v) ==
    /\ v \in [0 .. Len(bytes) -> Nat]
    /\ v[0] = 0
    /\ \A i \in 1 .. Len(bytes) : v[i] = v[i - 1] + bytes[i] * Weight[i - 1]

\* from_le_bytes adds up the bytes at their weights.
LEMMA ValueUnfolds ==
    ASSUME NEW bytes \in Seq(Bytes)
    PROVE  \E v : Sums(bytes, v) /\ from_le_bytes(bytes) = v[Len(bytes)]
<1> DEFINE N == Len(bytes)
           step == [i \in 1 .. N |-> [x \in Nat |-> x + bytes[i] * Weight[i - 1]]]
           Unfolds(f) == f = [i \in 0 .. N |->
                                IF i = 0 THEN 0 ELSE f[i - 1] + bytes[i] * Weight[i - 1]]
           value == CHOOSE f : Unfolds(f)
<1>1. N \in Nat /\ \A i \in 1 .. N : bytes[i] \in Nat /\ Weight[i - 1] \in Nat
    <2>1. N \in Nat /\ \A i \in 1 .. N : bytes[i] \in Bytes
        OBVIOUS
    <2>2. Bytes \subseteq Nat
        BY WidthsArePositive DEF Bytes
    <2>3. ASSUME NEW i \in 1 .. N PROVE Weight[i - 1] \in Nat
        <3>1. i - 1 \in Nat
            BY <2>1
        <3> QED
            BY <3>1, WeightUnfolds, Zenon
    <2> QED
        BY <2>1, <2>2, <2>3, Zenon
<1>2. step \in [1 .. N -> [Nat -> Nat]] /\ 0 \in Nat
    <2>1. ASSUME NEW i \in 1 .. N, NEW x \in Nat PROVE x + bytes[i] * Weight[i - 1] \in Nat
        BY <1>1, SMTT(30)
    <2> QED
        BY <2>1, Zenon
<1>3. PICK f \in [0 .. N -> Nat] : Follows(f, N, 0, step)
    <2> HIDE DEF step, N
    <2> QED
        BY <1>1, <1>2, Recursion, Zenon
<1>4. ASSUME NEW i \in 1 .. N PROVE f[i] = f[i - 1] + bytes[i] * Weight[i - 1]
    <2>1. i - 1 \in 0 .. N
        BY <1>1
    <2>2. f[i - 1] \in Nat
        BY <1>3, <2>1, Zenon
    <2> QED
        BY <1>3, <2>2, Zenon DEF Follows
<1>5. Unfolds(f)
    BY <1>1, <1>3, <1>4 DEF Follows
<1>6. Unfolds(value)
    <2> HIDE DEF Unfolds
    <2> QED
        BY <1>5, Zenon
<1>7. from_le_bytes(bytes) = value[N]
    BY Zenon DEF from_le_bytes
<1>8. value[0] = 0 /\ \A i \in 1 .. N : value[i] = value[i - 1] + bytes[i] * Weight[i - 1]
    <2> HIDE DEF value, N
    <2> QED
        BY <1>1, <1>6
<1> HIDE DEF value
<1>9. value = f
    <2> DEFINE Same == {n \in 0 .. N : value[n] = f[n]}
    <2>1. 0 \in Same
        BY <1>1, <1>3, <1>8 DEF Follows
    <2>2. ASSUME NEW n \in 0 .. N - 1, n \in Same PROVE n + 1 \in Same
        <3>1. n + 1 \in 1 .. N /\ (n + 1) - 1 = n
            BY <1>1
        <3> QED
            BY <1>4, <1>8, <2>2, <3>1
    <2> HIDE DEF Same
    <2>3. 0 .. N \subseteq Same
        BY ONLY <1>1, <2>1, <2>2, BoundedInduction, Zenon
    <2>4. \A n \in 0 .. N : value[n] = f[n]
        BY <2>3, Zenon DEF Same
    <2> QED
        BY <1>1, <1>6, <2>4, Zenon
<1> QED
    BY <1>3, <1>4, <1>7, <1>9, Zenon DEF Sums, Follows

\* The weights as the provers need them.
LEMMA WeightStep ==
    ASSUME NEW n \in Nat
    PROVE  Weight[n] \in Nat \ {0} /\ Weight[n + 1] = Base * Weight[n]
<1>1. n + 1 \in Nat \ {0} /\ (n + 1) - 1 = n
    OBVIOUS
<1> QED
    BY <1>1, WeightUnfolds, Zenon

\* A byte is a natural number below Base.
LEMMA ByteFacts == Base \in Nat \ {0, 1} /\ \A b \in Bytes : b \in Nat /\ b < Base
BY WidthsArePositive DEF Bytes

\* The first i bytes are worth less than the weight of the next.
LEMMA SumsBounded ==
    ASSUME NEW bytes \in Seq(Bytes), NEW v, Sums(bytes, v)
    PROVE  \A i \in 0 .. Len(bytes) : v[i] \in Nat /\ v[i] < Weight[i]
<1> DEFINE N == Len(bytes)
           Bounded == {i \in 0 .. N : v[i] < Weight[i]}
<1>1. N \in Nat /\ \A i \in 0 .. N : v[i] \in Nat
    <2>1. N \in Nat
        OBVIOUS
    <2>2. \A i \in 0 .. Len(bytes) : v[i] \in Nat
        BY Zenon DEF Sums
    <2> QED
        BY <2>1, <2>2, Zenon
<1>2. 0 \in Bounded
    BY <1>1, WeightUnfolds DEF Sums
<1>3. ASSUME NEW i \in 0 .. N - 1, i \in Bounded PROVE i + 1 \in Bounded
    <2>1. i + 1 \in 1 .. N /\ (i + 1) - 1 = i /\ i \in Nat /\ i \in 0 .. N
        BY <1>1
    <2>2. v[i + 1] = v[i] + bytes[i + 1] * Weight[i]
        BY <2>1, Zenon DEF Sums
    <2>3. bytes[i + 1] \in Nat /\ bytes[i + 1] < Base /\ Base \in Nat
        BY <2>1, ByteFacts
    <2>4. Weight[i] \in Nat /\ v[i] \in Nat /\ v[i] < Weight[i]
        BY <1>1, <1>3, <2>1, WeightStep, Zenon
    <2>5. v[i] + bytes[i + 1] * Weight[i] < Base * Weight[i]
        BY <2>3, <2>4, Carry, Zenon
    <2>6. Weight[i + 1] = Base * Weight[i]
        BY <2>1, WeightStep, Zenon
    <2> QED
        BY <1>1, <2>1, <2>2, <2>5, <2>6
<1> HIDE DEF Bounded
<1>4. 0 .. N \subseteq Bounded
    BY <1>1, <1>2, <1>3, BoundedInduction, Zenon
<1> QED
    BY <1>1, <1>4, Zenon DEF Bounded

\* The last byte that differs decides which of two numbers is less.
LEMMA LastByteDecides ==
    ASSUME NEW left \in Seq(Bytes), NEW right \in Seq(Bytes), Len(left) = Len(right),
           NEW h \in 1 .. Len(left), left[h] < right[h],
           \A j \in h + 1 .. Len(left) : left[j] = right[j]
    PROVE  from_le_bytes(left) < from_le_bytes(right)
<1> DEFINE N == Len(left)
<1>0. N \in Nat /\ N = Len(right) /\ h \in Nat /\ h - 1 \in Nat /\ h - 1 \in 0 .. N /\ h \in 1 .. N
      /\ (h - 1) + 1 = h
    OBVIOUS
<1>1. PICK v : Sums(left, v) /\ from_le_bytes(left) = v[N]
    BY ValueUnfolds, Zenon
<1>2. PICK w : Sums(right, w) /\ from_le_bytes(right) = w[N]
    BY <1>0, ValueUnfolds, Zenon
<1>3. \A i \in 0 .. N : v[i] \in Nat /\ w[i] \in Nat
    BY <1>0, <1>1, <1>2, Zenon DEF Sums
<1>4. v[h] < w[h]
    <2>1. v[h - 1] \in Nat /\ v[h - 1] < Weight[h - 1] /\ w[h - 1] \in Nat /\ Weight[h - 1] \in Nat
        BY <1>0, <1>1, <1>3, SumsBounded, WeightStep, Zenon
    <2>2. left[h] \in Nat /\ right[h] \in Nat
        BY <1>0, ByteFacts
    <2>3. v[h - 1] + left[h] * Weight[h - 1] < right[h] * Weight[h - 1]
        BY <2>1, <2>2, Carry, Zenon
    <2>4. v[h] = v[h - 1] + left[h] * Weight[h - 1] /\ w[h] = w[h - 1] + right[h] * Weight[h - 1]
        BY <1>0, <1>1, <1>2, Zenon DEF Sums
    <2>5. left[h] * Weight[h - 1] \in Nat /\ right[h] * Weight[h - 1] \in Nat
        BY <2>1, <2>2, SMTT(30)
    <2> QED
        BY <2>1, <2>3, <2>4, <2>5
<1> DEFINE Less == {k \in 0 .. N - h : v[h + k] < w[h + k]}
<1>5. 0 \in Less
    BY <1>0, <1>4
<1>6. ASSUME NEW k \in 0 .. (N - h) - 1, k \in Less PROVE k + 1 \in Less
    <2> DEFINE i == h + k
    <2>1. i \in 0 .. N /\ i + 1 \in 1 .. N /\ (i + 1) - 1 = i /\ i + 1 \in h + 1 .. N
          /\ h + (k + 1) = i + 1 /\ k + 1 \in 0 .. N - h /\ i \in Nat
        BY <1>0
    <2>2. v[i] < w[i]
        BY <1>6, Zenon
    <2> HIDE DEF i
    <2>3. v[i + 1] = v[i] + left[i + 1] * Weight[i] /\ w[i + 1] = w[i] + right[i + 1] * Weight[i]
        BY <1>0, <1>1, <1>2, <2>1, Zenon DEF Sums
    <2>4. left[i + 1] * Weight[i] \in Nat /\ left[i + 1] = right[i + 1]
        <3>1. left[i + 1] \in Nat /\ left[i + 1] = right[i + 1]
            BY <1>0, <2>1, ByteFacts
        <3>2. Weight[i] \in Nat
            BY <2>1, WeightStep, Zenon
        <3> QED
            BY <3>1, <3>2
    <2>5. v[i] \in Nat /\ w[i] \in Nat
        BY <1>3, <2>1, Zenon
    <2> QED
        BY <2>1, <2>2, <2>3, <2>4, <2>5, SMTT(30)
<1> HIDE DEF Less
<1>7. 0 .. N - h \subseteq Less
    <2>1. N - h \in Nat
        BY <1>0
    <2> QED
        BY <1>5, <1>6, <2>1, BoundedInduction, Zenon
<1>8. v[N] < w[N]
    <2>1. N - h \in 0 .. N - h /\ h + (N - h) = N
        BY <1>0
    <2> QED
        BY <1>7, <2>1, Zenon DEF Less
<1> QED
    BY <1>1, <1>2, <1>8, Zenon

\* to_le_bytes gives as many bytes as asked for.
LEMMA ToBytesType ==
    ASSUME NEW n \in Nat, NEW width \in Nat
    PROVE  /\ to_le_bytes(n, width) \in [1 .. width -> Bytes]
           /\ to_le_bytes(n, width) \in Seq(Bytes)
           /\ Len(to_le_bytes(n, width)) = width
<1>1. ASSUME NEW i \in 1 .. width PROVE (n \div Weight[i - 1]) % Base \in Bytes
    <2>1. i - 1 \in Nat
        OBVIOUS
    <2>2. Weight[i - 1] \in Nat \ {0}
        BY <2>1, WeightStep, Zenon
    <2>3. n \div Weight[i - 1] \in Nat
        BY <2>2, Divided, Zenon
    <2> HIDE DEF Weight
    <2> QED
        BY <2>3, ByteFacts, Divided, Zenon DEF Bytes
<1>2. to_le_bytes(n, width) \in [1 .. width -> Bytes]
    BY <1>1, Zenon DEF to_le_bytes
<1> QED
    BY <1>2

\* A number that fits is read back from its bytes.
LEMMA NumberRoundTrip ==
    ASSUME NEW width \in Nat, NEW n \in Below(width)
    PROVE  from_le_bytes(to_le_bytes(n, width)) = n
<1> DEFINE bytes == to_le_bytes(n, width)
<1>1. n \in Nat /\ n < Weight[width] /\ Weight[width] \in Nat \ {0}
    BY WeightStep DEF Below
<1>2. bytes \in Seq(Bytes) /\ Len(bytes) = width
    BY <1>1, ToBytesType, Zenon
<1>3. ASSUME NEW i \in 1 .. width PROVE bytes[i] = (n \div Weight[i - 1]) % Base
    BY Zenon DEF to_le_bytes
<1> HIDE DEF bytes
<1>4. PICK v : Sums(bytes, v) /\ from_le_bytes(bytes) = v[width]
    BY <1>2, ValueUnfolds, Zenon
<1> DEFINE Split == {i \in 0 .. width : n = (n \div Weight[i]) * Weight[i] + v[i]}
<1>5. 0 \in Split
    <2>1. v[0] = 0 /\ Weight[0] = 1
        BY <1>4, WeightUnfolds, Zenon DEF Sums
    <2>2. n \div 1 = n
        BY <1>1, Division
    <2> QED
        BY <1>1, <2>1, <2>2
<1>6. ASSUME NEW i \in 0 .. width - 1, i \in Split PROVE i + 1 \in Split
    <2> DEFINE W == Weight[i]
               q == n \div W
               p == q \div Base
               r == q % Base
    <2>1. i \in Nat /\ i \in 0 .. width /\ i + 1 \in 1 .. width /\ (i + 1) - 1 = i /\ i + 1 \in Nat
          /\ i + 1 \in 0 .. width
        OBVIOUS
    <2>2. W \in Nat \ {0} /\ Weight[i + 1] = Base * W /\ Weight[i + 1] \in Nat \ {0}
        BY <2>1, WeightStep, Zenon
    <2>3. n = q * W + v[i]
        BY <1>6, Zenon
    <2>4. v[i + 1] = v[i] + r * W
        BY <1>2, <1>3, <1>4, <2>1, Zenon DEF Sums
    <2>5. v[i] \in Nat /\ v[i + 1] \in Nat /\ v[i + 1] < Weight[i + 1]
        BY <1>2, <1>4, <2>1, SumsBounded, Zenon
    <2> HIDE DEF W
    <2>6. q \in Nat
        BY <1>1, <2>2, Divided, Zenon
    <2> HIDE DEF q
    <2>7. p \in Nat /\ r \in Nat /\ q = p * Base + r
        BY <2>6, ByteFacts, Divided
    <2> HIDE DEF p, r
    <2>8. n = p * (Base * W) + (v[i] + r * W)
        <3>1. (p * Base + r) * W + v[i] = p * (Base * W) + (v[i] + r * W)
            BY <2>2, <2>5, <2>7, ByteFacts
        <3> QED
            BY <2>3, <2>7, <3>1, Zenon
    <2>9. n = p * Weight[i + 1] + v[i + 1]
        BY <2>2, <2>4, <2>8, Zenon
    <2>10. n \div Weight[i + 1] = p
        BY <1>1, <2>2, <2>5, <2>7, <2>9, Division, Zenon
    <2> QED
        BY <2>1, <2>9, <2>10, Zenon
<1> HIDE DEF Split
<1>7. 0 .. width \subseteq Split
    BY <1>5, <1>6, BoundedInduction, Zenon
<1>8. n \div Weight[width] = 0
    <2>1. n = 0 * Weight[width] + n
        BY <1>1
    <2> QED
        BY <1>1, <2>1, Division, Zenon
<1>9. n = v[width]
    <2>1. n = (n \div Weight[width]) * Weight[width] + v[width] /\ v[width] \in Nat
        BY <1>2, <1>4, <1>7 DEF Split, Sums
    <2> QED
        BY <1>1, <1>8, <2>1
<1> QED
    BY <1>4, <1>9, Zenon DEF bytes

\* The bytes of a fixed width and the numbers below its weight name each other.
LEMMA BytesRoundTrip ==
    ASSUME NEW bytes \in Seq(Bytes)
    PROVE  /\ from_le_bytes(bytes) \in Below(Len(bytes))
           /\ to_le_bytes(from_le_bytes(bytes), Len(bytes)) = bytes
<1> DEFINE N == Len(bytes)
           n == from_le_bytes(bytes)
           again == to_le_bytes(n, N)
<1>1. N \in Nat /\ n \in Nat /\ n \in Below(N)
    <2>1. PICK v : Sums(bytes, v) /\ n = v[N]
        BY ValueUnfolds, Zenon
    <2>2. N \in Nat /\ v[N] \in Nat /\ v[N] < Weight[N]
        BY <2>1, SumsBounded
    <2>3. Weight[N] \in Nat
        BY <2>2, WeightStep, Zenon
    <2> QED
        BY <2>1, <2>2, <2>3 DEF Below
<1> HIDE DEF n
<1>2. again \in Seq(Bytes) /\ Len(again) = N
    BY <1>1, ToBytesType, Zenon
<1>3. from_le_bytes(again) = n
    BY <1>1, NumberRoundTrip, Zenon
<1> HIDE DEF again
<1> DEFINE Differ == {i \in 1 .. N : bytes[i] # again[i]}
<1>4. Differ = {}
    <2> SUFFICES ASSUME Differ # {} PROVE FALSE
        BY Zenon
    <2>1. PICK h \in Differ : \A j \in Differ : j <= h
        BY <1>1, GreatestUpTo, Zenon
    <2>2. h \in 1 .. N /\ \A j \in h + 1 .. N : bytes[j] = again[j]
        BY <1>1, <2>1
    <2>3. bytes[h] \in Nat /\ again[h] \in Nat /\ bytes[h] # again[h]
        BY <1>1, <1>2, <2>1, ByteFacts
    <2>4. CASE bytes[h] < again[h]
        BY <1>1, <1>2, <1>3, <2>2, <2>4, LastByteDecides DEF n
    <2>5. CASE again[h] < bytes[h]
        BY <1>1, <1>2, <1>3, <2>2, <2>5, LastByteDecides DEF n
    <2> QED
        BY <2>3, <2>4, <2>5
<1> QED
    BY <1>1, <1>2, <1>4 DEF again, n

-----------------------------------------------------------------------------
(* Fees.                                                                   *)

\* A number of a fixed width is a sequence of bytes, and a natural number.
LEMMA FixedType ==
    ASSUME NEW width \in Nat, NEW bytes \in Fixed(width)
    PROVE  /\ bytes \in Seq(Bytes) /\ Len(bytes) = width
           /\ from_le_bytes(bytes) \in Nat
<1>1. bytes \in Seq(Bytes) /\ Len(bytes) = width
    BY DEF Fixed
<1>2. from_le_bytes(bytes) \in Below(width)
    BY <1>1, BytesRoundTrip, Zenon
<1>3. Weight[width] \in Nat
    BY WeightStep, Zenon
<1> QED
    BY <1>1, <1>2, <1>3 DEF Below

-----------------------------------------------------------------------------
(* Slices.                                                                 *)

\* A slice within the bytes has its width and the bytes from its place on.
LEMMA SliceType ==
    ASSUME NEW S, NEW s \in Seq(S), NEW at \in Nat, NEW w \in Nat, at + w <= Len(s)
    PROVE  /\ Slice(s, at, w) \in Seq(S) /\ Len(Slice(s, at, w)) = w
           /\ \A i \in 1 .. w : Slice(s, at, w)[i] = s[at + i]
BY DEF Slice

\* What follows a place is the slice up to the end.
LEMMA FromIsSlice ==
    ASSUME NEW S, NEW s \in Seq(S), NEW at \in Nat, at <= Len(s)
    PROVE  From(s, at) = Slice(s, at, Len(s) - at)
BY DEF Slice, From

\* A slice of a slice is a slice.
LEMMA SliceOfSlice ==
    ASSUME NEW S, NEW s \in Seq(S), NEW at \in Nat, NEW w \in Nat, at + w <= Len(s),
           NEW from \in Nat, NEW v \in Nat, from + v <= w
    PROVE  Slice(Slice(s, at, w), from, v) = Slice(s, at + from, v)
<1>1. Slice(s, at, w) \in Seq(S) /\ Len(Slice(s, at, w)) = w
      /\ \A i \in 1 .. w : Slice(s, at, w)[i] = s[at + i]
    BY SliceType, ZenonT(40)
<1> DEFINE t == Slice(s, at, w)
<1>2. Slice(t, from, v) \in Seq(S) /\ Len(Slice(t, from, v)) = v
      /\ \A i \in 1 .. v : Slice(t, from, v)[i] = t[from + i]
    BY <1>1, SliceType, SMTT(30)
<1>3. Slice(s, at + from, v) \in Seq(S) /\ Len(Slice(s, at + from, v)) = v
      /\ \A i \in 1 .. v : Slice(s, at + from, v)[i] = s[at + from + i]
    BY SliceType
<1>4. ASSUME NEW i \in 1 .. v PROVE Slice(t, from, v)[i] = Slice(s, at + from, v)[i]
    <2>1. from + i \in 1 .. w /\ at + (from + i) = at + from + i
        OBVIOUS
    <2>2. t[from + i] = s[at + (from + i)]
        BY <1>1, <2>1, Zenon
    <2> QED
        BY <1>2, <1>3, <2>1, <2>2, Zenon
<1> QED
    BY <1>2, <1>3, <1>4, SameSequence, Zenon

\* Neighbouring slices make one.
LEMMA Join ==
    ASSUME NEW S, NEW s \in Seq(S), NEW at \in Nat, NEW v \in Nat, NEW w \in Nat,
           at + v + w <= Len(s)
    PROVE  Slice(s, at, v) \o Slice(s, at + v, w) = Slice(s, at, v + w)
<1> DEFINE a == Slice(s, at, v)
           b == Slice(s, at + v, w)
           c == Slice(s, at, v + w)
<1>0. /\ at + v \in Nat /\ at + v <= Len(s)
      /\ v + w \in Nat /\ at + (v + w) <= Len(s)
    OBVIOUS
<1>1. a \in Seq(S) /\ Len(a) = v /\ \A i \in 1 .. v : a[i] = s[at + i]
    BY <1>0, SliceType, Zenon
<1>2. b \in Seq(S) /\ Len(b) = w /\ \A i \in 1 .. w : b[i] = s[at + v + i]
    BY <1>0, SliceType, ZenonT(40)
<1>3. c \in Seq(S) /\ Len(c) = v + w /\ \A i \in 1 .. v + w : c[i] = s[at + i]
    BY <1>0, SliceType, Zenon
<1> HIDE DEF a, b, c
<1> DEFINE d == a \o b
<1>4. d \in Seq(S) /\ Len(d) = v + w
      /\ \A i \in 1 .. v + w : d[i] = IF i <= v THEN a[i] ELSE b[i - v]
    BY <1>1, <1>2, Concatenation, ZenonT(40)
<1> HIDE DEF d
<1>5. ASSUME NEW i \in 1 .. v + w PROVE d[i] = c[i]
    <2>1. CASE i <= v
        <3>1. i \in 1 .. v /\ d[i] = a[i]
            BY <1>4, <2>1
        <3> QED
            BY <1>1, <1>3, <3>1, Zenon
    <2>2. CASE v < i
        <3>1. i - v \in 1 .. w /\ at + v + (i - v) = at + i
            BY <2>2
        <3>2. d[i] = b[i - v]
            BY <1>4, <2>2
        <3>3. b[i - v] = s[at + v + (i - v)]
            BY <1>2, <3>1, Zenon
        <3> QED
            BY <1>3, <3>1, <3>2, <3>3, Zenon
    <2> QED
        BY <2>1, <2>2
<1>6. d = c
    BY <1>3, <1>4, <1>5, SameSequence, Zenon
<1> QED
    BY <1>6, Zenon DEF a, b, c, d

\* All of a sequence.
LEMMA Whole ==
    ASSUME NEW S, NEW s \in Seq(S)
    PROVE  Slice(s, 0, Len(s)) = s
<1>1. Slice(s, 0, Len(s)) \in Seq(S) /\ Len(Slice(s, 0, Len(s))) = Len(s)
      /\ \A i \in 1 .. Len(s) : Slice(s, 0, Len(s))[i] = s[0 + i]
    BY SliceType
<1> QED
    BY <1>1, SameSequence

\* The bytes begin with s.
Begins(s, bytes) == Len(s) <= Len(bytes) /\ \A i \in 1 .. Len(s) : bytes[i] = s[i]

\* The last part of what bytes begin with is the slice at its place.
LEMMA PieceAt ==
    ASSUME NEW S, NEW bytes \in Seq(S), NEW s \in Seq(S), NEW t \in Seq(S),
           Begins(s \o t, bytes)
    PROVE  /\ Begins(s, bytes)
           /\ Len(s) + Len(t) <= Len(bytes)
           /\ Slice(bytes, Len(s), Len(t)) = t
<1>1. s \o t \in Seq(S) /\ Len(s \o t) = Len(s) + Len(t)
      /\ \A i \in 1 .. Len(s) + Len(t) : (s \o t)[i] = IF i <= Len(s) THEN s[i] ELSE t[i - Len(s)]
    BY Concatenation, Zenon
<1>2. Len(s) + Len(t) <= Len(bytes)
      /\ \A i \in 1 .. Len(s) + Len(t) : bytes[i] = IF i <= Len(s) THEN s[i] ELSE t[i - Len(s)]
    BY <1>1, Zenon DEF Begins
<1>3. Begins(s, bytes)
    BY <1>2, SMTT(30) DEF Begins
<1>4. Slice(bytes, Len(s), Len(t)) \in Seq(S) /\ Len(Slice(bytes, Len(s), Len(t))) = Len(t)
      /\ \A i \in 1 .. Len(t) : Slice(bytes, Len(s), Len(t))[i] = bytes[Len(s) + i]
    BY <1>2, SliceType
<1>5. ASSUME NEW i \in 1 .. Len(t) PROVE bytes[Len(s) + i] = t[i]
    BY <1>2, SMTT(30)
<1> QED
    BY <1>2, <1>3, <1>4, <1>5, SameSequence, Zenon

\* The first part.
LEMMA FirstPiece ==
    ASSUME NEW S, NEW bytes \in Seq(S), NEW s \in Seq(S), Begins(s, bytes)
    PROVE  Slice(bytes, 0, Len(s)) = s
<1>1. Slice(bytes, 0, Len(s)) \in Seq(S) /\ Len(Slice(bytes, 0, Len(s))) = Len(s)
      /\ \A i \in 1 .. Len(s) : Slice(bytes, 0, Len(s))[i] = bytes[0 + i]
    BY SliceType DEF Begins
<1> QED
    BY <1>1, SameSequence DEF Begins

\* What is decoded is unwrapped.
LEMMA OnlyValue ==
    ASSUME NEW v
    PROVE  (CHOOSE x \in Decoded(v).value : TRUE) = v /\ Decoded(v).error = "Ok"
BY Zenon DEF Decoded

\* A number read back is the one that was written there.
LEMMA ReadBack ==
    ASSUME NEW bytes, NEW at, NEW w \in Nat, NEW n \in Below(w),
           Slice(bytes, at, w) = to_le_bytes(n, w)
    PROVE  read_uint(bytes, at, w) = n
BY NumberRoundTrip, Zenon DEF read_uint

\* Bytes and bytes are bytes.
LEMMA MoreBytes ==
    ASSUME NEW s \in Seq(Bytes), NEW t \in Seq(Bytes)
    PROVE  s \o t \in Seq(Bytes) /\ Len(s \o t) = Len(s) + Len(t)
BY Concatenation, Zenon

\* The bytes of what is put together.
LEMMA BytesAt ==
    ASSUME NEW s \in Seq(Bytes), NEW t \in Seq(Bytes), NEW i \in 1 .. Len(s) + Len(t)
    PROVE  (s \o t)[i] = IF i <= Len(s) THEN s[i] ELSE t[i - Len(s)]
BY Concatenation, Zenon

\* Every slice is a fixed number of bytes, and the bytes of the number read there.
LEMMA ReadNumber ==
    ASSUME NEW bytes \in Seq(Bytes), NEW at \in Nat, NEW w \in Nat, at + w <= Len(bytes)
    PROVE  /\ Slice(bytes, at, w) \in Fixed(w)
           /\ read_uint(bytes, at, w) \in Below(w)
           /\ to_le_bytes(read_uint(bytes, at, w), w) = Slice(bytes, at, w)
<1> DEFINE part == Slice(bytes, at, w)
<1>1. part \in Seq(Bytes) /\ Len(part) = w
    BY SliceType
<1> HIDE DEF part
<1>2. part \in Fixed(w)
    BY <1>1 DEF Fixed
<1>3. from_le_bytes(part) \in Below(w) /\ to_le_bytes(from_le_bytes(part), w) = part
    BY <1>1, BytesRoundTrip, Zenon
<1> QED
    BY <1>2, <1>3, Zenon DEF part, read_uint

\* The widths are numbers, and so are the sizes.
LEMMA WidthTypes ==
    /\ RootWidth \in Nat \ {0} /\ WordWidth \in Nat \ {0} /\ AddressWidth \in Nat \ {0}
    /\ OffsetWidth \in Nat \ {0}
    /\ TAG_BASIC \in Bytes /\ TAG_CREATE \in Bytes
BY WidthsArePositive DEF Bytes, TAG_BASIC, TAG_CREATE

\* What fits an offset is a number, and so is everything below it.
LEMMA FitsType ==
    ASSUME NEW w \in Nat, NEW n \in Below(w), NEW m \in Nat, m <= n
    PROVE  n \in Nat /\ m \in Below(w)
<1>1. Weight[w] \in Nat
    BY WeightStep, Zenon
<1> QED
    BY <1>1 DEF Below

-----------------------------------------------------------------------------
(* Payloads.                                                               *)

\* Fees are written one after the other.
LEMMA FeesType ==
    ASSUME NEW fees \in Fees
    PROVE  push_fees(fees) \in Seq(Bytes) /\ Len(push_fees(fees)) = FEES_SIZE
<1>1. /\ fees.regular \in Fixed(RootWidth) /\ fees.max_priority_fee_per_gas \in Fixed(RootWidth)
      /\ fees.max_witness_priority_fee \in Fixed(RootWidth)
    BY Zenon DEF Fees
<1>2. /\ fees.regular \in Seq(Bytes) /\ Len(fees.regular) = RootWidth
      /\ fees.max_priority_fee_per_gas \in Seq(Bytes) /\ Len(fees.max_priority_fee_per_gas) = RootWidth
      /\ fees.max_witness_priority_fee \in Seq(Bytes) /\ Len(fees.max_witness_priority_fee) = RootWidth
    BY <1>1, WidthTypes, FixedType, Zenon
<1> QED
    <2> DEFINE two == fees.regular \o fees.max_priority_fee_per_gas
    <2>1. two \in Seq(Bytes) /\ Len(two) = RootWidth + RootWidth
        BY <1>2, MoreBytes, ZenonT(40)
    <2>2. push_fees(fees) = two \o fees.max_witness_priority_fee
        BY Zenon DEF push_fees
    <2>3. (RootWidth + RootWidth) + RootWidth = FEES_SIZE
        BY WidthTypes DEF FEES_SIZE
    <2> HIDE DEF two
    <2> QED
        BY <1>2, <2>1, <2>2, <2>3, MoreBytes, Zenon

\* Fees are read back where they were written.
LEMMA FeesRoundTrip ==
    ASSUME NEW fees \in Fees, NEW bytes \in Seq(Bytes), NEW at \in Nat,
           at + FEES_SIZE <= Len(bytes), Slice(bytes, at, FEES_SIZE) = push_fees(fees)
    PROVE  read_fees(bytes, at) = fees
<1> DEFINE a == fees.regular
           b == fees.max_priority_fee_per_gas
           c == fees.max_witness_priority_fee
           all == push_fees(fees)
           R == RootWidth
<1>1. a \in Fixed(R) /\ b \in Fixed(R) /\ c \in Fixed(R)
    BY Zenon DEF Fees
<1>2. /\ fees = [regular |-> a, max_priority_fee_per_gas |-> b, max_witness_priority_fee |-> c]
    BY Zenon DEF Fees
<1>3. R \in Nat
    BY WidthTypes, Zenon
<1>4. a \in Seq(Bytes) /\ b \in Seq(Bytes) /\ c \in Seq(Bytes) /\ Len(a) = R /\ Len(b) = R /\ Len(c) = R
    BY <1>1, <1>3, FixedType, Zenon
<1>5. all \in Seq(Bytes) /\ Len(all) = 3 * R
    BY FeesType, Zenon DEF FEES_SIZE
<1>6. all = (a \o b) \o c
    BY Zenon DEF push_fees
<1> HIDE DEF a, b, c, all, R
<1> DEFINE ab == a \o b
<1>7. ab \in Seq(Bytes) /\ Len(ab) = R + R /\ R + R = 2 * R
    BY <1>3, <1>4, MoreBytes, SMTT(30)
<1>8. Begins(ab \o c, all)
    BY <1>5, <1>6 DEF Begins
<1> HIDE DEF ab
<1>9. Begins(ab, all) /\ Slice(all, 2 * R, R) = c
    BY <1>4, <1>5, <1>7, <1>8, PieceAt
<1>10. Begins(a, all) /\ Slice(all, R, R) = b
    BY <1>4, <1>5, <1>9, PieceAt DEF ab
<1>11. Slice(all, 0, R) = a
    BY <1>4, <1>5, <1>10, FirstPiece, Zenon
<1>12. all = Slice(bytes, at, 3 * R) /\ at + 3 * R <= Len(bytes)
    BY Zenon DEF all, FEES_SIZE, R
<1>13. /\ Slice(bytes, at + 0, R) = a /\ Slice(bytes, at + R, R) = b
       /\ Slice(bytes, at + 2 * R, R) = c
    BY <1>3, <1>9, <1>10, <1>11, <1>12, SliceOfSlice, SMTT(30)
<1> QED
    BY <1>2, <1>13 DEF read_fees, R

\* Everything a payload has in common is written first, then fields of its own.
Heading(p) ==
    p.chain_id \o to_le_bytes(p.nonce, WordWidth) \o to_le_bytes(p.gas_limit, WordWidth)
      \o push_fees(p.fees)

\* The payloads of both kinds.
Payloads == BasicPayloads \cup CreatePayloads

\* Types of the fields.
LEMMA PayloadFields ==
    ASSUME NEW p \in Payloads
    PROVE  /\ p.chain_id \in Fixed(RootWidth) /\ p.nonce \in Below(WordWidth)
           /\ p.gas_limit \in Below(WordWidth) /\ p.fees \in Fees
           /\ p.value \in Fixed(RootWidth) /\ p.input \in Seq(Bytes)
           /\ p.access_commitment \in Fixed(RootWidth)
           /\ p \in BasicPayloads => p.to \in Fixed(AddressWidth) /\ p.tag = TAG_BASIC
           /\ p \in CreatePayloads => p.tag = TAG_CREATE
BY Zenon DEF Payloads, BasicPayloads, CreatePayloads

\* A number of a word is written in a word.
LEMMA WordType ==
    ASSUME NEW n \in Below(WordWidth)
    PROVE  to_le_bytes(n, WordWidth) \in Seq(Bytes) /\ Len(to_le_bytes(n, WordWidth)) = WordWidth
<1>1. WordWidth \in Nat
    BY WidthTypes, Zenon
<1>2. n \in Nat
    BY <1>1, WeightStep DEF Below
<1> QED
    BY <1>1, <1>2, ToBytesType, Zenon

\* The heading has the size the code counts on, and is read back from any bytes that
\* begin with it.
LEMMA HeadingRoundTrip ==
    ASSUME NEW p \in Payloads
    PROVE  /\ Heading(p) \in Seq(Bytes) /\ Len(Heading(p)) = AfterFees
           /\ \A bytes \in Seq(Bytes) : Begins(Heading(p), bytes) =>
                /\ Slice(bytes, 0, RootWidth) = p.chain_id
                /\ read_uint(bytes, RootWidth, WordWidth) = p.nonce
                /\ read_uint(bytes, RootWidth + WordWidth, WordWidth) = p.gas_limit
                /\ read_fees(bytes, RootWidth + 2 * WordWidth) = p.fees
<1> DEFINE R == RootWidth
           W == WordWidth
           a == p.chain_id
           b == to_le_bytes(p.nonce, W)
           c == to_le_bytes(p.gas_limit, W)
           d == push_fees(p.fees)
           ab == a \o b
           abc == ab \o c
           abcd == abc \o d
<1>1. R \in Nat /\ W \in Nat
    BY WidthTypes, Zenon
<1>2. a \in Seq(Bytes) /\ Len(a) = R
    BY <1>1, PayloadFields, FixedType, Zenon
<1>3. b \in Seq(Bytes) /\ Len(b) = W /\ c \in Seq(Bytes) /\ Len(c) = W
    BY PayloadFields, WordType, Zenon
<1>4. d \in Seq(Bytes) /\ Len(d) = FEES_SIZE
    BY PayloadFields, FeesType, Zenon
<1>5. Heading(p) = abcd
    BY Zenon DEF Heading
<1> HIDE DEF R, W, a, b, c, d
<1>6. ab \in Seq(Bytes) /\ Len(ab) = R + W
    BY <1>2, <1>3, MoreBytes, Zenon
<1> HIDE DEF ab
<1>7. abc \in Seq(Bytes) /\ Len(abc) = R + W + W
    BY <1>3, <1>6, MoreBytes, Zenon
<1> HIDE DEF abc
<1>8. abcd \in Seq(Bytes) /\ Len(abcd) = R + W + W + FEES_SIZE
    BY <1>4, <1>7, MoreBytes, Zenon
<1>9. R + W + W = R + 2 * W /\ FEES_SIZE \in Nat
    BY <1>1 DEF FEES_SIZE, R
<1>10. AfterFees = R + W + W + FEES_SIZE
    BY <1>9, Zenon DEF AfterFees, R, W
<1>11. ASSUME NEW bytes \in Seq(Bytes), Begins(abcd, bytes)
       PROVE  /\ Slice(bytes, 0, R) = a
              /\ Slice(bytes, R, W) = b
              /\ Slice(bytes, R + W, W) = c
              /\ R + 2 * W + FEES_SIZE <= Len(bytes)
              /\ Slice(bytes, R + 2 * W, FEES_SIZE) = d
    <2>1. /\ Begins(abc, bytes) /\ R + 2 * W + FEES_SIZE <= Len(bytes)
          /\ Slice(bytes, R + 2 * W, FEES_SIZE) = d
        BY <1>4, <1>7, <1>9, <1>11, PieceAt
    <2>2. Begins(ab, bytes) /\ Slice(bytes, R + W, W) = c
        BY <1>3, <1>6, <2>1, PieceAt DEF abc
    <2>3. Begins(a, bytes) /\ Slice(bytes, R, W) = b
        BY <1>2, <1>3, <2>2, PieceAt DEF ab
    <2>4. Slice(bytes, 0, R) = a
        BY <1>2, <2>3, FirstPiece, Zenon
    <2> QED
        BY <2>1, <2>2, <2>3, <2>4, Zenon
<1>12. ASSUME NEW bytes \in Seq(Bytes), Begins(abcd, bytes)
       PROVE  /\ Slice(bytes, 0, R) = p.chain_id
              /\ read_uint(bytes, R, W) = p.nonce
              /\ read_uint(bytes, R + W, W) = p.gas_limit
              /\ read_fees(bytes, R + 2 * W) = p.fees
    <2>1. Slice(bytes, 0, R) = p.chain_id
        BY <1>11, <1>12, Zenon DEF a
    <2>2. p.nonce \in Below(W) /\ p.gas_limit \in Below(W)
        BY PayloadFields, Zenon DEF W
    <2>3. read_uint(bytes, R, W) = p.nonce /\ read_uint(bytes, R + W, W) = p.gas_limit
        BY <1>1, <1>11, <1>12, <2>2, ReadBack, Zenon DEF b, c
    <2>4. read_fees(bytes, R + 2 * W) = p.fees
        <3>1. R + 2 * W \in Nat /\ p.fees \in Fees
            BY <1>1, PayloadFields
        <3> QED
            BY <1>11, <1>12, <3>1, FeesRoundTrip, Zenon DEF d
    <2> QED
        BY <2>1, <2>3, <2>4, Zenon
<1> HIDE DEF abcd
<1> QED
    BY <1>5, <1>8, <1>10, <1>12, Zenon DEF R, W

\* An offset is written in the width of offsets.
LEMMA OffsetType ==
    ASSUME NEW n \in Nat
    PROVE  push_offset(n) \in Seq(Bytes) /\ Len(push_offset(n)) = OffsetWidth
BY WidthTypes, ToBytesType, Zenon DEF push_offset

\* How both kinds of payload end: after the part s of fixed width come the value, the offset
\* of the input, the root of the access list and the input.
Ending(s, value, size, root, input) == s \o value \o push_offset(size) \o root \o input

\* Each part of an ending is read back at its place.
Ends(bytes, s, value, size, root, input) ==
    /\ bytes \in Seq(Bytes) /\ Len(bytes) = size + Len(input)
    /\ Begins(s, bytes)
    /\ Slice(bytes, Len(s), RootWidth) = value
    /\ size \in Below(OffsetWidth) => read_offset(bytes, Len(s) + RootWidth) = size
    /\ Slice(bytes, Len(s) + RootWidth + OffsetWidth, RootWidth) = root
    /\ From(bytes, size) = input

\* What follows the heading, and a recipient if there is one, is read back.
LEMMA EndRoundTrip ==
    ASSUME NEW s \in Seq(Bytes), NEW value \in Fixed(RootWidth), NEW root \in Fixed(RootWidth),
           NEW input \in Seq(Bytes), NEW size \in Nat,
           size = Len(s) + RootWidth + OffsetWidth + RootWidth,
           NEW bytes, bytes = Ending(s, value, size, root, input)
    PROVE  Ends(bytes, s, value, size, root, input)
<1> DEFINE R == RootWidth
           O == OffsetWidth
           L == Len(s)
           o == push_offset(size)
           sv == s \o value
           svo == sv \o o
           svor == svo \o root
<1>1. R \in Nat /\ O \in Nat /\ L \in Nat /\ Len(input) \in Nat
    BY WidthTypes
<1>2. value \in Seq(Bytes) /\ Len(value) = R /\ root \in Seq(Bytes) /\ Len(root) = R
    BY <1>1, FixedType, Zenon
<1>3. o \in Seq(Bytes) /\ Len(o) = O
    BY OffsetType, Zenon
<1>4. size = L + R + O + R /\ Len(s) = L
    BY Zenon
<1> HIDE DEF R, O, L, o
<1>5. sv \in Seq(Bytes) /\ Len(sv) = L + R
    BY <1>2, <1>4, MoreBytes, Zenon
<1>6. bytes = svor \o input
    BY Zenon DEF o, Ending
<1> HIDE DEF sv
<1>7. svo \in Seq(Bytes) /\ Len(svo) = L + R + O
    BY <1>3, <1>5, MoreBytes, Zenon
<1> HIDE DEF svo
<1>8. svor \in Seq(Bytes) /\ Len(svor) = size
    BY <1>2, <1>4, <1>7, MoreBytes, Zenon
<1> HIDE DEF svor
<1>9. bytes \in Seq(Bytes) /\ Len(bytes) = size + Len(input)
    BY <1>6, <1>8, MoreBytes, Zenon
<1>10. Begins(svor \o input, bytes)
    BY <1>6, <1>9, SMTT(30) DEF Begins
<1>11. Begins(svor, bytes) /\ Slice(bytes, size, Len(input)) = input
    BY <1>8, <1>9, <1>10, PieceAt
<1>12. Begins(svo, bytes) /\ Slice(bytes, L + R + O, R) = root
    BY <1>2, <1>7, <1>9, <1>11, PieceAt DEF svor
<1>13. Begins(sv, bytes) /\ Slice(bytes, L + R, O) = o
    BY <1>3, <1>5, <1>9, <1>12, PieceAt DEF svo
<1>14. Begins(s, bytes) /\ Slice(bytes, L, R) = value
    BY <1>2, <1>4, <1>9, <1>13, PieceAt, SMTT(30) DEF sv
<1>15. From(bytes, size) = input
    <2>1. size <= Len(bytes) /\ Len(bytes) - size = Len(input)
        BY <1>1, <1>9
    <2> QED
        BY <1>9, <1>11, <2>1, FromIsSlice, Zenon
<1>16. size \in Below(O) => read_offset(bytes, L + R) = size
    BY <1>1, <1>13, ReadBack, Zenon DEF o, O, read_offset, push_offset
<1> QED
    BY <1>9, <1>11, <1>12, <1>13, <1>14, <1>15, <1>16, Zenon DEF R, O, L, Ends

\* The sizes are numbers, and sums of the widths of what they count.
LEMMA SizeTypes ==
    /\ FEES_SIZE \in Nat /\ AfterFees \in Nat
    /\ BASIC_FIXED_SIZE \in Nat /\ CREATE_FIXED_SIZE \in Nat
    /\ BASIC_FIXED_SIZE = AfterFees + AddressWidth + RootWidth + OffsetWidth + RootWidth
    /\ CREATE_FIXED_SIZE = AfterFees + RootWidth + OffsetWidth + RootWidth
    /\ AUTHORIZATION_FIXED_SIZE \in Nat /\ AUTHORIZATION_FIXED_SIZE <= CREATE_FIXED_SIZE
    /\ CREATE_FIXED_SIZE <= BASIC_FIXED_SIZE
BY WidthTypes DEF FEES_SIZE, AfterFees, BASIC_FIXED_SIZE, CREATE_FIXED_SIZE, AUTHORIZATION_FIXED_SIZE

\* A basic payload has the fixed size and its input, and decodes to itself.
LEMMA BasicRoundTrip ==
    ASSUME NEW p \in BasicPayloads
    PROVE  /\ encode_basic(p) \in Seq(Bytes)
           /\ Len(encode_basic(p)) = BASIC_FIXED_SIZE + Len(p.input)
           /\ BASIC_FIXED_SIZE \in Below(OffsetWidth)
                => decode_basic(encode_basic(p)) = Decoded(p)
<1> DEFINE R == RootWidth
           h == Heading(p)
           s == h \o p.to
           bytes == encode_basic(p)
           size == BASIC_FIXED_SIZE
<1>1. p \in Payloads
    BY Zenon DEF Payloads
<1>2. /\ R \in Nat /\ AddressWidth \in Nat /\ AfterFees \in Nat /\ size \in Nat
      /\ size = AfterFees + AddressWidth + R + OffsetWidth + R
    BY WidthTypes, SizeTypes, Zenon
<1>3. p.to \in Seq(Bytes) /\ Len(p.to) = AddressWidth
    BY <1>1, <1>2, PayloadFields, FixedType, Zenon
<1>4. h \in Seq(Bytes) /\ Len(h) = AfterFees
    BY <1>1, HeadingRoundTrip, Zenon
<1>5. bytes = Ending(s, p.value, size, p.access_commitment, p.input)
    BY Zenon DEF encode_basic, Heading, Ending
<1> HIDE DEF h, bytes, size
<1>6. s \in Seq(Bytes) /\ Len(s) = AfterFees + AddressWidth
    BY <1>3, <1>4, MoreBytes, Zenon
<1> HIDE DEF s
<1>7. /\ bytes \in Seq(Bytes) /\ Len(bytes) = size + Len(p.input)
      /\ Begins(s, bytes)
      /\ Slice(bytes, AfterFees + AddressWidth, R) = p.value
      /\ size \in Below(OffsetWidth) => read_offset(bytes, AfterFees + AddressWidth + R) = size
      /\ Slice(bytes, AfterFees + AddressWidth + R + OffsetWidth, R) = p.access_commitment
      /\ From(bytes, size) = p.input
    <2>1. /\ p.value \in Fixed(RootWidth) /\ p.access_commitment \in Fixed(RootWidth)
          /\ p.input \in Seq(Bytes)
        BY <1>1, PayloadFields, Zenon
    <2>2. size = Len(s) + RootWidth + OffsetWidth + RootWidth
        BY <1>2, <1>6, Zenon
    <2>3. s \in Seq(Bytes) /\ size \in Nat
        BY <1>2, <1>6, Zenon
    <2>4. Ends(bytes, s, p.value, size, p.access_commitment, p.input)
        BY <1>5, <2>1, <2>2, <2>3, EndRoundTrip, Zenon
    <2> QED
        BY <1>6, <2>4, Zenon DEF Ends
<1>8. Begins(h, bytes) /\ Slice(bytes, AfterFees, AddressWidth) = p.to
    BY <1>3, <1>4, <1>7, PieceAt, SMTT(30) DEF s
<1>9. /\ Slice(bytes, 0, RootWidth) = p.chain_id
      /\ read_uint(bytes, RootWidth, WordWidth) = p.nonce
      /\ read_uint(bytes, RootWidth + WordWidth, WordWidth) = p.gas_limit
      /\ read_fees(bytes, RootWidth + 2 * WordWidth) = p.fees
    BY <1>1, <1>7, <1>8, HeadingRoundTrip, Zenon DEF h
<1>10. ~ Len(bytes) < size
    <2>1. Len(p.input) \in Nat
        BY <1>1, PayloadFields
    <2> QED
        BY <1>2, <1>7, <2>1
<1>11. p = [tag |-> TAG_BASIC, chain_id |-> p.chain_id, nonce |-> p.nonce,
            gas_limit |-> p.gas_limit, fees |-> p.fees, to |-> p.to, value |-> p.value,
            input |-> p.input, access_commitment |-> p.access_commitment]
    BY Zenon DEF BasicPayloads
<1>12. size \in Below(OffsetWidth) => decode_basic(bytes) = Decoded(p)
    BY <1>7, <1>8, <1>9, <1>10, <1>11, Zenon DEF decode_basic, size
<1> QED
    BY <1>7, <1>12, Zenon DEF bytes, size

\* The same of a create payload.
LEMMA CreateRoundTrip ==
    ASSUME NEW p \in CreatePayloads
    PROVE  /\ encode_create(p) \in Seq(Bytes)
           /\ Len(encode_create(p)) = CREATE_FIXED_SIZE + Len(p.input)
           /\ CREATE_FIXED_SIZE \in Below(OffsetWidth)
                => decode_create(encode_create(p)) = Decoded(p)
<1> DEFINE R == RootWidth
           h == Heading(p)
           bytes == encode_create(p)
           size == CREATE_FIXED_SIZE
<1>1. p \in Payloads
    BY Zenon DEF Payloads
<1>2. /\ R \in Nat /\ AfterFees \in Nat /\ size \in Nat
      /\ size = AfterFees + R + OffsetWidth + R
    BY WidthTypes, SizeTypes, Zenon
<1>3. h \in Seq(Bytes) /\ Len(h) = AfterFees
    BY <1>1, HeadingRoundTrip, Zenon
<1>4. bytes = Ending(h, p.value, size, p.access_commitment, p.input)
    BY Zenon DEF encode_create, Heading, Ending
<1> HIDE DEF h, bytes, size
<1>5. /\ bytes \in Seq(Bytes) /\ Len(bytes) = size + Len(p.input)
      /\ Begins(h, bytes)
      /\ Slice(bytes, AfterFees, R) = p.value
      /\ size \in Below(OffsetWidth) => read_offset(bytes, AfterFees + R) = size
      /\ Slice(bytes, AfterFees + R + OffsetWidth, R) = p.access_commitment
      /\ From(bytes, size) = p.input
    <2>1. /\ p.value \in Fixed(RootWidth) /\ p.access_commitment \in Fixed(RootWidth)
          /\ p.input \in Seq(Bytes)
        BY <1>1, PayloadFields, Zenon
    <2>2. size = Len(h) + RootWidth + OffsetWidth + RootWidth
        BY <1>2, <1>3, Zenon
    <2>3. h \in Seq(Bytes) /\ size \in Nat
        BY <1>2, <1>3, Zenon
    <2>4. Ends(bytes, h, p.value, size, p.access_commitment, p.input)
        BY <1>4, <2>1, <2>2, <2>3, EndRoundTrip, Zenon
    <2> QED
        BY <1>3, <2>4, Zenon DEF Ends
<1>6. /\ Slice(bytes, 0, RootWidth) = p.chain_id
      /\ read_uint(bytes, RootWidth, WordWidth) = p.nonce
      /\ read_uint(bytes, RootWidth + WordWidth, WordWidth) = p.gas_limit
      /\ read_fees(bytes, RootWidth + 2 * WordWidth) = p.fees
    BY <1>1, <1>5, HeadingRoundTrip, Zenon DEF h
<1>7. ~ Len(bytes) < size
    <2>1. Len(p.input) \in Nat
        BY <1>1, PayloadFields
    <2> QED
        BY <1>2, <1>5, <2>1, SMTT(30)
<1>8. p = [tag |-> TAG_CREATE, chain_id |-> p.chain_id, nonce |-> p.nonce,
           gas_limit |-> p.gas_limit, fees |-> p.fees, value |-> p.value,
           input |-> p.input, access_commitment |-> p.access_commitment]
    BY Zenon DEF CreatePayloads
<1>9. size \in Below(OffsetWidth) => decode_create(bytes) = Decoded(p)
    BY <1>5, <1>6, <1>7, <1>8, Zenon DEF decode_create, size
<1> QED
    BY <1>5, <1>9, Zenon DEF bytes, size

\* A tag before bytes.
LEMMA Tagged ==
    ASSUME NEW tag \in Bytes, NEW s \in Seq(Bytes)
    PROVE  /\ <<tag>> \o s \in Seq(Bytes) /\ Len(<<tag>> \o s) = 1 + Len(s)
           /\ <<tag>> \o s # <<>>
           /\ Head(<<tag>> \o s) = tag /\ Tail(<<tag>> \o s) = s
<1> DEFINE t == <<tag>>
           b == t \o s
<1>1. t \in Seq(Bytes) /\ Len(t) = 1 /\ t[1] = tag
    OBVIOUS
<1> HIDE DEF t
<1>2. b \in Seq(Bytes) /\ Len(b) = 1 + Len(s)
      /\ \A i \in 1 .. 1 + Len(s) : b[i] = IF i <= 1 THEN t[i] ELSE s[i - 1]
    BY <1>1, MoreBytes, BytesAt
<1> HIDE DEF b
<1>3. b # <<>> /\ Head(b) = b[1] /\ b[1] = tag
    BY <1>1, <1>2
<1>4. Tail(b) \in Seq(Bytes) /\ Len(Tail(b)) = Len(s)
      /\ \A i \in 1 .. Len(s) : Tail(b)[i] = b[i + 1]
    BY <1>2, <1>3
<1>5. \A i \in 1 .. Len(s) : b[i + 1] = s[i]
    BY <1>2
<1>6. Tail(b) = s
    BY <1>4, <1>5, SameSequence, Zenon
<1> QED
    BY <1>2, <1>3, <1>6, Zenon DEF b, t

\* A payload has a tag and decodes to itself, if the offset of its input can be written.
LEMMA PayloadRoundTrip ==
    ASSUME NEW p \in Payloads
    PROVE  /\ encode_payload(p) \in Seq(Bytes)
           /\ Len(encode_payload(p)) >= 1 + CREATE_FIXED_SIZE
           /\ Len(encode_payload(p)) \in Below(OffsetWidth)
                => decode_payload(encode_payload(p)) = Decoded(p)
<1>1. TAG_BASIC # TAG_CREATE
    BY DEF TAG_BASIC, TAG_CREATE
<1>2. CREATE_FIXED_SIZE \in Nat /\ BASIC_FIXED_SIZE \in Nat /\ CREATE_FIXED_SIZE <= BASIC_FIXED_SIZE
    BY SizeTypes, Zenon
<1>3. TAG_BASIC \in Bytes /\ TAG_CREATE \in Bytes /\ OffsetWidth \in Nat
    BY WidthTypes, Zenon
<1>4. CASE p \in BasicPayloads
    <2> DEFINE s == encode_basic(p)
    <2>1. p.tag = TAG_BASIC /\ Len(p.input) \in Nat
        BY <1>4, PayloadFields
    <2>2. encode_payload(p) = <<TAG_BASIC>> \o s
        BY <2>1, Zenon DEF encode_payload
    <2>3. /\ s \in Seq(Bytes) /\ Len(s) = BASIC_FIXED_SIZE + Len(p.input)
          /\ BASIC_FIXED_SIZE \in Below(OffsetWidth) => decode_basic(s) = Decoded(p)
        BY <1>4, BasicRoundTrip, Zenon
    <2> HIDE DEF s
    <2>4. /\ encode_payload(p) \in Seq(Bytes) /\ Len(encode_payload(p)) = 1 + Len(s)
          /\ encode_payload(p) # <<>>
          /\ Head(encode_payload(p)) = TAG_BASIC /\ Tail(encode_payload(p)) = s
        BY <1>3, <2>2, <2>3, Tagged, Zenon
    <2>5. Len(encode_payload(p)) >= 1 + BASIC_FIXED_SIZE
        BY <1>2, <2>1, <2>3, <2>4
    <2>6. ASSUME Len(encode_payload(p)) \in Below(OffsetWidth)
          PROVE  decode_payload(encode_payload(p)) = Decoded(p)
        <3>1. BASIC_FIXED_SIZE \in Below(OffsetWidth)
            BY <1>2, <1>3, <2>5, <2>6, FitsType
        <3> QED
            BY <2>3, <2>4, <3>1, Zenon DEF decode_payload
    <2> QED
        BY <1>2, <2>4, <2>5, <2>6
<1>5. CASE p \in CreatePayloads
    <2> DEFINE s == encode_create(p)
    <2>1. p.tag = TAG_CREATE /\ Len(p.input) \in Nat
        BY <1>5, PayloadFields
    <2>2. encode_payload(p) = <<TAG_CREATE>> \o s
        BY <1>1, <2>1, Zenon DEF encode_payload
    <2>3. /\ s \in Seq(Bytes) /\ Len(s) = CREATE_FIXED_SIZE + Len(p.input)
          /\ CREATE_FIXED_SIZE \in Below(OffsetWidth) => decode_create(s) = Decoded(p)
        BY <1>5, CreateRoundTrip, Zenon
    <2> HIDE DEF s
    <2>4. /\ encode_payload(p) \in Seq(Bytes) /\ Len(encode_payload(p)) = 1 + Len(s)
          /\ encode_payload(p) # <<>>
          /\ Head(encode_payload(p)) = TAG_CREATE /\ Tail(encode_payload(p)) = s
        BY <1>3, <2>2, <2>3, Tagged, Zenon
    <2>5. Len(encode_payload(p)) >= 1 + CREATE_FIXED_SIZE
        BY <1>2, <2>1, <2>3, <2>4
    <2>6. ASSUME Len(encode_payload(p)) \in Below(OffsetWidth)
          PROVE  decode_payload(encode_payload(p)) = Decoded(p)
        <3>1. CREATE_FIXED_SIZE \in Below(OffsetWidth)
            BY <1>2, <1>3, <2>5, <2>6, FitsType
        <3> QED
            BY <1>1, <2>3, <2>4, <3>1, Zenon DEF decode_payload
    <2> QED
        BY <2>4, <2>5, <2>6, Zenon
<1> QED
    BY <1>4, <1>5, Zenon DEF Payloads

-----------------------------------------------------------------------------
(* Authorizations.                                                         *)

\* An authorization has the fixed size and its signature, and decodes to itself.
LEMMA AuthorizationRoundTrip ==
    ASSUME NEW a \in Authorizations
    PROVE  /\ encode_authorization(a) \in Seq(Bytes)
           /\ Len(encode_authorization(a)) = AUTHORIZATION_FIXED_SIZE + Len(a.signature)
           /\ AUTHORIZATION_FIXED_SIZE \in Below(OffsetWidth)
                => decode_authorization(encode_authorization(a)) = Decoded(a)
<1> DEFINE R == RootWidth
           O == OffsetWidth
           size == AUTHORIZATION_FIXED_SIZE
           root == a.payload_root
           o == push_offset(size)
           sig == a.signature
           bytes == encode_authorization(a)
<1>1. /\ a.scheme_id \in Bytes /\ root \in Fixed(R) /\ sig \in Seq(Bytes)
      /\ a = [scheme_id |-> a.scheme_id, payload_root |-> root, signature |-> sig]
    BY Zenon DEF Authorizations
<1>2. R \in Nat /\ O \in Nat /\ size \in Nat /\ size = 1 + R + O
    BY WidthTypes, SizeTypes, Zenon DEF AUTHORIZATION_FIXED_SIZE
<1>3. root \in Seq(Bytes) /\ Len(root) = R
    BY <1>1, <1>2, FixedType, Zenon
<1>4. o \in Seq(Bytes) /\ Len(o) = O
    BY <1>2, OffsetType, Zenon
<1>5. PICK x \in Seq(Bytes) : x = <<a.scheme_id>> /\ Len(x) = 1 /\ x[1] = a.scheme_id
    <2>1. <<a.scheme_id>> \in Seq(Bytes) /\ Len(<<a.scheme_id>>) = 1
          /\ <<a.scheme_id>>[1] = a.scheme_id
        BY <1>1
    <2> QED
        BY <2>1, Zenon
<1>6. sig \in Seq(Bytes) /\ Len(sig) \in Nat
    BY <1>1
<1>7. Len(x) = 1
    BY <1>5, Zenon
<1> DEFINE xr == x \o root
           xro == xr \o o
<1>8. bytes = xro \o sig
    BY <1>5, Zenon DEF encode_authorization
<1> HIDE DEF R, O, size, root, o, sig, bytes
<1>9. xr \in Seq(Bytes) /\ Len(xr) = 1 + R
    BY <1>3, <1>7, MoreBytes, Zenon
<1> HIDE DEF xr
<1>10. xro \in Seq(Bytes) /\ Len(xro) = size
    BY <1>2, <1>4, <1>9, MoreBytes, Zenon
<1> HIDE DEF xro
<1>11. bytes \in Seq(Bytes) /\ Len(bytes) = size + Len(sig) /\ Len(sig) \in Nat
    BY <1>8, <1>10, <1>6, MoreBytes, Zenon
<1>12. Begins(xro \o sig, bytes)
    BY <1>8, <1>11 DEF Begins
<1>13. Begins(xro, bytes) /\ Slice(bytes, size, Len(sig)) = sig
    BY <1>10, <1>11, <1>12, <1>6, PieceAt
<1>14. Begins(xr, bytes) /\ Slice(bytes, 1 + R, O) = o
    BY <1>4, <1>9, <1>11, <1>13, PieceAt DEF xro
<1>15. Begins(x, bytes) /\ Slice(bytes, 1, R) = root
    <2>1. Begins(x \o root, bytes)
        BY <1>14, Zenon DEF xr
    <2>2. Begins(x, bytes) /\ Slice(bytes, Len(x), Len(root)) = root
        BY <1>3, <1>11, <2>1, PieceAt
    <2> QED
        BY <1>3, <1>7, <2>2, Zenon
<1>16. Head(bytes) = a.scheme_id
    <2>1. Len(bytes) >= 1 /\ bytes[1] = a.scheme_id
        BY <1>5, <1>15 DEF Begins
    <2> QED
        BY <1>11, <2>1
<1>17. From(bytes, size) = sig /\ ~ Len(bytes) < size
    <2>1. size \in Nat /\ size <= Len(bytes) /\ Len(bytes) - size = Len(sig) /\ ~ Len(bytes) < size
        BY <1>2, <1>11
    <2>2. From(bytes, size) = Slice(bytes, size, Len(bytes) - size)
        BY <1>11, <2>1, FromIsSlice, Zenon
    <2> QED
        BY <1>13, <2>1, <2>2, Zenon
<1>18. size \in Below(O) => read_offset(bytes, 1 + R) = size
    BY <1>2, <1>14, ReadBack, Zenon DEF o, O, read_offset, push_offset
<1>19. size \in Below(O) => decode_authorization(bytes) = Decoded(a)
    BY <1>1, <1>15, <1>16, <1>17, <1>18, Zenon DEF decode_authorization, size, R
<1> QED
    BY <1>11, <1>19, Zenon DEF bytes, size, O, sig

-----------------------------------------------------------------------------
(* Lists of authorizations.                                                *)

\* Sequences of bytes put one after the other.
Chain(all, n, piece) ==
    all[0] = <<>> /\ \A i \in 1 .. n : all[i] = all[i - 1] \o piece[i]

\* There is such a chain for all pieces.
LEMMA Chains ==
    ASSUME NEW n \in Nat, NEW piece \in [1 .. n -> Seq(Bytes)]
    PROVE  \E all \in [0 .. n -> Seq(Bytes)] : Chain(all, n, piece)
<1> DEFINE step == [i \in 1 .. n |-> [s \in Seq(Bytes) |-> s \o piece[i]]]
<1>1. step \in [1 .. n -> [Seq(Bytes) -> Seq(Bytes)]] /\ <<>> \in Seq(Bytes)
    <2>1. ASSUME NEW i \in 1 .. n, NEW s \in Seq(Bytes) PROVE s \o piece[i] \in Seq(Bytes)
        BY MoreBytes, Zenon
    <2> QED
        BY <2>1
<1>2. PICK all \in [0 .. n -> Seq(Bytes)] : Follows(all, n, <<>>, step)
    <2> HIDE DEF step
    <2> QED
        BY <1>1, Recursion, Zenon
<1>3. ASSUME NEW i \in 1 .. n PROVE all[i] = all[i - 1] \o piece[i]
    <2>1. i - 1 \in 0 .. n
        OBVIOUS
    <2>2. all[i - 1] \in Seq(Bytes)
        BY <2>1, Zenon
    <2> QED
        BY <1>2, <2>2, Zenon DEF Follows
<1> QED
    BY <1>2, <1>3, Zenon DEF Chain, Follows

\* All that is put one after the other begins with what came before.
LEMMA ChainBegins ==
    ASSUME NEW n \in Nat, NEW piece \in [1 .. n -> Seq(Bytes)], NEW all, Chain(all, n, piece)
    PROVE  \A i \in 0 .. n :
             all[i] \in Seq(Bytes) /\ \A k \in 0 .. i : Begins(all[k], all[i])
<1> DEFINE Good == {i \in 0 .. n :
                      all[i] \in Seq(Bytes) /\ \A k \in 0 .. i : Begins(all[k], all[i])}
<1>1. 0 \in Good
    <2>1. all[0] = <<>> /\ <<>> \in Seq(Bytes) /\ Begins(<<>>, <<>>)
        BY DEF Chain, Begins
    <2>2. 0 \in 0 .. n /\ \A k \in 0 .. 0 : k = 0
        OBVIOUS
    <2> QED
        BY <2>1, <2>2, Zenon
<1>2. ASSUME NEW i \in 0 .. n - 1, i \in Good PROVE i + 1 \in Good
    <2>1. i + 1 \in 1 .. n /\ (i + 1) - 1 = i
        OBVIOUS
    <2>2. all[i + 1] = all[i] \o piece[i + 1] /\ piece[i + 1] \in Seq(Bytes)
        BY <2>1, Zenon DEF Chain
    <2>3. all[i] \in Seq(Bytes)
        BY <1>2, Zenon
    <2>4. all[i + 1] \in Seq(Bytes)
        BY <2>2, <2>3, MoreBytes, Zenon
    <2>5. Begins(all[i + 1], all[i + 1])
        BY <2>4 DEF Begins
    <2>6. Begins(all[i], all[i + 1])
        BY <2>2, <2>3, <2>4, <2>5, PieceAt, Zenon
    <2>7. ASSUME NEW k \in 0 .. i PROVE Begins(all[k], all[i + 1])
        BY <1>2, <2>3, <2>4, <2>6, SMTT(30) DEF Begins
    <2>8. \A k \in 0 .. i + 1 : k \in 0 .. i \/ k = i + 1
        OBVIOUS
    <2> QED
        BY <2>1, <2>4, <2>5, <2>7, <2>8
<1> HIDE DEF Good
<1>3. 0 .. n \subseteq Good
    BY ONLY <1>1, <1>2, BoundedInduction, n \in Nat, Zenon
<1> QED
    BY <1>3, Zenon DEF Good

\* Where the authorizations of a list begin: the first after the table of offsets, each
\* other where the one before ends.
OffsetsOf(L, start) ==
    /\ \A i \in 1 .. Len(L) : start[i] \in Nat
    /\ Len(L) > 0 => start[1] = OffsetWidth * Len(L)
    /\ \A i \in 2 .. Len(L) : start[i] = start[i - 1] + Len(encode_authorization(L[i - 1]))

\* ElementOffset adds up the lengths.
LEMMA ElementOffsets ==
    ASSUME NEW L \in Seq(Authorizations)
    PROVE  \E start : OffsetsOf(L, start) /\ \A i \in 1 .. Len(L) : ElementOffset(L, i) = start[i]
<1> DEFINE n == Len(L)
           length == [i \in 1 .. n |-> Len(encode_authorization(L[i]))]
           step == [i \in 1 .. n |-> [x \in Nat |-> x + length[i]]]
           Unfolds(f) == f = [k \in 1 .. n |->
                                IF k = 1 THEN OffsetWidth * n
                                ELSE f[k - 1] + Len(encode_authorization(L[k - 1]))]
           start == CHOOSE f : Unfolds(f)
<1>1. n \in Nat /\ OffsetWidth * n \in Nat
    BY WidthTypes
<1>2. length \in [1 .. n -> Nat]
    <2>1. ASSUME NEW i \in 1 .. n PROVE Len(encode_authorization(L[i])) \in Nat
        <3>1. L[i] \in Authorizations
            OBVIOUS
        <3>2. encode_authorization(L[i]) \in Seq(Bytes)
            BY <3>1, AuthorizationRoundTrip, Zenon
        <3> QED
            BY <3>2
    <2> QED
        BY <2>1, Zenon
<1>3. \A i \in 1 .. n : Len(encode_authorization(L[i])) = length[i]
    BY Zenon
<1>4. step \in [1 .. n -> [Nat -> Nat]]
    <2> HIDE DEF length
    <2>1. ASSUME NEW i \in 1 .. n, NEW x \in Nat PROVE x + length[i] \in Nat
        BY <1>2
    <2> QED
        BY <2>1, Zenon
<1>5. PICK f \in [0 .. n -> Nat] : Follows(f, n, OffsetWidth * n, step)
    <2> DEFINE init == OffsetWidth * n
    <2>1. init \in Nat
        BY <1>1, Zenon
    <2> HIDE DEF step, n, init
    <2>2. \E f \in [0 .. n -> Nat] : Follows(f, n, init, step)
        BY <1>1, <1>4, <2>1, Recursion, Zenon
    <2> QED
        BY <2>2, Zenon DEF init
<1>6. ASSUME NEW i \in 1 .. n PROVE f[i] = f[i - 1] + length[i]
    <2>1. i - 1 \in 0 .. n
        BY <1>1
    <2>2. f[i - 1] \in Nat
        BY <1>5, <2>1, Zenon
    <2> HIDE DEF length
    <2> QED
        BY <1>5, <2>2, Zenon DEF Follows
<1>7. f[0] = OffsetWidth * n
    BY <1>5, Zenon DEF Follows
<1> DEFINE g == [k \in 1 .. n |-> f[k - 1]]
<1> HIDE DEF length, step
<1>8. ASSUME NEW k \in 1 .. n, k # 1 PROVE g[k] = g[k - 1] + Len(encode_authorization(L[k - 1]))
    <2>1. k - 1 \in 1 .. n /\ (k - 1) - 1 \in 0 .. n
        BY <1>1, <1>8
    <2>2. f[k - 1] = f[(k - 1) - 1] + length[k - 1]
        BY <1>6, <2>1, Zenon
    <2>3. g[k] = f[k - 1] /\ g[k - 1] = f[(k - 1) - 1]
        BY <2>1, Zenon
    <2> QED
        BY <1>3, <2>1, <2>2, <2>3, Zenon
<1>9. n > 0 => g[1] = OffsetWidth * n
    BY <1>1, <1>7
<1>10. ASSUME NEW k \in 1 .. n PROVE g[k] \in Nat
    <2>1. k - 1 \in 0 .. n
        BY <1>1
    <2> QED
        BY <1>5, <2>1, Zenon
<1>11. g = [k \in 1 .. n |-> g[k]]
    BY Zenon
<1> HIDE DEF g
<1>12. Unfolds(g)
    <2>1. ASSUME NEW k \in 1 .. n
          PROVE  g[k] = IF k = 1 THEN OffsetWidth * n
                        ELSE g[k - 1] + Len(encode_authorization(L[k - 1]))
        BY <1>1, <1>8, <1>9
    <2> QED
        BY <1>11, <2>1, Zenon
<1>13. Unfolds(start)
    <2> HIDE DEF Unfolds
    <2> QED
        BY <1>12, Zenon
<1>14. ASSUME NEW i \in 1 .. n PROVE ElementOffset(L, i) = start[i]
    BY Zenon DEF ElementOffset
<1>15. /\ n > 0 => start[1] = OffsetWidth * n
       /\ \A i \in 2 .. n : start[i] = start[i - 1] + Len(encode_authorization(L[i - 1]))
    <2> HIDE DEF start, n
    <2>1. ASSUME NEW k \in 1 .. n
          PROVE  start[k] = IF k = 1 THEN OffsetWidth * n
                            ELSE start[k - 1] + Len(encode_authorization(L[k - 1]))
        BY <1>13, Zenon
    <2> HIDE DEF Unfolds
    <2>2. n > 0 => 1 \in 1 .. n
        BY <1>1
    <2>3. \A i \in 2 .. n : i \in 1 .. n /\ i # 1
        BY <1>1
    <2> QED
        BY <2>1, <2>2, <2>3, Zenon
<1> HIDE DEF start
<1>16. \A i \in 1 .. n : start[i] \in Nat
    <2> DEFINE Good == {i \in 0 .. n : i > 0 => start[i] \in Nat}
    <2>1. 0 \in Good
        BY <1>1
    <2>2. ASSUME NEW i \in 0 .. n - 1, i \in Good PROVE i + 1 \in Good
        <3>1. CASE i = 0
            BY <1>1, <1>15, <3>1
        <3>2. CASE i # 0
            <4>1. i + 1 \in 2 .. n /\ (i + 1) - 1 = i /\ i \in 1 .. n /\ start[i] \in Nat
                BY <1>1, <2>2, <3>2
            <4>2. start[i + 1] = start[i] + length[i] /\ length[i] \in Nat
                BY <1>2, <1>3, <1>15, <4>1, Zenon
            <4> QED
                BY <4>1, <4>2
        <3> QED
            BY <3>1, <3>2, Zenon
    <2> HIDE DEF Good
    <2>3. 0 .. n \subseteq Good
        BY ONLY <1>1, <2>1, <2>2, BoundedInduction, Zenon
    <2> QED
        BY <1>1, <2>3 DEF Good
<1> QED
    BY <1>14, <1>15, <1>16, Zenon DEF OffsetsOf

\* An encoded list is the table of offsets and, after it, the authorizations.
ListEncoding(L, start, table, parts) ==
    /\ OffsetsOf(L, start)
    /\ Chain(table, Len(L), [i \in 1 .. Len(L) |-> push_offset(start[i])])
    /\ Chain(parts, Len(L), [i \in 1 .. Len(L) |-> encode_authorization(L[i])])
    /\ encode_authorization_list(L) =
         IF \A i \in 1 .. Len(L) : start[i] \in Below(OffsetWidth)
         THEN Decoded(table[Len(L)] \o parts[Len(L)]) ELSE MalformedSsz

\* encode_authorization_list writes a table of offsets and then the authorizations.
LEMMA EncodedList ==
    ASSUME NEW L \in Seq(Authorizations)
    PROVE  \E start, table, parts : ListEncoding(L, start, table, parts)
<1> DEFINE n == Len(L)
<1>1. PICK start : OffsetsOf(L, start) /\ \A i \in 1 .. n : ElementOffset(L, i) = start[i]
    BY ElementOffsets, Zenon
<1>2. n \in Nat /\ \A i \in 1 .. n : start[i] \in Nat
    BY <1>1 DEF OffsetsOf
<1> DEFINE offset == [i \in 1 .. n |-> push_offset(start[i])]
           element == [i \in 1 .. n |-> encode_authorization(L[i])]
<1>3. offset \in [1 .. n -> Seq(Bytes)]
    BY <1>2, OffsetType, Zenon
<1>4. element \in [1 .. n -> Seq(Bytes)]
    <2>1. \A i \in 1 .. n : L[i] \in Authorizations
        OBVIOUS
    <2> QED
        BY <2>1, AuthorizationRoundTrip, Zenon
<1> DEFINE TableIs(f) == f = [i \in 0 .. n |->
                                IF i = 0 THEN <<>>
                                ELSE f[i - 1] \o push_offset(ElementOffset(L, i))]
           PartsAre(f) == f = [i \in 0 .. n |->
                                IF i = 0 THEN <<>> ELSE f[i - 1] \o encode_authorization(L[i])]
           table == CHOOSE f : TableIs(f)
           parts == CHOOSE f : PartsAre(f)
<1>5. \E f : TableIs(f)
    <2>1. PICK f \in [0 .. n -> Seq(Bytes)] : Chain(f, n, offset)
        <3> HIDE DEF offset, n
        <3> QED
            BY <1>2, <1>3, Chains, Zenon
    <2>2. ASSUME NEW i \in 0 .. n
          PROVE  f[i] = IF i = 0 THEN <<>> ELSE f[i - 1] \o push_offset(ElementOffset(L, i))
        <3>1. CASE i = 0
            BY <2>1, <3>1, Zenon DEF Chain
        <3>2. CASE i # 0
            <4>1. i \in 1 .. n
                BY <1>2, <3>2
            <4>2. offset[i] = push_offset(ElementOffset(L, i))
                BY <1>1, <4>1, Zenon
            <4> HIDE DEF offset
            <4> QED
                BY <2>1, <3>2, <4>1, <4>2, Zenon DEF Chain
        <3> QED
            BY <3>1, <3>2, Zenon
    <2>3. f = [i \in 0 .. n |-> f[i]]
        BY <2>1, Zenon
    <2>4. TableIs(f)
        BY <2>2, <2>3, Zenon
    <2> QED
        BY <2>4, Zenon
<1>6. \E f : PartsAre(f)
    <2>1. PICK f \in [0 .. n -> Seq(Bytes)] : Chain(f, n, element)
        <3> HIDE DEF element, n
        <3> QED
            BY <1>2, <1>4, Chains, Zenon
    <2>2. ASSUME NEW i \in 0 .. n
          PROVE  f[i] = IF i = 0 THEN <<>> ELSE f[i - 1] \o encode_authorization(L[i])
        <3>1. CASE i = 0
            BY <2>1, <3>1, Zenon DEF Chain
        <3>2. CASE i # 0
            <4>1. i \in 1 .. n
                BY <1>2, <3>2
            <4>2. element[i] = encode_authorization(L[i])
                BY <4>1, Zenon
            <4> HIDE DEF element
            <4> QED
                BY <2>1, <3>2, <4>1, <4>2, Zenon DEF Chain
        <3> QED
            BY <3>1, <3>2, Zenon
    <2>3. f = [i \in 0 .. n |-> f[i]]
        BY <2>1, Zenon
    <2>4. PartsAre(f)
        BY <2>2, <2>3, Zenon
    <2> QED
        BY <2>4, Zenon
<1>7. TableIs(table) /\ PartsAre(parts)
    <2> HIDE DEF TableIs, PartsAre
    <2> QED
        BY <1>5, <1>6, Zenon
<1>8. encode_authorization_list(L) =
        IF \A i \in 1 .. n : ElementOffset(L, i) \in Below(OffsetWidth)
        THEN Decoded(table[n] \o parts[n]) ELSE MalformedSsz
    BY Zenon DEF encode_authorization_list
<1> HIDE DEF table, parts
<1>9. Chain(table, n, offset)
    <2>1. \A i \in 0 .. n :
            table[i] = IF i = 0 THEN <<>> ELSE table[i - 1] \o push_offset(ElementOffset(L, i))
        BY <1>7, Zenon
    <2>2. 0 \in 0 .. n /\ \A i \in 1 .. n : i \in 0 .. n /\ i # 0
        BY <1>2
    <2>3. \A i \in 1 .. n : offset[i] = push_offset(ElementOffset(L, i))
        BY <1>1, Zenon
    <2> HIDE DEF offset
    <2> QED
        BY ONLY <2>1, <2>2, <2>3, Zenon DEF Chain
<1>10. Chain(parts, n, element)
    <2>1. \A i \in 0 .. n :
            parts[i] = IF i = 0 THEN <<>> ELSE parts[i - 1] \o encode_authorization(L[i])
        BY <1>7, Zenon
    <2>2. 0 \in 0 .. n /\ \A i \in 1 .. n : i \in 0 .. n /\ i # 0
        BY <1>2
    <2>3. \A i \in 1 .. n : element[i] = encode_authorization(L[i])
        BY Zenon
    <2> HIDE DEF element
    <2> QED
        BY ONLY <2>1, <2>2, <2>3, Zenon DEF Chain
<1>11. (\A i \in 1 .. n : ElementOffset(L, i) \in Below(OffsetWidth))
         <=> (\A i \in 1 .. n : start[i] \in Below(OffsetWidth))
    BY <1>1, Zenon
<1>12. ListEncoding(L, start, table, parts)
    BY <1>1, <1>8, <1>9, <1>10, <1>11, Zenon DEF ListEncoding
<1> QED
    BY <1>12, Zenon

\* Every piece of a chain has its place in the whole.
PlacedParts(all, n, piece) ==
    /\ \A i \in 0 .. n : all[i] \in Seq(Bytes)
    /\ Len(all[0]) = 0
    /\ \A i \in 1 .. n :
         /\ Len(all[i]) = Len(all[i - 1]) + Len(piece[i])
         /\ Len(all[i]) <= Len(all[n])
         /\ Slice(all[n], Len(all[i - 1]), Len(piece[i])) = piece[i]

\* Each piece of a chain stands where the pieces before it end.
LEMMA ChainPlaces ==
    ASSUME NEW n \in Nat, NEW piece \in [1 .. n -> Seq(Bytes)], NEW all, Chain(all, n, piece)
    PROVE  PlacedParts(all, n, piece)
<1>1. \A i \in 0 .. n : all[i] \in Seq(Bytes) /\ \A k \in 0 .. i : Begins(all[k], all[i])
    BY ChainBegins, Zenon
<1>2. Len(all[0]) = 0
    BY DEF Chain
<1>3. ASSUME NEW i \in 1 .. n
      PROVE  /\ Len(all[i]) = Len(all[i - 1]) + Len(piece[i])
             /\ Len(all[i]) <= Len(all[n])
             /\ Slice(all[n], Len(all[i - 1]), Len(piece[i])) = piece[i]
    <2>1. i - 1 \in 0 .. n /\ i \in 0 .. n /\ n \in 0 .. n
        OBVIOUS
    <2>2. all[i] = all[i - 1] \o piece[i] /\ piece[i] \in Seq(Bytes)
        BY Zenon DEF Chain
    <2>3. all[i - 1] \in Seq(Bytes) /\ all[n] \in Seq(Bytes) /\ Begins(all[i], all[n])
        BY <1>1, <2>1, Zenon
    <2>4. Len(all[i]) = Len(all[i - 1]) + Len(piece[i])
        BY <2>2, <2>3, MoreBytes, Zenon
    <2>5. Len(all[i]) <= Len(all[n])
        BY <2>3, Zenon DEF Begins
    <2>6. Begins(all[i - 1] \o piece[i], all[n])
        BY <2>2, <2>3, Zenon
    <2> QED
        BY <2>2, <2>3, <2>4, <2>5, <2>6, PieceAt
<1> QED
    BY <1>1, <1>2, <1>3, Zenon DEF PlacedParts

\* A slice of the second of two sequences.
LEMMA SliceAfter ==
    ASSUME NEW s \in Seq(Bytes), NEW t \in Seq(Bytes), NEW at \in Nat, NEW w \in Nat,
           at + w <= Len(t)
    PROVE  Slice(s \o t, Len(s) + at, w) = Slice(t, at, w)
<1> DEFINE b == s \o t
<1>1. b \in Seq(Bytes) /\ Len(b) = Len(s) + Len(t)
    BY MoreBytes, Zenon
<1>2. Begins(s \o t, b)
    BY <1>1 DEF Begins
<1> HIDE DEF b
<1>3. Len(s) \in Nat /\ Len(t) \in Nat
    OBVIOUS
<1>4. Slice(b, Len(s), Len(t)) = t
    BY <1>1, <1>2, PieceAt
<1> DEFINE m == Len(s)
           k == Len(t)
<1>5. m \in Nat /\ k \in Nat /\ m + k <= Len(b) /\ at + w <= k
    BY <1>1, <1>3
<1> HIDE DEF m, k
<1>6. Slice(Slice(b, m, k), at, w) = Slice(b, m + at, w)
    BY ONLY <1>1, <1>5, at \in Nat, w \in Nat, SliceOfSlice, SMTT(30)
<1> QED
    BY <1>4, <1>6, Zenon DEF b, m, k

\* A slice of the first.
LEMMA SliceBefore ==
    ASSUME NEW s \in Seq(Bytes), NEW t \in Seq(Bytes), NEW at \in Nat, NEW w \in Nat,
           at + w <= Len(s)
    PROVE  Slice(s \o t, at, w) = Slice(s, at, w)
<1> DEFINE b == s \o t
<1>1. b \in Seq(Bytes) /\ Len(b) = Len(s) + Len(t)
    BY MoreBytes, Zenon
<1>2. Begins(s \o t, b)
    BY <1>1 DEF Begins
<1> HIDE DEF b
<1>3. Len(s) \in Nat /\ Len(t) \in Nat
    OBVIOUS
<1>4. Begins(s, b)
    BY <1>1, <1>2, PieceAt, Zenon
<1>5. Slice(b, 0, Len(s)) = s
    BY <1>1, <1>4, FirstPiece, Zenon
<1> DEFINE m == Len(s)
           z == 0
<1>6. m \in Nat /\ z \in Nat /\ z + m <= Len(b) /\ at + w <= m /\ z + at = at
    BY <1>1, <1>3
<1> HIDE DEF m, z
<1>7. Slice(Slice(b, z, m), at, w) = Slice(b, z + at, w)
    BY ONLY <1>1, <1>6, at \in Nat, w \in Nat, SliceOfSlice
<1> QED
    BY <1>5, <1>6, <1>7, Zenon DEF b, m, z

\* Where the parts of an encoded list are.
Layout(L, start, bytes) ==
    /\ bytes \in Seq(Bytes)
    /\ OffsetWidth * Len(L) <= Len(bytes)
    /\ Len(L) = 0 => bytes = <<>>
    /\ \A i \in 1 .. Len(L) :
         /\ (i - 1) * OffsetWidth + OffsetWidth <= OffsetWidth * Len(L)
         /\ Slice(bytes, (i - 1) * OffsetWidth, OffsetWidth) = push_offset(start[i])
         /\ start[i] >= OffsetWidth * Len(L)
         /\ start[i] + Len(encode_authorization(L[i])) <= Len(bytes)
         /\ Slice(bytes, start[i], Len(encode_authorization(L[i]))) = encode_authorization(L[i])
         /\ start[i] + Len(encode_authorization(L[i]))
              = IF i = Len(L) THEN Len(bytes) ELSE start[i + 1]

\* An encoded list is laid out as its decoder expects.
LEMMA ListLayout ==
    ASSUME NEW L \in Seq(Authorizations), NEW start, NEW table, NEW parts,
           ListEncoding(L, start, table, parts)
    PROVE  Layout(L, start, table[Len(L)] \o parts[Len(L)])
<1> DEFINE n == Len(L)
           O == OffsetWidth
           offset == [i \in 1 .. n |-> push_offset(start[i])]
           element == [i \in 1 .. n |-> encode_authorization(L[i])]
           t == table[n]
           p == parts[n]
           bytes == t \o p
<1>1. n \in Nat /\ O \in Nat /\ O * n \in Nat /\ \A i \in 1 .. n : start[i] \in Nat
    BY WidthTypes DEF ListEncoding, OffsetsOf
<1>2. /\ n > 0 => start[1] = O * n
      /\ \A i \in 2 .. n : start[i] = start[i - 1] + Len(encode_authorization(L[i - 1]))
      /\ Chain(table, n, offset) /\ Chain(parts, n, element)
    BY Zenon DEF ListEncoding, OffsetsOf
<1>3. \A i \in 1 .. n : offset[i] \in Seq(Bytes) /\ Len(offset[i]) = O /\ offset[i] = push_offset(start[i])
    BY <1>1, OffsetType, Zenon
<1>4. \A i \in 1 .. n : element[i] \in Seq(Bytes) /\ element[i] = encode_authorization(L[i])
    <2>1. \A i \in 1 .. n : L[i] \in Authorizations
        OBVIOUS
    <2> QED
        BY <2>1, AuthorizationRoundTrip, Zenon
<1>5. offset \in [1 .. n -> Seq(Bytes)] /\ element \in [1 .. n -> Seq(Bytes)]
    BY <1>3, <1>4, Zenon
<1> HIDE DEF offset, element, n, O
<1>0. PlacedParts(table, n, offset) /\ PlacedParts(parts, n, element)
    BY ONLY <1>1, <1>2, <1>5, ChainPlaces, Zenon
<1>6. /\ \A i \in 0 .. n : table[i] \in Seq(Bytes)
      /\ Len(table[0]) = 0
      /\ \A i \in 1 .. n :
           /\ Len(table[i]) = Len(table[i - 1]) + Len(offset[i])
           /\ Len(table[i]) <= Len(t)
           /\ Slice(t, Len(table[i - 1]), Len(offset[i])) = offset[i]
    BY ONLY <1>0, Zenon DEF PlacedParts, t, p
<1>7. /\ \A i \in 0 .. n : parts[i] \in Seq(Bytes)
      /\ Len(parts[0]) = 0
      /\ \A i \in 1 .. n :
           /\ Len(parts[i]) = Len(parts[i - 1]) + Len(element[i])
           /\ Len(parts[i]) <= Len(p)
           /\ Slice(p, Len(parts[i - 1]), Len(element[i])) = element[i]
    BY ONLY <1>0, Zenon DEF PlacedParts, t, p
<1>8. \A i \in 0 .. n : Len(table[i]) = i * O
    <2> DEFINE Good == {i \in 0 .. n : Len(table[i]) = i * O}
    <2>1. 0 \in Good
        BY <1>1, <1>6
    <2>2. ASSUME NEW i \in 0 .. n - 1, i \in Good PROVE i + 1 \in Good
        <3>1. i + 1 \in 1 .. n /\ (i + 1) - 1 = i
            BY <1>1
        <3>2. Len(table[i + 1]) = i * O + O
            BY <1>3, <1>6, <2>2, <3>1, Zenon
        <3>3. i * O + O = (i + 1) * O
            BY <1>1
        <3> QED
            BY <3>1, <3>2, <3>3
    <2> HIDE DEF Good
    <2>3. 0 .. n \subseteq Good
        BY ONLY <1>1, <2>1, <2>2, BoundedInduction, Zenon
    <2> QED
        BY <2>3, Zenon DEF Good
<1>9. \A i \in 1 .. n : start[i] = O * n + Len(parts[i - 1])
    <2> DEFINE Good == {i \in 0 .. n : i > 0 => start[i] = O * n + Len(parts[i - 1])}
    <2>1. 0 \in Good
        BY <1>1
    <2>2. ASSUME NEW i \in 0 .. n - 1, i \in Good PROVE i + 1 \in Good
        <3>1. i + 1 \in 1 .. n /\ (i + 1) - 1 = i
            BY <1>1
        <3>2. CASE i = 0
            <4>1. start[1] = O * n /\ n > 0
                BY <1>1, <1>2
            <4>2. Len(parts[0]) = 0 /\ O * n + 0 = O * n
                BY <1>1, <1>7
            <4>3. start[i + 1] = O * n + Len(parts[(i + 1) - 1])
                BY <3>1, <3>2, <4>1, <4>2, SMTT(30)
            <4> QED
                BY <3>1, <4>3
        <3>3. CASE i # 0
            <4>1. i \in 1 .. n /\ i + 1 \in 2 .. n /\ i - 1 \in 0 .. n
                BY <1>1, <3>3
            <4>2. start[i + 1] = start[i] + Len(element[i])
                BY <1>2, <1>4, <3>1, <4>1, Zenon
            <4>3. start[i] = O * n + Len(parts[i - 1])
                BY <2>2, <4>1
            <4>4. Len(parts[i]) = Len(parts[i - 1]) + Len(element[i])
                BY <1>7, <4>1, Zenon
            <4>5. Len(parts[i - 1]) \in Nat /\ Len(element[i]) \in Nat
                BY <1>4, <1>7, <4>1
            <4>6. start[i + 1] = O * n + Len(parts[i])
                <5>1. O * n \in Nat
                    BY <1>1, Zenon
                <5>2. \A f, a, b \in Nat : (f + a) + b = f + (a + b)
                    OBVIOUS
                <5>3. (O * n + Len(parts[i - 1])) + Len(element[i])
                        = O * n + (Len(parts[i - 1]) + Len(element[i]))
                    BY ONLY <4>5, <5>1, <5>2, Zenon
                <5> QED
                    BY ONLY <4>2, <4>3, <4>4, <5>3, Zenon
            <4>7. start[i + 1] = O * n + Len(parts[(i + 1) - 1])
                BY <3>1, <4>6, Zenon
            <4> QED
                BY <3>1, <4>7
        <3> QED
            BY <3>2, <3>3, Zenon
    <2> HIDE DEF Good
    <2>3. 0 .. n \subseteq Good
        BY ONLY <1>1, <2>1, <2>2, BoundedInduction, Zenon
    <2>4. \A i \in 1 .. n : i \in 0 .. n /\ i > 0
        BY <1>1
    <2> QED
        BY ONLY <2>3, <2>4, Zenon DEF Good
<1>10. /\ t \in Seq(Bytes) /\ p \in Seq(Bytes) /\ Len(t) = O * n /\ Len(p) \in Nat
       /\ bytes \in Seq(Bytes) /\ Len(bytes) = O * n + Len(p)
    <2>1. n \in 0 .. n /\ n * O = O * n
        BY <1>1
    <2>2. t \in Seq(Bytes) /\ p \in Seq(Bytes) /\ Len(t) = O * n
        BY <1>6, <1>7, <1>8, <2>1, Zenon
    <2> HIDE DEF t, p
    <2> QED
        BY <2>2, MoreBytes, SMTT(30)
<1> HIDE DEF t, p
<1>11. n = 0 => bytes = <<>>
    <2> SUFFICES ASSUME n = 0 PROVE bytes = <<>>
        BY Zenon
    <2>1. Len(t) = 0 /\ Len(p) = 0
        BY <1>6, <1>7, Zenon DEF t, p
    <2>2. Len(bytes) = 0
        BY <2>1, <1>10, MoreBytes
    <2> HIDE DEF bytes
    <2> QED
        BY <1>10, <2>2
<1>12. ASSUME NEW i \in 1 .. n
       PROVE  /\ (i - 1) * O + O <= O * n
              /\ Slice(bytes, (i - 1) * O, O) = push_offset(start[i])
    <2>1. i - 1 \in 0 .. n /\ i \in 0 .. n
        BY <1>1
    <2>2. Len(table[i - 1]) = (i - 1) * O /\ (i - 1) * O \in Nat
        BY <1>1, <1>6, <1>8, <2>1
    <2>3. Len(offset[i]) = O /\ offset[i] = push_offset(start[i])
        BY <1>3, Zenon
    <2>4. (i - 1) * O + O <= O * n
        BY <1>6, <1>10, <2>2, <2>3, Zenon
    <2>5. Slice(t, (i - 1) * O, O) = offset[i]
        BY <1>6, <2>2, <2>3, Zenon
    <2> DEFINE at == (i - 1) * O
    <2> HIDE DEF at
    <2>6. at \in Nat /\ at + O <= Len(t)
        BY <1>10, <2>2, <2>4, Zenon DEF at
    <2>7. Slice(bytes, at, O) = Slice(t, at, O)
        BY <1>1, <1>10, <2>6, SliceBefore, SMTT(30)
    <2> QED
        BY <2>3, <2>4, <2>5, <2>7, Zenon DEF at
<1>13. ASSUME NEW i \in 1 .. n
       PROVE  /\ start[i] >= O * n
              /\ start[i] + Len(element[i]) <= Len(bytes)
              /\ Slice(bytes, start[i], Len(element[i])) = element[i]
              /\ start[i] + Len(element[i]) = IF i = n THEN Len(bytes) ELSE start[i + 1]
    <2> DEFINE at == Len(parts[i - 1])
               w == Len(element[i])
    <2>1. i - 1 \in 0 .. n /\ i \in 0 .. n
        BY <1>1
    <2>2. at \in Nat /\ w \in Nat
        BY <1>4, <1>7, <2>1
    <2>3. start[i] = O * n + at
        BY <1>9, Zenon
    <2>4. Len(parts[i]) = at + w /\ Len(parts[i]) <= Len(p) /\ Slice(p, at, w) = element[i]
        BY <1>7, Zenon
    <2> HIDE DEF at, w
    <2>5. Slice(bytes, Len(t) + at, w) = Slice(p, at, w)
        BY <1>10, <2>2, <2>4, SliceAfter, ZenonT(40)
    <2>6. start[i] >= O * n /\ start[i] + w <= Len(bytes)
        <3> HIDE DEF bytes
        <3> QED
            BY <1>1, <1>10, <2>2, <2>3, <2>4
    <2>7. start[i] + w = O * n + Len(parts[i])
        BY <1>1, <2>2, <2>3, <2>4
    <2>8. ASSUME i = n PROVE start[i] + w = Len(bytes)
        <3> HIDE DEF bytes
        <3> QED
            BY <1>10, <2>7, <2>8, Zenon DEF p
    <2>9. ASSUME i # n PROVE start[i] + w = start[i + 1]
        <3>1. i + 1 \in 1 .. n /\ (i + 1) - 1 = i
            BY <1>1, <2>9
        <3>2. start[i + 1] = O * n + Len(parts[i])
            BY <1>9, <3>1, Zenon
        <3> HIDE DEF bytes
        <3> QED
            BY <2>7, <2>9, <3>2, Zenon
    <2>10. Slice(bytes, start[i], w) = element[i]
        BY <1>10, <2>3, <2>4, <2>5, Zenon
    <2> QED
        BY ONLY <2>6, <2>8, <2>9, <2>10, Zenon DEF w
<1>14. O * n <= Len(bytes)
    <2> HIDE DEF bytes
    <2> QED
        BY <1>1, <1>10
<1>15. Layout(L, start, bytes)
    <2> HIDE DEF bytes
    <2> QED
        BY <1>4, <1>10, <1>11, <1>12, <1>13, <1>14, Zenon DEF Layout, n, O
<1> QED
    BY <1>15, Zenon DEF bytes, t, p, n

\* A list is decoded to what was encoded where the offsets fit.
LEMMA ListRoundTrip ==
    ASSUME NEW L \in Seq(Authorizations), NEW start, NEW bytes, Layout(L, start, bytes),
           OffsetsOf(L, start),
           \A i \in 1 .. Len(L) : start[i] \in Below(OffsetWidth),
           AUTHORIZATION_FIXED_SIZE \in Below(OffsetWidth)
    PROVE  decode_authorization_list(bytes) = Decoded(L)
<1> DEFINE n == Len(L)
           first_offset == read_offset(bytes, 0)
           count == first_offset \div OffsetWidth
           Start(i) == read_offset(bytes, (i - 1) * OffsetWidth)
           End(i) == IF i = count THEN Len(bytes) ELSE Start(i + 1)
           elements == [i \in 1 .. count |->
                          decode_authorization(SubSeq(bytes, Start(i) + 1, End(i)))]
           list == [i \in 1 .. count |-> CHOOSE a \in elements[i].value : TRUE]
<1>1. decode_authorization_list(bytes) =
        IF bytes = <<>> THEN Decoded(<<>>)
        ELSE IF Len(bytes) < OffsetWidth THEN MalformedSsz
        ELSE IF first_offset = 0 \/ first_offset % OffsetWidth # 0 THEN MalformedSsz
        ELSE IF first_offset > Len(bytes) THEN MalformedSsz
        ELSE IF \E i \in 1 .. count : Start(i) < first_offset \/ Start(i) > Len(bytes)
        THEN MalformedSsz
        ELSE IF \E i \in 1 .. count : End(i) < Start(i) \/ elements[i].error # "Ok"
        THEN MalformedSsz
        ELSE Decoded(list)
    BY Zenon DEF decode_authorization_list
<1>2. CASE n = 0
    <2>1. L = <<>> /\ bytes = <<>>
        BY <1>2 DEF Layout
    <2> HIDE DEF elements, list, Start, End, count, first_offset
    <2> QED
        BY <1>1, <2>1, Zenon
<1>3. CASE n # 0
    <2>1. n \in Nat /\ n > 0 /\ OffsetWidth \in Nat \ {0} /\ 1 \in 1 .. n
          /\ \A i \in 1 .. n : L[i] \in Authorizations
        BY <1>3, WidthTypes
    <2>2. ASSUME NEW i \in 1 .. n PROVE Start(i) = start[i]
        <3>1. Slice(bytes, (i - 1) * OffsetWidth, OffsetWidth) = to_le_bytes(start[i], OffsetWidth)
            BY Zenon DEF Layout, push_offset
        <3> QED
            BY <2>1, <3>1, ReadBack, Zenon DEF read_offset
    <2>3. first_offset = OffsetWidth * n /\ start[1] = OffsetWidth * n
        <3>1. (1 - 1) * OffsetWidth = 0
            BY <2>1
        <3>2. Start(1) = start[1]
            BY <2>1, <2>2, Zenon
        <3>3. start[1] = OffsetWidth * n
            BY <2>1, Zenon DEF OffsetsOf
        <3> QED
            BY ONLY <3>1, <3>2, <3>3, Zenon
    <2>4. count = n /\ first_offset % OffsetWidth = 0
        <3>1. first_offset \in Nat /\ first_offset = n * OffsetWidth + 0 /\ 0 < OffsetWidth
            BY <2>1, <2>3
        <3> HIDE DEF first_offset, n
        <3> QED
            BY <2>1, <3>1, Division, Zenon
    <2>5. ASSUME NEW i \in 1 .. n
          PROVE  /\ Start(i) >= first_offset /\ Start(i) <= Len(bytes) /\ End(i) >= Start(i)
                 /\ elements[i] = Decoded(L[i])
        <3> DEFINE code == encode_authorization(L[i])
        <3>1. code \in Seq(Bytes) /\ decode_authorization(code) = Decoded(L[i])
            BY <2>1, AuthorizationRoundTrip, Zenon
        <3>2. /\ start[i] >= OffsetWidth * n /\ start[i] + Len(code) <= Len(bytes)
              /\ Slice(bytes, start[i], Len(code)) = code
              /\ start[i] + Len(code) = IF i = n THEN Len(bytes) ELSE start[i + 1]
            BY Zenon DEF Layout
        <3>3. Start(i) = start[i] /\ start[i] \in Nat
            BY <2>2, Zenon DEF OffsetsOf
        <3>4. End(i) = start[i] + Len(code)
            <4>1. CASE i = n
                BY <2>4, <3>2, <4>1, Zenon
            <4>2. CASE i # n
                <5>1. i + 1 \in 1 .. n
                    BY <2>1, <4>2
                <5>2. Start(i + 1) = start[i + 1]
                    BY <2>2, <5>1, Zenon
                <5> HIDE DEF Start, count
                <5> QED
                    BY <2>4, <3>2, <4>2, <5>2, Zenon
            <4> QED
                BY <4>1, <4>2, Zenon
        <3>5. SubSeq(bytes, Start(i) + 1, End(i)) = code
            <4> HIDE DEF Start, End, code
            <4> QED
                BY <3>2, <3>3, <3>4, Zenon DEF Slice
        <3>6. elements[i] = decode_authorization(SubSeq(bytes, Start(i) + 1, End(i)))
            BY <2>4, Zenon
        <3>7. Len(code) \in Nat /\ Len(bytes) \in Nat /\ OffsetWidth * n \in Nat
            BY <2>1, <3>1, SMTT(30) DEF Layout
        <3> HIDE DEF Start, End, code, elements, first_offset
        <3>8. Start(i) >= first_offset /\ Start(i) <= Len(bytes) /\ End(i) >= Start(i)
            BY ONLY <2>3, <3>2, <3>3, <3>4, <3>7, SMTT(30)
        <3> QED
            BY <3>1, <3>5, <3>6, <3>8, Zenon
    <2>6. bytes # <<>> /\ ~ Len(bytes) < OffsetWidth /\ first_offset # 0 /\ ~ first_offset > Len(bytes)
        <3>1. Len(bytes) \in Nat /\ OffsetWidth * n \in Nat /\ OffsetWidth * n <= Len(bytes)
            BY <2>1 DEF Layout
        <3>2. OffsetWidth * n >= OffsetWidth
            BY <2>1
        <3> HIDE DEF first_offset
        <3>3. Len(bytes) # 0
            BY <2>1, <3>1, <3>2
        <3> QED
            BY <2>1, <2>3, <3>1, <3>2, <3>3, SMTT(30)
    <2>7. list = L
        <3>1. ASSUME NEW i \in 1 .. n PROVE (CHOOSE a \in elements[i].value : TRUE) = L[i]
            <4> HIDE DEF elements
            <4> QED
                BY <2>5, OnlyValue, Zenon
        <3>2. L = [i \in 1 .. n |-> L[i]]
            OBVIOUS
        <3> HIDE DEF elements, n, count
        <3> QED
            BY <2>4, <3>1, <3>2, Zenon
    <2>8. \A i \in 1 .. n : elements[i].error = "Ok"
        <3> HIDE DEF elements
        <3> QED
            BY <2>5, OnlyValue, ZenonT(40)
    <2>9. /\ ~ \E i \in 1 .. count : Start(i) < first_offset \/ Start(i) > Len(bytes)
          /\ ~ \E i \in 1 .. count : End(i) < Start(i) \/ elements[i].error # "Ok"
        <3>1. /\ first_offset \in Nat /\ Len(bytes) \in Nat
              /\ \A i \in 1 .. n : Start(i) \in Nat /\ End(i) \in Int
            <4>1. first_offset \in Nat /\ Len(bytes) \in Nat /\ \A i \in 1 .. n : Start(i) \in Nat
                <5>1. Len(bytes) \in Nat /\ OffsetWidth * n \in Nat /\ \A i \in 1 .. n : start[i] \in Nat
                    BY <2>1 DEF Layout, OffsetsOf
                <5> HIDE DEF Start, first_offset
                <5> QED
                    BY ONLY <2>2, <2>3, <5>1, Zenon
            <4>2. ASSUME NEW i \in 1 .. n PROVE End(i) \in Int
                <5>1. i # n => i + 1 \in 1 .. n
                    BY <2>1
                <5> HIDE DEF Start, count
                <5> QED
                    BY <2>4, <4>1, <5>1
            <4> QED
                BY <4>1, <4>2, Zenon
        <3> HIDE DEF elements, Start, End, count, first_offset, n
        <3> QED
            BY <2>4, <2>5, <2>8, <3>1
    <2> HIDE DEF elements, Start, End, count, first_offset, n, list
    <2> QED
        BY <1>1, <2>4, <2>6, <2>7, <2>9, Zenon
<1> QED
    BY <1>2, <1>3, Zenon

-----------------------------------------------------------------------------
(* Envelopes.                                                              *)

\* An encoded payload and an encoded list, after the offsets of both.
Framed(p, l) ==
    push_offset(ENVELOPE_FIXED_SIZE) \o push_offset(ENVELOPE_FIXED_SIZE + Len(p)) \o p \o l

\* Both parts of an envelope are found by their offsets.
Frame(bytes, p, l) ==
    /\ bytes \in Seq(Bytes)
    /\ Len(bytes) = ENVELOPE_FIXED_SIZE + Len(p) + Len(l)
    /\ read_offset(bytes, 0) = ENVELOPE_FIXED_SIZE
    /\ read_offset(bytes, OffsetWidth) = ENVELOPE_FIXED_SIZE + Len(p)
    /\ SubSeq(bytes, ENVELOPE_FIXED_SIZE + 1, ENVELOPE_FIXED_SIZE + Len(p)) = p
    /\ From(bytes, ENVELOPE_FIXED_SIZE + Len(p)) = l

\* Both are found where the offsets say.
LEMMA FrameRoundTrip ==
    ASSUME NEW p \in Seq(Bytes), NEW l \in Seq(Bytes),
           ENVELOPE_FIXED_SIZE + Len(p) \in Below(OffsetWidth)
    PROVE  Frame(Framed(p, l), p, l)
<1> DEFINE O == OffsetWidth
           E == ENVELOPE_FIXED_SIZE
           at == E + Len(p)
           x == push_offset(E)
           y == push_offset(at)
           xy == x \o y
           xyp == xy \o p
           bytes == Framed(p, l)
<1>1. O \in Nat /\ E \in Nat /\ E = O + O /\ Len(p) \in Nat /\ Len(l) \in Nat /\ at \in Nat /\ E <= at
    BY WidthTypes DEF ENVELOPE_FIXED_SIZE
<1>2. E \in Below(O) /\ at \in Below(O)
    BY <1>1, FitsType, Zenon
<1>3. x \in Seq(Bytes) /\ Len(x) = O /\ y \in Seq(Bytes) /\ Len(y) = O
    BY <1>1, OffsetType, Zenon
<1>4. bytes = xyp \o l
    BY Zenon DEF Framed
<1>5. x = to_le_bytes(E, O) /\ y = to_le_bytes(at, O)
    BY Zenon DEF push_offset
<1>6. at = E + Len(p)
    BY Zenon
<1> HIDE DEF O, E, x, y, at, bytes
<1>7. xy \in Seq(Bytes) /\ Len(xy) = E
    BY ONLY <1>1, <1>3, MoreBytes, SMTT(30)
<1> HIDE DEF xy
<1>8. xyp \in Seq(Bytes) /\ Len(xyp) = at
    BY <1>6, <1>7, MoreBytes, Zenon
<1> HIDE DEF xyp
<1>9. bytes \in Seq(Bytes) /\ Len(bytes) = at + Len(l)
    BY <1>4, <1>8, MoreBytes, Zenon
<1>10. Begins(xyp \o l, bytes)
    BY <1>4, <1>9 DEF Begins
<1>11. Begins(xyp, bytes) /\ Slice(bytes, at, Len(l)) = l
    BY <1>8, <1>9, <1>10, PieceAt
<1>12. Begins(xy, bytes) /\ Slice(bytes, E, Len(p)) = p
    BY <1>7, <1>9, <1>11, PieceAt DEF xyp
<1>13. Begins(x, bytes) /\ Slice(bytes, O, O) = y
    BY <1>3, <1>9, <1>12, PieceAt DEF xy
<1>14. Slice(bytes, 0, O) = x
    BY <1>3, <1>9, <1>13, FirstPiece, Zenon
<1>15. read_offset(bytes, 0) = E /\ read_offset(bytes, O) = at
    BY <1>1, <1>2, <1>5, <1>13, <1>14, ReadBack, Zenon DEF read_offset, O
<1>16. From(bytes, at) = l
    <2>1. at <= Len(bytes) /\ Len(bytes) - at = Len(l)
        BY <1>1, <1>9
    <2>2. From(bytes, at) = Slice(bytes, at, Len(bytes) - at)
        BY <1>1, <1>9, <2>1, FromIsSlice, Zenon
    <2> QED
        BY <1>11, <2>1, <2>2, Zenon
<1>17. SubSeq(bytes, E + 1, E + Len(p)) = p
    BY <1>12, Zenon DEF Slice
<1> QED
    BY <1>6, <1>9, <1>15, <1>16, <1>17, Zenon DEF Frame, E, O, bytes

\* Whatever is encoded is such a frame, around a list whose offsets fit.
LEMMA EncodedEnvelope ==
    ASSUME NEW e \in Envelopes, NEW bytes \in encode_envelope(e).value
    PROVE  \E start, l :
             /\ encode_envelope(e).value = {bytes}
             /\ bytes = Framed(encode_payload(e.payload), l)
             /\ ENVELOPE_FIXED_SIZE + Len(encode_payload(e.payload)) \in Below(OffsetWidth)
             /\ OffsetsOf(e.authorizations, start)
             /\ Layout(e.authorizations, start, l)
             /\ \A i \in 1 .. Len(e.authorizations) : start[i] \in Below(OffsetWidth)
<1> DEFINE p == encode_payload(e.payload)
           L == e.authorizations
           list == encode_authorization_list(L)
           at == ENVELOPE_FIXED_SIZE + Len(p)
<1>1. L \in Seq(Authorizations)
    BY Zenon DEF Envelopes
<1>2. PICK start, table, parts : ListEncoding(L, start, table, parts)
    BY <1>1, EncodedList, Zenon
<1>3. PICK l : l = table[Len(L)] \o parts[Len(L)]
    BY Zenon
<1>4. Layout(L, start, l) /\ OffsetsOf(L, start)
    BY <1>1, <1>2, <1>3, ListLayout, Zenon DEF ListEncoding
<1>5. list = IF \A i \in 1 .. Len(L) : start[i] \in Below(OffsetWidth)
             THEN Decoded(l) ELSE MalformedSsz
    BY <1>2, <1>3, Zenon DEF ListEncoding
<1>6. encode_envelope(e) =
        IF list.error # "Ok" THEN list
        ELSE IF at \notin Below(OffsetWidth) THEN MalformedSsz
        ELSE Decoded(Framed(p, CHOOSE b \in list.value : TRUE))
    BY Zenon DEF encode_envelope, Framed
<1> HIDE DEF p, L, list, at
<1>7. MalformedSsz.error # "Ok" /\ MalformedSsz.value = {}
    BY Zenon DEF MalformedSsz, Failed
<1>8. \A i \in 1 .. Len(L) : start[i] \in Below(OffsetWidth)
    <2>1. list # MalformedSsz
        BY <1>6, <1>7, Zenon
    <2> QED
        BY <1>5, <2>1, Zenon
<1>9. list = Decoded(l) /\ list.error = "Ok" /\ (CHOOSE b \in list.value : TRUE) = l
    <2>1. list = Decoded(l)
        BY <1>5, <1>8, Zenon
    <2>2. Decoded(l).error = "Ok" /\ (CHOOSE b \in Decoded(l).value : TRUE) = l
        BY OnlyValue
    <2> QED
        BY ONLY <2>1, <2>2, Zenon
<1>10. at \in Below(OffsetWidth)
    BY <1>6, <1>7, <1>9, Zenon
<1>11. encode_envelope(e) = Decoded(Framed(p, l))
    BY <1>6, <1>9, <1>10, Zenon
<1>12. bytes = Framed(p, l) /\ encode_envelope(e).value = {bytes}
    BY <1>11, SMTT(30) DEF Decoded
<1> QED
    BY <1>4, <1>8, <1>10, <1>12, Zenon DEF p, L, at

\* Whatever encode_envelope agrees to encode is decoded to what it was.
LEMMA EnvelopeRoundTrip ==
    ASSUME NEW e \in Envelopes, NEW bytes \in encode_envelope(e).value
    PROVE  /\ bytes \in Seq(Bytes)
           /\ encode_envelope(e).value = {bytes}
           /\ decode_envelope(bytes) = Decoded(e)
<1> DEFINE p == encode_payload(e.payload)
           L == e.authorizations
           E == ENVELOPE_FIXED_SIZE
<1>1. PICK start, l :
        /\ encode_envelope(e).value = {bytes}
        /\ bytes = Framed(p, l)
        /\ E + Len(p) \in Below(OffsetWidth)
        /\ OffsetsOf(L, start)
        /\ Layout(L, start, l)
        /\ \A i \in 1 .. Len(L) : start[i] \in Below(OffsetWidth)
    BY EncodedEnvelope, Zenon
<1>2. /\ e.payload \in Payloads /\ L \in Seq(Authorizations)
      /\ e = [payload |-> e.payload, authorizations |-> L]
    BY Zenon DEF Envelopes, Payloads
<1>3. p \in Seq(Bytes) /\ Len(p) >= 1 + CREATE_FIXED_SIZE /\ Len(p) \in Nat
    BY <1>2, PayloadRoundTrip
<1>4. E \in Nat /\ OffsetWidth \in Nat
    BY WidthTypes, SMTT(30) DEF ENVELOPE_FIXED_SIZE
<1>5. Len(p) \in Below(OffsetWidth) /\ AUTHORIZATION_FIXED_SIZE \in Below(OffsetWidth)
    <2>1. AUTHORIZATION_FIXED_SIZE \in Nat /\ AUTHORIZATION_FIXED_SIZE <= E + Len(p) /\ Len(p) <= E + Len(p)
        BY <1>3, <1>4, SizeTypes
    <2> HIDE DEF p, E
    <2> QED
        BY <1>1, <1>3, <1>4, <2>1, FitsType, Zenon
<1>6. decode_payload(p) = Decoded(e.payload)
    BY <1>2, <1>5, PayloadRoundTrip, Zenon
<1>7. decode_authorization_list(l) = Decoded(L)
    BY <1>1, <1>2, <1>5, ListRoundTrip, Zenon
<1>8. l \in Seq(Bytes)
    BY <1>1, Zenon DEF Layout
<1>9. Frame(bytes, p, l)
    BY <1>1, <1>3, <1>8, FrameRoundTrip, Zenon
<1>10. /\ bytes \in Seq(Bytes)
       /\ read_offset(bytes, 0) = E
       /\ read_offset(bytes, OffsetWidth) = E + Len(p)
       /\ SubSeq(bytes, E + 1, E + Len(p)) = p
       /\ From(bytes, E + Len(p)) = l
    BY <1>9, Zenon DEF Frame
<1>11. ~ Len(bytes) < E /\ ~ E + Len(p) < E /\ ~ E + Len(p) > Len(bytes)
    <2>1. Len(bytes) = E + Len(p) + Len(l) /\ Len(l) \in Nat
        BY <1>8, <1>9 DEF Frame
    <2> QED
        BY <1>3, <1>4, <2>1, SMTT(30)
<1> DEFINE payload_offset == read_offset(bytes, 0)
           authorizations_offset == read_offset(bytes, OffsetWidth)
           payload == decode_payload(SubSeq(bytes, payload_offset + 1, authorizations_offset))
           list == decode_authorization_list(From(bytes, authorizations_offset))
<1>12. decode_envelope(bytes) = Decoded([payload |-> CHOOSE q \in Decoded(e.payload).value : TRUE,
                                          authorizations |-> CHOOSE a \in Decoded(L).value : TRUE])
    <2>1. decode_envelope(bytes) =
            IF Len(bytes) < E THEN MalformedSsz
            ELSE IF payload_offset # E THEN MalformedSsz
            ELSE IF authorizations_offset < payload_offset \/ authorizations_offset > Len(bytes)
            THEN MalformedSsz
            ELSE IF payload.error # "Ok" THEN payload
            ELSE IF list.error # "Ok" THEN list
            ELSE Decoded([payload |-> CHOOSE q \in payload.value : TRUE,
                          authorizations |-> CHOOSE a \in list.value : TRUE])
        BY Zenon DEF decode_envelope
    <2>2. payload_offset = E /\ authorizations_offset = E + Len(p)
        BY <1>10, Zenon
    <2>3. payload = Decoded(e.payload) /\ list = Decoded(L)
        <3> HIDE DEF payload_offset, authorizations_offset, E, p, L
        <3> QED
            BY <1>6, <1>7, <1>10, <2>2, Zenon
    <2> HIDE DEF payload_offset, authorizations_offset, E, p, L, payload, list
    <2> QED
        BY <1>11, <2>1, <2>2, <2>3, OnlyValue, Zenon
<1> HIDE DEF p, L, E, payload_offset, authorizations_offset, payload, list
<1>13. decode_envelope(bytes) = Decoded(e)
    BY <1>2, <1>12, OnlyValue, Zenon
<1> QED
    BY <1>1, <1>10, <1>13, Zenon

-----------------------------------------------------------------------------
(* Whatever is decoded was encoded that way.                               *)

\* s is what comes before a place.
Upto(bytes, s, at) == at \in Nat /\ at <= Len(bytes) /\ s = Slice(bytes, 0, at)

\* The next slice is added to what comes before its place.
LEMMA Grow ==
    ASSUME NEW bytes \in Seq(Bytes), NEW s, NEW at, Upto(bytes, s, at), NEW w \in Nat,
           at + w <= Len(bytes)
    PROVE  Upto(bytes, s \o Slice(bytes, at, w), at + w)
<1> DEFINE z == 0
<1>1. at \in Nat /\ z \in Nat /\ z + at = at /\ z + at + w <= Len(bytes) /\ at + w \in Nat
    BY DEF Upto
<1>2. s = Slice(bytes, z, at)
    BY Zenon DEF Upto
<1> HIDE DEF z
<1>3. Slice(bytes, z, at) \o Slice(bytes, z + at, w) = Slice(bytes, z, at + w)
    BY <1>1, Join, SMTT(30)
<1>4. s \o Slice(bytes, at, w) = Slice(bytes, z, at + w)
    BY <1>1, <1>2, <1>3, Zenon
<1> QED
    BY <1>1, <1>4, Zenon DEF Upto, z

\* The first slice is what comes before its end, and with the rest it is all.
LEMMA StartUpto ==
    ASSUME NEW bytes \in Seq(Bytes), NEW w \in Nat, w <= Len(bytes)
    PROVE  Upto(bytes, Slice(bytes, 0, w), w)
BY Zenon DEF Upto

\* What comes before a place and what follows it are all bytes.
LEMMA AllUpto ==
    ASSUME NEW bytes \in Seq(Bytes), NEW s, NEW at, Upto(bytes, s, at)
    PROVE  s \o From(bytes, at) = bytes /\ From(bytes, at) \in Seq(Bytes)
<1> DEFINE w == Len(bytes) - at
<1>1. at \in Nat /\ at <= Len(bytes) /\ Len(bytes) \in Nat
    BY DEF Upto
<1>2. w \in Nat /\ at + w = Len(bytes)
    BY <1>1
<1>3. From(bytes, at) = Slice(bytes, at, w)
    BY <1>1, FromIsSlice, Zenon
<1> HIDE DEF w
<1>4. Upto(bytes, s \o Slice(bytes, at, w), at + w)
    BY <1>2, Grow
<1>5. s \o Slice(bytes, at, w) = bytes
    BY <1>2, <1>4, Whole, Zenon DEF Upto
<1>6. Slice(bytes, at, w) \in Seq(Bytes)
    BY <1>1, <1>2, SliceType
<1> QED
    BY <1>3, <1>5, <1>6, Zenon

\* The fees that are read are written back.
LEMMA FeesCanonical ==
    ASSUME NEW bytes \in Seq(Bytes), NEW at \in Nat, at + FEES_SIZE <= Len(bytes)
    PROVE  read_fees(bytes, at) \in Fees /\ push_fees(read_fees(bytes, at)) = Slice(bytes, at, FEES_SIZE)
<1> DEFINE R == RootWidth
           f == read_fees(bytes, at)
<1>1. R \in Nat /\ FEES_SIZE = R + R + R /\ 2 * R = R + R
    BY WidthTypes DEF FEES_SIZE
<1>2. /\ f.regular = Slice(bytes, at, R)
      /\ f.max_priority_fee_per_gas = Slice(bytes, at + R, R)
      /\ f.max_witness_priority_fee = Slice(bytes, at + 2 * R, R)
      /\ f = [regular |-> f.regular, max_priority_fee_per_gas |-> f.max_priority_fee_per_gas,
              max_witness_priority_fee |-> f.max_witness_priority_fee]
    BY Zenon DEF read_fees
<1> HIDE DEF R, f
<1>3. at + R + R = at + 2 * R /\ at + R \in Nat /\ at + 2 * R \in Nat /\ at + R + R + R <= Len(bytes)
      /\ at + R + R <= Len(bytes)
    BY <1>1
<1>4. /\ Slice(bytes, at, R) \in Fixed(R) /\ Slice(bytes, at + R, R) \in Fixed(R)
      /\ Slice(bytes, at + 2 * R, R) \in Fixed(R)
    <2>1. at + R <= Len(bytes) /\ (at + R) + R <= Len(bytes) /\ (at + 2 * R) + R <= Len(bytes)
        BY <1>1, <1>3, SMTT(30)
    <2> QED
        BY <1>1, <1>3, <2>1, ReadNumber, Zenon
<1>5. f \in Fees
    BY <1>2, <1>4, Zenon DEF Fees, R
<1>6. Slice(bytes, at, R) \o Slice(bytes, at + R, R) = Slice(bytes, at, R + R)
    BY ONLY <1>1, <1>3, at \in Nat, bytes \in Seq(Bytes), Join, SMTT(30)
<1>7. Slice(bytes, at, R + R) \o Slice(bytes, at + (R + R), R) = Slice(bytes, at, (R + R) + R)
    <2> DEFINE v == R + R
    <2>1. v \in Nat /\ at + v + R <= Len(bytes)
        BY <1>1, <1>3
    <2> HIDE DEF v
    <2>2. Slice(bytes, at, v) \o Slice(bytes, at + v, R) = Slice(bytes, at, v + R)
        BY <1>1, <2>1, Join, Zenon
    <2> QED
        BY <2>2, Zenon DEF v
<1>8. push_fees(f) = Slice(bytes, at, FEES_SIZE)
    <2>1. push_fees(f) = Slice(bytes, at, R) \o Slice(bytes, at + R, R) \o Slice(bytes, at + 2 * R, R)
        BY <1>2, Zenon DEF push_fees
    <2>2. at + (R + R) = at + 2 * R /\ (R + R) + R = FEES_SIZE
        BY <1>1, Zenon
    <2> QED
        BY <1>6, <1>7, <2>1, <2>2, Zenon
<1> QED
    BY <1>5, <1>8, Zenon DEF f

\* So is what payloads have in common.
LEMMA HeadingCanonical ==
    ASSUME NEW bytes \in Seq(Bytes), AfterFees <= Len(bytes), NEW p,
           p.chain_id = Slice(bytes, 0, RootWidth),
           p.nonce = read_uint(bytes, RootWidth, WordWidth),
           p.gas_limit = read_uint(bytes, RootWidth + WordWidth, WordWidth),
           p.fees = read_fees(bytes, RootWidth + 2 * WordWidth)
    PROVE  /\ Upto(bytes, Heading(p), AfterFees)
           /\ p.chain_id \in Fixed(RootWidth) /\ p.nonce \in Below(WordWidth)
           /\ p.gas_limit \in Below(WordWidth) /\ p.fees \in Fees
<1> DEFINE R == RootWidth
           W == WordWidth
           F == FEES_SIZE
<1>1. R \in Nat /\ W \in Nat /\ F \in Nat /\ AfterFees = R + W + W + F /\ R + 2 * W = R + W + W
    <2>1. R \in Nat /\ W \in Nat /\ F \in Nat
        BY ONLY WidthTypes, SizeTypes, Zenon
    <2>2. AfterFees = R + 2 * W + F
        BY Zenon DEF AfterFees
    <2> HIDE DEF R, W, F
    <2> QED
        BY ONLY <2>1, <2>2
<1>2. /\ R <= Len(bytes) /\ R + W <= Len(bytes) /\ (R + W) + W <= Len(bytes)
      /\ (R + W + W) + F <= Len(bytes) /\ R + W \in Nat /\ R + W + W \in Nat /\ Len(bytes) \in Nat
    BY <1>1, SMTT(30)
<1>3. /\ p.chain_id = Slice(bytes, 0, R)
      /\ p.nonce = read_uint(bytes, R, W)
      /\ p.gas_limit = read_uint(bytes, R + W, W)
      /\ p.fees = read_fees(bytes, R + W + W)
    BY <1>1, Zenon
<1> HIDE DEF R, W, F
<1>4. p.chain_id \in Fixed(R)
    <2>1. 0 + R <= Len(bytes) /\ 0 \in Nat
        BY ONLY <1>1, <1>2, SMTT(30)
    <2> QED
        BY <1>1, <1>3, <2>1, ReadNumber, Zenon
<1>5. p.nonce \in Below(W) /\ to_le_bytes(p.nonce, W) = Slice(bytes, R, W)
    BY <1>1, <1>2, <1>3, ReadNumber, SMTT(30)
<1>6. p.gas_limit \in Below(W) /\ to_le_bytes(p.gas_limit, W) = Slice(bytes, R + W, W)
    BY <1>1, <1>2, <1>3, ReadNumber, SMTT(30)
<1>7. p.fees \in Fees /\ push_fees(p.fees) = Slice(bytes, R + W + W, F)
    BY <1>1, <1>2, <1>3, FeesCanonical, Zenon DEF F
<1> DEFINE a == p.chain_id
           b == a \o Slice(bytes, R, W)
           c == b \o Slice(bytes, R + W, W)
           d == c \o Slice(bytes, R + W + W, F)
<1>8. Upto(bytes, a, R)
    BY <1>1, <1>2, <1>3, StartUpto, Zenon
<1>9. Heading(p) = d
    BY <1>5, <1>6, <1>7, Zenon DEF Heading, W
<1> HIDE DEF a
<1>10. Upto(bytes, b, R + W)
    BY <1>1, <1>2, <1>8, Grow, Zenon
<1> HIDE DEF b
<1>11. Upto(bytes, c, (R + W) + W)
    BY <1>1, <1>2, <1>10, Grow, Zenon
<1> HIDE DEF c
<1>12. Upto(bytes, d, (R + W + W) + F)
    BY <1>1, <1>2, <1>11, Grow, Zenon
<1> HIDE DEF d
<1> QED
    BY <1>1, <1>4, <1>5, <1>6, <1>7, <1>9, <1>12, Zenon DEF R, W

\* And the fields at the end.
LEMMA EndCanonical ==
    ASSUME NEW bytes \in Seq(Bytes), NEW s, NEW at, Upto(bytes, s, at), NEW size,
           size = at + RootWidth + OffsetWidth + RootWidth, size <= Len(bytes),
           read_offset(bytes, at + RootWidth) = size
    PROVE  /\ Ending(s, Slice(bytes, at, RootWidth), size,
                     Slice(bytes, at + RootWidth + OffsetWidth, RootWidth), From(bytes, size)) = bytes
           /\ Slice(bytes, at, RootWidth) \in Fixed(RootWidth)
           /\ Slice(bytes, at + RootWidth + OffsetWidth, RootWidth) \in Fixed(RootWidth)
           /\ From(bytes, size) \in Seq(Bytes)
<1> DEFINE R == RootWidth
           O == OffsetWidth
<1>1. R \in Nat /\ O \in Nat /\ at \in Nat /\ size = at + R + O + R /\ size \in Nat /\ Len(bytes) \in Nat
    BY WidthTypes DEF Upto
<1>2. /\ at + R <= Len(bytes) /\ (at + R) + O <= Len(bytes) /\ (at + R + O) + R <= Len(bytes)
      /\ at + R \in Nat /\ at + R + O \in Nat
    BY <1>1
<1>3. read_offset(bytes, at + R) = size
    BY Zenon
<1> HIDE DEF R, O
<1>4. Slice(bytes, at, R) \in Fixed(R) /\ Slice(bytes, at + R + O, R) \in Fixed(R)
    BY <1>1, <1>2, ReadNumber, Zenon
<1>5. push_offset(size) = Slice(bytes, at + R, O)
    BY <1>1, <1>2, <1>3, ReadNumber, Zenon DEF push_offset, read_offset, O
<1> DEFINE a == s \o Slice(bytes, at, R)
           b == a \o Slice(bytes, at + R, O)
           c == b \o Slice(bytes, at + R + O, R)
<1>6. Ending(s, Slice(bytes, at, R), size, Slice(bytes, at + R + O, R), From(bytes, size))
        = c \o From(bytes, size)
    BY <1>5, Zenon DEF Ending
<1>7. Upto(bytes, a, at + R)
    BY <1>1, <1>2, Grow, Zenon
<1> HIDE DEF a
<1>8. Upto(bytes, b, (at + R) + O)
    BY <1>1, <1>2, <1>7, Grow, Zenon
<1> HIDE DEF b
<1>9. Upto(bytes, c, (at + R + O) + R)
    BY <1>1, <1>2, <1>8, Grow, Zenon
<1> HIDE DEF c
<1>10. c \o From(bytes, size) = bytes /\ From(bytes, size) \in Seq(Bytes)
    BY <1>1, <1>9, AllUpto, Zenon
<1> QED
    BY <1>4, <1>6, <1>10, Zenon DEF R, O

\* Errors are not values.
LEMMA ErrorsDiffer ==
    /\ MalformedSsz.error # "Ok" /\ MalformedSsz.value = {}
    /\ \A v : Decoded(v).error = "Ok" /\ Decoded(v).value = {v}
BY Zenon DEF MalformedSsz, Failed, Decoded

\* Bytes taken for a basic payload are what encode_basic writes for it.
LEMMA BasicCanonical ==
    ASSUME NEW bytes \in Seq(Bytes), decode_basic(bytes).error = "Ok"
    PROVE  \E p \in BasicPayloads : decode_basic(bytes) = Decoded(p) /\ encode_basic(p) = bytes
<1> DEFINE R == RootWidth
           A == AddressWidth
           at == AfterFees + A
           size == BASIC_FIXED_SIZE
<1>1. PICK p :
        p = [tag |-> TAG_BASIC,
             chain_id |-> Slice(bytes, 0, RootWidth),
             nonce |-> read_uint(bytes, RootWidth, WordWidth),
             gas_limit |-> read_uint(bytes, RootWidth + WordWidth, WordWidth),
             fees |-> read_fees(bytes, RootWidth + 2 * WordWidth),
             to |-> Slice(bytes, AfterFees, A),
             value |-> Slice(bytes, at, R),
             input |-> From(bytes, size),
             access_commitment |-> Slice(bytes, at + R + OffsetWidth, R)]
    BY Zenon
<1>2. decode_basic(bytes) = IF Len(bytes) < size THEN MalformedSsz
                            ELSE IF read_offset(bytes, at + R) # size THEN MalformedSsz
                            ELSE Decoded(p)
    BY <1>1, Zenon DEF decode_basic
<1>3. ~ Len(bytes) < size /\ read_offset(bytes, at + R) = size /\ decode_basic(bytes) = Decoded(p)
    <2> HIDE DEF size, at, R
    <2> QED
        BY <1>2, ErrorsDiffer, Zenon
<1>4. /\ p.tag = TAG_BASIC
      /\ p.chain_id = Slice(bytes, 0, RootWidth)
      /\ p.nonce = read_uint(bytes, RootWidth, WordWidth)
      /\ p.gas_limit = read_uint(bytes, RootWidth + WordWidth, WordWidth)
      /\ p.fees = read_fees(bytes, RootWidth + 2 * WordWidth)
      /\ p.to = Slice(bytes, AfterFees, A)
      /\ p.value = Slice(bytes, at, R)
      /\ p.input = From(bytes, size)
      /\ p.access_commitment = Slice(bytes, at + R + OffsetWidth, R)
      /\ p = [tag |-> p.tag, chain_id |-> p.chain_id, nonce |-> p.nonce,
              gas_limit |-> p.gas_limit, fees |-> p.fees, to |-> p.to, value |-> p.value,
              input |-> p.input, access_commitment |-> p.access_commitment]
    BY ONLY <1>1, Zenon
<1>5. /\ A \in Nat /\ R \in Nat /\ OffsetWidth \in Nat /\ AfterFees \in Nat
      /\ size = AfterFees + A + R + OffsetWidth + R /\ size \in Nat
    BY ONLY WidthTypes, SizeTypes, Zenon
<1>6. size <= Len(bytes) /\ AfterFees <= Len(bytes) /\ AfterFees + A <= Len(bytes) /\ at \in Nat
      /\ size = at + R + OffsetWidth + R
    <2> HIDE DEF size, R, A
    <2>1. Len(bytes) \in Nat
        BY SMTT(30)
    <2> QED
        BY ONLY <1>3, <1>5, <2>1
<1>7. /\ Upto(bytes, Heading(p), AfterFees)
      /\ p.chain_id \in Fixed(RootWidth) /\ p.nonce \in Below(WordWidth)
      /\ p.gas_limit \in Below(WordWidth) /\ p.fees \in Fees
    BY <1>4, <1>6, HeadingCanonical, Zenon
<1> DEFINE s == Heading(p) \o Slice(bytes, AfterFees, A)
<1>8. Upto(bytes, s, AfterFees + A)
    BY <1>5, <1>6, <1>7, Grow, Zenon
<1> HIDE DEF s
<1>9. /\ Ending(s, p.value, size, p.access_commitment, p.input) = bytes
      /\ p.value \in Fixed(R) /\ p.access_commitment \in Fixed(R) /\ p.input \in Seq(Bytes)
    <2> DEFINE k == AfterFees + A
    <2>1. /\ size = k + RootWidth + OffsetWidth + RootWidth /\ size <= Len(bytes)
          /\ read_offset(bytes, k + RootWidth) = size /\ Upto(bytes, s, k)
          /\ p.value = Slice(bytes, k, RootWidth)
          /\ p.access_commitment = Slice(bytes, k + RootWidth + OffsetWidth, RootWidth)
        BY <1>3, <1>4, <1>6, <1>8, Zenon
    <2> HIDE DEF k, size
    <2>2. /\ Ending(s, Slice(bytes, k, RootWidth), size,
                    Slice(bytes, k + RootWidth + OffsetWidth, RootWidth), From(bytes, size)) = bytes
          /\ Slice(bytes, k, RootWidth) \in Fixed(RootWidth)
          /\ Slice(bytes, k + RootWidth + OffsetWidth, RootWidth) \in Fixed(RootWidth)
          /\ From(bytes, size) \in Seq(Bytes)
        BY <2>1, EndCanonical, Zenon
    <2> QED
        BY <1>4, <2>1, <2>2, Zenon
<1>10. p.to \in Fixed(AddressWidth)
    BY ONLY <1>4, <1>5, <1>6, ReadNumber, SMTT(30)
<1>11. p \in BasicPayloads
    BY ONLY <1>4, <1>7, <1>9, <1>10, Zenon DEF BasicPayloads
<1>12. encode_basic(p) = bytes
    <2>1. encode_basic(p) = Ending(Heading(p) \o p.to, p.value, size, p.access_commitment, p.input)
        BY Zenon DEF encode_basic, Heading, Ending
    <2> QED
        BY <1>4, <1>9, <2>1, Zenon DEF s
<1> QED
    BY <1>3, <1>11, <1>12, Zenon

\* The same of a create payload.
LEMMA CreateCanonical ==
    ASSUME NEW bytes \in Seq(Bytes), decode_create(bytes).error = "Ok"
    PROVE  \E p \in CreatePayloads : decode_create(bytes) = Decoded(p) /\ encode_create(p) = bytes
<1> DEFINE R == RootWidth
           at == AfterFees
           size == CREATE_FIXED_SIZE
<1>1. PICK p :
        p = [tag |-> TAG_CREATE,
             chain_id |-> Slice(bytes, 0, RootWidth),
             nonce |-> read_uint(bytes, RootWidth, WordWidth),
             gas_limit |-> read_uint(bytes, RootWidth + WordWidth, WordWidth),
             fees |-> read_fees(bytes, RootWidth + 2 * WordWidth),
             value |-> Slice(bytes, at, R),
             input |-> From(bytes, size),
             access_commitment |-> Slice(bytes, at + R + OffsetWidth, R)]
    BY ZenonT(40)
<1>2. decode_create(bytes) = IF Len(bytes) < size THEN MalformedSsz
                             ELSE IF read_offset(bytes, at + R) # size THEN MalformedSsz
                             ELSE Decoded(p)
    BY <1>1, Zenon DEF decode_create
<1>3. ~ Len(bytes) < size /\ read_offset(bytes, at + R) = size /\ decode_create(bytes) = Decoded(p)
    <2> HIDE DEF size, at, R
    <2> QED
        BY <1>2, ErrorsDiffer, Zenon
<1>4. /\ p.tag = TAG_CREATE
      /\ p.chain_id = Slice(bytes, 0, RootWidth)
      /\ p.nonce = read_uint(bytes, RootWidth, WordWidth)
      /\ p.gas_limit = read_uint(bytes, RootWidth + WordWidth, WordWidth)
      /\ p.fees = read_fees(bytes, RootWidth + 2 * WordWidth)
      /\ p.value = Slice(bytes, at, R)
      /\ p.input = From(bytes, size)
      /\ p.access_commitment = Slice(bytes, at + R + OffsetWidth, R)
      /\ p = [tag |-> p.tag, chain_id |-> p.chain_id, nonce |-> p.nonce,
              gas_limit |-> p.gas_limit, fees |-> p.fees, value |-> p.value,
              input |-> p.input, access_commitment |-> p.access_commitment]
    BY ONLY <1>1, Zenon
<1>5. /\ R \in Nat /\ OffsetWidth \in Nat /\ AfterFees \in Nat
      /\ size = AfterFees + R + OffsetWidth + R /\ size \in Nat
    BY ONLY WidthTypes, SizeTypes, Zenon
<1>6. size <= Len(bytes) /\ AfterFees <= Len(bytes)
    <2> HIDE DEF size, R
    <2>1. Len(bytes) \in Nat
        OBVIOUS
    <2> QED
        BY ONLY <1>3, <1>5, <2>1
<1>7. /\ Upto(bytes, Heading(p), AfterFees)
      /\ p.chain_id \in Fixed(RootWidth) /\ p.nonce \in Below(WordWidth)
      /\ p.gas_limit \in Below(WordWidth) /\ p.fees \in Fees
    BY <1>4, <1>6, HeadingCanonical, Zenon
<1> DEFINE s == Heading(p)
<1>8. /\ Ending(s, p.value, size, p.access_commitment, p.input) = bytes
      /\ p.value \in Fixed(R) /\ p.access_commitment \in Fixed(R) /\ p.input \in Seq(Bytes)
    <2>1. /\ size = at + RootWidth + OffsetWidth + RootWidth /\ size <= Len(bytes)
          /\ read_offset(bytes, at + RootWidth) = size /\ Upto(bytes, s, at)
          /\ p.value = Slice(bytes, at, RootWidth)
          /\ p.access_commitment = Slice(bytes, at + RootWidth + OffsetWidth, RootWidth)
        BY <1>3, <1>4, <1>5, <1>6, <1>7, Zenon
    <2> HIDE DEF at, size, s
    <2>2. /\ Ending(s, Slice(bytes, at, RootWidth), size,
                    Slice(bytes, at + RootWidth + OffsetWidth, RootWidth), From(bytes, size)) = bytes
          /\ Slice(bytes, at, RootWidth) \in Fixed(RootWidth)
          /\ Slice(bytes, at + RootWidth + OffsetWidth, RootWidth) \in Fixed(RootWidth)
          /\ From(bytes, size) \in Seq(Bytes)
        BY <2>1, EndCanonical, Zenon
    <2> QED
        BY <1>4, <2>1, <2>2, ZenonT(40)
<1>9. p \in CreatePayloads
    BY ONLY <1>4, <1>7, <1>8, Zenon DEF CreatePayloads
<1>10. encode_create(p) = bytes
    <2>1. encode_create(p) = Ending(s, p.value, size, p.access_commitment, p.input)
        BY Zenon DEF encode_create, Heading, Ending
    <2> QED
        BY <1>8, <2>1, Zenon
<1> QED
    BY <1>3, <1>9, <1>10, ZenonT(40)

\* A byte alone.
LEMMA OneByte ==
    ASSUME NEW b \in Bytes
    PROVE  \E x \in Seq(Bytes) : x = <<b>> /\ Len(x) = 1 /\ x[1] = b
<1>1. <<b>> \in Seq(Bytes) /\ Len(<<b>>) = 1 /\ <<b>>[1] = b
    OBVIOUS
<1> QED
    BY <1>1, Zenon

\* Bytes are their head and their tail.
LEMMA HeadAndTail ==
    ASSUME NEW bytes \in Seq(Bytes), bytes # <<>>
    PROVE  /\ Head(bytes) \in Bytes /\ Tail(bytes) \in Seq(Bytes)
           /\ <<Head(bytes)>> \o Tail(bytes) = bytes
<1>1. Head(bytes) \in Bytes /\ Tail(bytes) \in Seq(Bytes) /\ Len(Tail(bytes)) = Len(bytes) - 1
      /\ Head(bytes) = bytes[1] /\ \A i \in 1 .. Len(bytes) - 1 : Tail(bytes)[i] = bytes[i + 1]
    OBVIOUS
<1>2. PICK x \in Seq(Bytes) : x = <<Head(bytes)>> /\ Len(x) = 1 /\ x[1] = bytes[1]
    BY <1>1, OneByte, Zenon
<1>3. PICK t \in Seq(Bytes) : t = Tail(bytes) /\ Len(t) = Len(bytes) - 1
                              /\ \A i \in 1 .. Len(bytes) - 1 : t[i] = bytes[i + 1]
    BY <1>1, Zenon
<1>4. x \o t \in Seq(Bytes) /\ Len(x \o t) = Len(bytes)
    BY <1>2, <1>3, MoreBytes, SMTT(30)
<1>5. ASSUME NEW i \in 1 .. Len(bytes) PROVE (x \o t)[i] = bytes[i]
    <2>1. (x \o t)[i] = IF i <= 1 THEN x[i] ELSE t[i - 1]
        BY <1>2, <1>3, BytesAt
    <2>2. CASE i <= 1
        BY <1>2, <2>1, <2>2
    <2>3. CASE ~ i <= 1
        <3>1. i - 1 \in 1 .. Len(bytes) - 1 /\ (i - 1) + 1 = i
            BY <2>3
        <3> QED
            BY <1>3, <2>1, <2>3, <3>1, Zenon
    <2> QED
        BY <2>2, <2>3, Zenon
<1>6. x \o t = bytes
    BY <1>4, <1>5, SameSequence, Zenon
<1> QED
    BY <1>1, <1>2, <1>3, <1>6, Zenon

\* Bytes taken for a payload are what encode_payload writes for it.
LEMMA PayloadCanonical ==
    ASSUME NEW bytes \in Seq(Bytes), decode_payload(bytes).error = "Ok"
    PROVE  \E p \in Payloads : decode_payload(bytes) = Decoded(p) /\ encode_payload(p) = bytes
<1>1. TAG_BASIC # TAG_CREATE
    BY DEF TAG_BASIC, TAG_CREATE
<1>2. bytes # <<>>
    BY ErrorsDiffer, Zenon DEF decode_payload
<1>3. Tail(bytes) \in Seq(Bytes) /\ <<Head(bytes)>> \o Tail(bytes) = bytes
    BY <1>2, HeadAndTail, Zenon
<1>4. CASE Head(bytes) = TAG_BASIC
    <2>1. decode_payload(bytes) = decode_basic(Tail(bytes))
        BY <1>2, <1>4, Zenon DEF decode_payload
    <2>2. PICK p \in BasicPayloads : decode_basic(Tail(bytes)) = Decoded(p) /\ encode_basic(p) = Tail(bytes)
        BY <1>3, <2>1, BasicCanonical, Zenon
    <2>3. p \in Payloads /\ p.tag = TAG_BASIC
        BY PayloadFields, Zenon DEF Payloads
    <2>4. encode_payload(p) = bytes
        BY <1>3, <1>4, <2>2, <2>3, Zenon DEF encode_payload
    <2> QED
        BY <2>1, <2>2, <2>3, <2>4, Zenon
<1>5. CASE Head(bytes) = TAG_CREATE
    <2>1. decode_payload(bytes) = decode_create(Tail(bytes))
        BY <1>1, <1>2, <1>5, Zenon DEF decode_payload
    <2>2. PICK p \in CreatePayloads : decode_create(Tail(bytes)) = Decoded(p) /\ encode_create(p) = Tail(bytes)
        BY <1>3, <2>1, CreateCanonical, Zenon
    <2>3. p \in Payloads /\ p.tag = TAG_CREATE
        BY PayloadFields, Zenon DEF Payloads
    <2>4. encode_payload(p) = bytes
        BY <1>1, <1>3, <1>5, <2>2, <2>3, Zenon DEF encode_payload
    <2> QED
        BY <2>1, <2>2, <2>3, <2>4, Zenon
<1>6. Failed("UnsupportedPayloadVariant").error # "Ok"
    BY Zenon DEF Failed
<1> QED
    BY <1>2, <1>4, <1>5, <1>6, Zenon DEF decode_payload

\* Bytes taken for an authorization are what encode_authorization writes for it.
LEMMA AuthorizationCanonical ==
    ASSUME NEW bytes \in Seq(Bytes), decode_authorization(bytes).error = "Ok"
    PROVE  \E a \in Authorizations :
             decode_authorization(bytes) = Decoded(a) /\ encode_authorization(a) = bytes
<1> DEFINE R == RootWidth
           O == OffsetWidth
           size == AUTHORIZATION_FIXED_SIZE
<1>1. PICK a : a = [scheme_id |-> Head(bytes), payload_root |-> Slice(bytes, 1, R),
                    signature |-> From(bytes, size)]
    BY Zenon
<1>2. decode_authorization(bytes) = IF Len(bytes) < size THEN MalformedSsz
                                    ELSE IF read_offset(bytes, 1 + R) # size THEN MalformedSsz
                                    ELSE Decoded(a)
    BY <1>1, Zenon DEF decode_authorization
<1>3. ~ Len(bytes) < size /\ read_offset(bytes, 1 + R) = size /\ decode_authorization(bytes) = Decoded(a)
    <2> HIDE DEF size, R
    <2> QED
        BY <1>2, ErrorsDiffer, Zenon
<1>4. /\ a.scheme_id = Head(bytes) /\ a.payload_root = Slice(bytes, 1, R)
      /\ a.signature = From(bytes, size)
      /\ a = [scheme_id |-> a.scheme_id, payload_root |-> a.payload_root, signature |-> a.signature]
    BY ONLY <1>1, Zenon
<1>5. R \in Nat /\ O \in Nat /\ size \in Nat /\ size = 1 + R + O /\ Len(bytes) \in Nat
    BY WidthTypes, SizeTypes DEF AUTHORIZATION_FIXED_SIZE
<1> HIDE DEF R, O, size
<1>6. size <= Len(bytes) /\ 1 <= Len(bytes) /\ 1 + R <= Len(bytes) /\ (1 + R) + O <= Len(bytes) /\ 1 + R \in Nat
    BY ONLY <1>3, <1>5
<1>7. PICK x \in Seq(Bytes) : x = <<Head(bytes)>> /\ x = Slice(bytes, 0, 1) /\ Head(bytes) \in Bytes
    <2>0. bytes # <<>>
        BY <1>6
    <2>1. Head(bytes) = bytes[1] /\ Head(bytes) \in Bytes
        BY <2>0
    <2>2. PICK x \in Seq(Bytes) : x = <<Head(bytes)>> /\ Len(x) = 1 /\ x[1] = bytes[1]
        BY <2>1, OneByte, Zenon
    <2>3. Slice(bytes, 0, 1) \in Seq(Bytes) /\ Len(Slice(bytes, 0, 1)) = 1
          /\ \A i \in 1 .. 1 : Slice(bytes, 0, 1)[i] = bytes[0 + i]
        <3>1. 0 + 1 <= Len(bytes) /\ 0 \in Nat /\ 1 \in Nat
            BY <1>5, <1>6
        <3> QED
            BY <3>1, SliceType, ZenonT(40)
    <2>4. \A i \in 1 .. 1 : i = 1 /\ 0 + i = i
        OBVIOUS
    <2>5. x = Slice(bytes, 0, 1)
        BY ONLY <2>2, <2>3, <2>4, SameSequence, Zenon
    <2> QED
        BY <2>1, <2>2, <2>5, Zenon
<1>8. Upto(bytes, x, 1)
    BY <1>6, <1>7, StartUpto, Zenon
<1>9. push_offset(size) = Slice(bytes, 1 + R, O) /\ a.payload_root \in Fixed(R)
    <2>1. 1 \in Nat
        BY Zenon
    <2>2. to_le_bytes(read_uint(bytes, 1 + R, O), O) = Slice(bytes, 1 + R, O)
        BY <1>5, <1>6, ReadNumber, Zenon
    <2>3. Slice(bytes, 1, R) \in Fixed(R)
        BY <1>5, <1>6, <2>1, ReadNumber, Zenon
    <2> QED
        BY <1>3, <1>4, <2>2, <2>3, Zenon DEF push_offset, read_offset, O
<1> DEFINE y == x \o Slice(bytes, 1, R)
           z == y \o Slice(bytes, 1 + R, O)
<1>10. encode_authorization(a) = z \o From(bytes, size)
    BY <1>4, <1>7, <1>9, Zenon DEF encode_authorization, size
<1>11. Upto(bytes, y, 1 + R)
    BY <1>5, <1>6, <1>8, Grow, Zenon
<1> HIDE DEF y
<1>12. Upto(bytes, z, (1 + R) + O)
    BY <1>5, <1>6, <1>11, Grow, Zenon
<1> HIDE DEF z
<1>13. z \o From(bytes, size) = bytes /\ From(bytes, size) \in Seq(Bytes)
    BY <1>5, <1>12, AllUpto, Zenon
<1>14. a \in Authorizations
    BY <1>4, <1>7, <1>9, <1>13, Zenon DEF Authorizations, R
<1> QED
    BY <1>3, <1>10, <1>13, <1>14, Zenon

\* What the decoder of a list has found when it accepts: n offsets, which cut the bytes
\* after the table into encoded authorizations.
Parsed(bytes, L, S) ==
    /\ L \in Seq(Authorizations) /\ Len(L) > 0
    /\ \A i \in 1 .. Len(L) + 1 : S[i] \in Nat
    /\ S[1] = OffsetWidth * Len(L) /\ S[Len(L) + 1] = Len(bytes) /\ S[1] <= Len(bytes)
    /\ \A i \in 1 .. Len(L) :
         /\ S[i] <= S[i + 1] /\ S[i + 1] <= Len(bytes)
         /\ (i - 1) * OffsetWidth + OffsetWidth <= Len(bytes)
         /\ read_offset(bytes, (i - 1) * OffsetWidth) = S[i]
         /\ encode_authorization(L[i]) = Slice(bytes, S[i], S[i + 1] - S[i])

\* Concatenation of bytes is associative.
LEMMA BytesAssociative ==
    ASSUME NEW s \in Seq(Bytes), NEW t \in Seq(Bytes), NEW u \in Seq(Bytes)
    PROVE  (s \o t) \o u = s \o (t \o u)
BY Associative, SMTT(30)

\* Encoding what was parsed gives the bytes again.
LEMMA ParsedCanonical ==
    ASSUME NEW bytes \in Seq(Bytes), NEW L, NEW S, Parsed(bytes, L, S)
    PROVE  encode_authorization_list(L) = Decoded(bytes)
<1> DEFINE n == Len(L)
           O == OffsetWidth
           Code(i) == encode_authorization(L[i])
<1>1. L \in Seq(Authorizations) /\ n \in Nat /\ n > 0 /\ O \in Nat /\ O * n \in Nat /\ Len(bytes) \in Nat
    BY WidthTypes DEF Parsed
<1>2. PICK start, table, parts : ListEncoding(L, start, table, parts)
    BY <1>1, EncodedList, Zenon
<1>3. /\ \A i \in 1 .. n + 1 : S[i] \in Nat
      /\ S[1] = O * n /\ S[n + 1] = Len(bytes) /\ S[1] <= Len(bytes)
    BY Zenon DEF Parsed
<1>4. ASSUME NEW i \in 1 .. n
      PROVE  /\ S[i] \in Nat /\ S[i + 1] \in Nat /\ S[i + 1] - S[i] \in Nat
             /\ S[i] + (S[i + 1] - S[i]) = S[i + 1] /\ S[i + 1] <= Len(bytes)
             /\ Code(i) = Slice(bytes, S[i], S[i + 1] - S[i])
             /\ Code(i) \in Seq(Bytes) /\ Len(Code(i)) = S[i + 1] - S[i]
    <2> DEFINE w == S[i + 1] - S[i]
    <2>1. i \in 1 .. n + 1 /\ i + 1 \in 1 .. n + 1
        BY <1>1
    <2>2. S[i] \in Nat /\ S[i + 1] \in Nat
        BY <1>3, <2>1, Zenon
    <2>3. S[i] <= S[i + 1] /\ S[i + 1] <= Len(bytes) /\ Code(i) = Slice(bytes, S[i], w)
        BY Zenon DEF Parsed
    <2>4. w \in Nat /\ S[i] + w = S[i + 1]
        BY <2>2, <2>3, SMTT(30)
    <2> HIDE DEF w, Code
    <2>5. Slice(bytes, S[i], w) \in Seq(Bytes) /\ Len(Slice(bytes, S[i], w)) = w
        BY <2>2, <2>3, <2>4, SliceType, SMTT(30)
    <2> QED
        BY <2>2, <2>3, <2>4, <2>5, Zenon DEF w
<1>5. \A i \in 1 .. n : start[i] = S[i]
    <2> DEFINE Good == {i \in 0 .. n : i > 0 => start[i] = S[i]}
    <2>1. 0 \in Good
        BY <1>1, SMTT(30)
    <2>2. ASSUME NEW i \in 0 .. n - 1, i \in Good PROVE i + 1 \in Good
        <3>1. CASE i = 0
            <4>1. start[1] = O * n
                BY <1>1, <1>2, Zenon DEF ListEncoding, OffsetsOf
            <4> QED
                BY <1>1, <1>3, <3>1, <4>1, SMTT(30)
        <3>2. CASE i # 0
            <4>1. i \in 1 .. n /\ i + 1 \in 2 .. n /\ (i + 1) - 1 = i /\ i + 1 \in 0 .. n
                BY <1>1, <3>2, SMTT(30)
            <4>2. start[i + 1] = start[i] + Len(Code(i))
                BY <1>2, <4>1, Zenon DEF ListEncoding, OffsetsOf
            <4>3. start[i] = S[i]
                BY <2>2, <4>1, SMTT(30)
            <4>4. start[i + 1] = S[i + 1]
                BY ONLY <1>4, <4>1, <4>2, <4>3, Zenon
            <4> QED
                BY <4>1, <4>4, Zenon
        <3> QED
            BY <3>1, <3>2, Zenon
    <2> HIDE DEF Good
    <2>3. 0 .. n \subseteq Good
        BY ONLY <1>1, <2>1, <2>2, BoundedInduction, Zenon
    <2>4. \A i \in 1 .. n : i \in 0 .. n /\ i > 0
        BY <1>1
    <2> QED
        BY ONLY <2>3, <2>4, Zenon DEF Good
<1>6. ASSUME NEW i \in 1 .. n
      PROVE  /\ start[i] \in Below(O)
             /\ push_offset(start[i]) = Slice(bytes, (i - 1) * O, O)
             /\ (i - 1) * O \in Nat /\ (i - 1) * O + O <= Len(bytes)
    <2> DEFINE at == (i - 1) * O
    <2>1. at \in Nat
        BY <1>1
    <2>2. at + O <= Len(bytes) /\ read_offset(bytes, at) = S[i]
        BY Zenon DEF Parsed
    <2> HIDE DEF at
    <2>3. read_uint(bytes, at, O) \in Below(O)
          /\ to_le_bytes(read_uint(bytes, at, O), O) = Slice(bytes, at, O)
        BY <1>1, <2>1, <2>2, ReadNumber, Zenon
    <2> QED
        BY <1>5, <2>1, <2>2, <2>3, Zenon DEF at, read_offset, push_offset, O
<1>7. /\ table[0] = <<>> /\ \A i \in 1 .. n : table[i] = table[i - 1] \o push_offset(start[i])
      /\ parts[0] = <<>> /\ \A i \in 1 .. n : parts[i] = parts[i - 1] \o Code(i)
    BY <1>2, Zenon DEF ListEncoding, Chain
<1>8. Upto(bytes, <<>>, 0)
    <2>1. Slice(bytes, 0, 0) = <<>>
        BY DEF Slice
    <2> QED
        BY <1>1, <2>1 DEF Upto
<1>9. \A i \in 0 .. n : Upto(bytes, table[i], i * O)
    <2> DEFINE Good == {i \in 0 .. n : Upto(bytes, table[i], i * O)}
    <2>1. 0 \in Good
        <3>1. 0 * O = 0
            BY <1>1
        <3> QED
            BY <1>1, <1>7, <1>8, <3>1
    <2>2. ASSUME NEW i \in 0 .. n - 1, i \in Good PROVE i + 1 \in Good
        <3>1. i + 1 \in 1 .. n /\ (i + 1) - 1 = i /\ i + 1 \in 0 .. n
            BY <1>1
        <3>2. (i + 1) * O = i * O + O
            BY <1>1
        <3> DEFINE at == i * O
        <3>3. Upto(bytes, table[i], at)
            BY <2>2, Zenon
        <3>4. table[i + 1] = table[i] \o Slice(bytes, at, O) /\ at + O <= Len(bytes)
            BY <1>6, <1>7, <3>1, Zenon
        <3> HIDE DEF at
        <3>5. Upto(bytes, table[i] \o Slice(bytes, at, O), at + O)
            BY <1>1, <3>3, <3>4, Grow, Zenon
        <3> QED
            BY <3>1, <3>2, <3>4, <3>5, Zenon DEF at
    <2> HIDE DEF Good
    <2>3. 0 .. n \subseteq Good
        BY ONLY <1>1, <2>1, <2>2, BoundedInduction, Zenon
    <2> QED
        BY ONLY <2>3, Zenon DEF Good
<1> DEFINE t == table[n]
<1>10. Upto(bytes, t, S[1]) /\ t \in Seq(Bytes)
    <2>1. n \in 0 .. n /\ n * O = O * n
        BY <1>1, SMTT(30)
    <2>2. Upto(bytes, t, S[1])
        BY <1>3, <1>9, <2>1, Zenon
    <2>3. Slice(bytes, 0, S[1]) \in Seq(Bytes)
        <3>1. 0 + S[1] <= Len(bytes) /\ S[1] \in Nat
            BY <1>1, <1>3, SMTT(30)
        <3> QED
            BY <3>1, SliceType, Zenon
    <2> QED
        BY <2>2, <2>3, Zenon DEF Upto
<1> HIDE DEF t
<1>11. \A i \in 0 .. n : parts[i] \in Seq(Bytes) /\ Upto(bytes, t \o parts[i], S[i + 1])
    <2> DEFINE Good == {i \in 0 .. n : parts[i] \in Seq(Bytes) /\ Upto(bytes, t \o parts[i], S[i + 1])}
    <2>1. 0 \in Good
        <3>1. t \o <<>> = t /\ <<>> \in Seq(Bytes) /\ 0 + 1 = 1
            BY <1>10
        <3>2. 0 \in 0 .. n
            BY <1>1
        <3>3. parts[0] \in Seq(Bytes)
            BY <1>7, <3>1, Zenon
        <3>4. Upto(bytes, t \o parts[0], S[0 + 1])
            BY ONLY <1>7, <1>10, <3>1, ZenonT(40)
        <3> QED
            BY ONLY <3>2, <3>3, <3>4, Zenon
    <2>2. ASSUME NEW i \in 0 .. n - 1, i \in Good PROVE i + 1 \in Good
        <3> DEFINE k == i + 1
        <3>1. k \in 1 .. n /\ k - 1 = i /\ k \in 0 .. n
            BY <1>1, SMTT(30)
        <3> DEFINE w == S[k + 1] - S[k]
        <3>2. /\ w \in Nat /\ S[k] + w = S[k + 1] /\ S[k + 1] <= Len(bytes)
              /\ Code(k) = Slice(bytes, S[k], w) /\ Code(k) \in Seq(Bytes)
            BY ONLY <1>4, <3>1, Zenon
        <3>3. parts[i] \in Seq(Bytes) /\ Upto(bytes, t \o parts[i], S[k])
            BY <2>2, Zenon
        <3>4. parts[k] = parts[i] \o Code(k)
            BY <1>7, <3>1, Zenon
        <3> HIDE DEF w, k, Code
        <3>5. parts[k] \in Seq(Bytes)
            BY <3>2, <3>3, <3>4, MoreBytes, Zenon
        <3>6. t \o parts[k] = (t \o parts[i]) \o Code(k)
            <4>0. t \in Seq(Bytes) /\ parts[i] \in Seq(Bytes) /\ Code(k) \in Seq(Bytes)
                BY ONLY <1>10, <3>2, <3>3, Zenon
            <4>1. (t \o parts[i]) \o Code(k) = t \o (parts[i] \o Code(k))
                BY ONLY <4>0, BytesAssociative, ZenonT(40)
            <4> QED
                BY ONLY <3>4, <4>1, Zenon
        <3>7. Upto(bytes, (t \o parts[i]) \o Slice(bytes, S[k], w), S[k] + w)
            <4> DEFINE s == t \o parts[i]
            <4> HIDE DEF s
            <4>1. Upto(bytes, s, S[k])
                BY <3>3, Zenon DEF s
            <4>2. Upto(bytes, s \o Slice(bytes, S[k], w), S[k] + w)
                BY <3>2, <4>1, Grow, Zenon
            <4> QED
                BY <4>2, Zenon DEF s
        <3>8. Upto(bytes, t \o parts[k], S[k + 1])
            BY <3>2, <3>6, <3>7, ZenonT(40)
        <3> QED
            BY <3>1, <3>5, <3>8, Zenon DEF k
    <2> HIDE DEF Good
    <2>3. 0 .. n \subseteq Good
        BY ONLY <1>1, <2>1, <2>2, BoundedInduction, Zenon
    <2> QED
        BY ONLY <2>3, Zenon DEF Good
<1>12. t \o parts[n] = bytes
    <2>1. n \in 0 .. n
        BY <1>1
    <2>2. Upto(bytes, t \o parts[n], Len(bytes))
        BY ONLY <1>3, <1>11, <2>1, Zenon
    <2> QED
        BY <2>2, Whole, Zenon DEF Upto
<1> QED
    BY <1>2, <1>6, <1>12, Zenon DEF ListEncoding, t, O

\* A list that is accepted, and is not empty, has been parsed.
LEMMA ListParsed ==
    ASSUME NEW bytes \in Seq(Bytes), bytes # <<>>, decode_authorization_list(bytes).error = "Ok"
    PROVE  \E L, S : decode_authorization_list(bytes) = Decoded(L) /\ Parsed(bytes, L, S)
<1> DEFINE O == OffsetWidth
           first_offset == read_offset(bytes, 0)
           count == first_offset \div OffsetWidth
           Start(i) == read_offset(bytes, (i - 1) * OffsetWidth)
           End(i) == IF i = count THEN Len(bytes) ELSE Start(i + 1)
           elements == [i \in 1 .. count |->
                          decode_authorization(SubSeq(bytes, Start(i) + 1, End(i)))]
           list == [i \in 1 .. count |-> CHOOSE a \in elements[i].value : TRUE]
           S == [i \in 1 .. count + 1 |-> IF i = count + 1 THEN Len(bytes) ELSE Start(i)]
<1>1. decode_authorization_list(bytes) =
        IF bytes = <<>> THEN Decoded(<<>>)
        ELSE IF Len(bytes) < OffsetWidth THEN MalformedSsz
        ELSE IF first_offset = 0 \/ first_offset % OffsetWidth # 0 THEN MalformedSsz
        ELSE IF first_offset > Len(bytes) THEN MalformedSsz
        ELSE IF \E i \in 1 .. count : Start(i) < first_offset \/ Start(i) > Len(bytes)
        THEN MalformedSsz
        ELSE IF \E i \in 1 .. count : End(i) < Start(i) \/ elements[i].error # "Ok"
        THEN MalformedSsz
        ELSE Decoded(list)
    BY Zenon DEF decode_authorization_list
<1>2. /\ ~ Len(bytes) < OffsetWidth /\ first_offset # 0 /\ first_offset % OffsetWidth = 0
      /\ ~ first_offset > Len(bytes)
      /\ \A i \in 1 .. count : ~ Start(i) < first_offset /\ ~ Start(i) > Len(bytes)
      /\ \A i \in 1 .. count : ~ End(i) < Start(i) /\ elements[i].error = "Ok"
      /\ decode_authorization_list(bytes) = Decoded(list)
    <2> HIDE DEF first_offset, count, Start, End, elements, list
    <2> QED
        BY <1>1, ErrorsDiffer, ZenonT(40)
<1>3. O \in Nat \ {0} /\ Len(bytes) \in Nat /\ O <= Len(bytes)
    BY <1>2, WidthTypes, SMTT(30)
<1>4. first_offset \in Nat
    <2>1. 0 \in Nat /\ 0 + O <= Len(bytes) /\ O \in Nat
        BY <1>3, SMTT(30)
    <2>2. read_uint(bytes, 0, O) \in Below(O)
        BY <2>1, ReadNumber, Zenon
    <2> QED
        BY <1>3, <2>2, WeightStep, SMTT(30) DEF read_offset, Below
<1>5. count \in Nat /\ first_offset = O * count /\ count > 0 /\ first_offset <= Len(bytes)
    <2>1. /\ first_offset \div O \in Nat
          /\ first_offset = (first_offset \div O) * O + (first_offset % O)
        <3> HIDE DEF O, first_offset
        <3> QED
            BY <1>3, <1>4, Divided, Zenon
    <2>2. count \in Nat /\ first_offset = count * O + 0
        <3> HIDE DEF first_offset
        <3> QED
            BY <1>2, <2>1, Zenon
    <2> HIDE DEF first_offset, count, O
    <2>3. count * O + 0 = O * count /\ (count = 0 => O * count = 0)
        BY <1>3, <2>2
    <2> QED
        BY <1>2, <1>3, <1>4, <2>2, <2>3, SMTT(30)
<1>6. ASSUME NEW i \in 1 .. count
      PROVE  (i - 1) * O \in Nat /\ (i - 1) * O + O <= Len(bytes) /\ Start(i) \in Nat
    <2>1. i \in Nat /\ i - 1 \in Nat /\ i <= count
        BY <1>5, SMTT(30)
    <2>2. (i - 1) * O \in Nat /\ (i - 1) * O + O = i * O /\ i * O <= count * O /\ count * O = O * count
        <3> HIDE DEF O, count
        <3> QED
            BY <1>3, <1>5, <2>1, SMTT(30)
    <2> DEFINE at == (i - 1) * O
    <2>3. at \in Nat /\ at + O <= Len(bytes)
        <3> HIDE DEF O, count, first_offset
        <3>1. i * O \in Nat /\ count * O \in Nat
            BY <1>3, <1>5, <2>1, SMTT(30)
        <3> QED
            BY ONLY <1>3, <1>5, <2>2, <3>1, SMTT(30)
    <2> HIDE DEF at
    <2>4. read_uint(bytes, at, O) \in Below(O)
        BY <1>3, <2>3, ReadNumber, Zenon
    <2>5. read_uint(bytes, at, O) \in Nat
        BY <1>3, <2>4, WeightStep, SMTT(30) DEF Below
    <2> QED
        BY <2>3, <2>5, Zenon DEF at, read_offset
<1>7. Start(1) = first_offset
    <2>1. (1 - 1) * OffsetWidth = 0
        BY <1>3, SMTT(30)
    <2> QED
        BY ONLY <2>1, Zenon
<1>8. ASSUME NEW i \in 1 .. count
      PROVE  /\ End(i) \in Nat /\ Start(i) <= End(i) /\ End(i) <= Len(bytes)
             /\ S[i] = Start(i) /\ S[i + 1] = End(i)
    <2>1. i \in Nat /\ i \in 1 .. count + 1 /\ i + 1 \in 1 .. count + 1 /\ i # count + 1
          /\ (i # count => i + 1 \in 1 .. count) /\ (i + 1 = count + 1 <=> i = count)
        <3> HIDE DEF count
        <3> QED
            BY <1>5, SMTT(30)
    <2>2. S[i] = Start(i) /\ S[i + 1] = End(i)
        <3> HIDE DEF count, Start
        <3> QED
            BY ONLY <2>1, Zenon
    <2> HIDE DEF S, count, Start, first_offset
    <2>3. End(i) \in Nat /\ End(i) <= Len(bytes)
        <3>1. CASE i = count
            BY <1>3, <3>1, SMTT(30)
        <3>2. CASE i # count
            <4>1. i + 1 \in 1 .. count
                BY <2>1, <3>2, Zenon
            <4>2. Start(i + 1) \in Nat /\ ~ Start(i + 1) > Len(bytes)
                BY <1>2, <1>6, <4>1, Zenon
            <4> QED
                BY <1>3, <3>2, <4>2, SMTT(30)
        <3> QED
            BY <3>1, <3>2, Zenon
    <2>4. ~ End(i) < Start(i) /\ Start(i) \in Nat
        BY <1>2, <1>6, Zenon
    <2> HIDE DEF End
    <2> QED
        BY <2>2, <2>3, <2>4, SMTT(30)
<1>9. ASSUME NEW i \in 1 .. count
      PROVE  /\ list[i] \in Authorizations
             /\ encode_authorization(list[i]) = Slice(bytes, Start(i), End(i) - Start(i))
    <2> DEFINE w == End(i) - Start(i)
               part == SubSeq(bytes, Start(i) + 1, End(i))
    <2>1. /\ Start(i) \in Nat /\ w \in Nat /\ Start(i) + w = End(i) /\ Start(i) + w <= Len(bytes)
        <3>1. Start(i) \in Nat /\ End(i) \in Nat /\ Start(i) <= End(i) /\ End(i) <= Len(bytes)
            <4> HIDE DEF Start, End, S
            <4> QED
                BY <1>6, <1>8, Zenon
        <3> HIDE DEF Start, End
        <3> QED
            BY ONLY <1>3, <3>1, SMTT(30)
    <2>2. part = Slice(bytes, Start(i), w)
        <3> HIDE DEF w, Start, End
        <3> QED
            BY <2>1, Zenon DEF Slice
    <2>3. part \in Seq(Bytes)
        <3> HIDE DEF w, Start, part
        <3> QED
            BY <2>1, <2>2, SliceType, Zenon
    <2>4. elements[i] = decode_authorization(part) /\ elements[i].error = "Ok"
          /\ list[i] = CHOOSE a \in elements[i].value : TRUE
        <3>1. elements[i] = decode_authorization(part)
            BY Zenon
        <3> HIDE DEF elements, count
        <3>2. list[i] = CHOOSE a \in elements[i].value : TRUE
            BY Zenon
        <3> QED
            BY <1>2, <3>1, <3>2, Zenon
    <2> HIDE DEF part, elements, list, Start, End, w
    <2>5. PICK a \in Authorizations :
            decode_authorization(part) = Decoded(a) /\ encode_authorization(a) = part
        BY <2>3, <2>4, AuthorizationCanonical, Zenon
    <2>6. elements[i].value = {a}
        BY <2>4, <2>5, ErrorsDiffer, ZenonT(40)
    <2>7. list[i] = a
        BY <2>4, <2>6, Zenon
    <2> QED
        BY <2>2, <2>5, <2>7, ZenonT(40) DEF w
<1>10. list \in Seq(Authorizations) /\ Len(list) = count
    <2> HIDE DEF count, elements
    <2>1. list = [i \in 1 .. count |-> list[i]]
        OBVIOUS
    <2> HIDE DEF list
    <2>2. list \in [1 .. count -> Authorizations]
        BY <1>9, <2>1, Zenon
    <2> QED
        BY <1>5, <2>2, SMTT(30)
<1>11. /\ \A i \in 1 .. count + 1 : S[i] \in Nat
       /\ S[count + 1] = Len(bytes) /\ S[1] = first_offset
    <2> HIDE DEF count, Start, first_offset
    <2>1. S[count + 1] = Len(bytes)
        BY <1>5
    <2>2. \A i \in 1 .. count + 1 : i = count + 1 \/ i \in 1 .. count
        BY <1>5
    <2>3. 1 \in 1 .. count
        BY <1>5, SMTT(30)
    <2> HIDE DEF S, End
    <2>4. \A i \in 1 .. count : S[i] \in Nat
        BY <1>6, <1>8, Zenon
    <2>5. S[1] = first_offset
        BY <1>7, <1>8, <2>3, Zenon
    <2> QED
        BY <1>3, <2>1, <2>2, <2>4, <2>5, Zenon
<1>12. Parsed(bytes, list, S)
    <2>1. ASSUME NEW i \in 1 .. count
          PROVE  /\ S[i] <= S[i + 1] /\ S[i + 1] <= Len(bytes)
                 /\ (i - 1) * OffsetWidth + OffsetWidth <= Len(bytes)
                 /\ read_offset(bytes, (i - 1) * OffsetWidth) = S[i]
                 /\ encode_authorization(list[i]) = Slice(bytes, S[i], S[i + 1] - S[i])
        <3>1. read_offset(bytes, (i - 1) * OffsetWidth) = Start(i)
            BY Zenon
        <3> HIDE DEF count, Start, End, S, list, elements
        <3> QED
            BY <1>6, <1>8, <1>9, <3>1, Zenon
    <2> HIDE DEF count, Start, End, S, list, elements, first_offset
    <2> QED
        BY <1>5, <1>10, <1>11, <2>1, Zenon DEF Parsed
<1> HIDE DEF list, S
<1> QED
    BY <1>2, <1>12, Zenon

\* Bytes taken for a list of authorizations are what encode_authorization_list writes for it.
LEMMA ListCanonical ==
    ASSUME NEW bytes \in Seq(Bytes), decode_authorization_list(bytes).error = "Ok"
    PROVE  \E L \in Seq(Authorizations) :
             /\ decode_authorization_list(bytes) = Decoded(L)
             /\ encode_authorization_list(L) = Decoded(bytes)
<1>1. CASE bytes = <<>>
    <2>1. PICK L \in Seq(Authorizations) : L = <<>> /\ Len(L) = 0
        <3>1. <<>> \in Seq(Authorizations) /\ Len(<<>>) = 0
            OBVIOUS
        <3> QED
            BY <3>1, Zenon
    <2>2. decode_authorization_list(bytes) = Decoded(L)
        BY <1>1, <2>1, Zenon DEF decode_authorization_list
    <2>3. PICK start, table, parts : ListEncoding(L, start, table, parts)
        BY EncodedList, Zenon
    <2>4. table[0] = <<>> /\ parts[0] = <<>> /\ \A i \in 1 .. 0 : FALSE
        BY <2>3, SMTT(30) DEF ListEncoding, Chain
    <2>5. encode_authorization_list(L) = Decoded(table[0] \o parts[0])
        BY <2>1, <2>3, <2>4, Zenon DEF ListEncoding
    <2>6. <<>> \o <<>> = <<>>
        OBVIOUS
    <2>7. encode_authorization_list(L) = Decoded(bytes)
        BY <1>1, <2>4, <2>5, <2>6, Zenon
    <2> QED
        BY <2>2, <2>7, Zenon
<1>2. CASE bytes # <<>>
    <2>1. PICK L, S : decode_authorization_list(bytes) = Decoded(L) /\ Parsed(bytes, L, S)
        BY <1>2, ListParsed, Zenon
    <2>2. encode_authorization_list(L) = Decoded(bytes)
        BY <2>1, ParsedCanonical, Zenon
    <2>3. L \in Seq(Authorizations)
        BY <2>1, Zenon DEF Parsed
    <2> QED
        BY <2>1, <2>2, <2>3, Zenon
<1> QED
    BY <1>1, <1>2, Zenon

\* An error comes without a value.
LEMMA PayloadErrors ==
    ASSUME NEW bytes, decode_payload(bytes).error # "Ok"
    PROVE  decode_payload(bytes).value = {}
<1>1. \A b : decode_basic(b).error # "Ok" => decode_basic(b).value = {}
    <2> TAKE b
    <2>1. decode_basic(b) = MalformedSsz \/ \E v : decode_basic(b) = Decoded(v)
        BY Zenon DEF decode_basic
    <2> QED
        BY <2>1, ErrorsDiffer, Zenon
<1>2. \A b : decode_create(b).error # "Ok" => decode_create(b).value = {}
    <2> TAKE b
    <2>1. decode_create(b) = MalformedSsz \/ \E v : decode_create(b) = Decoded(v)
        BY Zenon DEF decode_create
    <2> QED
        BY <2>1, ErrorsDiffer, Zenon
<1>3. Failed("UnsupportedPayloadVariant").value = {}
    BY Zenon DEF Failed
<1>4. \/ decode_payload(bytes) = MalformedSsz
      \/ decode_payload(bytes) = decode_basic(Tail(bytes))
      \/ decode_payload(bytes) = decode_create(Tail(bytes))
      \/ decode_payload(bytes) = Failed("UnsupportedPayloadVariant")
    BY Zenon DEF decode_payload
<1> QED
    BY <1>1, <1>2, <1>3, <1>4, ErrorsDiffer, Zenon

\* So does an error of the list.
LEMMA ListErrors ==
    ASSUME NEW bytes, decode_authorization_list(bytes).error # "Ok"
    PROVE  decode_authorization_list(bytes).value = {}
<1>1. decode_authorization_list(bytes) = MalformedSsz
      \/ \E v : decode_authorization_list(bytes) = Decoded(v)
    BY Zenon DEF decode_authorization_list
<1> QED
    BY <1>1, ErrorsDiffer, Zenon

\* Bytes that are accepted are what is encoded for the envelope they are taken for.
LEMMA EnvelopeCanonical ==
    ASSUME NEW bytes \in Seq(Bytes), NEW e \in decode_envelope(bytes).value
    PROVE  e \in Envelopes /\ encode_envelope(e).value = {bytes}
<1> DEFINE O == OffsetWidth
           E == ENVELOPE_FIXED_SIZE
           payload_offset == read_offset(bytes, 0)
           authorizations_offset == read_offset(bytes, OffsetWidth)
           pb == SubSeq(bytes, payload_offset + 1, authorizations_offset)
           lb == From(bytes, authorizations_offset)
           payload == decode_payload(pb)
           list == decode_authorization_list(lb)
           value == [payload |-> CHOOSE p \in payload.value : TRUE,
                     authorizations |-> CHOOSE a \in list.value : TRUE]
<1>1. decode_envelope(bytes) =
        IF Len(bytes) < E THEN MalformedSsz
        ELSE IF payload_offset # E THEN MalformedSsz
        ELSE IF authorizations_offset < payload_offset \/ authorizations_offset > Len(bytes)
        THEN MalformedSsz
        ELSE IF payload.error # "Ok" THEN payload
        ELSE IF list.error # "Ok" THEN list
        ELSE Decoded(value)
    BY Zenon DEF decode_envelope
<1>2. (payload.error # "Ok" => payload.value = {}) /\ (list.error # "Ok" => list.value = {})
    BY PayloadErrors, ListErrors, ZenonT(40)
<1>3. /\ ~ Len(bytes) < E /\ payload_offset = E
      /\ ~ authorizations_offset < payload_offset /\ ~ authorizations_offset > Len(bytes)
      /\ payload.error = "Ok" /\ list.error = "Ok" /\ e = value
    <2> HIDE DEF E, payload_offset, authorizations_offset, payload, list, value
    <2>1. MalformedSsz.value = {} /\ Decoded(value).value = {value}
        BY ErrorsDiffer, Zenon
    <2>2. decode_envelope(bytes).value # {}
        BY Zenon
    <2>3. /\ ~ Len(bytes) < E /\ payload_offset = E
          /\ ~ (authorizations_offset < payload_offset \/ authorizations_offset > Len(bytes))
          /\ payload.error = "Ok" /\ list.error = "Ok"
        BY ONLY <1>1, <1>2, <2>1, <2>2, Zenon
    <2>4. decode_envelope(bytes) = Decoded(value)
        BY ONLY <1>1, <2>3, Zenon
    <2>5. e = value
        BY <2>1, <2>4, Zenon
    <2> QED
        BY <2>3, <2>5, Zenon
<1>4. O \in Nat /\ E = O + O /\ E \in Nat /\ Len(bytes) \in Nat
    BY WidthTypes, SMTT(30) DEF ENVELOPE_FIXED_SIZE
<1>5. 0 \in Nat /\ 0 + O <= Len(bytes) /\ O + O <= Len(bytes) /\ O <= Len(bytes)
    <2> HIDE DEF O, E, payload_offset, authorizations_offset
    <2> QED
        BY <1>3, <1>4
<1>6. /\ authorizations_offset \in Below(O)
      /\ push_offset(E) = Slice(bytes, 0, O)
      /\ push_offset(authorizations_offset) = Slice(bytes, O, O)
    <2>1. to_le_bytes(read_uint(bytes, 0, O), O) = Slice(bytes, 0, O)
        BY <1>4, <1>5, ReadNumber, Zenon
    <2>2. /\ read_uint(bytes, O, O) \in Below(O)
          /\ to_le_bytes(read_uint(bytes, O, O), O) = Slice(bytes, O, O)
        BY <1>4, <1>5, ReadNumber, Zenon
    <2> QED
        BY <1>3, <2>1, <2>2, ZenonT(40) DEF push_offset, read_offset
<1> DEFINE ao == authorizations_offset
<1>7. ao \in Nat /\ E <= ao /\ ao <= Len(bytes)
    <2>1. ao \in Nat
        BY <1>4, <1>6, WeightStep, SMTT(30) DEF Below
    <2> HIDE DEF E, payload_offset, authorizations_offset
    <2> QED
        BY <1>3, <1>4, <2>1, SMTT(30)
<1> DEFINE w == ao - E
<1>8. w \in Nat /\ E + w = ao
    <2> HIDE DEF E, authorizations_offset
    <2> QED
        BY <1>4, <1>7
<1>9. pb = Slice(bytes, E, w)
    <2> HIDE DEF E, payload_offset, authorizations_offset, w
    <2> QED
        BY <1>3, <1>8, ZenonT(40) DEF Slice
<1> HIDE DEF payload_offset, authorizations_offset, ao, w
<1>10. pb \in Seq(Bytes) /\ Len(pb) = w
    <2> HIDE DEF pb, E
    <2> QED
        BY <1>4, <1>7, <1>8, <1>9, SliceType, SMTT(30)
<1> DEFINE x == Slice(bytes, 0, O)
           y == x \o Slice(bytes, O, O)
           z == y \o Slice(bytes, E, w)
<1>11. Framed(pb, lb) = z \o From(bytes, ao)
    <2>1. E + Len(pb) = ao
        BY <1>8, <1>10, Zenon
    <2>2. Framed(pb, lb) = push_offset(E) \o push_offset(ao) \o pb \o lb
        <3> HIDE DEF pb, lb, ao
        <3> QED
            BY <2>1, ZenonT(40) DEF Framed
    <2>3. push_offset(ao) = Slice(bytes, O, O)
        BY <1>6, Zenon DEF ao
    <2>4. lb = From(bytes, ao)
        BY Zenon DEF ao
    <2> HIDE DEF pb, lb
    <2> QED
        BY <1>6, <1>9, <2>2, <2>3, <2>4, ZenonT(40)
<1> HIDE DEF E, O
<1>12. Upto(bytes, x, O)
    BY <1>4, <1>5, StartUpto, Zenon
<1> HIDE DEF x
<1>13. Upto(bytes, y, O + O)
    BY <1>4, <1>5, <1>12, Grow, Zenon
<1> HIDE DEF y
<1>14. Upto(bytes, z, E + w)
    <2>1. Upto(bytes, y, E) /\ E + w <= Len(bytes)
        BY <1>4, <1>7, <1>8, <1>13, Zenon
    <2> QED
        BY <1>8, <2>1, Grow, Zenon
<1> HIDE DEF z
<1>15. Framed(pb, lb) = bytes /\ lb \in Seq(Bytes)
    <2>1. Upto(bytes, z, ao)
        BY <1>8, <1>14, Zenon
    <2>2. lb = From(bytes, ao)
        BY Zenon DEF ao
    <2> HIDE DEF lb, pb
    <2> QED
        BY <1>11, <2>1, <2>2, AllUpto, ZenonT(40)
<1> HIDE DEF pb, lb
<1>16. PICK p \in Payloads : payload = Decoded(p) /\ encode_payload(p) = pb
    BY <1>3, <1>10, PayloadCanonical, Zenon
<1>17. PICK L \in Seq(Authorizations) : list = Decoded(L) /\ encode_authorization_list(L) = Decoded(lb)
    BY <1>3, <1>15, ListCanonical, Zenon
<1> HIDE DEF payload, list
<1>18. e = [payload |-> p, authorizations |-> L]
    <2>1. (CHOOSE q \in Decoded(p).value : TRUE) = p /\ (CHOOSE a \in Decoded(L).value : TRUE) = L
        BY OnlyValue
    <2>2. value = [payload |-> CHOOSE q \in Decoded(p).value : TRUE,
                   authorizations |-> CHOOSE a \in Decoded(L).value : TRUE]
        BY <1>16, <1>17, ZenonT(40)
    <2> HIDE DEF value
    <2> QED
        BY <1>3, <2>1, <2>2, ZenonT(40)
<1>19. e.payload = p /\ e.authorizations = L /\ e \in Envelopes
    BY <1>18, Zenon DEF Envelopes, Payloads
<1>20. encode_envelope(e) = Decoded(bytes)
    <2>1. encode_envelope(e) =
            IF encode_authorization_list(e.authorizations).error # "Ok"
            THEN encode_authorization_list(e.authorizations)
            ELSE IF ENVELOPE_FIXED_SIZE + Len(encode_payload(e.payload)) \notin Below(OffsetWidth)
            THEN MalformedSsz
            ELSE Decoded(Framed(encode_payload(e.payload),
                   CHOOSE b \in encode_authorization_list(e.authorizations).value : TRUE))
        BY Zenon DEF encode_envelope, Framed
    <2>2. encode_payload(e.payload) = pb /\ encode_authorization_list(e.authorizations) = Decoded(lb)
        BY <1>16, <1>17, <1>19, ZenonT(40)
    <2>3. ENVELOPE_FIXED_SIZE + Len(pb) \in Below(OffsetWidth)
        BY <1>6, <1>8, <1>10, Zenon DEF ao, E, O
    <2>4. Decoded(lb).error = "Ok" /\ (CHOOSE b \in Decoded(lb).value : TRUE) = lb
        BY OnlyValue
    <2>5. encode_envelope(e) = Decoded(Framed(pb, lb))
        BY ONLY <2>1, <2>2, <2>3, <2>4, ZenonT(40)
    <2> QED
        BY <1>15, <2>5, Zenon
<1> QED
    BY <1>19, <1>20, ErrorsDiffer, Zenon

\* What is under way is one message of bytes, undamaged it is the encoding of what was sent,
\* and what was received was decoded from it.
WireInv ==
    /\ damage \in Nat
    /\ wire \subseteq Seq(Bytes)
    /\ \A a, b \in wire : a = b
    /\ wire # {} => sent \in Envelopes
    /\ damage = 0 => wire = {} \/ wire = encode_envelope(sent).value
    /\ received # None => \E bytes \in wire : received = decode_envelope(bytes)

\* Damage leaves bytes.
LEMMA DamagedType ==
    ASSUME NEW bytes \in Seq(Bytes), NEW other \in Damaged(bytes)
    PROVE  other \in Seq(Bytes)
<1>1. CASE \E i \in DOMAIN bytes, b \in Bytes : other = [bytes EXCEPT ![i] = b]
    BY <1>1
<1>2. CASE \E n \in 0 .. Len(bytes) - 1 : other = SubSeq(bytes, 1, n)
    BY <1>2
<1>3. CASE \E b \in Bytes : other = Append(bytes, b)
    BY <1>3
<1> QED
    BY <1>1, <1>2, <1>3, SMTT(30) DEF Damaged

\* The invariant holds in all states.
LEMMA WireInvariant == Spec => []WireInv
<1>1. Init => WireInv
    BY SMTT(30) DEF Init, WireInv
<1>2. WireInv /\ [Next]_vars => WireInv'
    <2> SUFFICES ASSUME WireInv, [Next]_vars PROVE WireInv'
        BY Zenon
    <2>1. ASSUME NEW e \in Sendable, Send(e) PROVE WireInv'
        <3>1. e \in Envelopes
            BY SendableAreEnvelopes, Zenon
        <3>2. \A bytes \in encode_envelope(e).value :
                bytes \in Seq(Bytes) /\ encode_envelope(e).value = {bytes}
            BY <3>1, EnvelopeRoundTrip, ZenonT(40)
        <3>3. sent' = e /\ wire' = encode_envelope(e).value /\ damage' = 0 /\ received' = None
            BY <2>1, Zenon DEF Send
        <3>4. wire' \subseteq Seq(Bytes) /\ \A a, b \in wire' : a = b
            BY <3>2, <3>3, Zenon
        <3> QED
            BY <3>1, <3>3, <3>4, Zenon DEF WireInv
    <2>2. CASE DamageBytes
        <3>1. PICK bytes \in wire : \E other \in Damaged(bytes) \ {bytes} : wire' = {other}
            BY <2>2, Zenon DEF DamageBytes
        <3>2. PICK other \in Damaged(bytes) : wire' = {other}
            BY <3>1, Zenon
        <3>3. other \in Seq(Bytes)
            BY DamagedType, Zenon DEF WireInv
        <3>4. damage' = damage + 1 /\ received' = None /\ damage \in Nat
            BY <2>2, Zenon DEF DamageBytes, WireInv
        <3>6. sent' \in Envelopes
            BY <2>2, <3>1, Zenon DEF DamageBytes, WireInv
        <3>5. damage' \in Nat /\ damage' # 0
            BY <3>4
        <3> QED
            BY <3>2, <3>3, <3>4, <3>5, <3>6, Zenon DEF WireInv
    <2>3. CASE Receive
        <3>1. PICK bytes \in wire : received' = decode_envelope(bytes)
            BY <2>3, Zenon DEF Receive
        <3>2. sent' = sent /\ wire' = wire /\ damage' = damage
            BY <2>3, Zenon DEF Receive
        <3> QED
            BY <3>1, <3>2, Zenon DEF WireInv
    <2>4. CASE UNCHANGED vars
        BY <2>4, Zenon DEF WireInv, vars
    <2> QED
        BY <2>1, <2>2, <2>3, <2>4, Zenon DEF Next
<1> QED
    BY <1>1, <1>2, PTL DEF Spec

\* An envelope that from_wire_bytes reads from undamaged bytes is the one that
\* to_wire_bytes was given, whatever the widths of the fields and the envelopes sent.
THEOREM WhatArrivesIsWhatWasSent == Spec => []RoundTrip
<1>1. WireInv => RoundTrip
    <2> SUFFICES ASSUME WireInv, received # None, damage = 0 PROVE received = Decoded(sent)
        BY Zenon DEF RoundTrip
    <2>1. PICK bytes \in wire : received = decode_envelope(bytes)
        BY Zenon DEF WireInv
    <2>2. sent \in Envelopes /\ bytes \in encode_envelope(sent).value
        BY Zenon DEF WireInv
    <2> QED
        BY <2>1, <2>2, EnvelopeRoundTrip, Zenon
<1> QED
    BY <1>1, WireInvariant, PTL

\* Bytes that from_wire_bytes accepts, damaged or not, are what to_wire_bytes writes for the
\* envelope it returns, and that envelope has all its fields.
THEOREM AcceptedBytesAreCanonical == Spec => []DecodingIsCanonical
<1>1. WireInv => DecodingIsCanonical
    <2> SUFFICES ASSUME WireInv, NEW envelope \in Taken
                 PROVE  envelope \in Envelopes /\ encode_envelope(envelope).value = wire
        BY Zenon DEF DecodingIsCanonical
    <2>1. received # None /\ envelope \in received.value
        BY Zenon DEF Taken
    <2>2. PICK bytes \in wire : received = decode_envelope(bytes)
        BY <2>1, Zenon DEF WireInv
    <2>3. bytes \in Seq(Bytes) /\ wire = {bytes}
        BY Zenon DEF WireInv
    <2> QED
        BY <2>1, <2>2, <2>3, EnvelopeCanonical, ZenonT(40)
<1> QED
    BY <1>1, WireInvariant, PTL

=============================================================================
