--------------------------- MODULE NaturalLemmas ----------------------------
(***************************************************************************)
(* Facts about the naturals in the form the other proofs use them: the     *)
(* least-number principle, for the first check that fails and the first    *)
(* entry that is found, and what follows from it, induction over a set and *)
(* definition by recursion, for what a loop has computed after n turns.    *)
(*                                                                         *)
(* They speak of sets and functions where the library's theorems speak of  *)
(* operators, so that the provers can instantiate them.                    *)
(***************************************************************************)
EXTENDS Naturals, WellFoundedInduction, TLAPS

\* A non-empty set of naturals has a least element.
LEMMA LeastNatural ==
    ASSUME NEW T \in SUBSET Nat, T # {}
    PROVE  \E least \in T : \A n \in T : least <= n
<1> DEFINE Below == {pair \in Nat \X Nat : pair[1] < pair[2]}
<1>1. Below = OpToRel(<, Nat)
    BY Zenon DEF OpToRel
<1>2. IsWellFoundedOn(Below, Nat)
    BY <1>1, NatLessThanWellFounded, Zenon
<1>3. PICK least \in T : \A n \in T : ~ (<<n, least>> \in Below)
    BY <1>2, WFMin, Zenon
<1>4. ASSUME NEW n \in T PROVE least <= n
    <2>1. ~ (<<n, least>> \in Below)
        BY <1>3
    <2>2. <<n, least>> \in Nat \X Nat
        OBVIOUS
    <2>3. ~ (n < least)
        BY <2>1, <2>2
    <2> QED
        BY <2>3
<1> QED
    BY <1>4

\* A set with 0 that has n + 1 whenever it has n, below a bound, has every number
\* up to the bound.
LEMMA BoundedInduction ==
    ASSUME NEW N \in Nat, NEW S, 0 \in S,
           \A n \in 0 .. N - 1 : n \in S => n + 1 \in S
    PROVE  0 .. N \subseteq S
<1> DEFINE Missing == (0 .. N) \ S
<1> SUFFICES ASSUME Missing # {} PROVE FALSE
    OBVIOUS
<1>1. PICK least \in Missing : \A n \in Missing : least <= n
    <2>1. Missing \in SUBSET Nat
        OBVIOUS
    <2> QED
        BY ONLY <2>1, LeastNatural, Missing # {}, Zenon
<1>2. least # 0 /\ least - 1 \in 0 .. N - 1 /\ (least - 1) + 1 = least
    BY <1>1
<1>3. least - 1 \in S
    BY <1>1, <1>2
<1> QED
    BY <1>1, <1>2, <1>3

\* A function that starts with init and moves from n - 1 to n by step[n].
Follows(f, N, init, step) == f[0] = init /\ \A n \in 1 .. N : f[n] = step[n][f[n - 1]]

\* Where a first value and a step from each value to the next are given, there is
\* a function that starts with the one and moves by the other.
LEMMA Recursion ==
    ASSUME NEW N \in Nat, NEW S, NEW init \in S, NEW step \in [1 .. N -> [S -> S]]
    PROVE  \E f \in [0 .. N -> S] : Follows(f, N, init, step)
<1> DEFINE Reached == {m \in 0 .. N : \E f \in [0 .. m -> S] : Follows(f, m, init, step)}
<1>1. 0 \in Reached
    <2>1. [i \in 0 .. 0 |-> init] \in [0 .. 0 -> S] /\ Follows([i \in 0 .. 0 |-> init], 0, init, step)
        BY DEF Follows
    <2>2. \E f \in [0 .. 0 -> S] : Follows(f, 0, init, step)
        BY <2>1
    <2> QED
        BY <2>2
<1>2. ASSUME NEW m \in 0 .. N - 1, m \in Reached PROVE m + 1 \in Reached
    <2>1. PICK f \in [0 .. m -> S] : Follows(f, m, init, step)
        BY <1>2
    <2> DEFINE next == step[m + 1][f[m]]
               g == [i \in 0 .. m + 1 |-> IF i <= m THEN f[i] ELSE next]
    <2>2. next \in S
        OBVIOUS
    <2>3. g \in [0 .. m + 1 -> S]
        BY <2>2
    <2>4. ASSUME NEW n \in 1 .. m + 1 PROVE g[n] = step[n][g[n - 1]]
        <3>1. CASE n <= m
            BY <3>1, <2>1 DEF Follows
        <3>2. CASE n = m + 1
            BY <3>2
        <3> QED
            BY <3>1, <3>2
    <2>5. g[0] = init
        BY <2>1 DEF Follows
    <2> HIDE DEF g
    <2> QED
        BY <2>3, <2>4, <2>5, SMTT(30) DEF Follows
<1> HIDE DEF Reached
<1>3. 0 .. N \subseteq Reached
    BY <1>1, <1>2, BoundedInduction, Zenon
<1> QED
    BY <1>3 DEF Reached

\* Two functions that start alike and move alike are the same as far as both go.
LEMMA SameRecursion ==
    ASSUME NEW N \in Nat, NEW init, NEW step, NEW f, NEW g,
           Follows(f, N, init, step), Follows(g, N, init, step)
    PROVE  \A n \in 0 .. N : f[n] = g[n]
<1> DEFINE Same == {n \in 0 .. N : f[n] = g[n]}
<1>1. 0 \in Same
    BY DEF Follows
<1>2. ASSUME NEW n \in 0 .. N - 1, n \in Same PROVE n + 1 \in Same
    <2>1. n + 1 \in 1 .. N /\ (n + 1) - 1 = n /\ f[n] = g[n]
        BY <1>2
    <2> QED
        BY <2>1 DEF Follows
<1> HIDE DEF Same
<1>3. 0 .. N \subseteq Same
    BY <1>1, <1>2, BoundedInduction
<1> QED
    BY <1>3 DEF Same

\* The same without a bound.
FollowsForever(f, init, step) ==
    f[0] = init /\ \A n \in Nat \ {0} : f[n] = step[n][f[n - 1]]

\* Recursion without a bound.
LEMMA UnboundedRecursion ==
    ASSUME NEW S, NEW init \in S, NEW step \in [Nat \ {0} -> [S -> S]]
    PROVE  \E f \in [Nat -> S] : FollowsForever(f, init, step)
<1> DEFINE Upto(n) == {f \in [0 .. n -> S] : Follows(f, n, init, step)}
           g(n) == CHOOSE f \in Upto(n) : TRUE
           f == [n \in Nat |-> g(n)[n]]
<1>1. ASSUME NEW n \in Nat PROVE Upto(n) # {}
    <2> DEFINE first == [i \in 1 .. n |-> step[i]]
    <2>1. first \in [1 .. n -> [S -> S]]
        OBVIOUS
    <2>2. PICK h \in [0 .. n -> S] : Follows(h, n, init, first)
        <3> HIDE DEF first
        <3> QED BY <2>1, Recursion
    <2>3. Follows(h, n, init, step)
        BY <2>2 DEF Follows
    <2> QED
        BY <2>2, <2>3
<1>2. ASSUME NEW n \in Nat PROVE g(n) \in Upto(n)
    BY <1>1
<1>3. f \in [Nat -> S]
    <2>1. ASSUME NEW n \in Nat PROVE g(n)[n] \in S
        <3>1. g(n) \in [0 .. n -> S]
            BY <1>2
        <3> QED
            BY <3>1
    <2> QED
        BY <2>1
<1>4. ASSUME NEW n \in Nat PROVE Follows(g(n), n, init, step)
    BY <1>2
<1> HIDE DEF g
<1>5. f[0] = init
    BY <1>4 DEF Follows
<1>6. ASSUME NEW n \in Nat \ {0} PROVE f[n] = step[n][f[n - 1]]
    <2>1. n - 1 \in Nat /\ n \in 1 .. n /\ n - 1 \in 0 .. n - 1
        OBVIOUS
    <2>2. Follows(g(n), n - 1, init, step)
        BY <1>4 DEF Follows
    <2>3. Follows(g(n - 1), n - 1, init, step)
        BY <2>1, <1>4
    <2>4. g(n)[n - 1] = g(n - 1)[n - 1]
        BY ONLY <2>1, <2>2, <2>3, SameRecursion
    <2>5. g(n)[n] = step[n][g(n)[n - 1]]
        BY <2>1, <1>4 DEF Follows
    <2> QED
        BY <2>1, <2>4, <2>5
<1> QED
    BY <1>3, <1>5, <1>6, Zenon DEF FollowsForever

\* A non-empty set of numbers up to a bound has a greatest element.
LEMMA GreatestUpTo ==
    ASSUME NEW N \in Nat, NEW T \in SUBSET (1 .. N), T # {}
    PROVE  \E greatest \in T : \A n \in T : n <= greatest
<1> DEFINE Distances == {N - n : n \in T}
<1>1. Distances \in SUBSET Nat /\ Distances # {}
    <2>1. PICK n \in T : TRUE
        BY Zenon
    <2>2. N - n \in Distances
        BY <2>1
    <2>3. \A m \in T : N - m \in Nat
        OBVIOUS
    <2>4. Distances \subseteq Nat
        BY <2>3
    <2> QED
        BY <2>2, <2>4
<1>2. PICK least \in Distances : \A d \in Distances : least <= d
    <2> HIDE DEF Distances
    <2> QED
        BY <1>1, LeastNatural
<1>3. PICK greatest \in T : least = N - greatest
    BY <1>2
<1>4. ASSUME NEW n \in T PROVE n <= greatest
    BY <1>2, <1>3
<1> QED
    BY <1>4

=============================================================================
