------------------------------ MODULE LoopLemmas ------------------------------
(****************************************************************************)
(* Induction over numbers in the form of sets, for what the program does in *)
(* loops: a loop of n turns has a result, what holds before it and is kept  *)
(* by every turn holds after it, and a list sorted by counting what comes   *)
(* before each item has every item once.                                    *)
(****************************************************************************)
EXTENDS Integers, FiniteSets, FiniteSetTheorems, TLAPS

\* A set of natural numbers has a least one: the least counterexample.
LEMMA LeastExists ==
  ASSUME NEW S \in SUBSET Nat, S # {}
  PROVE  \E x \in S : \A y \in S : x <= y
<1>1. PICK x \in S : \A y \in S : ~(<<y, x>> \in OpToRel(<, Nat))
  BY NatLessThanWellFounded, WFMin
<1>2. ASSUME NEW y \in S
      PROVE  x <= y
  <2>1. <<y, x>> \notin {ss \in Nat \X Nat : ss[1] < ss[2]}
    BY <1>1 DEF OpToRel
  <2>2. ~(y < x)
    BY <2>1
  <2> QED
    BY <2>2
<1> QED
  BY <1>2

\* A loop of n turns: what it starts with, and the state after each turn.
Turning(P, n) == [P \X (1..n) -> P]
Unfoldings(P, n, start, step) ==
  {f \in [0..n -> P] : f[0] = start /\ \A i \in 1..n : f[i] = step[<<f[i - 1], i>>]}

\* However many turns, there is what the loop computes.
LEMMA LoopExists ==
  ASSUME NEW P, NEW n \in Nat, NEW start \in P, NEW step \in Turning(P, n)
  PROVE  Unfoldings(P, n, start, step) # {}
<1> USE DEF Turning
<1> DEFINE Good(m) == \E f \in [0..m -> P] :
             f[0] = start /\ \A i \in 1..m : f[i] = step[<<f[i - 1], i>>]
           T == {m \in 0..n : ~Good(m)}
<1>1. Good(0)
  <2> DEFINE f == [i \in 0..0 |-> start]
  <2>1. f \in [0..0 -> P] /\ f[0] = start
    OBVIOUS
  <2>2. \A i \in 1..0 : f[i] = step[<<f[i - 1], i>>]
    OBVIOUS
  <2> QED
    BY <2>1, <2>2
<1>2. ASSUME NEW m \in 1..n, Good(m - 1)
      PROVE  Good(m)
  <2>1. PICK f \in [0..(m - 1) -> P] :
          f[0] = start /\ \A i \in 1..(m - 1) : f[i] = step[<<f[i - 1], i>>]
    BY <1>2
  <2>2. f[m - 1] \in P
    OBVIOUS
  <2>3. step[<<f[m - 1], m>>] \in P
    BY <2>2
  <2> DEFINE g == [i \in 0..m |-> IF i = m THEN step[<<f[m - 1], m>>] ELSE f[i]]
  <2>4. g \in [0..m -> P]
    BY <2>3
  <2>5. g[0] = start
    BY <2>1
  <2>6. ASSUME NEW i \in 1..m
        PROVE  g[i] = step[<<g[i - 1], i>>]
    <3>1. g[i - 1] = f[i - 1]
      OBVIOUS
    <3>2. CASE i = m
      <4>1. g[m] = step[<<f[m - 1], m>>] /\ g[m - 1] = f[m - 1]
        BY <3>1, <3>2
      <4> HIDE DEF g
      <4> QED
        BY <3>2, <4>1
    <3>3. CASE i # m
      <4>1. i \in 1..(m - 1) /\ g[i] = f[i]
        BY <3>3
      <4> QED
        BY <2>1, <3>1, <4>1
    <3> QED
      BY <3>2, <3>3
  <2> HIDE DEF g
  <2> QED
    BY <2>4, <2>5, <2>6
<1> HIDE DEF Good
<1>3. T = {}
  <2> SUFFICES ASSUME T # {} PROVE FALSE
    OBVIOUS
  <2>1. T \in SUBSET Nat
    OBVIOUS
  <2> HIDE DEF T
  <2>2. PICK m \in T : \A k \in T : m <= k
    BY <2>1, LeastExists
  <2>3. m \in 1..n /\ ~Good(m)
    BY <1>1, <2>2 DEF T
  <2>4. m - 1 \in 0..n /\ m - 1 \notin T
    BY <2>2, <2>3
  <2>5. Good(m - 1)
    BY <2>4 DEF T
  <2> QED
    BY <1>2, <2>3, <2>5
<1>4. Good(n)
  BY <1>3 DEF T
<1>5. \E f \in [0..n -> P] : f[0] = start /\ \A i \in 1..n : f[i] = step[<<f[i - 1], i>>]
  BY <1>4 DEF Good
<1> QED
  BY <1>5 DEF Unfoldings

\* What holds at first and is kept by each turn of a loop holds throughout.
LEMMA LoopInduction ==
  ASSUME NEW n \in Nat, NEW good \in SUBSET (0..n), 0 \in good,
         \A i \in 1..n : i - 1 \in good => i \in good
  PROVE  good = 0..n
<1> DEFINE T == (0..n) \ good
<1> SUFFICES ASSUME T # {} PROVE FALSE
  OBVIOUS
<1>1. T \in SUBSET Nat
  OBVIOUS
<1> HIDE DEF T
<1>2. PICK m \in T : \A k \in T : m <= k
  BY <1>1, LeastExists
<1>3. m \in 1..n
  BY <1>2 DEF T
<1>4. m - 1 \in good
  <2>1. m - 1 \in 0..n /\ ~(m <= m - 1)
    BY <1>3
  <2> QED
    BY <1>2, <2>1 DEF T
<1> QED
  BY <1>2, <1>3, <1>4 DEF T

\* In a strict order of finitely many, every rank is taken.
LEMMA RanksTaken ==
  ASSUME NEW S, IsFiniteSet(S), NEW R,
         \A a, b, c \in S : <<a, b>> \in R /\ <<b, c>> \in R => <<a, c>> \in R,
         \A a \in S : <<a, a>> \notin R,
         \A a, b \in S : a # b => <<a, b>> \in R \/ <<b, a>> \in R
  PROVE  /\ \A r \in S : Cardinality({s \in S : <<s, r>> \in R}) \in 0..(Cardinality(S) - 1)
         /\ \A a, b \in S : <<a, b>> \in R =>
              Cardinality({s \in S : <<s, a>> \in R}) < Cardinality({s \in S : <<s, b>> \in R})
         /\ \A n \in 0..(Cardinality(S) - 1) :
              \E r \in S : Cardinality({s \in S : <<s, r>> \in R}) = n
<1> DEFINE below(r) == {s \in S : <<s, r>> \in R}
           rank == [r \in S |-> Cardinality(below(r))]
<1>1. Cardinality(S) \in Nat
  BY FS_CardinalityType
<1>2. ASSUME NEW r \in S
      PROVE  /\ IsFiniteSet(below(r)) /\ Cardinality(below(r)) \in Nat
             /\ Cardinality(below(r)) < Cardinality(S)
  <2>1. below(r) \subseteq S /\ below(r) # S
    OBVIOUS
  <2> HIDE DEF below
  <2>2. /\ IsFiniteSet(below(r)) /\ Cardinality(below(r)) <= Cardinality(S)
        /\ Cardinality(below(r)) # Cardinality(S)
    BY <2>1, FS_Subset
  <2>3. Cardinality(below(r)) \in Nat
    BY <2>2, FS_CardinalityType
  <2> QED
    BY <1>1, <2>2, <2>3
<1>3. ASSUME NEW a \in S, NEW b \in S, <<a, b>> \in R
      PROVE  Cardinality(below(a)) < Cardinality(below(b))
  <2>1. below(a) \subseteq below(b) /\ a \in below(b) /\ a \notin below(a)
    BY <1>3
  <2>2. /\ Cardinality(below(a)) \in Nat /\ Cardinality(below(b)) \in Nat
        /\ IsFiniteSet(below(b))
    BY <1>2
  <2> HIDE DEF below
  <2>3. /\ Cardinality(below(a)) <= Cardinality(below(b))
        /\ Cardinality(below(a)) # Cardinality(below(b))
    BY <2>1, <2>2, FS_Subset
  <2> QED
    BY <2>2, <2>3
<1>4. ASSUME NEW r \in S
      PROVE  rank[r] \in 0..(Cardinality(S) - 1)
  <2>1. /\ rank[r] = Cardinality(below(r)) /\ Cardinality(below(r)) \in Nat
        /\ Cardinality(below(r)) < Cardinality(S)
    BY <1>2
  <2> HIDE DEF below, rank
  <2> QED
    BY <1>1, <2>1
<1>5. \A a, b \in S : a # b => rank[a] # rank[b]
  <2> SUFFICES ASSUME NEW a \in S, NEW b \in S, a # b
               PROVE  rank[a] # rank[b]
    OBVIOUS
  <2>1. rank[a] \in Nat /\ rank[b] \in Nat
    BY <1>2
  <2>2. rank[a] < rank[b] \/ rank[b] < rank[a]
    BY <1>3
  <2> HIDE DEF rank
  <2> QED
    BY <2>1, <2>2
<1>6. DOMAIN rank = S /\ rank = [r \in S |-> rank[r]]
  OBVIOUS
<1> HIDE DEF rank, below
<1> DEFINE ranks == {rank[r] : r \in S}
<1>7. rank \in Bijection(S, ranks)
  BY <1>5, <1>6 DEF Bijection, Injection, Surjection, IsInjective
<1>8. IsFiniteSet(ranks) /\ Cardinality(ranks) = Cardinality(S)
  BY <1>7, FS_Bijection DEF ExistsBijection
<1>9. ranks = 0..(Cardinality(S) - 1)
  <2>1. ranks \subseteq 0..(Cardinality(S) - 1)
    BY <1>4
  <2>2. /\ IsFiniteSet(0..(Cardinality(S) - 1))
        /\ Cardinality(0..(Cardinality(S) - 1)) = Cardinality(S)
    <3>1. 0 \in Int /\ Cardinality(S) - 1 \in Int
      BY <1>1
    <3>2. /\ IsFiniteSet(0..(Cardinality(S) - 1))
          /\ Cardinality(0..(Cardinality(S) - 1)) =
               IF 0 > Cardinality(S) - 1 THEN 0 ELSE (Cardinality(S) - 1) - 0 + 1
      BY <3>1, FS_Interval
    <3> QED
      BY <1>1, <3>2
  <2> HIDE DEF ranks
  <2> QED
    BY <1>8, <2>1, <2>2, FS_Subset
<1>10. \A n \in 0..(Cardinality(S) - 1) : \E r \in S : rank[r] = n
  BY <1>9
<1>11. \A r \in S : rank[r] = Cardinality(below(r))
  BY DEF rank
<1> QED
  BY <1>3, <1>4, <1>10, <1>11 DEF below

\* The list in which each item has the place that its rank gives it.
Ranked(S, R) ==
  [n \in 1..Cardinality(S) |-> CHOOSE r \in S : Cardinality({s \in S : <<s, r>> \in R}) + 1 = n]

LEMMA RankedList ==
  ASSUME NEW S, IsFiniteSet(S), NEW R,
         \A a, b, c \in S : <<a, b>> \in R /\ <<b, c>> \in R => <<a, c>> \in R,
         \A a \in S : <<a, a>> \notin R,
         \A a, b \in S : a # b => <<a, b>> \in R \/ <<b, a>> \in R,
         NEW at, at = Ranked(S, R)
  PROVE  /\ \A n \in 1..Cardinality(S) : at[n] \in S
         /\ \A r \in S : \E n \in 1..Cardinality(S) : at[n] = r
         /\ \A n, m \in 1..Cardinality(S) : n < m => <<at[n], at[m]>> \in R
<1> DEFINE N == Cardinality(S)
           rank(r) == Cardinality({s \in S : <<s, r>> \in R})
           pick(n) == CHOOSE r \in S : rank(r) + 1 = n
<1>1. N \in Nat
  BY FS_CardinalityType
<1>2. /\ \A r \in S : rank(r) \in 0..(N - 1)
      /\ \A a, b \in S : <<a, b>> \in R => rank(a) < rank(b)
      /\ \A n \in 0..(N - 1) : \E r \in S : rank(r) = n
  BY RanksTaken, ZenonT(60)
<1>3. \A n \in 1..N : at[n] = pick(n)
  BY DEF Ranked
<1> HIDE DEF N, rank
<1>4. ASSUME NEW n \in 1..N
      PROVE  at[n] \in S /\ rank(at[n]) + 1 = n
  <2>1. n - 1 \in 0..(N - 1)
    BY <1>1
  <2>2. PICK r \in S : rank(r) = n - 1
    BY <1>2, <2>1
  <2>3. rank(r) + 1 = n
    BY <1>1, <2>2
  <2>4. pick(n) \in S /\ rank(pick(n)) + 1 = n
    BY <2>3
  <2> HIDE DEF pick
  <2> QED
    BY <1>3, <2>4
<1>5. ASSUME NEW a \in S, NEW b \in S, rank(a) = rank(b)
      PROVE  a = b
  <2> SUFFICES ASSUME a # b PROVE FALSE
    OBVIOUS
  <2>1. rank(a) < rank(b) \/ rank(b) < rank(a)
    BY <1>2
  <2>2. rank(a) \in Int /\ rank(b) \in Int
    BY <1>1, <1>2
  <2> QED
    BY <1>5, <2>1, <2>2
<1>6. ASSUME NEW r \in S
      PROVE  \E n \in 1..N : at[n] = r
  <2>1. rank(r) \in 0..(N - 1)
    BY <1>2
  <2>2. rank(r) + 1 \in 1..N
    BY <1>1, <2>1
  <2>3. at[rank(r) + 1] \in S /\ rank(at[rank(r) + 1]) + 1 = rank(r) + 1
    BY <1>4, <2>2
  <2>4. rank(at[rank(r) + 1]) \in 0..(N - 1)
    BY <1>2, <2>3
  <2>5. rank(at[rank(r) + 1]) = rank(r)
    BY <1>1, <2>1, <2>3, <2>4
  <2> QED
    BY <1>5, <2>2, <2>3, <2>5
<1>7. ASSUME NEW n \in 1..N, NEW m \in 1..N, n < m
      PROVE  <<at[n], at[m]>> \in R
  <2>1. /\ at[n] \in S /\ rank(at[n]) + 1 = n
        /\ at[m] \in S /\ rank(at[m]) + 1 = m
    BY <1>4
  <2>2. rank(at[n]) \in 0..(N - 1) /\ rank(at[m]) \in 0..(N - 1)
    BY <1>2, <2>1
  <2>3. rank(at[n]) < rank(at[m])
    BY <1>1, <1>7, <2>1, <2>2
  <2>4. at[n] # at[m] /\ ~(rank(at[m]) < rank(at[n]))
    BY <1>1, <2>2, <2>3
  <2> QED
    BY <1>2, <2>1, <2>4
<1> QED
  BY <1>4, <1>6, <1>7 DEF N
===============================================================================
