----------------------------- MODULE Arithmetic -----------------------------
(***************************************************************************)
(* Facts about natural numbers that the proofs about several modules rest  *)
(* on: least elements, recursion, and the phases of clocks, that is the    *)
(* remainders by a period that is itself a parameter.                      *)
(***************************************************************************)
EXTENDS Naturals, TLAPS, WellFoundedInduction

\* Every non-empty set of naturals has a least element.
LEMMA LeastExists ==
    ASSUME NEW S \in SUBSET Nat, S # {}
    PROVE  \E m \in S : \A n \in S : m <= n
<1> DEFINE R == OpToRel(<, Nat)
<1>1. IsWellFoundedOn(R, Nat)
  BY NatLessThanWellFounded
<1>2. \A m, n \in Nat : <<n, m>> \in R <=> n < m
  BY DEF OpToRel
<1> HIDE DEF R
<1>3. \E m \in S : \A n \in S : ~(<<n, m>> \in R)
  BY <1>1, WFMin
<1>4. PICK m \in S : \A n \in S : ~(<<n, m>> \in R)
  BY <1>3
<1>5. \A n \in S : n \in Nat /\ m \in Nat /\ ~(n < m)
  BY <1>2, <1>4
<1>6. \A n \in S : m <= n
  BY <1>5
<1> QED
  BY <1>6

\* Every non-empty set of naturals below a bound has a greatest element.
LEMMA GreatestExists ==
    ASSUME NEW b \in Nat, NEW S \in SUBSET (0..b), S # {}
    PROVE  \E m \in S : \A n \in S : n <= m
<1> DEFINE T == {b - s : s \in S}
<1>1. T \in SUBSET Nat
  OBVIOUS
<1>0. T # {}
  <2>1. PICK s \in S : TRUE
    OBVIOUS
  <2>2. b - s \in T
    OBVIOUS
  <2> QED
    BY <2>2
<1>2. PICK m \in T : \A n \in T : m <= n
  BY <1>0, <1>1, LeastExists
<1>3. PICK s \in S : m = b - s
  BY <1>2
<1>4. \A n \in S : b - n \in T
  OBVIOUS
<1> HIDE DEF T
<1> QED
  BY <1>2, <1>3, <1>4

\* What holds of 0, and of n whenever of n - 1, holds up to any bound.
LEMMA UptoInduction ==
    ASSUME NEW N \in Nat, NEW S, 0 \in S, \A n \in 1..N : n - 1 \in S => n \in S
    PROVE  \A n \in 0..N : n \in S
<1> DEFINE Missing == {n \in 0..N : n \notin S}
<1> SUFFICES ASSUME Missing # {} PROVE FALSE
  OBVIOUS
<1>1. Missing \in SUBSET Nat
  OBVIOUS
<1>2. PICK n \in Missing : \A i \in Missing : n <= i
  BY <1>1, LeastExists
<1>3. n \in 1..N /\ n - 1 \in 0..N /\ ~(n <= n - 1)
  BY <1>2
<1> QED
  BY <1>2, <1>3

\* A function on 0..N may be defined from one value to the next.
Recursion(N, V, first, step) ==
    \E f \in [0..N -> V] : f[0] = first /\ \A i \in 1..N : f[i] = step[<<i, f[i - 1]>>]

LEMMA RecursionExists ==
    ASSUME NEW N \in Nat, NEW V, NEW first \in V, NEW step \in [(0..N) \X V -> V]
    PROVE  Recursion(N, V, first, step)
<1> DEFINE Upto(n) == \E f \in [0..n -> V] :
                         f[0] = first /\ \A i \in 1..n : f[i] = step[<<i, f[i - 1]>>]
           Missing == {n \in 0..N : ~Upto(n)}
<1>1. Upto(0)
  <2> DEFINE f == [i \in 0..0 |-> first]
  <2>1. f \in [0..0 -> V] /\ f[0] = first /\ 1..0 = {}
    OBVIOUS
  <2> HIDE DEF f
  <2> QED
    BY <2>1
<1>2. ASSUME NEW n \in 1..N, Upto(n - 1) PROVE Upto(n)
  <2>1. PICK f \in [0..(n - 1) -> V] :
            f[0] = first /\ \A i \in 1..(n - 1) : f[i] = step[<<i, f[i - 1]>>]
    BY <1>2
  <2>2. f[n - 1] \in V /\ n \in 0..N
    OBVIOUS
  <2>3. step[<<n, f[n - 1]>>] \in V
    BY <2>2
  <2> DEFINE g == [i \in 0..n |-> IF i = n THEN step[<<n, f[n - 1]>>] ELSE f[i]]
  <2>4. g \in [0..n -> V]
    <3>1. \A i \in 0..n : i = n \/ i \in 0..(n - 1)
      OBVIOUS
    <3> QED
      BY <2>3, <3>1
  <2>5. g[0] = first
    BY <2>1
  <2>6. ASSUME NEW i \in 1..n PROVE g[i] = step[<<i, g[i - 1]>>]
    <3>1. i - 1 \in 0..n /\ i - 1 # n /\ i \in 0..n
      OBVIOUS
    <3>2. g[i - 1] = f[i - 1]
      BY <3>1
    <3>3. g[i] = IF i = n THEN step[<<n, f[n - 1]>>] ELSE f[i]
      BY <3>1
    <3>4. i # n => i \in 1..(n - 1)
      OBVIOUS
    <3> HIDE DEF g
    <3>5. CASE i = n
      BY <3>2, <3>3, <3>5
    <3>6. CASE i # n
      BY <2>1, <3>2, <3>3, <3>4, <3>6
    <3> QED
      BY <3>5, <3>6
  <2> HIDE DEF g
  <2> QED
    BY <2>4, <2>5, <2>6
<1> HIDE DEF Upto
<1>3. Missing = {}
  <2> SUFFICES ASSUME Missing # {} PROVE FALSE
    OBVIOUS
  <2>1. Missing \in SUBSET Nat
    OBVIOUS
  <2>2. PICK n \in Missing : \A i \in Missing : n <= i
    BY <2>1, LeastExists
  <2>3. n \in 1..N /\ n - 1 \in 0..N /\ ~(n <= n - 1)
    BY <1>1, <2>2
  <2>4. Upto(n - 1)
    BY <2>2, <2>3
  <2> QED
    BY <1>2, <2>2, <2>3, <2>4
<1>4. Upto(N)
  BY <1>3
<1> QED
  BY <1>4 DEF Upto, Recursion

-----------------------------------------------------------------------------
(* Periods *)

\* Quotient and remainder.
LEMMA Division ==
    ASSUME NEW P \in Nat \ {0}, NEW e \in Nat
    PROVE  e % P \in 0..(P - 1) /\ e \div P \in Nat /\ e = P * (e \div P) + (e % P)
<1>1. e % P \in 0..(P - 1)
  OBVIOUS
<1>2. e % P = e - P * (e \div P)
  OBVIOUS
<1>3. e \div P \in Nat
  OBVIOUS
<1> DEFINE x == P * (e \div P)
           r == e % P
<1>4. x \in Nat /\ r \in Nat /\ r = e - x
  BY <1>1, <1>2, <1>3
<1>5. e = x + r
  <2> HIDE DEF x, r
  <2> QED
    BY <1>4
<1> QED
  BY <1>1, <1>3, <1>5

\* Different multiples are that far apart.
LEMMA Multiples ==
    ASSUME NEW P \in Nat \ {0}, NEW q \in Nat, NEW d \in Nat, q < d
    PROVE  P * q \in Nat /\ P * d \in Nat /\ P * q + P <= P * d
<1> DEFINE c == d - q - 1
<1>1. c \in Nat /\ d = q + 1 + c
  OBVIOUS
<1> HIDE DEF c
<1>2. P * d = P * q + P + P * c /\ P * c \in Nat /\ P * q \in Nat
  BY <1>1
<1> QED
  BY <1>2

\* The remainder is the only one.
LEMMA Remainder ==
    ASSUME NEW P \in Nat \ {0}, NEW q \in Nat, NEW o \in 0..(P - 1)
    PROVE  (P * q + o) % P = o
<1>1. P * q \in Nat
  OBVIOUS
<1> DEFINE e == P * q + o
           d == e \div P
           r == e % P
<1>2. e \in Nat
  BY <1>1
<1>2a. e = P * q + o
  OBVIOUS
<1> HIDE DEF e
<1>3. r \in 0..(P - 1) /\ d \in Nat /\ e = P * d + r
  BY <1>2, Division
<1> HIDE DEF d, r
<1>6. P * d \in Nat
  BY <1>3
<1>4. ~(q < d)
  <2> SUFFICES ASSUME q < d PROVE FALSE
    OBVIOUS
  <2>1. P * q + P <= P * d
    BY <1>3, Multiples
  <2> DEFINE x == P * q
             y == P * d
  <2>2. x \in Nat /\ y \in Nat /\ x + P <= y /\ x + o = y + r
    BY <1>1, <1>2a, <1>3, <1>6, <2>1
  <2> HIDE DEF x, y
  <2> QED
    BY <1>3, <2>2
<1>5. ~(d < q)
  <2> SUFFICES ASSUME d < q PROVE FALSE
    OBVIOUS
  <2>1. P * d + P <= P * q
    BY <1>3, Multiples
  <2> DEFINE x == P * q
             y == P * d
  <2>2. x \in Nat /\ y \in Nat /\ y + P <= x /\ x + o = y + r
    BY <1>1, <1>2a, <1>3, <1>6, <2>1
  <2> HIDE DEF x, y
  <2> QED
    BY <1>3, <2>2
<1>7. d = q
  BY <1>3, <1>4, <1>5
<1> DEFINE x == P * q
<1>8. x \in Nat /\ x + o = x + r
  BY <1>1, <1>2a, <1>3, <1>7
<1>9. r = o
  <2> HIDE DEF x
  <2> QED
    BY <1>3, <1>8
<1> QED
  BY <1>2a, <1>9 DEF r

\* The quotient too.
LEMMA Quotient ==
    ASSUME NEW P \in Nat \ {0}, NEW q \in Nat, NEW o \in 0..(P - 1)
    PROVE  P * q + o \in Nat /\ (P * q + o) \div P = q
<1>1. P * q \in Nat
  OBVIOUS
<1> DEFINE e == P * q + o
           d == e \div P
           r == e % P
<1>2. e \in Nat /\ o \in Nat
  BY <1>1
<1>3. r = o
  BY Remainder
<1>4. d \in Nat /\ e = P * d + r
  BY <1>2, Division
<1>5. e = P * q + o
  OBVIOUS
<1> HIDE DEF e, d, r
<1>6. P * d \in Nat
  BY <1>4
<1> DEFINE x == P * q
           y == P * d
<1>7. x \in Nat /\ y \in Nat /\ x + o = y + o
  BY <1>1, <1>3, <1>4, <1>5, <1>6
<1>8. q < d => x + P <= y
  BY <1>4, Multiples
<1>9. d < q => y + P <= x
  BY <1>4, Multiples
<1>10. ~(q < d) /\ ~(d < q)
  <2> HIDE DEF x, y
  <2> QED
    BY <1>2, <1>7, <1>8, <1>9
<1>11. d = q
  BY <1>4, <1>10
<1> QED
  BY <1>2, <1>11 DEF d, e

\* Two times of the same phase are a period apart or more.
LEMMA SamePhase ==
    ASSUME NEW P \in Nat \ {0}, NEW e \in Nat, NEW m \in Nat, m % P = e % P,
           m <= e, e < m + P
    PROVE  m = e
<1> DEFINE d == e \div P
           q == m \div P
           r == e % P
<1>1. e = P * d + r /\ d \in Nat /\ r \in 0..(P - 1)
  BY Division
<1>2. m = P * q + r /\ q \in Nat
  BY Division
<1> HIDE DEF d, q, r
<1>3. P * d \in Nat /\ P * q \in Nat
  BY <1>1, <1>2
<1> DEFINE x == P * d
           y == P * q
<1>4. x \in Nat /\ y \in Nat /\ e = x + r /\ m = y + r
  BY <1>1, <1>2, <1>3
<1>5. ~(d < q)
  <2>1. d < q => x + P <= y
    BY <1>1, <1>2, Multiples
  <2> HIDE DEF x, y
  <2> QED
    BY <1>4, <2>1, <1>1
<1>6. ~(q < d)
  <2>1. q < d => y + P <= x
    BY <1>1, <1>2, Multiples
  <2> HIDE DEF x, y
  <2> QED
    BY <1>4, <2>1, <1>1
<1> QED
  BY <1>1, <1>2, <1>5, <1>6

\* A period earlier is the same phase.
LEMMA PeriodEarlier ==
    ASSUME NEW P \in Nat \ {0}, NEW e \in Nat, e >= P
    PROVE  e - P \in Nat /\ (e - P) % P = e % P
<1> DEFINE d == e \div P
           r == e % P
<1>1. e = P * d + r /\ d \in Nat /\ r \in 0..(P - 1)
  BY Division
<1> HIDE DEF d, r
<1>2. d # 0
  BY <1>1
<1>3. d - 1 \in Nat /\ P * d = P * (d - 1) + P
  BY <1>1, <1>2
<1> DEFINE x == P * (d - 1)
<1>5. x \in Nat
  BY <1>3
<1>4. e - P = P * (d - 1) + r
  <2>1. e = x + P + r
    BY <1>1, <1>3
  <2> HIDE DEF x
  <2>2. e - P = x + r
    BY <1>1, <1>5, <2>1
  <2> QED
    BY <2>2 DEF x
<1>6. (P * (d - 1) + r) % P = r
  BY <1>1, <1>3, Remainder
<1> QED
  BY <1>4, <1>6 DEF r

\* Every phase comes once in a period.
LEMMA PhaseComes ==
    ASSUME NEW P \in Nat \ {0}, NEW e \in Nat, NEW o \in 0..(P - 1)
    PROVE  \E m \in Nat : e <= m /\ m < e + P /\ m % P = o
<1> DEFINE d == e \div P
           r == e % P
<1>1. e = P * d + r /\ d \in Nat /\ r \in 0..(P - 1)
  BY Division
<1> HIDE DEF d, r
<1> DEFINE x == P * d
<1>2. x \in Nat /\ P * (d + 1) = x + P /\ e = x + r
  BY <1>1
<1>3. (x + o) % P = o
  BY <1>1, Remainder
<1>4. (x + P + o) % P = o
  <2>1. (P * (d + 1) + o) % P = o
    BY <1>1, Remainder
  <2> HIDE DEF x
  <2> QED
    BY <1>2, <2>1
<1> HIDE DEF x
<1>5. CASE r <= o
  <2>1. x + o \in Nat /\ e <= x + o /\ x + o < e + P
    BY <1>1, <1>2, <1>5
  <2> QED
    BY <1>3, <2>1
<1>6. CASE o < r
  <2>1. x + P + o \in Nat /\ e <= x + P + o /\ x + P + o < e + P
    BY <1>1, <1>2, <1>6
  <2> QED
    BY <1>4, <2>1
<1> QED
  BY <1>1, <1>5, <1>6
=============================================================================
