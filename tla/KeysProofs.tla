----------------------------- MODULE KeysProofs -----------------------------
(***************************************************************************)
(* Proofs about Keys, Nearest and KeySpace, for keys and bytes of any      *)
(* length.  Bucket indices are in range, the index KEY_LEN_BITS is the     *)
(* node's own key and nothing else, keys are totally ordered by their      *)
(* distance to a target (what std::sort needs of key_distance_cmp), that   *)
(* order is the one of the distances as numbers, and getNearest returns    *)
(* the nearest of the entries it looks at.                                 *)
(***************************************************************************)
EXTENDS KeySpace, Arithmetic, FiniteSetTheorems

-----------------------------------------------------------------------------
(* Bytes *)

LEMMA BitFacts == Bit \subseteq Nat /\ BYTE \in Nat /\ BYTE > 0 /\ Bit = 0..(BYTE - 1)
BY KeyAssumption DEF Bit

LEMMA IndexFacts == Index \subseteq Nat /\ KEY_LEN \in Nat /\ KEY_LEN > 0
BY KeyAssumption DEF Index

\* The greatest bit of a byte that is not zero.
LEMMA TopBit ==
    ASSUME NEW c \in Byte, c # {}
    PROVE  \E i \in c : \A j \in c : j <= i
<1>1. BYTE - 1 \in Nat /\ c \in SUBSET (0..(BYTE - 1))
  BY KeyAssumption DEF Byte, Bit
<1> QED
  BY <1>1, GreatestExists

\* l2c is one more than the greatest bit, so at most the bits of a byte.
LEMMA l2cTop ==
    ASSUME NEW c \in Byte, c # {}
    PROVE  /\ l2c(c) \in 1..BYTE
           /\ l2c(c) - 1 \in c
           /\ \A j \in c : j <= l2c(c) - 1
<1> DEFINE top == CHOOSE i \in c : \A j \in c : j <= i
<1>1. top \in c /\ \A j \in c : j <= top
  <2>1. \E i \in c : \A j \in c : j <= i
    BY TopBit
  <2> QED
    BY <2>1
<1>2. top \in Nat /\ top <= BYTE - 1
  <2> HIDE DEF top
  <2>1. top \in Bit
    BY <1>1 DEF Byte
  <2> QED
    BY <2>1, BitFacts
<1>3. l2c(c) = 1 + top
  BY DEF l2c
<1> HIDE DEF top
<1> QED
  BY <1>1, <1>2, <1>3, BitFacts

\* Bytes are XORed to zero only with themselves.
LEMMA XorFacts ==
    ASSUME NEW c \in Byte, NEW d \in Byte
    PROVE  /\ Xor(c, d) \in Byte
           /\ Xor(c, d) = {} <=> c = d
           /\ Xor(c, d) = Xor(d, c)
BY DEF Xor, Byte

LEMMA XorInjective ==
    ASSUME NEW c \in Byte, NEW d \in Byte, NEW t \in Byte, Xor(c, t) = Xor(d, t)
    PROVE  c = d
BY DEF Xor, Byte

\* Below is a strict total order of bytes.
LEMMA BelowIrreflexive == \A c \in Byte : ~Below(c, c)
BY DEF Below

LEMMA BelowTransitive ==
    ASSUME NEW c \in Byte, NEW d \in Byte, NEW e \in Byte, Below(c, d), Below(d, e)
    PROVE  Below(c, e)
<1>1. PICK p \in Bit : p \in d \ c /\ \A j \in Bit : j > p => (j \in c <=> j \in d)
  BY DEF Below
<1>2. PICK q \in Bit : q \in e \ d /\ \A j \in Bit : j > q => (j \in d <=> j \in e)
  BY DEF Below
<1>3. CASE p > q
  <2>1. p \in e \ c /\ \A j \in Bit : j > p => (j \in c <=> j \in e)
    BY <1>1, <1>2, <1>3, BitFacts
  <2> QED
    BY <2>1 DEF Below
<1>4. CASE q > p
  <2>1. q \in e \ c /\ \A j \in Bit : j > q => (j \in c <=> j \in e)
    BY <1>1, <1>2, <1>4, BitFacts
  <2> QED
    BY <2>1 DEF Below
<1> QED
  BY <1>1, <1>2, <1>3, <1>4, BitFacts

LEMMA BelowTotal ==
    ASSUME NEW c \in Byte, NEW d \in Byte, c # d
    PROVE  Below(c, d) \/ Below(d, c)
<1>1. Xor(c, d) \in Byte /\ Xor(c, d) # {}
  BY XorFacts
<1>2. PICK i \in Xor(c, d) : \A j \in Xor(c, d) : j <= i
  BY <1>1, TopBit
<1>3. i \in Bit /\ \A j \in Bit : j > i => (j \in c <=> j \in d)
  BY <1>1, <1>2, BitFacts DEF Xor, Byte
<1>4. i \in d \ c \/ i \in c \ d
  BY <1>2 DEF Xor
<1> QED
  BY <1>3, <1>4 DEF Below

\* A byte is below every byte with a greater top bit.
LEMMA BelowByTop ==
    ASSUME NEW c \in Byte, NEW d \in Byte, d # {}, l2c(c) < l2c(d)
    PROVE  Below(c, d)
<1> DEFINE top == l2c(d) - 1
<1>1. l2c(d) \in 1..BYTE /\ top \in d /\ \A j \in d : j <= top
  BY l2cTop
<1>2. \A j \in c : j < top
  <2>1. CASE c = {}
    BY <2>1
  <2>2. CASE c # {}
    <3>1. l2c(c) \in 1..BYTE /\ \A j \in c : j <= l2c(c) - 1
      BY <2>2, l2cTop
    <3> QED
      BY <1>1, <3>1, BitFacts DEF Byte
  <2> QED
    BY <2>1, <2>2
<1>3. top \in Bit /\ top \in d \ c
  BY <1>1, <1>2, BitFacts DEF Byte
<1>4. \A j \in Bit : j > top => (j \in c <=> j \in d)
  BY <1>1, <1>2, <1>3, BitFacts
<1> QED
  BY <1>3, <1>4 DEF Below

-----------------------------------------------------------------------------
(* Keys *)

\* Two different keys have a first byte in which they differ.
LEMMA FirstDifference ==
    ASSUME NEW x \in Key, NEW y \in Key, x # y
    PROVE  \E i \in Differ(x, y) : \A j \in Differ(x, y) : i <= j
<1>1. Differ(x, y) # {}
  BY DEF Differ, Key
<1>2. Differ(x, y) \in SUBSET Nat
  BY IndexFacts DEF Differ
<1> QED
  BY <1>1, <1>2, LeastExists

\* The matching prefix, by the first byte that differs and its top bit.
LEMMA PrefixByFirst ==
    ASSUME NEW x \in Key, NEW y \in Key, x # y
    PROVE  \E i \in Differ(x, y) :
             /\ \A j \in Differ(x, y) : i <= j
             /\ Xor(x[i], y[i]) \in Byte /\ Xor(x[i], y[i]) # {}
             /\ longest_matching_prefix(x, y) = (i + 1) * BYTE - l2c(Xor(x[i], y[i]))
<1> DEFINE i == CHOOSE i \in Differ(x, y) : \A j \in Differ(x, y) : i <= j
<1>1. i \in Differ(x, y) /\ \A j \in Differ(x, y) : i <= j
  <2>1. \E h \in Differ(x, y) : \A j \in Differ(x, y) : h <= j
    BY FirstDifference
  <2> QED
    BY <2>1
<1>2. longest_matching_prefix(x, y) = (i + 1) * BYTE - l2c(Xor(x[i], y[i]))
  <2>1. Differ(x, y) # {}
    BY <1>1
  <2> QED
    BY <2>1 DEF longest_matching_prefix
<1> HIDE DEF i
<1>3. x[i] \in Byte /\ y[i] \in Byte /\ x[i] # y[i]
  BY <1>1 DEF Differ, Key
<1> QED
  BY <1>1, <1>2, <1>3, XorFacts

\* The product of a byte index and the bits of a byte, as far as needed.
LEMMA Scale ==
    ASSUME NEW i \in Nat, NEW j \in Nat, i <= j
    PROVE  /\ i * BYTE \in Nat /\ j * BYTE \in Nat
           /\ i * BYTE <= j * BYTE
           /\ (i + 1) * BYTE = i * BYTE + BYTE
<1>1. PICK d \in Nat : j = i + d
  <2>1. j - i \in Nat /\ j = i + (j - i)
    OBVIOUS
  <2> QED
    BY <2>1
<1>2. j * BYTE = i * BYTE + d * BYTE
  BY <1>1, BitFacts
<1>3. d * BYTE \in Nat /\ i * BYTE \in Nat
  BY <1>1, BitFacts
<1> QED
  BY <1>2, <1>3, BitFacts

\* A bucket index is always in range of the array of buckets or equal to its
\* length, which updateOrAddToBucket refuses; and it is the length for the
\* node's own key only.
THEOREM PrefixInRange ==
    \A x, y \in Key :
        /\ longest_matching_prefix(x, y) \in 0..KEY_LEN_BITS
        /\ longest_matching_prefix(x, y) = KEY_LEN_BITS <=> x = y
<1> TAKE x \in Key, y \in Key
<1>1. KEY_LEN_BITS \in Nat
  BY KeyAssumption DEF KEY_LEN_BITS
<1>2. CASE x = y
  <2>1. longest_matching_prefix(x, y) = KEY_LEN_BITS
    BY <1>2 DEF longest_matching_prefix, Differ
  <2> QED
    BY <1>1, <1>2, <2>1
<1>3. CASE x # y
  <2>1. PICK i \in Differ(x, y) :
          /\ Xor(x[i], y[i]) \in Byte /\ Xor(x[i], y[i]) # {}
          /\ longest_matching_prefix(x, y) = (i + 1) * BYTE - l2c(Xor(x[i], y[i]))
    BY <1>3, PrefixByFirst
  <2> DEFINE l == l2c(Xor(x[i], y[i]))
  <2>2. l \in 1..BYTE
    BY <2>1, l2cTop
  <2>3. i \in Nat /\ i + 1 <= KEY_LEN
    BY IndexFacts DEF Differ, Index
  <2> HIDE DEF l
  <2>4. (i + 1) * BYTE = i * BYTE + BYTE /\ i * BYTE \in Nat
    BY <2>3, Scale
  <2>5. (i + 1) * BYTE <= KEY_LEN * BYTE
    BY <2>3, IndexFacts, Scale
  <2>6. longest_matching_prefix(x, y) = ((i + 1) * BYTE) - l
    BY <2>1 DEF l
  <2> DEFINE start == i * BYTE
             finish == (i + 1) * BYTE
  <2>7. start \in Nat /\ start + BYTE <= KEY_LEN_BITS
    BY <2>4, <2>5 DEF KEY_LEN_BITS
  <2>8. finish = start + BYTE
    BY <2>4
  <2>9. longest_matching_prefix(x, y) = finish - l
    BY <2>6
  <2> HIDE DEF start, finish
  <2>10. BYTE \in Nat
    BY BitFacts
  <2>11. longest_matching_prefix(x, y) \in 0..KEY_LEN_BITS
         /\ longest_matching_prefix(x, y) # KEY_LEN_BITS
    BY <1>1, <2>2, <2>7, <2>8, <2>10, <2>9
  <2> QED
    BY <1>3, <2>11
<1> QED
  BY <1>2, <1>3

\* What std::sort requires of sortByDistanceTo's comparison, and more: for
\* every target, key_distance_cmp is a strict total order of the keys, so two
\* nodes of different keys are never equally near.
THEOREM DistanceOrder ==
    \A t, a, b, c \in Key :
        /\ ~key_distance_cmp(t, a, a)
        /\ key_distance_cmp(t, a, b) /\ key_distance_cmp(t, b, c) => key_distance_cmp(t, a, c)
        /\ a # b => key_distance_cmp(t, a, b) \/ key_distance_cmp(t, b, a)
<1> TAKE t \in Key, a \in Key, b \in Key, c \in Key
<1> DEFINE A(i) == Xor(a[i], t[i])
           B(i) == Xor(b[i], t[i])
           C(i) == Xor(c[i], t[i])
<1>1. \A i \in Index : A(i) \in Byte /\ B(i) \in Byte /\ C(i) \in Byte
  BY XorFacts DEF Key
<1>2. ~key_distance_cmp(t, a, a)
  BY <1>1, BelowIrreflexive DEF key_distance_cmp
<1>3. ASSUME key_distance_cmp(t, a, b), key_distance_cmp(t, b, c)
      PROVE  key_distance_cmp(t, a, c)
  <2>1. PICK i \in Index : (\A j \in 0..(i - 1) : A(j) = B(j)) /\ Below(A(i), B(i))
    BY <1>3 DEF key_distance_cmp
  <2>2. PICK h \in Index : (\A j \in 0..(h - 1) : B(j) = C(j)) /\ Below(B(h), C(h))
    BY <1>3 DEF key_distance_cmp
  <2>3. i \in Nat /\ h \in Nat
    BY IndexFacts
  <2> SUFFICES \E m \in Index : (\A j \in 0..(m - 1) : A(j) = C(j)) /\ Below(A(m), C(m))
    BY DEF key_distance_cmp
  <2>4. CASE i < h
    <3>1. i \in 0..(h - 1) /\ \A j \in 0..(i - 1) : j \in 0..(h - 1)
      BY <2>3, <2>4
    <3>2. (\A j \in 0..(i - 1) : A(j) = C(j)) /\ Below(A(i), C(i))
      BY <2>1, <2>2, <3>1
    <3> QED
      BY <3>2
  <2>5. CASE h < i
    <3>1. h \in 0..(i - 1) /\ \A j \in 0..(h - 1) : j \in 0..(i - 1)
      BY <2>3, <2>5
    <3>2. (\A j \in 0..(h - 1) : A(j) = C(j)) /\ Below(A(h), C(h))
      BY <2>1, <2>2, <3>1
    <3> QED
      BY <3>2
  <2>6. CASE h = i
    <3>1. Below(A(i), C(i))
      BY <1>1, <2>1, <2>2, <2>6, BelowTransitive
    <3> QED
      BY <2>1, <2>2, <2>6, <3>1
  <2> QED
    BY <2>3, <2>4, <2>5, <2>6
<1>4. ASSUME a # b
      PROVE  key_distance_cmp(t, a, b) \/ key_distance_cmp(t, b, a)
  <2>1. PICK i \in Differ(a, b) : \A j \in Differ(a, b) : i <= j
    BY <1>4, FirstDifference
  <2>2. i \in Index /\ a[i] # b[i]
    BY DEF Differ
  <2>3. \A j \in 0..(i - 1) : j \in Index /\ a[j] = b[j]
    BY <2>1, <2>2, IndexFacts DEF Differ, Index
  <2>4. A(i) # B(i)
    BY <2>2, XorInjective DEF Key
  <2>5. Below(A(i), B(i)) \/ Below(B(i), A(i))
    BY <1>1, <2>2, <2>4, BelowTotal
  <2>6. \A j \in 0..(i - 1) : A(j) = B(j)
    BY <2>3
  <2> QED
    BY <2>2, <2>5, <2>6 DEF key_distance_cmp
<1> QED
  BY <1>2, <1>3, <1>4

\* Of two nodes in different buckets the one in the deeper bucket is nearer
\* to the owner of the buckets: each bucket is a range of distances.
THEOREM DeeperBucketIsCloser ==
    \A s, a, b \in Key :
        longest_matching_prefix(s, a) > longest_matching_prefix(s, b)
            => key_distance_cmp(s, a, b)
<1> SUFFICES ASSUME NEW s \in Key, NEW a \in Key, NEW b \in Key,
                    longest_matching_prefix(s, a) > longest_matching_prefix(s, b)
             PROVE  key_distance_cmp(s, a, b)
  OBVIOUS
<1> DEFINE A(i) == Xor(a[i], s[i])
           B(i) == Xor(b[i], s[i])
<1>1. s # b
  <2>1. /\ longest_matching_prefix(s, a) \in 0..KEY_LEN_BITS
        /\ KEY_LEN_BITS \in Nat
    BY PrefixInRange, KeyAssumption DEF KEY_LEN_BITS
  <2>2. longest_matching_prefix(s, b) # KEY_LEN_BITS
    BY <2>1, PrefixInRange
  <2> QED
    BY <2>2, PrefixInRange
<1>2. PICK j \in Differ(s, b) :
        /\ \A m \in Differ(s, b) : j <= m
        /\ Xor(s[j], b[j]) \in Byte /\ Xor(s[j], b[j]) # {}
        /\ longest_matching_prefix(s, b) = (j + 1) * BYTE - l2c(Xor(s[j], b[j]))
  BY <1>1, PrefixByFirst
<1>3. j \in Index /\ j \in Nat
  BY IndexFacts DEF Differ
<1>4. \A i \in Index : A(i) \in Byte /\ B(i) \in Byte
                       /\ A(i) = Xor(s[i], a[i]) /\ B(i) = Xor(s[i], b[i])
  BY XorFacts DEF Key
<1>5. B(j) # {} /\ l2c(B(j)) \in 1..BYTE
  BY <1>2, <1>3, <1>4, l2cTop
<1>6. \A m \in 0..(j - 1) : m \in Index /\ s[m] = b[m] /\ B(m) = {}
  <2>1. \A m \in 0..(j - 1) : m \in Index /\ m \notin Differ(s, b)
    BY <1>2, <1>3, IndexFacts DEF Index
  <2>2. \A m \in 0..(j - 1) : m \in Index /\ s[m] = b[m]
    BY <2>1 DEF Differ
  <2> QED
    BY <2>2 DEF Xor
<1>7. SUFFICES (\A m \in 0..(j - 1) : A(m) = B(m)) /\ Below(A(j), B(j))
  BY <1>3 DEF key_distance_cmp
<1>8. CASE s = a
  <2>1. \A m \in Index : A(m) = {}
    BY <1>8 DEF Xor
  <2>2. l2c({}) = 0 /\ {} \in Byte
    BY DEF l2c, Byte
  <2>3. Below({}, B(j))
    BY <1>3, <1>4, <1>5, <2>2, BelowByTop
  <2> QED
    BY <1>3, <1>6, <2>1, <2>3
<1>9. CASE s # a
  <2>1. PICK i \in Differ(s, a) :
          /\ \A m \in Differ(s, a) : i <= m
          /\ Xor(s[i], a[i]) \in Byte /\ Xor(s[i], a[i]) # {}
          /\ longest_matching_prefix(s, a) = (i + 1) * BYTE - l2c(Xor(s[i], a[i]))
    BY <1>9, PrefixByFirst
  <2>2. i \in Index /\ i \in Nat
    BY IndexFacts DEF Differ
  <2>3. l2c(A(i)) \in 1..BYTE
    BY <1>4, <2>1, <2>2, l2cTop
  <2>4. \A m \in 0..(i - 1) : m \in Index /\ A(m) = {}
    <3>1. \A m \in 0..(i - 1) : m \in Index /\ m \notin Differ(s, a)
      BY <2>1, <2>2, IndexFacts DEF Index
    <3>2. \A m \in 0..(i - 1) : m \in Index /\ s[m] = a[m]
      BY <3>1 DEF Differ
    <3> QED
      BY <3>2 DEF Xor
  <2>5. (i + 1) * BYTE - l2c(A(i)) > (j + 1) * BYTE - l2c(B(j))
    BY <1>2, <1>3, <1>4, <2>1, <2>2
  <2>6. ~(i < j)
    <3> SUFFICES ASSUME i < j PROVE FALSE
      OBVIOUS
    <3> DEFINE la == l2c(A(i))
               lb == l2c(B(j))
               pi == (i + 1) * BYTE
               pj == j * BYTE
    <3>1. pi \in Nat /\ pj \in Nat /\ pi <= pj /\ (j + 1) * BYTE = pj + BYTE
      BY <1>3, <2>2, Scale
    <3>2. la \in 1..BYTE /\ lb \in 1..BYTE /\ pi - la > (j + 1) * BYTE - lb
      BY <1>5, <2>3, <2>5
    <3> HIDE DEF la, lb, pi, pj
    <3> QED
      BY <3>1, <3>2, BitFacts
  <2>7. CASE i = j
    <3> DEFINE la == l2c(A(j))
               lb == l2c(B(j))
               p == (j + 1) * BYTE
    <3>1. la \in 1..BYTE /\ lb \in 1..BYTE /\ p - la > p - lb /\ p \in Nat
      BY <1>3, <1>5, <2>3, <2>5, <2>7, BitFacts
    <3> HIDE DEF p
    <3>2. la < lb
      <4> HIDE DEF la, lb
      <4> QED BY <3>1, BitFacts
    <3>3. Below(A(j), B(j))
      BY <1>3, <1>4, <1>5, <3>2, BelowByTop
    <3> QED
      BY <1>6, <2>4, <2>7, <3>3
  <2>8. CASE i > j
    <3>1. j \in 0..(i - 1) /\ \A m \in 0..(j - 1) : m \in 0..(i - 1)
      BY <1>3, <2>2, <2>8
    <3>2. A(j) = {} /\ \A m \in 0..(j - 1) : A(m) = {}
      BY <2>4, <3>1
    <3>3. l2c({}) = 0 /\ {} \in Byte
      BY DEF l2c, Byte
    <3>4. Below({}, B(j))
      BY <1>3, <1>4, <1>5, <3>3, BelowByTop
    <3> QED
      BY <1>6, <3>2, <3>4
  <2> QED
    BY <1>3, <2>2, <2>6, <2>7, <2>8
<1> QED
  BY <1>8, <1>9

-----------------------------------------------------------------------------
(* Keys as strings of bits *)

LEMMA LengthFacts ==
    /\ KEY_LEN_BITS \in Nat /\ KEY_LEN_BITS = BYTE * KEY_LEN
    /\ BYTE \in Nat \ {0} /\ KEY_LEN \in Nat \ {0}
BY KeyAssumption DEF KEY_LEN_BITS

\* A place in a key is a byte and a bit of it.
LEMMA BitPlace ==
    ASSUME NEW n \in 0..(KEY_LEN_BITS - 1)
    PROVE  /\ n \div BYTE \in Index /\ n % BYTE \in Bit
           /\ n = BYTE * (n \div BYTE) + (n % BYTE)
<1>1. n \in Nat /\ BYTE \in Nat \ {0} /\ KEY_LEN \in Nat
  BY LengthFacts
<1> DEFINE q == n \div BYTE
           r == n % BYTE
<1>2. r \in 0..(BYTE - 1) /\ q \in Nat /\ n = BYTE * q + r
  BY <1>1, Division
<1> HIDE DEF q, r
<1>3. q < KEY_LEN
  <2> SUFFICES ASSUME ~(q < KEY_LEN) PROVE FALSE
    OBVIOUS
  <2>1. KEY_LEN <= q
    BY <1>1, <1>2
  <2>2. BYTE * KEY_LEN <= BYTE * q
    <3>1. CASE KEY_LEN = q
      BY <1>1, <1>2, <3>1
    <3>2. CASE KEY_LEN < q
      <4>1. /\ BYTE * KEY_LEN \in Nat /\ BYTE * q \in Nat
            /\ BYTE * KEY_LEN + BYTE <= BYTE * q
        BY <1>1, <1>2, <3>2, Multiples
      <4> DEFINE a == BYTE * KEY_LEN
                 b == BYTE * q
      <4>2. a \in Nat /\ b \in Nat /\ a + BYTE <= b
        BY <4>1
      <4> HIDE DEF a, b
      <4>3. a <= b
        BY <1>1, <4>2
      <4> QED
        BY <4>3 DEF a, b
    <3> QED
      BY <1>1, <1>2, <2>1, <3>1, <3>2
  <2> DEFINE a == BYTE * q
  <2>3. a \in Nat /\ KEY_LEN_BITS <= a /\ n = a + r /\ n <= KEY_LEN_BITS - 1
    BY <1>1, <1>2, <2>2, LengthFacts
  <2> HIDE DEF a
  <2> QED
    BY <1>1, <1>2, <2>3, LengthFacts
<1> QED
  BY <1>1, <1>2, <1>3 DEF q, r, Index, Bit

\* Keys that agree in the bytes before i, and in the bits of it above p, agree
\* as strings of bits up to that bit.
LEMMA BitsBefore ==
    ASSUME NEW x \in Key, NEW y \in Key, NEW i \in Index, NEW p \in Bit,
           \A j \in 0..(i - 1) : x[j] = y[j],
           \A j \in Bit : j > p => (j \in x[i] <=> j \in y[i]),
           NEW n \in Nat, n = BYTE * i + (BYTE - 1 - p)
    PROVE  /\ n \in 0..(KEY_LEN_BITS - 1)
           /\ BitAt(x, n) <=> p \in x[i]
           /\ BitAt(y, n) <=> p \in y[i]
           /\ \A m \in 0..(n - 1) : m \in 0..(KEY_LEN_BITS - 1)
                                   /\ (BitAt(x, m) <=> BitAt(y, m))
<1>1. /\ i \in Nat /\ i + 1 <= KEY_LEN /\ p \in Nat /\ p <= BYTE - 1
      /\ BYTE \in Nat \ {0} /\ KEY_LEN \in Nat /\ KEY_LEN_BITS \in Nat
  BY LengthFacts DEF Index, Bit
<1> DEFINE o == BYTE - 1 - p
<1>2. o \in 0..(BYTE - 1) /\ BYTE - 1 - o = p
  BY <1>1
<1>3. n = BYTE * i + o
  OBVIOUS
<1> HIDE DEF o
<1>4. n \div BYTE = i /\ n % BYTE = o
  <2>1. n \div BYTE = i
    BY <1>1, <1>2, <1>3, Quotient
  <2>2. n % BYTE = o
    BY <1>1, <1>2, <1>3, Remainder
  <2> QED
    BY <2>1, <2>2
<1>5. n \in 0..(KEY_LEN_BITS - 1)
  <2>1. BYTE * i + BYTE <= BYTE * KEY_LEN
    BY <1>1, Multiples
  <2> DEFINE a == BYTE * i
  <2>2. a \in Nat /\ n = a + o /\ a + BYTE <= KEY_LEN_BITS
    BY <1>1, <1>3, <2>1, LengthFacts
  <2> HIDE DEF a
  <2> QED
    BY <1>1, <1>2, <2>2
<1>6. (BitAt(x, n) <=> p \in x[i]) /\ (BitAt(y, n) <=> p \in y[i])
  BY <1>2, <1>4 DEF BitAt
<1>7. ASSUME NEW m \in 0..(n - 1)
      PROVE  m \in 0..(KEY_LEN_BITS - 1) /\ (BitAt(x, m) <=> BitAt(y, m))
  <2>1. m \in 0..(KEY_LEN_BITS - 1) /\ m \in Nat /\ m < n
    BY <1>1, <1>5
  <2> DEFINE q == m \div BYTE
             r == m % BYTE
  <2>2. q \in Index /\ r \in Bit /\ m = BYTE * q + r
    BY <2>1, BitPlace
  <2>3. BitAt(x, m) <=> BYTE - 1 - r \in x[q]
    BY DEF BitAt
  <2>4. BitAt(y, m) <=> BYTE - 1 - r \in y[q]
    BY DEF BitAt
  <2> HIDE DEF q, r
  <2>5. q \in Nat /\ r \in 0..(BYTE - 1) /\ BYTE - 1 - r \in Bit
    BY <1>1, <2>2 DEF Index, Bit
  <2>6. ~(i < q)
    <3> SUFFICES ASSUME i < q PROVE FALSE
      OBVIOUS
    <3>1. BYTE * i \in Nat /\ BYTE * q \in Nat /\ BYTE * i + BYTE <= BYTE * q
      BY <1>1, <2>5, Multiples
    <3> DEFINE a == BYTE * i
               b == BYTE * q
    <3>2. a \in Nat /\ b \in Nat /\ a + BYTE <= b /\ n = a + o /\ m = b + r
      BY <1>3, <2>2, <3>1
    <3> HIDE DEF a, b
    <3> QED
      BY <1>1, <1>2, <2>1, <2>5, <3>2
  <2>7. CASE q < i
    <3>1. q \in 0..(i - 1)
      BY <1>1, <2>5, <2>7
    <3>2. x[q] = y[q]
      BY <3>1
    <3> QED
      BY <2>1, <2>3, <2>4, <3>2
  <2>8. CASE q = i
    <3> DEFINE a == BYTE * i
    <3>1. a \in Nat /\ n = a + o /\ m = a + r
      BY <1>1, <1>3, <2>2, <2>8
    <3> HIDE DEF a
    <3>2. BYTE - 1 - r > p
      BY <1>1, <1>2, <2>1, <2>5, <3>1
    <3>3. BYTE - 1 - r \in x[i] <=> BYTE - 1 - r \in y[i]
      BY <2>5, <3>2
    <3> QED
      BY <2>1, <2>3, <2>4, <2>8, <3>3
  <2> QED
    BY <1>1, <2>5, <2>6, <2>7, <2>8
<1> QED
  BY <1>5, <1>6, <1>7

\* The matching prefix is the place of the first bit in which two keys differ.
LEMMA PrefixPlace ==
    ASSUME NEW x \in Key, NEW y \in Key, x # y
    PROVE  LET n == longest_matching_prefix(x, y)
           IN  /\ n \in 0..(KEY_LEN_BITS - 1)
               /\ BitAt(x, n) <=> ~BitAt(y, n)
               /\ \A m \in 0..(n - 1) : BitAt(x, m) <=> BitAt(y, m)
<1> DEFINE n == longest_matching_prefix(x, y)
<1>1. PICK i \in Differ(x, y) :
        /\ \A j \in Differ(x, y) : i <= j
        /\ Xor(x[i], y[i]) \in Byte /\ Xor(x[i], y[i]) # {}
        /\ n = (i + 1) * BYTE - l2c(Xor(x[i], y[i]))
  BY PrefixByFirst
<1> HIDE DEF n
<1>2. i \in Index /\ i \in Nat
  BY IndexFacts DEF Differ
<1>3. \A j \in 0..(i - 1) : x[j] = y[j]
  BY <1>1, <1>2, IndexFacts DEF Differ, Index
<1> DEFINE p == l2c(Xor(x[i], y[i])) - 1
<1>4. /\ l2c(Xor(x[i], y[i])) \in 1..BYTE /\ p \in Xor(x[i], y[i])
      /\ \A j \in Xor(x[i], y[i]) : j <= p
  BY <1>1, l2cTop
<1>5. p \in Bit
  BY <1>1, <1>4 DEF Byte
<1>6. p \in x[i] <=> p \notin y[i]
  BY <1>4 DEF Xor
<1>7. n = BYTE * i + (BYTE - 1 - p) /\ n \in Nat
  <2> DEFINE l == l2c(Xor(x[i], y[i]))
             a == BYTE * i
  <2>1. l \in 1..BYTE /\ p = l - 1 /\ BYTE \in Nat
    BY <1>4, BitFacts
  <2>2. a \in Nat /\ (i + 1) * BYTE = a + BYTE
    BY <1>2, BitFacts
  <2>3. n = (a + BYTE) - l
    BY <1>1, <2>2
  <2> HIDE DEF a, l, p
  <2>4. n = a + (BYTE - 1 - p) /\ n \in Nat
    BY <2>1, <2>2, <2>3
  <2> QED
    BY <2>4 DEF a
<1>8. \A j \in Bit : j > p => (j \in x[i] <=> j \in y[i])
  <2>1. \A j \in Bit : j > p => j \notin Xor(x[i], y[i])
    BY <1>4, <1>5, BitFacts
  <2> QED
    BY <2>1 DEF Xor
<1> HIDE DEF p
<1>9. /\ n \in 0..(KEY_LEN_BITS - 1)
      /\ (BitAt(x, n) <=> p \in x[i]) /\ (BitAt(y, n) <=> p \in y[i])
      /\ \A m \in 0..(n - 1) : BitAt(x, m) <=> BitAt(y, m)
  BY <1>2, <1>3, <1>5, <1>7, <1>8, BitsBefore
<1> QED
  BY <1>6, <1>9 DEF n

\* Every look finds keys, as the variables are.
LEMMA KeysOnly == Spec => [](self \in Key /\ k1 \in Key /\ k2 \in Key /\ target \in Key)
<1> DEFINE Inv == self \in Key /\ k1 \in Key /\ k2 \in Key /\ target \in Key
<1>1. Init => Inv
  BY DEF Init
<1>2. Inv /\ [Next]_vars => Inv'
  BY DEF Next, AnotherTarget, vars
<1> QED
  BY <1>1, <1>2, PTL DEF Spec

\* The bucket index is the number of leading bits two keys have in common: all
\* the bits before it agree, and the bit at it does not, unless the keys are
\* the same.
THEOREM PrefixesMatch == Spec => []PrefixIsMatchingBits
<1>1. k1 \in Key /\ k2 \in Key => PrefixIsMatchingBits
  <2> SUFFICES ASSUME k1 \in Key, k2 \in Key PROVE PrefixIsMatchingBits
    OBVIOUS
  <2>1. CASE k1 = k2
    <3>1. longest_matching_prefix(k1, k2) = KEY_LEN_BITS
      BY <2>1, PrefixInRange
    <3> QED
      BY <2>1, <3>1, LengthFacts DEF PrefixIsMatchingBits
  <2>2. CASE k1 # k2
    <3> DEFINE n == longest_matching_prefix(k1, k2)
    <3>1. /\ n \in 0..(KEY_LEN_BITS - 1) /\ (BitAt(k1, n) <=> ~BitAt(k2, n))
          /\ \A m \in 0..(n - 1) : BitAt(k1, m) <=> BitAt(k2, m)
      BY <2>2, PrefixPlace
    <3>2. n \in 0..KEY_LEN_BITS
      BY <3>1, LengthFacts
    <3> QED
      BY <3>1, <3>2 DEF PrefixIsMatchingBits
  <2> QED
    BY <2>1, <2>2
<1> QED
  BY <1>1, KeysOnly, PTL

\* Of two nodes in different buckets, the one in the deeper bucket is nearer to
\* the owner of the buckets.
THEOREM DeeperBuckets == Spec => []DeeperIsCloser
<1>1. self \in Key /\ k1 \in Key /\ k2 \in Key => DeeperIsCloser
  BY DeeperBucketIsCloser DEF DeeperIsCloser
<1> QED
  BY <1>1, KeysOnly, PTL

-----------------------------------------------------------------------------
(* Keys as numbers *)

\* The bit of a key at a place, as a number.
Digit(x, n) == IF BitAt(x, n) THEN 1 ELSE 0

\* f[n] is the number that the first n bits of a key stand for.
Values(x, f) ==
    /\ f \in [0..KEY_LEN_BITS -> Nat] /\ f[0] = 0
    /\ \A n \in 1..KEY_LEN_BITS : f[n] = 2 * f[n - 1] + Digit(x, n - 1)

\* The number of a key is the last of these.
LEMMA NumberValue ==
    ASSUME NEW x
    PROVE  \E f : Values(x, f) /\ Number(x) = f[KEY_LEN_BITS]
<1> DEFINE N == KEY_LEN_BITS
           Def(f) == [n \in 0..N |->
                         IF n = 0 THEN 0
                         ELSE 2 * f[n - 1] + (IF BitAt(x, n - 1) THEN 1 ELSE 0)]
           upto == CHOOSE f : f = Def(f)
           step == [p \in (0..N) \X Nat |-> 2 * p[2] + Digit(x, p[1] - 1)]
<1>0. N \in Nat /\ \A n : Digit(x, n) \in Nat
  BY LengthFacts DEF Digit
<1>1. step \in [(0..N) \X Nat -> Nat]
  BY <1>0
<1>2. PICK f \in [0..N -> Nat] : f[0] = 0 /\ \A n \in 1..N : f[n] = step[<<n, f[n - 1]>>]
  <2> HIDE DEF step, N
  <2>1. Recursion(N, Nat, 0, step)
    BY <1>0, <1>1, RecursionExists
  <2> QED
    BY <2>1 DEF Recursion
<1>3. \A n \in 1..N : n \in 0..N /\ n - 1 \in 0..N /\ f[n - 1] \in Nat
  BY <1>0
<1>4. \A n \in 1..N : f[n] = 2 * f[n - 1] + Digit(x, n - 1)
  <2> SUFFICES ASSUME NEW n \in 1..N PROVE f[n] = 2 * f[n - 1] + Digit(x, n - 1)
    OBVIOUS
  <2>1. <<n, f[n - 1]>> \in (0..N) \X Nat
    BY <1>3
  <2>2. step[<<n, f[n - 1]>>] = 2 * f[n - 1] + Digit(x, n - 1)
    BY <2>1
  <2> QED
    BY <1>2, <2>2
<1> HIDE DEF step
<1>5. f = Def(f)
  <2>1. ASSUME NEW n \in 0..N
        PROVE  f[n] = IF n = 0 THEN 0
                      ELSE 2 * f[n - 1] + (IF BitAt(x, n - 1) THEN 1 ELSE 0)
    <3>1. CASE n = 0
      BY <1>2, <3>1
    <3>2. CASE n # 0
      <4>1. n \in 1..N
        BY <1>0, <3>2
      <4> QED
        BY <1>4, <3>2, <4>1 DEF Digit
    <3> QED
      BY <3>1, <3>2
  <2> QED
    BY <2>1
<1>6. Number(x) = upto[N]
  BY DEF Number
<1> HIDE DEF Def
<1>7. upto = Def(upto)
  BY <1>5
<1> HIDE DEF upto
<1>8. upto[0] = 0 /\ DOMAIN upto = 0..N /\ upto = [n \in 0..N |-> upto[n]]
  BY <1>0, <1>7 DEF Def
<1>9. ASSUME NEW n \in 1..N
       PROVE  n \in 0..N /\ upto[n] = 2 * upto[n - 1] + Digit(x, n - 1)
  <2>1. n \in 0..N /\ n # 0
    BY <1>0
  <2>2. Def(upto)[n] = 2 * upto[n - 1] + (IF BitAt(x, n - 1) THEN 1 ELSE 0)
    BY <2>1 DEF Def
  <2>3. upto[n] = 2 * upto[n - 1] + (IF BitAt(x, n - 1) THEN 1 ELSE 0)
    BY <1>7, <2>2
  <2> QED
    BY <2>1, <2>3 DEF Digit
<1> DEFINE S == {n \in 0..N : upto[n] \in Nat}
<1>10. \A n \in 0..N : n \in S
  <2>1. 0 \in S
    BY <1>0, <1>8
  <2>2. \A n \in 1..N : n - 1 \in S => n \in S
    <3> SUFFICES ASSUME NEW n \in 1..N, n - 1 \in S PROVE n \in S
      OBVIOUS
    <3>1. upto[n - 1] \in Nat /\ upto[n] = 2 * upto[n - 1] + Digit(x, n - 1) /\ n \in 0..N
      BY <1>9
    <3>2. upto[n] \in Nat
      BY <1>0, <3>1
    <3> QED
      BY <3>1, <3>2
  <2> HIDE DEF S, N
  <2> QED
    BY <1>0, <2>1, <2>2, UptoInduction
<1>11. Values(x, upto)
  BY <1>8, <1>9, <1>10 DEF Values
<1> QED
  BY <1>6, <1>11

\* Two keys that agree in their first bits stand for numbers whose first bits
\* have the same value, and the first bit in which they differ decides.
LEMMA FirstBitDecides ==
    ASSUME NEW x, NEW y, NEW n \in 0..(KEY_LEN_BITS - 1),
           \A m \in 0..(n - 1) : BitAt(x, m) <=> BitAt(y, m),
           ~BitAt(x, n), BitAt(y, n)
    PROVE  Number(x) \in Nat /\ Number(y) \in Nat /\ Number(x) < Number(y)
<1> DEFINE N == KEY_LEN_BITS
<1>0. N \in Nat /\ n \in Nat /\ n < N
  BY LengthFacts
<1>1. PICK f : Values(x, f) /\ Number(x) = f[N]
  BY NumberValue
<1>2. PICK g : Values(y, g) /\ Number(y) = g[N]
  BY NumberValue
<1>3. /\ f[0] = 0 /\ g[0] = 0
      /\ \A m \in 0..N : f[m] \in Nat /\ g[m] \in Nat
      /\ \A m \in 1..N : /\ f[m] = 2 * f[m - 1] + Digit(x, m - 1)
                         /\ g[m] = 2 * g[m - 1] + Digit(y, m - 1)
                         /\ m - 1 \in 0..N /\ f[m - 1] \in Nat /\ g[m - 1] \in Nat
  BY <1>0, <1>1, <1>2 DEF Values
<1> HIDE DEF N
<1>4. \A m \in 0..n : f[m] = g[m]
  <2> DEFINE S == {m \in 0..n : f[m] = g[m]}
  <2>1. 0 \in S
    BY <1>0, <1>3
  <2>2. ASSUME NEW m \in 1..n, m - 1 \in S PROVE m \in S
    <3>1. m \in 1..N /\ m - 1 \in 0..(n - 1) /\ f[m - 1] = g[m - 1] /\ m \in 0..n
      BY <1>0, <2>2
    <3>2. Digit(x, m - 1) = Digit(y, m - 1)
      BY <3>1 DEF Digit
    <3>3. f[m] = g[m]
      BY <1>3, <3>1, <3>2
    <3> QED
      BY <3>1, <3>3
  <2>3. \A m \in 1..n : m - 1 \in S => m \in S
    BY <2>2
  <2> HIDE DEF S
  <2>4. \A m \in 0..n : m \in S
    BY <1>0, <2>1, <2>3, UptoInduction
  <2> QED
    BY <2>4 DEF S
<1>5. f[n + 1] < g[n + 1]
  <2>1. Digit(x, n) = 0 /\ Digit(y, n) = 1
    BY DEF Digit
  <2>2. n + 1 \in 1..N /\ (n + 1) - 1 = n /\ n \in 0..n
    BY <1>0
  <2>3. /\ f[n + 1] = 2 * f[n] + Digit(x, n) /\ g[n + 1] = 2 * g[n] + Digit(y, n)
        /\ f[n] \in Nat /\ f[n] = g[n]
    BY <1>3, <1>4, <2>2
  <2> QED
    BY <2>1, <2>3
<1>6. \A m \in (n + 1)..N : f[m] < g[m]
  <2> DEFINE S == {m \in 0..N : n < m => f[m] < g[m]}
  <2>1. 0 \in S
    BY <1>0
  <2>2. ASSUME NEW m \in 1..N, m - 1 \in S PROVE m \in S
    <3>1. m \in 0..N /\ m \in Nat
      BY <1>0
    <3>2. CASE m <= n
      BY <1>0, <3>1, <3>2
    <3>3. CASE m = n + 1
      BY <1>5, <3>1, <3>3
    <3>4. CASE n + 1 < m
      <4>1. n < m - 1
        BY <1>0, <3>1, <3>4
      <4>2. f[m - 1] < g[m - 1]
        BY <2>2, <4>1
      <4> DEFINE a == f[m - 1]
                 b == g[m - 1]
                 c == Digit(x, m - 1)
                 d == Digit(y, m - 1)
      <4>3. c \in 0..1 /\ d \in 0..1
        BY DEF Digit
      <4>4. /\ a \in Nat /\ b \in Nat /\ a < b
            /\ f[m] = 2 * a + c /\ g[m] = 2 * b + d
        BY <1>3, <4>2
      <4> HIDE DEF a, b, c, d
      <4>5. f[m] < g[m]
        BY <4>3, <4>4
      <4> QED
        BY <3>1, <4>5
    <3> QED
      BY <1>0, <3>1, <3>2, <3>3, <3>4
  <2>3. \A m \in 1..N : m - 1 \in S => m \in S
    BY <2>2
  <2> HIDE DEF S
  <2>4. \A m \in 0..N : m \in S
    BY <1>0, <2>1, <2>3, UptoInduction
  <2>5. \A m \in (n + 1)..N : m \in 0..N /\ n < m
    BY <1>0
  <2> QED
    BY <2>4, <2>5 DEF S
<1>7. N \in (n + 1)..N /\ N \in 0..N
  BY <1>0
<1> QED
  BY <1>1, <1>2, <1>3, <1>6, <1>7

\* The bytes of the distance of a key.
Difference(x, t) == [i \in Index |-> Xor(x[i], t[i])]

LEMMA DifferenceFacts ==
    ASSUME NEW x \in Key, NEW t \in Key
    PROVE  /\ Difference(x, t) \in Key
           /\ \A i \in Index : Difference(x, t)[i] = Xor(x[i], t[i])
           /\ Distance(x, t) = Number(Difference(x, t))
<1>1. \A i \in Index : Xor(x[i], t[i]) \in Byte
  BY XorFacts DEF Key
<1> QED
  BY <1>1 DEF Difference, Key, Distance

\* What key_distance_cmp calls closer is less as a number.
LEMMA CloserIsLess ==
    ASSUME NEW t \in Key, NEW a \in Key, NEW b \in Key, key_distance_cmp(t, a, b)
    PROVE  Distance(a, t) < Distance(b, t)
<1> DEFINE A == Difference(a, t)
           B == Difference(b, t)
<1>1. /\ A \in Key /\ B \in Key
      /\ Distance(a, t) = Number(A) /\ Distance(b, t) = Number(B)
      /\ \A i \in Index : A[i] = Xor(a[i], t[i]) /\ B[i] = Xor(b[i], t[i])
  BY DifferenceFacts
<1> HIDE DEF A, B
<1>2. PICK i \in Index : /\ \A j \in 0..(i - 1) : Xor(a[j], t[j]) = Xor(b[j], t[j])
                         /\ Below(Xor(a[i], t[i]), Xor(b[i], t[i]))
  BY DEF key_distance_cmp
<1>3. \A j \in 0..(i - 1) : A[j] = B[j]
  <2>1. \A j \in 0..(i - 1) : j \in Index
    BY IndexFacts DEF Index
  <2> QED
    BY <1>1, <1>2, <2>1
<1>4. PICK p \in Bit : p \in B[i] \ A[i] /\ \A j \in Bit : j > p => (j \in A[i] <=> j \in B[i])
  BY <1>1, <1>2 DEF Below
<1> DEFINE n == BYTE * i + (BYTE - 1 - p)
<1>5. n \in Nat /\ n = BYTE * i + (BYTE - 1 - p)
  <2>1. BYTE * i \in Nat /\ BYTE - 1 - p \in Nat
    BY IndexFacts, BitFacts
  <2> QED
    BY <2>1
<1> HIDE DEF n
<1>6. /\ n \in 0..(KEY_LEN_BITS - 1)
      /\ (BitAt(A, n) <=> p \in A[i]) /\ (BitAt(B, n) <=> p \in B[i])
      /\ \A m \in 0..(n - 1) : BitAt(A, m) <=> BitAt(B, m)
  BY <1>1, <1>3, <1>4, <1>5, BitsBefore
<1>7. ~BitAt(A, n) /\ BitAt(B, n)
  BY <1>4, <1>6
<1>8. Number(A) < Number(B)
  BY <1>6, <1>7, FirstBitDecides
<1> QED
  BY <1>1, <1>8

\* The distance of two keys is a number, and no two keys are equally far from
\* a third.
THEOREM DistancesAreNumbers ==
    \A t, a, b \in Key :
        /\ Distance(a, t) \in Nat
        /\ Distance(a, t) = Distance(b, t) <=> a = b
        /\ key_distance_cmp(t, a, b) <=> Distance(a, t) < Distance(b, t)
<1> TAKE t \in Key, a \in Key, b \in Key
<1>1. Distance(a, t) \in Nat /\ Distance(b, t) \in Nat
  <2>1. \A x : Number(x) \in Nat
    <3> TAKE x
    <3>1. PICK f : Values(x, f) /\ Number(x) = f[KEY_LEN_BITS]
      BY NumberValue
    <3>2. KEY_LEN_BITS \in 0..KEY_LEN_BITS
      BY LengthFacts
    <3> QED
      BY <3>1, <3>2 DEF Values
  <2> QED
    BY <2>1 DEF Distance
<1>2. key_distance_cmp(t, a, b) => Distance(a, t) < Distance(b, t)
  BY CloserIsLess
<1>3. key_distance_cmp(t, b, a) => Distance(b, t) < Distance(a, t)
  BY CloserIsLess
<1>4. a # b => key_distance_cmp(t, a, b) \/ key_distance_cmp(t, b, a)
  BY DistanceOrder
<1>5. a = b => ~key_distance_cmp(t, a, b)
  BY DistanceOrder
<1> QED
  BY <1>1, <1>2, <1>3, <1>4, <1>5

\* std::sort orders nodes by their XOR distance to the target, read as a number:
\* the byte-wise comparison of key_distance_cmp is that of the numbers.
THEOREM ComparisonIsDistance == Spec => []ComparesDistances
<1>1. k1 \in Key /\ k2 \in Key /\ target \in Key => ComparesDistances
  BY DistancesAreNumbers DEF ComparesDistances
<1> QED
  BY <1>1, KeysOnly, PTL

-----------------------------------------------------------------------------
(* Sorting *)

\* Every sequence of numbers can be brought into ascending order.
LEMMA SortExists ==
    ASSUME NEW L \in Nat, NEW d \in [1..L -> Nat]
    PROVE  \E p \in Bijection(1..L, 1..L) :
              \A i, j \in 1..L : i < j => d[p[i]] <= d[p[j]]
<1> DEFINE Before(j, i) == d[j] < d[i] \/ (d[j] = d[i] /\ j <= i)
           upto(i) == {j \in 1..L : Before(j, i)}
           rank == [i \in 1..L |-> Cardinality(upto(i))]
<1>1. IsFiniteSet(1..L) /\ Cardinality(1..L) = L
  BY FS_Interval
<1>2. ASSUME NEW i \in 1..L
      PROVE  IsFiniteSet(upto(i)) /\ rank[i] = Cardinality(upto(i)) /\ rank[i] \in 1..L
  <2>1. upto(i) \in SUBSET (1..L) /\ i \in upto(i)
    OBVIOUS
  <2> HIDE DEF upto
  <2>2. IsFiniteSet(upto(i)) /\ Cardinality(upto(i)) <= L
    BY <1>1, <2>1, FS_Subset
  <2>3. Cardinality(upto(i)) \in Nat /\ Cardinality(upto(i)) # 0
    BY <2>1, <2>2, FS_CardinalityType, FS_EmptySet
  <2> QED
    BY <2>2, <2>3
<1>3. ASSUME NEW i \in 1..L, NEW j \in 1..L, Before(i, j), i # j
      PROVE  rank[i] < rank[j]
  <2>1. upto(i) \in SUBSET upto(j)
    <3>1. \A h \in 1..L : Before(h, i) => Before(h, j)
      <4>1. \A h \in 1..L : d[h] \in Nat /\ h \in Nat
        OBVIOUS
      <4> QED
        BY <1>3, <4>1
    <3> QED
      BY <3>1
  <2>2. j \in upto(j) /\ j \notin upto(i)
    <3>1. d[i] \in Nat /\ d[j] \in Nat /\ i \in Nat /\ j \in Nat
      OBVIOUS
    <3> QED
      BY <1>3, <3>1
  <2> HIDE DEF upto
  <2>3. Cardinality(upto(i)) <= Cardinality(upto(j)) /\ Cardinality(upto(i)) # Cardinality(upto(j))
    BY <1>2, <2>1, <2>2, FS_Subset
  <2> HIDE DEF rank
  <2>4. rank[i] \in Nat /\ rank[j] \in Nat
    BY <1>2
  <2> QED
    BY <1>2, <2>3, <2>4
<1>4. \A i, j \in 1..L : Before(i, j) \/ Before(j, i)
  <2>1. \A i \in 1..L : d[i] \in Nat /\ i \in Nat
    OBVIOUS
  <2> QED
    BY <2>1
<1>5. rank \in [1..L -> 1..L]
  BY <1>2
<1> HIDE DEF rank, upto
<1>6. \A i, j \in 1..L : rank[i] = rank[j] => i = j
  <2> SUFFICES ASSUME NEW i \in 1..L, NEW j \in 1..L, rank[i] = rank[j], i # j PROVE FALSE
    OBVIOUS
  <2>1. rank[i] < rank[j] \/ rank[j] < rank[i]
    <3> HIDE DEF Before
    <3> QED
      BY <1>3, <1>4
  <2>2. rank[i] \in Nat /\ rank[j] \in Nat
    BY <1>2
  <2> QED
    BY <2>1, <2>2
<1>7. rank \in Injection(1..L, 1..L)
  BY <1>5, <1>6 DEF Injection, IsInjective
<1>8. rank \in Surjection(1..L, 1..L)
  BY <1>1, <1>7, FS_Injection
<1>9. \A n \in 1..L : \E i \in 1..L : rank[i] = n
  BY <1>8 DEF Surjection
<1> DEFINE p == [n \in 1..L |-> CHOOSE i \in 1..L : rank[i] = n]
<1>10. \A n \in 1..L : p[n] \in 1..L /\ rank[p[n]] = n
  <2> SUFFICES ASSUME NEW n \in 1..L PROVE p[n] \in 1..L /\ rank[p[n]] = n
    OBVIOUS
  <2>1. \E i \in 1..L : rank[i] = n
    BY <1>9
  <2> QED
    BY <2>1
<1>11. p \in [1..L -> 1..L]
  BY <1>10
<1> HIDE DEF p
<1>12. p \in Bijection(1..L, 1..L)
  <2>1. \A m, n \in 1..L : p[m] = p[n] => m = n
    BY <1>10
  <2>2. \A i \in 1..L : rank[i] \in 1..L /\ p[rank[i]] = i
    BY <1>5, <1>6, <1>10
  <2>3. p \in Injection(1..L, 1..L)
    BY <1>11, <2>1 DEF Injection, IsInjective
  <2>4. p \in Surjection(1..L, 1..L)
    BY <1>11, <2>2 DEF Surjection
  <2> QED
    BY <2>3, <2>4 DEF Bijection
<1>13. ASSUME NEW i \in 1..L, NEW j \in 1..L, i < j
       PROVE  d[p[i]] <= d[p[j]]
  <2>1. /\ p[i] \in 1..L /\ p[j] \in 1..L /\ rank[p[i]] = i /\ rank[p[j]] = j
        /\ d[p[i]] \in Nat /\ d[p[j]] \in Nat
    BY <1>10
  <2>2. ~(rank[p[j]] < rank[p[i]]) /\ p[j] # p[i]
    BY <1>13, <2>1
  <2>3. ~Before(p[j], p[i])
    <3> HIDE DEF Before
    <3> QED
      BY <1>3, <2>1, <2>2
  <2> QED
    BY <2>1, <2>3
<1> QED
  BY <1>12, <1>13

\* No entry is listed under a key of another.
Once(q) == \A i, j \in DOMAIN q : q[i].key = q[j].key => i = j

\* A set of entries.
Keyed(E) == \A e \in E : e.key \in Key

\* What sortByDistanceTo does: the same entries, in the order of their
\* distances.
LEMMA SortFacts ==
    ASSUME NEW E, Keyed(E), NEW t \in Key, NEW q \in Seq(E)
    PROVE  LET s == sortByDistanceTo(t, q)
           IN  /\ s \in Seq(E) /\ Len(s) = Len(q) /\ ToSet(s) = ToSet(q)
               /\ Once(q) => Once(s)
               /\ \A i, j \in 1..Len(q) : i < j =>
                     Distance(s[i].key, t) <= Distance(s[j].key, t)
<1> DEFINE L == Len(q)
           s == sortByDistanceTo(t, q)
           Sorted(p) == \A i, j \in 1..L : i < j =>
                           ~key_distance_cmp(t, q[p[j]].key, q[p[i]].key)
           order == CHOOSE p \in Bijection(1..L, 1..L) : Sorted(p)
           d == [i \in 1..L |-> Distance(q[i].key, t)]
<1>1. L \in Nat /\ DOMAIN q = 1..L /\ \A i \in 1..L : q[i] \in E /\ q[i].key \in Key
  BY DEF Keyed
<1>2. s = [i \in 1..L |-> q[order[i]]]
  BY <1>1 DEF sortByDistanceTo
<1>3. \A i \in 1..L : d[i] = Distance(q[i].key, t) /\ d[i] \in Nat
  BY <1>1, DistancesAreNumbers
<1>4. d \in [1..L -> Nat]
  BY <1>3
<1> HIDE DEF d, s, L
<1>5. PICK p \in Bijection(1..L, 1..L) : \A i, j \in 1..L : i < j => d[p[i]] <= d[p[j]]
  BY <1>1, <1>4, SortExists
<1>6. ASSUME NEW r \in Bijection(1..L, 1..L)
      PROVE  /\ \A i \in 1..L : r[i] \in 1..L
             /\ \A i, j \in 1..L : r[i] = r[j] => i = j
             /\ \A j \in 1..L : \E i \in 1..L : r[i] = j
  BY <1>6 DEF Bijection, Injection, Surjection, IsInjective
<1>7. ASSUME NEW r \in Bijection(1..L, 1..L)
      PROVE  Sorted(r) <=> \A i, j \in 1..L : i < j => d[r[i]] <= d[r[j]]
  <2>1. \A i \in 1..L : r[i] \in 1..L
    BY <1>6
  <2>2. ASSUME NEW i \in 1..L, NEW j \in 1..L
        PROVE  ~key_distance_cmp(t, q[r[j]].key, q[r[i]].key) <=> d[r[i]] <= d[r[j]]
    <3> DEFINE u == q[r[j]].key
               v == q[r[i]].key
    <3>1. /\ u \in Key /\ v \in Key
          /\ d[r[j]] = Distance(u, t) /\ d[r[i]] = Distance(v, t)
          /\ d[r[j]] \in Nat /\ d[r[i]] \in Nat
      BY <1>1, <1>3, <2>1
    <3> HIDE DEF u, v
    <3>2. key_distance_cmp(t, u, v) <=> Distance(u, t) < Distance(v, t)
      BY <3>1, DistancesAreNumbers
    <3>3. ~key_distance_cmp(t, u, v) <=> d[r[i]] <= d[r[j]]
      BY <3>1, <3>2
    <3> QED
      BY <3>3 DEF u, v
  <2> QED
    BY <2>2
<1>8. order \in Bijection(1..L, 1..L) /\ Sorted(order)
  <2>1. Sorted(p)
    BY <1>5, <1>7
  <2> HIDE DEF Sorted
  <2> QED
    BY <1>5, <2>1
<1> HIDE DEF order
<1>9. /\ \A i \in 1..L : order[i] \in 1..L
      /\ \A i, j \in 1..L : order[i] = order[j] => i = j
      /\ \A j \in 1..L : \E i \in 1..L : order[i] = j
      /\ \A i, j \in 1..L : i < j => d[order[i]] <= d[order[j]]
  <2> HIDE DEF Sorted
  <2> QED
    BY <1>6, <1>7, <1>8
<1>10. \A i \in 1..L : s[i] = q[order[i]] /\ s[i] \in E
  BY <1>1, <1>2, <1>9
<1>11. s \in Seq(E) /\ Len(s) = L /\ DOMAIN s = 1..L
  BY <1>1, <1>2, <1>10
<1>12. ToSet(s) = ToSet(q)
  <2>1. ASSUME NEW i \in 1..L PROVE s[i] \in ToSet(q)
    <3>1. order[i] \in DOMAIN q /\ s[i] = q[order[i]]
      BY <1>1, <1>9, <1>10
    <3> QED
      BY <3>1 DEF ToSet
  <2>2. ASSUME NEW j \in 1..L PROVE q[j] \in ToSet(s)
    <3>1. PICK i \in 1..L : order[i] = j
      BY <1>9
    <3>2. s[i] = q[j]
      BY <1>10, <3>1
    <3> QED
      BY <1>11, <3>2 DEF ToSet
  <2>3. ToSet(s) = {s[i] : i \in 1..L} /\ ToSet(q) = {q[i] : i \in 1..L}
    BY <1>1, <1>11 DEF ToSet
  <2> QED
    BY <2>1, <2>2, <2>3
<1>13. ASSUME Once(q) PROVE Once(s)
  <2>1. ASSUME NEW i \in 1..L, NEW j \in 1..L, s[i].key = s[j].key PROVE i = j
    <3>1. q[order[i]].key = q[order[j]].key /\ order[i] \in 1..L /\ order[j] \in 1..L
      BY <1>9, <1>10, <2>1
    <3>2. order[i] = order[j]
      BY <1>1, <1>13, <3>1 DEF Once
    <3> QED
      BY <1>9, <3>2
  <2> QED
    BY <1>11, <2>1 DEF Once
<1>14. ASSUME NEW i \in 1..L, NEW j \in 1..L, i < j
       PROVE  Distance(s[i].key, t) <= Distance(s[j].key, t)
  <2>1. s[i] = q[order[i]] /\ s[j] = q[order[j]] /\ order[i] \in 1..L /\ order[j] \in 1..L
    BY <1>9, <1>10
  <2>2. d[order[i]] = Distance(s[i].key, t) /\ d[order[j]] = Distance(s[j].key, t)
    BY <1>3, <2>1
  <2>3. d[order[i]] <= d[order[j]]
    BY <1>9, <1>14
  <2> QED
    BY <2>2, <2>3
<1> QED
  BY <1>11, <1>12, <1>13, <1>14 DEF s, L

-----------------------------------------------------------------------------
(* Gathering the entries of the buckets *)

LEMMA SeqFacts ==
    ASSUME NEW E, NEW q \in Seq(E)
    PROVE  /\ Len(q) \in Nat /\ DOMAIN q = 1..Len(q) /\ \A i \in 1..Len(q) : q[i] \in E
           /\ ToSet(q) = {q[i] : i \in 1..Len(q)}
BY DEF ToSet

\* Two sequences of entries, one after the other.
LEMMA ConcatFacts ==
    ASSUME NEW E, NEW p \in Seq(E), NEW q \in Seq(E)
    PROVE  /\ p \o q \in Seq(E) /\ ToSet(p \o q) = ToSet(p) \cup ToSet(q)
           /\ Once(p) /\ Once(q) /\ (\A e \in ToSet(p), f \in ToSet(q) : e.key # f.key)
                 => Once(p \o q)
<1> DEFINE r == p \o q
           m == Len(p)
           n == Len(q)
<1>1. /\ m \in Nat /\ n \in Nat /\ DOMAIN p = 1..m /\ DOMAIN q = 1..n
      /\ \A i \in 1..m : p[i] \in E
      /\ \A i \in 1..n : q[i] \in E
  OBVIOUS
<1>2. /\ r \in Seq(E) /\ Len(r) = m + n /\ DOMAIN r = 1..(m + n)
      /\ \A i \in 1..(m + n) : r[i] = IF i <= m THEN p[i] ELSE q[i - m]
  OBVIOUS
<1> HIDE DEF r, m, n
<1>3. \A i \in 1..(m + n) : \/ i \in 1..m /\ r[i] = p[i]
                            \/ i - m \in 1..n /\ r[i] = q[i - m]
  BY <1>1, <1>2
<1>4. \A i \in 1..m : i \in 1..(m + n) /\ r[i] = p[i]
  BY <1>1, <1>2
<1>5. ASSUME NEW i \in 1..n PROVE i + m \in 1..(m + n) /\ r[i + m] = q[i]
  <2>1. i + m \in 1..(m + n) /\ ~(i + m <= m) /\ (i + m) - m = i
    BY <1>1
  <2> QED
    BY <1>2, <2>1
<1>6. /\ ToSet(p) = {p[i] : i \in 1..m} /\ ToSet(q) = {q[i] : i \in 1..n}
      /\ ToSet(r) = {r[i] : i \in 1..(m + n)}
  BY <1>1, <1>2 DEF ToSet
<1>7. ToSet(r) = ToSet(p) \cup ToSet(q)
  <2>1. ToSet(r) \subseteq ToSet(p) \cup ToSet(q)
    BY <1>3, <1>6
  <2>2. ToSet(p) \subseteq ToSet(r)
    BY <1>4, <1>6
  <2>3. ToSet(q) \subseteq ToSet(r)
    BY <1>5, <1>6
  <2> QED
    BY <2>1, <2>2, <2>3
<1>8. ASSUME Once(p), Once(q), \A e \in ToSet(p), f \in ToSet(q) : e.key # f.key
      PROVE  Once(r)
  <2> SUFFICES ASSUME NEW i \in 1..(m + n), NEW j \in 1..(m + n), r[i].key = r[j].key
               PROVE  i = j
    BY <1>2 DEF Once
  <2>1. CASE i \in 1..m /\ r[i] = p[i] /\ j \in 1..m /\ r[j] = p[j]
    BY <1>1, <1>8, <2>1 DEF Once
  <2>2. CASE i - m \in 1..n /\ r[i] = q[i - m] /\ j - m \in 1..n /\ r[j] = q[j - m]
    <3>1. i - m = j - m
      BY <1>1, <1>8, <2>2 DEF Once
    <3> QED
      BY <1>1, <3>1
  <2>3. CASE i \in 1..m /\ r[i] = p[i] /\ j - m \in 1..n /\ r[j] = q[j - m]
    BY <1>6, <1>8, <2>3
  <2>4. CASE i - m \in 1..n /\ r[i] = q[i - m] /\ j \in 1..m /\ r[j] = p[j]
    BY <1>6, <1>8, <2>4
  <2> QED
    BY <1>3, <2>1, <2>2, <2>3, <2>4
<1> QED
  BY <1>2, <1>7, <1>8 DEF r

\* No two of the sequences, and no two places of one, have entries of the same
\* key.
OnceInAll(q, I) ==
    \A i, j \in I : \A a \in DOMAIN q[i], b \in DOMAIN q[j] :
        q[i][a].key = q[j][b].key => i = j /\ a = b

\* What the concatenation of a number of sequences holds.
LEMMA FlattenFacts ==
    ASSUME NEW E, NEW N \in Nat \ {0}, NEW q \in [1..N -> Seq(E)]
    PROVE  /\ FlattenSeq(q) \in Seq(E)
           /\ ToSet(FlattenSeq(q)) = UNION {ToSet(q[i]) : i \in 1..N}
           /\ OnceInAll(q, 1..N) => Once(FlattenSeq(q))
<1> DEFINE Def(f) == [i \in 1..N |-> IF i = 1 THEN q[i] ELSE f[i - 1] \o q[i]]
           flatten == CHOOSE f : f = Def(f)
           step == [p \in (0..(N - 1)) \X Seq(E) |-> p[2] \o q[p[1] + 1]]
<1>0. N \in Nat /\ N - 1 \in Nat /\ \A i \in 1..N : q[i] \in Seq(E)
  OBVIOUS
<1>1. step \in [(0..(N - 1)) \X Seq(E) -> Seq(E)]
  <2>1. ASSUME NEW p \in (0..(N - 1)) \X Seq(E) PROVE p[2] \o q[p[1] + 1] \in Seq(E)
    <3>1. p[2] \in Seq(E) /\ p[1] + 1 \in 1..N
      BY <1>0
    <3>2. q[p[1] + 1] \in Seq(E)
      BY <3>1
    <3> QED
      BY <3>1, <3>2
  <2> QED
    BY <2>1
<1>2. PICK g \in [0..(N - 1) -> Seq(E)] :
          g[0] = q[1] /\ \A n \in 1..(N - 1) : g[n] = step[<<n, g[n - 1]>>]
  <2> HIDE DEF step
  <2>1. 1 \in 1..N
    BY <1>0
  <2>2. Recursion(N - 1, Seq(E), q[1], step)
    BY <1>0, <1>1, <2>1, RecursionExists
  <2> QED
    BY <2>2 DEF Recursion
<1> DEFINE f == [i \in 1..N |-> g[i - 1]]
<1>3. \A i \in 1..N : f[i] = g[i - 1] /\ f[i] \in Seq(E)
  BY <1>0
<1>4. ASSUME NEW i \in 1..N
      PROVE  f[i] = IF i = 1 THEN q[i] ELSE f[i - 1] \o q[i]
  <2>1. CASE i = 1
    BY <1>0, <1>2, <2>1
  <2>2. CASE i # 1
    <3>1. /\ i - 1 \in 1..(N - 1) /\ i - 1 \in 1..N /\ i - 2 \in 0..(N - 1)
          /\ (i - 1) - 1 = i - 2 /\ (i - 1) + 1 = i
      BY <1>0, <2>2
    <3>2. g[i - 2] \in Seq(E) /\ <<i - 1, g[i - 2]>> \in (0..(N - 1)) \X Seq(E)
      BY <3>1
    <3>3. g[i - 1] = step[<<i - 1, g[i - 2]>>]
      BY <1>2, <3>1
    <3>4. step[<<i - 1, g[i - 2]>>] = g[i - 2] \o q[i]
      BY <3>1, <3>2
    <3>5. f[i] = g[i - 1] /\ f[i - 1] = g[i - 2]
      BY <1>3, <3>1
    <3> QED
      BY <2>2, <3>3, <3>4, <3>5
  <2> QED
    BY <2>1, <2>2
<1>5. f = Def(f)
  <2> HIDE DEF step
  <2>1. f = [i \in 1..N |-> f[i]]
    OBVIOUS
  <2> HIDE DEF f
  <2> QED
    BY <1>4, <2>1
<1> HIDE DEF step, f
<1>6. FlattenSeq(q) = flatten[N]
  <2>1. q \in Seq(Seq(E)) /\ Len(q) = N /\ Len(q) # 0
    BY <1>0
  <2> QED
    BY <2>1 DEF FlattenSeq
<1> HIDE DEF Def
<1>7. flatten = Def(flatten)
  BY <1>5
<1> HIDE DEF flatten
<1>8. ASSUME NEW i \in 1..N
      PROVE  flatten[i] = IF i = 1 THEN q[i] ELSE flatten[i - 1] \o q[i]
  <2>1. Def(flatten)[i] = IF i = 1 THEN q[i] ELSE flatten[i - 1] \o q[i]
    BY DEF Def
  <2> QED
    BY <1>7, <2>1
<1> DEFINE Upto(n) == UNION {ToSet(q[i]) : i \in 1..n}
           Good(n) == /\ flatten[n] \in Seq(E) /\ ToSet(flatten[n]) = Upto(n)
                      /\ OnceInAll(q, 1..N) => Once(flatten[n])
           S == {n \in 0..(N - 1) : Good(n + 1)}
<1>9. ASSUME OnceInAll(q, 1..N), NEW n \in 1..N PROVE Once(q[n])
  BY <1>9 DEF OnceInAll, Once
<1>10. Good(1)
  <2>1. 1 \in 1..N /\ 1..1 = {1}
    BY <1>0
  <2>2. flatten[1] = q[1] /\ Upto(1) = ToSet(q[1])
    BY <1>8, <2>1
  <2> QED
    BY <1>0, <1>9, <2>1, <2>2
<1>11. ASSUME NEW n \in 1..(N - 1), Good(n) PROVE Good(n + 1)
  <2>1. /\ n + 1 \in 1..N /\ n + 1 # 1 /\ (n + 1) - 1 = n
        /\ 1..(n + 1) = (1..n) \cup {n + 1} /\ n + 1 \notin 1..n /\ 1..n \subseteq 1..N
    BY <1>0
  <2>2. flatten[n + 1] = flatten[n] \o q[n + 1]
    BY <1>8, <2>1
  <2>3. q[n + 1] \in Seq(E) /\ flatten[n] \in Seq(E)
    BY <1>0, <1>11, <2>1
  <2>4. /\ flatten[n + 1] \in Seq(E)
        /\ ToSet(flatten[n + 1]) = ToSet(flatten[n]) \cup ToSet(q[n + 1])
    BY <2>2, <2>3, ConcatFacts
  <2>5. Upto(n + 1) = Upto(n) \cup ToSet(q[n + 1])
    BY <2>1
  <2>6. ASSUME OnceInAll(q, 1..N) PROVE Once(flatten[n + 1])
    <3>1. ASSUME NEW e \in Upto(n), NEW h \in ToSet(q[n + 1]) PROVE e.key # h.key
      <4>1. PICK i \in 1..n : e \in ToSet(q[i])
        OBVIOUS
      <4>2. PICK a \in DOMAIN q[i] : e = q[i][a]
        BY <4>1 DEF ToSet
      <4>3. PICK b \in DOMAIN q[n + 1] : h = q[n + 1][b]
        BY DEF ToSet
      <4>4. i \in 1..N /\ i # n + 1
        BY <2>1
      <4> QED
        BY <2>1, <2>6, <4>2, <4>3, <4>4 DEF OnceInAll
    <3>2. Once(flatten[n]) /\ Once(q[n + 1])
      BY <1>9, <1>11, <2>1, <2>6
    <3> HIDE DEF Upto
    <3>3. \A e \in ToSet(flatten[n]), h \in ToSet(q[n + 1]) : e.key # h.key
      BY <1>11, <3>1
    <3> QED
      BY <2>2, <2>3, <3>2, <3>3, ConcatFacts
  <2> QED
    BY <1>11, <2>4, <2>5, <2>6
<1> HIDE DEF Good
<1>12. \A n \in 0..(N - 1) : n \in S
  <2>1. 0 \in S
    BY <1>0, <1>10
  <2>2. \A n \in 1..(N - 1) : n - 1 \in S => n \in S
    <3> SUFFICES ASSUME NEW n \in 1..(N - 1), n - 1 \in S PROVE n \in S
      OBVIOUS
    <3>1. (n - 1) + 1 = n /\ n \in 0..(N - 1)
      BY <1>0
    <3>2. Good(n)
      BY <3>1
    <3> QED
      BY <1>11, <3>1, <3>2
  <2> HIDE DEF S
  <2> QED
    BY <1>0, <2>1, <2>2, UptoInduction
<1>13. N - 1 \in 0..(N - 1) /\ (N - 1) + 1 = N
  BY <1>0
<1>14. Good(N)
  BY <1>12, <1>13
<1> QED
  BY <1>6, <1>14 DEF Good

\* What getNearest looks at: all entries of the buckets it scans, but those of
\* the excluded key.
LEMMA CandidatesFacts ==
    ASSUME NEW E, NEW buckets, \A i \in Scanned : buckets[i] \in Seq(E), NEW exclude
    PROVE  /\ Candidates(buckets, exclude) \in Seq(E)
           /\ ToSet(Candidates(buckets, exclude)) =
                {e \in UNION {ToSet(buckets[i]) : i \in Scanned} : e.key # exclude}
           /\ OnceInAll(buckets, Scanned) => Once(Candidates(buckets, exclude))
<1> DEFINE q == [i \in 1..KEY_LEN |-> buckets[i - 1]]
           all == FlattenSeq(q)
           L == Len(all)
           Def(f) == [n \in 0..L |->
                         IF n = 0 THEN <<>>
                         ELSE IF all[n].key = exclude THEN f[n - 1]
                         ELSE Append(f[n - 1], all[n])]
           entries == CHOOSE f : f = Def(f)
           step == [p \in (0..L) \X Seq(E) |->
                       IF p[1] = 0 \/ all[p[1]].key = exclude THEN p[2]
                       ELSE Append(p[2], all[p[1]])]
<1>0. KEY_LEN \in Nat \ {0} /\ Scanned = 0..(KEY_LEN - 1)
  BY LengthFacts DEF Scanned
<1>1. \A i \in 1..KEY_LEN : i - 1 \in Scanned /\ q[i] = buckets[i - 1] /\ q[i] \in Seq(E)
  BY <1>0
<1>2. \A i \in Scanned : i + 1 \in 1..KEY_LEN /\ q[i + 1] = buckets[i]
  <2> SUFFICES ASSUME NEW i \in Scanned PROVE i + 1 \in 1..KEY_LEN /\ q[i + 1] = buckets[i]
    OBVIOUS
  <2>1. i + 1 \in 1..KEY_LEN /\ (i + 1) - 1 = i
    BY <1>0
  <2> QED
    BY <1>1, <2>1
<1>3. q \in [1..KEY_LEN -> Seq(E)]
  BY <1>1
<1>4. Candidates(buckets, exclude) = entries[L]
  BY DEF Candidates
<1> HIDE DEF q
<1>5. /\ all \in Seq(E) /\ ToSet(all) = UNION {ToSet(q[i]) : i \in 1..KEY_LEN}
      /\ OnceInAll(q, 1..KEY_LEN) => Once(all)
  BY <1>0, <1>3, FlattenFacts
<1>6. UNION {ToSet(q[i]) : i \in 1..KEY_LEN} = UNION {ToSet(buckets[i]) : i \in Scanned}
  <2>1. \A i \in 1..KEY_LEN : \E j \in Scanned : ToSet(q[i]) = ToSet(buckets[j])
    BY <1>1
  <2>2. \A j \in Scanned : \E i \in 1..KEY_LEN : ToSet(q[i]) = ToSet(buckets[j])
    BY <1>2
  <2> QED
    BY <2>1, <2>2
<1>7. ASSUME OnceInAll(buckets, Scanned) PROVE OnceInAll(q, 1..KEY_LEN)
  <2> SUFFICES ASSUME NEW i \in 1..KEY_LEN, NEW j \in 1..KEY_LEN,
                      NEW a \in DOMAIN q[i], NEW b \in DOMAIN q[j],
                      q[i][a].key = q[j][b].key
               PROVE  i = j /\ a = b
    BY DEF OnceInAll
  <2>1. i - 1 = j - 1 /\ a = b
    BY <1>1, <1>7 DEF OnceInAll
  <2> QED
    BY <1>0, <2>1
<1> HIDE DEF all
<1>8. L \in Nat /\ DOMAIN all = 1..L /\ (\A n \in 1..L : all[n] \in E)
      /\ ToSet(all) = {all[n] : n \in 1..L}
  BY <1>5, SeqFacts
<1> HIDE DEF L
<1>9. step \in [(0..L) \X Seq(E) -> Seq(E)]
  <2>1. ASSUME NEW p \in (0..L) \X Seq(E)
        PROVE  (IF p[1] = 0 \/ all[p[1]].key = exclude THEN p[2]
                ELSE Append(p[2], all[p[1]])) \in Seq(E)
    <3>1. p[2] \in Seq(E) /\ (p[1] # 0 => all[p[1]] \in E)
      BY <1>8
    <3> QED
      BY <3>1
  <2> QED
    BY <2>1
<1>10. PICK f \in [0..L -> Seq(E)] :
           f[0] = <<>> /\ \A n \in 1..L : f[n] = step[<<n, f[n - 1]>>]
  <2> HIDE DEF step
  <2>1. <<>> \in Seq(E)
    OBVIOUS
  <2>2. Recursion(L, Seq(E), <<>>, step)
    BY <1>8, <1>9, <2>1, RecursionExists
  <2> QED
    BY <2>2 DEF Recursion
<1>11. ASSUME NEW n \in 1..L
       PROVE  f[n] = IF all[n].key = exclude THEN f[n - 1] ELSE Append(f[n - 1], all[n])
  <2>1. n # 0 /\ n \in 0..L /\ n - 1 \in 0..L
    BY <1>8
  <2>2. f[n - 1] \in Seq(E) /\ <<n, f[n - 1]>> \in (0..L) \X Seq(E)
    BY <2>1
  <2>3. step[<<n, f[n - 1]>>] =
            IF all[n].key = exclude THEN f[n - 1] ELSE Append(f[n - 1], all[n])
    BY <2>1, <2>2
  <2> QED
    BY <1>10, <2>3
<1> HIDE DEF step
<1>12. f = Def(f)
  <2>1. ASSUME NEW n \in 0..L
        PROVE  f[n] = IF n = 0 THEN <<>>
                      ELSE IF all[n].key = exclude THEN f[n - 1]
                      ELSE Append(f[n - 1], all[n])
    <3>1. CASE n = 0
      BY <1>10, <3>1
    <3>2. CASE n # 0
      <4>1. n \in 1..L
        BY <1>8, <3>2
      <4> QED
        BY <1>11, <3>2, <4>1
    <3> QED
      BY <3>1, <3>2
  <2> QED
    BY <2>1
<1> HIDE DEF Def
<1>13. entries = Def(entries)
  BY <1>12
<1> HIDE DEF entries
<1>14. entries[0] = <<>>
  <2>1. 0 \in 0..L /\ Def(entries)[0] = <<>>
    BY <1>8 DEF Def
  <2> QED
    BY <1>13, <2>1
<1>15. ASSUME NEW n \in 1..L
       PROVE  entries[n] = IF all[n].key = exclude THEN entries[n - 1]
                           ELSE Append(entries[n - 1], all[n])
  <2>1. n # 0 /\ n \in 0..L
    BY <1>8
  <2>2. Def(entries)[n] = IF all[n].key = exclude THEN entries[n - 1]
                          ELSE Append(entries[n - 1], all[n])
    BY <2>1 DEF Def
  <2> QED
    BY <1>13, <2>2
<1> DEFINE Kept(n) == {all[i] : i \in {j \in 1..n : all[j].key # exclude}}
           Good(n) == /\ entries[n] \in Seq(E) /\ ToSet(entries[n]) = Kept(n)
                      /\ Once(all) => Once(entries[n])
           S == {n \in 0..L : Good(n)}
<1>16. Good(0)
  <2>1. <<>> \in Seq(E) /\ ToSet(<<>>) = {} /\ Once(<<>>)
    BY DEF ToSet, Once
  <2>2. Kept(0) = {}
    OBVIOUS
  <2> QED
    BY <1>14, <2>1, <2>2
<1>17. ASSUME NEW n \in 1..L, Good(n - 1) PROVE Good(n)
  <2>1. /\ n \in Nat /\ n - 1 \in Nat /\ n \notin 1..(n - 1)
        /\ 1..n = (1..(n - 1)) \cup {n} /\ 1..(n - 1) \subseteq 1..L
    BY <1>8
  <2>2. CASE all[n].key = exclude
    <3>1. Kept(n) = Kept(n - 1)
      BY <2>1, <2>2
    <3>2. entries[n] = entries[n - 1]
      BY <1>15, <2>2
    <3> QED
      BY <1>17, <3>1, <3>2
  <2>3. CASE all[n].key # exclude
    <3>1. Kept(n) = Kept(n - 1) \cup {all[n]}
      BY <2>1, <2>3
    <3>2. entries[n] = Append(entries[n - 1], all[n])
      BY <1>15, <2>3
    <3> DEFINE e == all[n]
               p == entries[n - 1]
    <3>3. e \in E /\ p \in Seq(E) /\ ToSet(p) = Kept(n - 1)
      BY <1>8, <1>17
    <3>4. /\ Append(p, e) = p \o <<e>> /\ <<e>> \in Seq(E)
          /\ ToSet(<<e>>) = {e} /\ Once(<<e>>)
      <4> HIDE DEF e, p
      <4>1. Append(p, e) = p \o <<e>> /\ <<e>> \in Seq(E)
        BY <3>3
      <4>2. DOMAIN <<e>> = {1} /\ <<e>>[1] = e
        OBVIOUS
      <4> QED
        BY <4>1, <4>2 DEF ToSet, Once
    <3>5. entries[n] \in Seq(E) /\ ToSet(entries[n]) = Kept(n - 1) \cup {e}
      <4> HIDE DEF e, p, Kept
      <4>1. p \o <<e>> \in Seq(E) /\ ToSet(p \o <<e>>) = ToSet(p) \cup ToSet(<<e>>)
        <5> DEFINE last == <<e>>
        <5>1. p \in Seq(E) /\ last \in Seq(E)
          BY <3>3, <3>4
        <5> HIDE DEF last
        <5>2. p \o last \in Seq(E) /\ ToSet(p \o last) = ToSet(p) \cup ToSet(last)
          BY <5>1, ConcatFacts
        <5> QED
          BY <5>2 DEF last
      <4>2. entries[n] = p \o <<e>>
        BY <3>2, <3>4 DEF e, p
      <4> QED
        BY <3>3, <3>4, <4>1, <4>2
    <3>6. ASSUME Once(all) PROVE Once(entries[n])
      <4>1. \A h \in Kept(n - 1) : h.key # e.key
        <5> SUFFICES ASSUME NEW i \in 1..(n - 1), all[i].key = e.key PROVE FALSE
          OBVIOUS
        <5>1. i \in DOMAIN all /\ n \in DOMAIN all /\ i # n
          BY <1>8, <2>1
        <5> QED
          BY <3>6, <5>1 DEF Once
      <4>2. Once(p)
        BY <1>17, <3>6
      <4> HIDE DEF e, p, Kept
      <4>3. \A h \in ToSet(p), g \in ToSet(<<e>>) : h.key # g.key
        BY <3>3, <3>4, <4>1
      <4>4. Once(p \o <<e>>)
        BY <3>3, <3>4, <4>2, <4>3, ConcatFacts
      <4>5. entries[n] = p \o <<e>>
        BY <3>2, <3>4 DEF e, p
      <4> QED
        BY <4>4, <4>5
    <3> QED
      BY <3>1, <3>5, <3>6
  <2> QED
    BY <2>2, <2>3
<1> HIDE DEF Good
<1>18. \A n \in 0..L : n \in S
  <2>1. 0 \in S
    BY <1>8, <1>16
  <2>2. \A n \in 1..L : n - 1 \in S => n \in S
    <3> SUFFICES ASSUME NEW n \in 1..L, n - 1 \in S PROVE n \in S
      OBVIOUS
    <3>1. n \in 0..L /\ Good(n - 1)
      BY <1>8
    <3> QED
      BY <1>17, <3>1
  <2> HIDE DEF S
  <2> QED
    BY <1>8, <2>1, <2>2, UptoInduction
<1>19. Good(L)
  BY <1>8, <1>18
<1>20. Kept(L) = {e \in ToSet(all) : e.key # exclude}
  BY <1>8
<1> QED
  BY <1>4, <1>5, <1>6, <1>7, <1>19, <1>20 DEF Good

-----------------------------------------------------------------------------
(* The nearest entries *)

\* What getNearest returns, for any buckets: n of the entries it looks at, or
\* all of them; the nearest first, and nobody it leaves out is nearer than
\* somebody it returns.  When no node is listed twice, the distances are all
\* different.
FindsNearest(E, buckets, n, t, exclude) ==
    LET known == {e \in UNION {ToSet(buckets[i]) : i \in Scanned} : e.key # exclude}
        all == Len(Candidates(buckets, exclude))
        found == getNearest(buckets, n, t, exclude)
    IN  /\ found \in Seq(E) /\ ToSet(found) \subseteq known
        /\ Len(found) = IF n < all THEN n ELSE all
        /\ \A i, j \in DOMAIN found : i < j =>
              Distance(found[i].key, t) <= Distance(found[j].key, t)
        /\ \A e \in known \ ToSet(found), i \in DOMAIN found :
              Distance(found[i].key, t) <= Distance(e.key, t)
        /\ OnceInAll(buckets, Scanned) =>
              /\ all = Cardinality(known)
              /\ \A i, j \in DOMAIN found : i < j =>
                    Distance(found[i].key, t) < Distance(found[j].key, t)
              /\ \A e \in known \ ToSet(found), i \in DOMAIN found :
                    Distance(found[i].key, t) < Distance(e.key, t)

\* getNearest finds the nearest of what it looks at in any table, one that lists
\* a node in several places included.
THEOREM NearestFound ==
    ASSUME NEW E, Keyed(E), NEW buckets, \A i \in Scanned : buckets[i] \in Seq(E),
           NEW n \in Nat, NEW t \in Key, NEW exclude
    PROVE  FindsNearest(E, buckets, n, t, exclude)
<1> DEFINE known == {e \in UNION {ToSet(buckets[i]) : i \in Scanned} : e.key # exclude}
           c == Candidates(buckets, exclude)
           s == sortByDistanceTo(t, c)
           L == Len(c)
           m == IF n < L THEN n ELSE L
           found == getNearest(buckets, n, t, exclude)
<1>1. c \in Seq(E) /\ ToSet(c) = known /\ (OnceInAll(buckets, Scanned) => Once(c))
  BY CandidatesFacts
<1> HIDE DEF known, c
<1>2. /\ s \in Seq(E) /\ Len(s) = L /\ ToSet(s) = known /\ (Once(c) => Once(s))
      /\ \A i, j \in 1..L : i < j => Distance(s[i].key, t) <= Distance(s[j].key, t)
  BY <1>1, SortFacts
<1> HIDE DEF s
<1>3. L \in Nat /\ m \in Nat /\ m <= L /\ m \in 0..L
  BY <1>1
<1>4. found = SubSeq(s, 1, m)
  BY <1>2 DEF getNearest, c, s
<1> HIDE DEF L
<1>5. /\ DOMAIN s = 1..L /\ (\A i \in 1..L : s[i] \in E /\ s[i].key \in Key)
      /\ known = {s[i] : i \in 1..L}
  BY <1>2, SeqFacts DEF Keyed
<1> HIDE DEF m, found
<1>6. /\ found \in Seq(E) /\ Len(found) = m /\ DOMAIN found = 1..m
      /\ \A i \in 1..m : found[i] = s[i]
  BY <1>2, <1>3, <1>4
<1>7. \A i \in 1..m : i \in 1..L
  BY <1>3
<1>8. ToSet(found) = {s[i] : i \in 1..m}
  BY <1>6 DEF ToSet
<1>9. ToSet(found) \subseteq known
  BY <1>5, <1>7, <1>8
<1>10. \A i, j \in 1..m : i < j => Distance(found[i].key, t) <= Distance(found[j].key, t)
  BY <1>2, <1>6, <1>7
<1>11. ASSUME NEW e \in known \ ToSet(found), NEW i \in 1..m
       PROVE  \E j \in 1..L : e = s[j] /\ i < j
  <2>1. PICK j \in 1..L : e = s[j]
    BY <1>5
  <2>2. j \notin 1..m
    BY <1>8, <2>1
  <2> QED
    BY <1>3, <2>1, <2>2
<1>12. ASSUME NEW e \in known \ ToSet(found), NEW i \in 1..m
       PROVE  Distance(found[i].key, t) <= Distance(e.key, t)
  BY <1>2, <1>6, <1>7, <1>11
<1>13. ASSUME OnceInAll(buckets, Scanned)
       PROVE  /\ L = Cardinality(known)
              /\ \A i, j \in 1..m : i < j =>
                    Distance(found[i].key, t) < Distance(found[j].key, t)
              /\ \A e \in known \ ToSet(found), i \in 1..m :
                    Distance(found[i].key, t) < Distance(e.key, t)
  <2>1. \A i, j \in 1..L : s[i].key = s[j].key => i = j
    BY <1>1, <1>2, <1>5, <1>13 DEF Once
  <2>2. L = Cardinality(known)
    <3> DEFINE b == [i \in 1..L |-> s[i]]
    <3>1. b \in [1..L -> known]
      BY <1>5
    <3>2. \A i, j \in 1..L : b[i] = b[j] => i = j
      BY <2>1
    <3>3. \A e \in known : \E i \in 1..L : b[i] = e
      BY <1>5
    <3> HIDE DEF b
    <3>4. b \in Bijection(1..L, known)
      BY <3>1, <3>2, <3>3 DEF Bijection, Injection, Surjection, IsInjective
    <3>5. ExistsBijection(1..L, known)
      BY <3>4 DEF ExistsBijection
    <3>6. IsFiniteSet(1..L) /\ Cardinality(1..L) = L
      BY <1>3, FS_Interval
    <3> QED
      BY <3>5, <3>6, FS_Bijection
  <2>3. ASSUME NEW i \in 1..L, NEW j \in 1..L, i < j
        PROVE  Distance(s[i].key, t) < Distance(s[j].key, t)
    <3>1. s[i].key # s[j].key /\ s[i].key \in Key /\ s[j].key \in Key
      BY <1>5, <2>1, <2>3
    <3>2. /\ Distance(s[i].key, t) \in Nat /\ Distance(s[j].key, t) \in Nat
          /\ Distance(s[i].key, t) # Distance(s[j].key, t)
      BY <3>1, DistancesAreNumbers
    <3>3. Distance(s[i].key, t) <= Distance(s[j].key, t)
      BY <1>2, <2>3
    <3> QED
      BY <3>2, <3>3
  <2>4. \A i, j \in 1..m : i < j => Distance(found[i].key, t) < Distance(found[j].key, t)
    BY <1>6, <1>7, <2>3
  <2>5. \A e \in known \ ToSet(found), i \in 1..m :
            Distance(found[i].key, t) < Distance(e.key, t)
    BY <1>6, <1>7, <1>11, <2>3
  <2> QED
    BY <2>2, <2>4, <2>5
<1> QED
  BY <1>6, <1>9, <1>10, <1>12, <1>13 DEF FindsNearest, found, m, L, c, known

\* The table of the look lists no node twice.
LEMMA TableFacts ==
    ASSUME self \in Key, k1 \in Key, k2 \in Key
    PROVE  LET E == {[key |-> k1], [key |-> k2]}
           IN  /\ Keyed(E) /\ \A i \in Scanned : Table[i] \in Seq(E)
               /\ OnceInAll(Table, Scanned)
<1> DEFINE E == {[key |-> k1], [key |-> k2]}
           in(i) == {k \in {k1, k2} : longest_matching_prefix(self, k) = i}
           listed(i) == {[key |-> k] : k \in in(i)}
<1>1. Keyed(E)
  BY DEF Keyed
<1>2. \A i \in Scanned : i \in 0..(KEY_LEN_BITS - 1)
  <2> SUFFICES ASSUME NEW i \in Scanned PROVE i \in 0..(KEY_LEN_BITS - 1)
    OBVIOUS
  <2>1. i + 1 <= KEY_LEN /\ i \in Nat /\ KEY_LEN \in Nat
    BY LengthFacts DEF Scanned
  <2>2. PICK d \in Nat : BYTE = d + 1
    <3>1. BYTE - 1 \in Nat /\ BYTE = (BYTE - 1) + 1
      BY LengthFacts
    <3> QED
      BY <3>1
  <2>3. KEY_LEN_BITS = d * KEY_LEN + KEY_LEN /\ d * KEY_LEN \in Nat
    BY <2>1, <2>2, LengthFacts
  <2> DEFINE x == d * KEY_LEN
  <2>4. x \in Nat /\ KEY_LEN_BITS = x + KEY_LEN
    BY <2>3
  <2> HIDE DEF x
  <2> QED
    BY <2>1, <2>4
<1>3. \A i \in Scanned : Table[i] = SetToSeq(listed(i))
  BY <1>2 DEF Table, Bucket
<1>4. ASSUME NEW S \in SUBSET E
      PROVE  /\ SetToSeq(S) \in Seq(S)
             /\ \A a, b \in DOMAIN SetToSeq(S) : SetToSeq(S)[a] = SetToSeq(S)[b] => a = b
  <2>1. IsFiniteSet(E)
    <3> DEFINE e == [key |-> k1]
               h == [key |-> k2]
    <3>1. E = {e} \cup {h}
      OBVIOUS
    <3> HIDE DEF e, h, E
    <3>2. IsFiniteSet({e})
      BY FS_Singleton
    <3>3. IsFiniteSet({e} \cup {h})
      BY <3>2, FS_AddElement
    <3> QED
      BY <3>1, <3>3
  <2> HIDE DEF E
  <2>2. IsFiniteSet(S)
    BY <2>1, FS_Subset
  <2>3. Cardinality(S) \in Nat /\ ExistsBijection(1..Cardinality(S), S)
    BY <2>2, FS_CardinalityType
  <2>4. PICK f \in [1..Cardinality(S) -> S] : IsInjective(f)
    BY <2>3 DEF ExistsBijection, Bijection, Injection
  <2> DEFINE f0 == SetToSeq(S)
  <2>5. f0 \in [1..Cardinality(S) -> S] /\ IsInjective(f0)
    BY <2>4 DEF SetToSeq
  <2> HIDE DEF f0
  <2>6. f0 \in Seq(S) /\ \A a, b \in DOMAIN f0 : f0[a] = f0[b] => a = b
    BY <2>3, <2>5 DEF IsInjective
  <2> QED
    BY <2>6 DEF f0
<1>5. \A i \in Scanned : listed(i) \in SUBSET E
  OBVIOUS
<1>6. ASSUME NEW i \in Scanned
      PROVE  /\ Table[i] \in Seq(E)
             /\ \A a \in DOMAIN Table[i] : Table[i][a] \in listed(i)
             /\ \A a, b \in DOMAIN Table[i] : Table[i][a] = Table[i][b] => a = b
  <2> DEFINE S == listed(i)
  <2>1. S \in SUBSET E /\ Table[i] = SetToSeq(S)
    BY <1>3
  <2> HIDE DEF S, E
  <2>2. /\ Table[i] \in Seq(S)
        /\ \A a, b \in DOMAIN Table[i] : Table[i][a] = Table[i][b] => a = b
    BY <1>4, <2>1
  <2>3. Table[i] \in Seq(E) /\ \A a \in DOMAIN Table[i] : Table[i][a] \in S
    BY <2>1, <2>2
  <2> QED
    BY <2>2, <2>3 DEF S
<1>7. \A i \in Scanned : \A e \in listed(i) :
          e = [key |-> e.key] /\ longest_matching_prefix(self, e.key) = i
  OBVIOUS
<1> HIDE DEF listed, E
<1>8. OnceInAll(Table, Scanned)
  <2> SUFFICES ASSUME NEW i \in Scanned, NEW j \in Scanned,
                      NEW a \in DOMAIN Table[i], NEW b \in DOMAIN Table[j],
                      Table[i][a].key = Table[j][b].key
               PROVE  i = j /\ a = b
    BY DEF OnceInAll
  <2>1. Table[i][a] \in listed(i) /\ Table[j][b] \in listed(j)
    BY <1>6
  <2>2. i = j /\ Table[i][a] = Table[j][b]
    BY <1>7, <2>1
  <2> QED
    BY <1>6, <2>2
<1> QED
  BY <1>1, <1>6, <1>8 DEF E

\* getNearest is right about the buckets it looks at: it returns the n nearest
\* of their entries, in the order of their distance, without the excluded key.
THEOREM NearestAreFound == Spec => []NearestOfScanned
<1>1. self \in Key /\ k1 \in Key /\ k2 \in Key /\ target \in Key => NearestOfScanned
  <2> SUFFICES ASSUME self \in Key, k1 \in Key, k2 \in Key, target \in Key
               PROVE  NearestOfScanned
    OBVIOUS
  <2> DEFINE E == {[key |-> k1], [key |-> k2]}
  <2>1. Keyed(E) /\ (\A i \in Scanned : Table[i] \in Seq(E)) /\ OnceInAll(Table, Scanned)
    BY TableFacts
  <2> HIDE DEF E
  <2> SUFFICES ASSUME NEW n \in {1, 2}, NEW exclude \in {self, k1}
               PROVE  LET known == {e \in UNION {ToSet(Table[i]) : i \in Scanned} :
                                      e.key # exclude}
                          found == getNearest(Table, n, target, exclude)
                      IN  /\ ToSet(found) \subseteq known
                          /\ Len(found) = IF n < Cardinality(known) THEN n
                                          ELSE Cardinality(known)
                          /\ \A i, j \in DOMAIN found : i < j =>
                                 Distance(found[i].key, target) < Distance(found[j].key, target)
                          /\ \A e \in known \ ToSet(found), i \in DOMAIN found :
                                 Distance(found[i].key, target) < Distance(e.key, target)
    BY DEF NearestOfScanned
  <2> DEFINE known == {e \in UNION {ToSet(Table[i]) : i \in Scanned} : e.key # exclude}
             found == getNearest(Table, n, target, exclude)
             all == Len(Candidates(Table, exclude))
  <2>2. n \in Nat
    OBVIOUS
  <2>3. FindsNearest(E, Table, n, target, exclude)
    BY <2>1, <2>2, NearestFound
  <2>4. /\ ToSet(found) \subseteq known
        /\ Len(found) = IF n < all THEN n ELSE all
        /\ OnceInAll(Table, Scanned) =>
              /\ all = Cardinality(known)
              /\ \A i, j \in DOMAIN found : i < j =>
                    Distance(found[i].key, target) < Distance(found[j].key, target)
              /\ \A e \in known \ ToSet(found), i \in DOMAIN found :
                    Distance(found[i].key, target) < Distance(e.key, target)
    BY <2>3 DEF FindsNearest
  <2> HIDE DEF known, found, all
  <2> QED
    BY <2>1, <2>4 DEF known, found
<1> QED
  BY <1>1, KeysOnly, PTL
=============================================================================
