------------------------- MODULE RoutingTableProofs -------------------------
(***************************************************************************)
(* Proofs about RoutingTable, for every number of buckets, capacity, set   *)
(* of peers and placement of keys.  What each function of the table does   *)
(* to it is stated once for any well-formed table (Good); the handlers are *)
(* sequences of these functions.                                           *)
(***************************************************************************)
EXTENDS RoutingTable, TLAPS, FiniteSetTheorems, Arithmetic

-----------------------------------------------------------------------------
(* Erasing from a bucket *)

LEMMA IntervalCount ==
    ASSUME NEW L \in Nat
    PROVE  IsFiniteSet(1..L) /\ Cardinality(1..L) = L
BY FS_Interval

\* The places of a bucket that are kept are numbered in their order.
LEMMA Places ==
    ASSUME NEW L \in Nat, NEW I \in SUBSET (1..L)
    PROVE  /\ IsFiniteSet(I) /\ Cardinality(I) \in Nat /\ Cardinality(I) <= L
           /\ \A n \in 1..Cardinality(I) : Place(I, n) \in I
           /\ \A m, n \in 1..Cardinality(I) : m < n => Place(I, m) < Place(I, n)
           /\ \A i \in I : \E n \in 1..Cardinality(I) : Place(I, n) = i
<1> DEFINE upto(i) == {j \in I : j <= i}
           rank == [i \in I |-> Cardinality(upto(i))]
           c == Cardinality(I)
<1>1. IsFiniteSet(I) /\ c \in Nat /\ c <= L
  <2>1. IsFiniteSet(1..L) /\ Cardinality(1..L) = L
    BY FS_Interval
  <2>2. IsFiniteSet(I) /\ c <= L
    BY <2>1, FS_Subset
  <2> QED
    BY <2>2, FS_CardinalityType
<1>2. ASSUME NEW i \in I
      PROVE  /\ rank[i] = Cardinality(upto(i)) /\ rank[i] \in 1..c
             /\ IsFiniteSet(upto(i))
  <2>1. IsFiniteSet(upto(i)) /\ Cardinality(upto(i)) <= c
    BY <1>1, FS_Subset
  <2>2. Cardinality(upto(i)) \in Nat
    BY <2>1, FS_CardinalityType
  <2>3. i \in upto(i)
    OBVIOUS
  <2>4. Cardinality(upto(i)) # 0
    BY <2>1, <2>3, FS_EmptySet
  <2> QED
    BY <1>1, <2>1, <2>2, <2>4
<1>3. ASSUME NEW i \in I, NEW j \in I, i < j
      PROVE  rank[i] < rank[j]
  <2>1. upto(i) \in SUBSET upto(j) /\ j \in upto(j) /\ j \notin upto(i)
    <3>1. i \in Nat /\ j \in Nat /\ I \subseteq Nat
      OBVIOUS
    <3>2. \A x \in I : x <= i => x <= j
      BY <1>3, <3>1
    <3>3. j <= j /\ ~(j <= i)
      BY <1>3, <3>1
    <3> QED
      BY <3>2, <3>3
  <2> HIDE DEF upto
  <2>2. IsFiniteSet(upto(j)) /\ upto(i) # upto(j)
    BY <1>2, <2>1
  <2>3. /\ Cardinality(upto(i)) <= Cardinality(upto(j))
        /\ Cardinality(upto(i)) # Cardinality(upto(j))
    BY <2>1, <2>2, FS_Subset
  <2> QED
    BY <1>2, <2>3
<1> HIDE DEF rank, c
<1>4. \A i, j \in I : rank[i] = rank[j] => i = j
  <2> SUFFICES ASSUME NEW i \in I, NEW j \in I, rank[i] = rank[j], i # j
               PROVE  FALSE
    OBVIOUS
  <2>1. i < j \/ j < i
    OBVIOUS
  <2>2. rank[i] \in Nat /\ rank[j] \in Nat
    <3> HIDE DEF upto
    <3>1. rank[i] \in 1..c /\ rank[j] \in 1..c
      BY <1>2
    <3> QED
      BY <1>1, <3>1
  <2>3. ~(rank[i] < rank[j]) /\ ~(rank[j] < rank[i])
    BY <2>2
  <2> QED
    BY <1>3, <2>1, <2>3
<1>5. \A n \in 1..c : \E i \in I : rank[i] = n
  <2>1. rank \in [I -> 1..c]
    BY <1>2 DEF rank
  <2>2. rank \in Injection(I, 1..c)
    BY <1>4, <2>1 DEF Injection, IsInjective
  <2>3. IsFiniteSet(1..c) /\ Cardinality(1..c) = c
    BY <1>1, FS_Interval
  <2>4. Cardinality(I) = Cardinality(1..c)
    BY <2>3 DEF c
  <2>5. rank \in Surjection(I, 1..c)
    BY <2>2, <2>3, <2>4, FS_Injection
  <2> QED
    BY <2>5 DEF Surjection
<1>6. \A n \in 1..c : Place(I, n) \in I /\ rank[Place(I, n)] = n
  <2> SUFFICES ASSUME NEW n \in 1..c
               PROVE  Place(I, n) \in I /\ rank[Place(I, n)] = n
    OBVIOUS
  <2>1. \E i \in I : Cardinality(upto(i)) = n
    BY <1>2, <1>5
  <2>2. Place(I, n) \in I /\ Cardinality(upto(Place(I, n))) = n
    BY <2>1 DEF Place
  <2> QED
    BY <1>2, <2>2
<1>7. ASSUME NEW m \in 1..c, NEW n \in 1..c, m < n
      PROVE  Place(I, m) < Place(I, n)
  <2>1. ~(Place(I, n) < Place(I, m)) /\ Place(I, n) # Place(I, m)
    <3>1. ~(n < m) /\ n # m
      BY <1>1, <1>7
    <3> QED
      BY <1>3, <1>6, <3>1
  <2>2. Place(I, n) \in 1..L /\ Place(I, m) \in 1..L
    BY <1>6
  <2> QED
    BY <2>1, <2>2
<1>8. ASSUME NEW i \in I
      PROVE  \E n \in 1..c : Place(I, n) = i
  <2>1. rank[i] \in 1..c /\ rank[Place(I, rank[i])] = rank[i] /\ Place(I, rank[i]) \in I
    BY <1>2, <1>6
  <2> QED
    BY <1>4, <2>1
<1> QED
  BY <1>1, <1>6, <1>7, <1>8 DEF c

\* What is kept of a bucket.
LEMMA KeepFacts ==
    ASSUME NEW q \in Seq(Entry), NEW I \in SUBSET DOMAIN q
    PROVE  /\ Keep(q, I) \in Seq(Entry)
           /\ Len(Keep(q, I)) = Cardinality(I) /\ Len(Keep(q, I)) <= Len(q)
           /\ \A n \in DOMAIN Keep(q, I) : \E i \in I : Keep(q, I)[n] = q[i]
           /\ \A i \in I : \E n \in DOMAIN Keep(q, I) : Keep(q, I)[n] = q[i]
           /\ Ordered(q) => Ordered(Keep(q, I))
           /\ ListedOnce(q) => ListedOnce(Keep(q, I))
<1> DEFINE c == Cardinality(I)
           r == Keep(q, I)
<1>1. Len(q) \in Nat /\ DOMAIN q = 1..Len(q)
  OBVIOUS
<1>2. /\ c \in Nat /\ c <= Len(q)
      /\ \A n \in 1..c : Place(I, n) \in I
      /\ \A m, n \in 1..c : m < n => Place(I, m) < Place(I, n)
      /\ \A i \in I : \E n \in 1..c : Place(I, n) = i
  BY <1>1, Places
<1>3. \A i \in I : i \in DOMAIN q /\ q[i] \in Entry
  BY <1>1
<1>4. /\ r = [n \in 1..c |-> q[Place(I, n)]]
      /\ DOMAIN r = 1..c /\ \A n \in 1..c : r[n] = q[Place(I, n)]
  BY DEF Keep
<1>5. \A n \in 1..c : r[n] \in Entry
  BY <1>2, <1>3, <1>4
<1> HIDE DEF c, r
<1>6. r \in Seq(Entry) /\ Len(r) = c
  BY <1>2, <1>4, <1>5
<1>7. ASSUME Ordered(q) PROVE Ordered(r)
  BY <1>2, <1>3, <1>4, <1>7 DEF Ordered
<1>8. ASSUME ListedOnce(q) PROVE ListedOnce(r)
  <2> SUFFICES ASSUME NEW m \in 1..c, NEW n \in 1..c, r[m].key = r[n].key PROVE m = n
    BY <1>4 DEF ListedOnce
  <2>1. Place(I, m) \in DOMAIN q /\ Place(I, n) \in DOMAIN q
    BY <1>2, <1>3
  <2>2. Place(I, m) = Place(I, n)
    BY <1>4, <1>8, <2>1 DEF ListedOnce
  <2>3. Place(I, m) \in Nat
    BY <1>1, <2>1
  <2> QED
    BY <1>2, <2>2, <2>3
<1> QED
  BY <1>2, <1>4, <1>6, <1>7, <1>8 DEF c, r

-----------------------------------------------------------------------------
(* Updating a bucket *)

\* r holds nothing but e and entries of the bucket q.
Holds(q, r, e) == \A n \in DOMAIN r : r[n] = e \/ \E i \in DOMAIN q : r[n] = q[i]

\* r is what becomes of the bucket q when the entry e is put at its end: no key
\* is lost, nothing else comes in, what was in order stays so, and what was
\* listed once is not listed again.
Updates(q, r, e) ==
    /\ r \in Seq(Entry)
    /\ Holds(q, r, e)
    /\ Keys(q) \subseteq Keys(r)
    /\ Ordered(q) /\ (\A i \in DOMAIN q : q[i].lastSeen <= e.lastSeen) => Ordered(r)
    /\ ListedOnce(q) => ListedOnce(r)

LEMMA AppendFacts ==
    ASSUME NEW p \in Seq(Entry), NEW e \in Entry
    PROVE  /\ Len(p) \in Nat /\ DOMAIN p = 1..Len(p)
           /\ Append(p, e) \in Seq(Entry) /\ Len(Append(p, e)) = Len(p) + 1
           /\ DOMAIN Append(p, e) = 1..(Len(p) + 1)
           /\ \A n \in DOMAIN p : Append(p, e)[n] = p[n]
           /\ Append(p, e)[Len(p) + 1] = e
OBVIOUS

LEMMA AppendUpdates ==
    ASSUME NEW q \in Seq(Entry), NEW p \in Seq(Entry), NEW e \in Entry,
           \A n \in DOMAIN p : \E i \in DOMAIN q : p[n] = q[i],
           Keys(q) \subseteq Keys(p) \cup {e.key},
           Ordered(q) => Ordered(p),
           ListedOnce(q) => ListedOnce(p) /\ e.key \notin Keys(p)
    PROVE  Updates(q, Append(p, e), e) /\ Len(Append(p, e)) = Len(p) + 1
<1> DEFINE r == Append(p, e)
<1>1. /\ Len(p) \in Nat /\ DOMAIN p = 1..Len(p)
      /\ r \in Seq(Entry) /\ Len(r) = Len(p) + 1 /\ DOMAIN r = 1..(Len(p) + 1)
      /\ \A n \in DOMAIN p : r[n] = p[n]
      /\ r[Len(p) + 1] = e
  OBVIOUS
<1> HIDE DEF r
<1>2. \A n \in DOMAIN r : n \in DOMAIN p \/ n = Len(p) + 1
  BY <1>1
<1>3. \A n \in DOMAIN p : n \in DOMAIN r
  BY <1>1
<1>4. Len(p) + 1 \in DOMAIN r
  BY <1>1
<1>5. \A n \in DOMAIN r : r[n] = e \/ \E i \in DOMAIN q : r[n] = q[i]
  BY <1>1, <1>2
<1>6. Keys(q) \subseteq Keys(r)
  <2>1. Keys(p) \subseteq Keys(r)
    BY <1>1, <1>3 DEF Keys
  <2>2. e.key \in Keys(r)
    BY <1>1, <1>4 DEF Keys
  <2> QED
    BY <2>1, <2>2
<1>7. ASSUME Ordered(q), \A i \in DOMAIN q : q[i].lastSeen <= e.lastSeen
      PROVE  Ordered(r)
  <2> SUFFICES ASSUME NEW i \in DOMAIN r, NEW j \in DOMAIN r, i < j
               PROVE  r[i].lastSeen <= r[j].lastSeen
    BY DEF Ordered
  <2>1. i \in DOMAIN p
    BY <1>1, <1>2
  <2>2. CASE j \in DOMAIN p
    BY <1>1, <1>7, <2>1, <2>2 DEF Ordered
  <2>3. CASE j = Len(p) + 1
    <3>1. p[i].lastSeen <= e.lastSeen
      BY <1>7, <2>1
    <3> QED
      BY <1>1, <2>1, <2>3, <3>1
  <2> QED
    BY <1>2, <2>2, <2>3
<1>8. ASSUME ListedOnce(q) PROVE ListedOnce(r)
  <2> SUFFICES ASSUME NEW i \in DOMAIN r, NEW j \in DOMAIN r, r[i].key = r[j].key
               PROVE  i = j
    BY DEF ListedOnce
  <2>1. \A n \in DOMAIN p : r[n].key # e.key
    BY <1>1, <1>8 DEF Keys
  <2>2. CASE i \in DOMAIN p /\ j \in DOMAIN p
    BY <1>1, <1>8, <2>2 DEF ListedOnce
  <2> QED
    BY <1>1, <1>2, <2>1, <2>2
<1> QED
  BY <1>1, <1>5, <1>6, <1>7, <1>8 DEF r, Updates, Holds

\* A new entry in a bucket with room for it.
LEMMA AddUpdates ==
    ASSUME NEW q \in Seq(Entry), NEW e \in Entry, ~Knows(q, e.key)
    PROVE  Updates(q, Append(q, e), e) /\ Len(Append(q, e)) = Len(q) + 1
<1>1. e.key \notin Keys(q)
  BY DEF Knows, Keys
<1> QED
  BY <1>1, AppendUpdates

\* An entry of a key that is known takes the place of the first of that key.
LEMMA HoistUpdates ==
    ASSUME NEW q \in Seq(Entry), NEW e \in Entry, Knows(q, e.key)
    PROVE  Updates(q, Hoisted(q, e), e) /\ Len(Hoisted(q, e)) = Len(q)
<1> DEFINE known == {i \in DOMAIN q : q[i].key = e.key}
           first == CHOOSE i \in known : \A j \in known : i <= j
           I == DOMAIN q \ {first}
           p == Keep(q, I)
<1>1. Len(q) \in Nat /\ DOMAIN q = 1..Len(q)
  OBVIOUS
<1>2. first \in known
  <2>1. known # {} /\ known \in SUBSET Nat
    BY <1>1 DEF Knows
  <2> HIDE DEF known
  <2>2. \E i \in known : \A j \in known : i <= j
    BY <2>1, LeastExists
  <2> QED
    BY <2>2
<1>3. first \in DOMAIN q /\ q[first].key = e.key
  BY <1>2
<1>4. Hoisted(q, e) = Append(p, e)
  BY DEF Hoisted
<1> HIDE DEF first
<1>5. I \in SUBSET DOMAIN q
  OBVIOUS
<1>6. /\ p \in Seq(Entry) /\ Len(p) = Cardinality(I)
      /\ \A n \in DOMAIN p : \E i \in I : p[n] = q[i]
      /\ \A i \in I : \E n \in DOMAIN p : p[n] = q[i]
      /\ Ordered(q) => Ordered(p)
      /\ ListedOnce(q) => ListedOnce(p)
  <2> HIDE DEF I
  <2> QED
    BY <1>5, KeepFacts
<1>7. Cardinality(I) = Len(q) - 1
  <2>1. IsFiniteSet(1..Len(q)) /\ Cardinality(1..Len(q)) = Len(q)
    BY <1>1, IntervalCount
  <2>2. IsFiniteSet(DOMAIN q) /\ Cardinality(DOMAIN q) = Len(q)
    BY <1>1, <2>1
  <2> QED
    BY <1>3, <2>2, FS_RemoveElement
<1>8. Keys(q) \subseteq Keys(p) \cup {e.key}
  <2> SUFFICES ASSUME NEW i \in DOMAIN q
               PROVE  q[i].key \in Keys(p) \cup {e.key}
    BY DEF Keys
  <2>1. i = first \/ i \in I
    OBVIOUS
  <2>2. CASE i = first
    BY <1>3, <2>2
  <2>3. CASE i \in I
    <3>1. PICK n \in DOMAIN p : p[n] = q[i]
      BY <1>6, <2>3
    <3> HIDE DEF p, I
    <3>2. p[n].key \in Keys(p)
      BY DEF Keys
    <3> QED
      BY <3>1, <3>2
  <2> QED
    BY <2>1, <2>2, <2>3
<1> HIDE DEF p
<1>9. ASSUME ListedOnce(q) PROVE e.key \notin Keys(p)
  <2>1. \A i \in I : i \in DOMAIN q /\ i # first
    OBVIOUS
  <2>2. \A i \in I : q[i].key # e.key
    BY <1>3, <1>9, <2>1 DEF ListedOnce
  <2> HIDE DEF I
  <2>3. ASSUME NEW n \in DOMAIN p PROVE p[n].key # e.key
    <3>1. \E i \in I : p[n] = q[i]
      BY <1>6
    <3> QED
      BY <2>2, <3>1
  <2> QED
    BY <2>3 DEF Keys
<1>10. Updates(q, Append(p, e), e) /\ Len(Append(p, e)) = Len(p) + 1
  BY <1>6, <1>8, <1>9, AppendUpdates
<1> QED
  BY <1>1, <1>4, <1>6, <1>7, <1>10

-----------------------------------------------------------------------------
(* Replacing the head of a bucket *)

\* What is out of order or listed twice in r, and was not in q, is e, the last
\* entry of r, with an earlier one.
Blames(q, r, e) ==
    \A i, j \in DOMAIN r : i < j =>
        /\ Ordered(q) /\ ~(r[i].lastSeen <= r[j].lastSeen) => j = Len(r) /\ r[j] = e
        /\ ListedOnce(q) /\ r[i].key = r[j].key => j = Len(r) /\ r[j] = e

LEMMA OrderlyBlames ==
    ASSUME NEW q, NEW r \in Seq(Entry), NEW e,
           Ordered(q) => Ordered(r), ListedOnce(q) => ListedOnce(r)
    PROVE  Blames(q, r, e)
<1> SUFFICES ASSUME NEW i \in DOMAIN r, NEW j \in DOMAIN r, i < j
             PROVE  /\ Ordered(q) => r[i].lastSeen <= r[j].lastSeen
                    /\ ListedOnce(q) => r[i].key # r[j].key
  BY DEF Blames
<1>1. i # j
  <2>1. i \in Nat /\ j \in Nat
    OBVIOUS
  <2> QED
    BY <2>1
<1> QED
  BY <1>1 DEF Ordered, ListedOnce

LEMMA ShiftFacts ==
    ASSUME NEW q \in Seq(Entry), q # <<>>, NEW e \in Entry
    PROVE  /\ Append(Tail(q), e) \in Seq(Entry) /\ Len(Append(Tail(q), e)) = Len(q)
           /\ Holds(q, Append(Tail(q), e), e)
           /\ Blames(q, Append(Tail(q), e), e)
<1> DEFINE w == Tail(q)
           r == Append(Tail(q), e)
<1>1. Len(q) \in Nat \ {0} /\ DOMAIN q = 1..Len(q)
  OBVIOUS
<1>2. /\ w \in Seq(Entry) /\ Len(w) = Len(q) - 1
      /\ \A n \in 1..(Len(q) - 1) : w[n] = q[n + 1]
  BY <1>1
<1>3. r = Append(w, e)
  OBVIOUS
<1> HIDE DEF w, r
<1>4. /\ r \in Seq(Entry) /\ Len(r) = Len(q) /\ DOMAIN r = 1..Len(q)
      /\ \A n \in 1..(Len(q) - 1) : r[n] = w[n]
      /\ r[Len(q)] = e
  <2>1. Len(w) + 1 = Len(q) /\ DOMAIN w = 1..(Len(q) - 1)
    BY <1>1, <1>2
  <2> QED
    BY <1>2, <1>3, <2>1, AppendFacts
<1>5. \A n \in 1..(Len(q) - 1) : n + 1 \in DOMAIN q /\ r[n] = q[n + 1]
  BY <1>1, <1>2, <1>4
<1>6. \A n \in DOMAIN r : n = Len(q) \/ n \in 1..(Len(q) - 1)
  BY <1>1, <1>4
<1>7. Holds(q, r, e)
  BY <1>4, <1>5, <1>6 DEF Holds
<1>8. Blames(q, r, e)
  <2> SUFFICES ASSUME NEW i \in DOMAIN r, NEW j \in DOMAIN r, i < j, j # Len(q)
               PROVE  /\ Ordered(q) => r[i].lastSeen <= r[j].lastSeen
                      /\ ListedOnce(q) => r[i].key # r[j].key
    BY <1>4 DEF Blames
  <2>1. i \in 1..(Len(q) - 1) /\ j \in 1..(Len(q) - 1)
    BY <1>1, <1>4
  <2>2. /\ i + 1 \in DOMAIN q /\ j + 1 \in DOMAIN q /\ i + 1 < j + 1 /\ i + 1 # j + 1
        /\ r[i] = q[i + 1] /\ r[j] = q[j + 1]
    BY <1>1, <1>5, <2>1
  <2> QED
    BY <2>2 DEF Ordered, ListedOnce
<1> QED
  BY <1>4, <1>7, <1>8 DEF r

-----------------------------------------------------------------------------
(* Well-formed tables *)

Tables == [buckets : [Bucket -> Seq(Entry)],
           pings_in_progress : [Address -> SUBSET Callback],
           captured : [Address -> Callback \cup {NoRequest}]]

\* Every entry is in the bucket of its key, and was seen in the past.
Filed(t, now) ==
    \A b \in Bucket : \A i \in DOMAIN t.buckets[b] :
        BucketOf[t.buckets[b][i].key] = b /\ t.buckets[b][i].lastSeen <= now

Bounded(t) == \A b \in Bucket : Len(t.buckets[b]) <= k

\* What a ping is to replace a head with has a bucket of its own.
Waits(t, now) ==
    \A a \in Address : t.captured[a] \in Entry =>
        BucketOf[t.captured[a].key] \in Bucket /\ t.captured[a].lastSeen <= now

Tracked(t) ==
    \A a \in Address : t.pings_in_progress[a] # {} <=> t.captured[a] # NoRequest

Good(t, now) == /\ t \in Tables
                /\ Filed(t, now) /\ Bounded(t) /\ Waits(t, now) /\ Tracked(t)

\* No key is lost from a bucket or listed again, and no bucket gets out of order.
Grows(t, u) ==
    \A b \in Bucket : /\ Keys(t.buckets[b]) \subseteq Keys(u.buckets[b])
                      /\ Ordered(t.buckets[b]) => Ordered(u.buckets[b])
                      /\ ListedOnce(t.buckets[b]) => ListedOnce(u.buckets[b])

Refiled(t, b, r) == [t EXCEPT !.buckets[b] = r]

\* Putting an entry into the bucket of its key, for whichever others.
LEMMA ReplaceGood ==
    ASSUME NEW t, NEW now \in Nat, Good(t, now), NEW b \in Bucket, NEW e \in Entry,
           BucketOf[e.key] = b, e.lastSeen <= now,
           NEW r \in Seq(Entry), Len(r) <= k,
           Holds(t.buckets[b], r, e)
    PROVE  /\ Good(Refiled(t, b, r), now)
           /\ Refiled(t, b, r).buckets = [t.buckets EXCEPT ![b] = r]
<1> DEFINE u == Refiled(t, b, r)
<1>1. t \in Tables
  BY DEF Good
<1>2. /\ u \in Tables /\ u.buckets = [t.buckets EXCEPT ![b] = r]
      /\ u.pings_in_progress = t.pings_in_progress /\ u.captured = t.captured
  BY <1>1 DEF Tables, Refiled
<1>3. \A c \in Bucket : u.buckets[c] = IF c = b THEN r ELSE t.buckets[c]
  BY <1>1, <1>2 DEF Tables
<1> HIDE DEF u
<1>4. Filed(u, now)
  BY <1>3 DEF Good, Filed, Holds
<1>5. Bounded(u)
  BY <1>3 DEF Good, Bounded
<1>6. Waits(u, now) /\ Tracked(u)
  BY <1>2 DEF Good, Waits, Tracked
<1> QED
  BY <1>2, <1>4, <1>5, <1>6 DEF u, Good

LEMMA UpdateGood ==
    ASSUME NEW t, NEW now \in Nat, Good(t, now), NEW b \in Bucket, NEW e \in Entry,
           BucketOf[e.key] = b, e.lastSeen = now,
           NEW r, Len(r) <= k, Updates(t.buckets[b], r, e)
    PROVE  /\ Good(Refiled(t, b, r), now)
           /\ Grows(t, Refiled(t, b, r))
<1> DEFINE u == Refiled(t, b, r)
<1>1. t.buckets \in [Bucket -> Seq(Entry)]
  BY DEF Good, Tables
<1>2. Good(u, now) /\ u.buckets = [t.buckets EXCEPT ![b] = r]
  BY ReplaceGood DEF Updates
<1> HIDE DEF u
<1>3. \A c \in Bucket : u.buckets[c] = IF c = b THEN r ELSE t.buckets[c]
  BY <1>1, <1>2
<1>4. \A i \in DOMAIN t.buckets[b] : t.buckets[b][i].lastSeen <= e.lastSeen
  BY DEF Good, Filed
<1>5. /\ Keys(t.buckets[b]) \subseteq Keys(r)
      /\ Ordered(t.buckets[b]) => Ordered(r)
      /\ ListedOnce(t.buckets[b]) => ListedOnce(r)
  BY <1>4 DEF Updates
<1>6. Grows(t, u)
  BY <1>3, <1>5 DEF Grows
<1> QED
  BY <1>2, <1>6 DEF u

\* A ping that holds a newcomer, or only joins one that is under way.
LEMMA PingGood ==
    ASSUME NEW t, NEW now \in Nat, Good(t, now), NEW a \in Address, NEW e \in Entry,
           BucketOf[e.key] \in Bucket, e.lastSeen <= now
    PROVE  Good(Ping(t, a, e), now) /\ Ping(t, a, e).buckets = t.buckets
<1> DEFINE u == Ping(t, a, e)
<1>1. e \in Callback /\ e # NoRequest
  BY CallbackAssumption DEF Callback
<1> DEFINE pings == t.pings_in_progress
           last == t.captured
<1>4. /\ pings \in [Address -> SUBSET Callback]
      /\ last \in [Address -> Callback \cup {NoRequest}]
      /\ t.buckets \in [Bucket -> Seq(Entry)]
      /\ t = [buckets |-> t.buckets, pings_in_progress |-> pings, captured |-> last]
  BY DEF Good, Tables
<1>2. CASE t.pings_in_progress[a] # {}
  <2> DEFINE more == [pings EXCEPT ![a] = @ \cup {e}]
  <2>1. u = [buckets |-> t.buckets, pings_in_progress |-> more, captured |-> last]
    BY <1>2, <1>4 DEF Ping
  <2>0. /\ more \in [Address -> SUBSET Callback]
        /\ \A c \in Address : more[c] # {} <=> pings[c] # {}
    <3> HIDE DEF pings
    <3> QED
      BY <1>1, <1>2, <1>4 DEF pings
  <2>2. /\ u \in Tables /\ u.buckets = t.buckets /\ u.captured = t.captured
        /\ \A c \in Address : u.pings_in_progress[c] # {} <=> t.pings_in_progress[c] # {}
    <3> HIDE DEF more, u
    <3> QED
      BY <1>4, <2>0, <2>1 DEF Tables
  <2> HIDE DEF u
  <2>3. Filed(u, now) /\ Bounded(u) /\ Waits(u, now) /\ Tracked(u)
    BY <2>2 DEF Good, Filed, Bounded, Waits, Tracked
  <2> QED
    BY <2>2, <2>3 DEF Good, u
<1>3. CASE t.pings_in_progress[a] = {}
  <2> DEFINE new == [pings EXCEPT ![a] = {e}]
             now_in == [last EXCEPT ![a] = e]
  <2>1. u = [buckets |-> t.buckets, pings_in_progress |-> new, captured |-> now_in]
    BY <1>3, <1>4 DEF Ping
  <2>0. /\ new \in [Address -> SUBSET Callback]
        /\ now_in \in [Address -> Callback \cup {NoRequest}]
        /\ \A c \in Address : /\ new[c] = IF c = a THEN {e} ELSE pings[c]
                             /\ now_in[c] = IF c = a THEN e ELSE last[c]
    <3> HIDE DEF pings, last
    <3> QED
      BY <1>1, <1>4
  <2>2. /\ u \in Tables /\ u.buckets = t.buckets
        /\ \A c \in Address : /\ u.captured[c] = IF c = a THEN e ELSE t.captured[c]
                             /\ u.pings_in_progress[c] =
                                   IF c = a THEN {e} ELSE t.pings_in_progress[c]
    <3> HIDE DEF new, now_in, u
    <3> QED
      BY <1>4, <2>0, <2>1 DEF Tables
  <2> HIDE DEF u
  <2>3. Filed(u, now) /\ Bounded(u)
    BY <2>2 DEF Good, Filed, Bounded
  <2>4. Waits(u, now)
    BY <2>2 DEF Good, Waits
  <2>5. Tracked(u)
    BY <1>1, <2>2 DEF Good, Tracked
  <2> QED
    BY <2>2, <2>3, <2>4, <2>5 DEF Good, u
<1> QED
  BY <1>2, <1>3

-----------------------------------------------------------------------------
(* The functions of the node *)

LEMMA SameGrows ==
    ASSUME NEW t, NEW u, u.buckets = t.buckets
    PROVE  Grows(t, u)
BY DEF Grows

LEMMA GrowsAgain ==
    ASSUME NEW t, NEW u, NEW v, Grows(t, u), Grows(u, v)
    PROVE  Grows(t, v)
BY DEF Grows

\* An observed peer is filed, or waits for a ping, and nobody is forgotten.
LEMMA ObserveGood ==
    ASSUME NEW t, epoch \in Nat, Good(t, epoch), NEW p \in Peer
    PROVE  Good(observe(t, p), epoch) /\ Grows(t, observe(t, p))
<1> DEFINE b == BucketOf[p.key]
           e == [key |-> p.key, address |-> p.address, lastSeen |-> epoch]
<1>1. /\ b \in 0..KEY_LEN_BITS /\ KEY_LEN_BITS \in Nat /\ k \in Nat \ {0}
      /\ e \in Entry /\ e.key = p.key /\ e.lastSeen = epoch
  BY TableAssumption DEF Key, Address, Entry
<1>2. observe(t, p) = updateOrAddToBucket(t, b, e)
  BY DEF observe
<1>3. BucketOf[e.key] = b
  BY <1>1
<1> HIDE DEF b, e
<1>4. CASE b = KEY_LEN_BITS
  <2>1. observe(t, p) = t
    BY <1>2, <1>4 DEF updateOrAddToBucket
  <2> QED
    BY <2>1, SameGrows
<1>5. CASE b # KEY_LEN_BITS
  <2> DEFINE q == t.buckets[b]
  <2>1. b \in Bucket
    BY <1>1, <1>5 DEF Bucket
  <2>2. q \in Seq(Entry) /\ Len(q) \in Nat /\ Len(q) <= k
    BY <2>1 DEF Good, Tables, Bounded
  <2>3. CASE Knows(q, e.key)
    <3>1. observe(t, p) = [t EXCEPT !.buckets[b] = Hoisted(q, e)]
      BY <1>2, <1>5, <2>3 DEF updateOrAddToBucket
    <3>2. Updates(q, Hoisted(q, e), e) /\ Len(Hoisted(q, e)) = Len(q)
      <4> HIDE DEF q
      <4> QED
        BY <1>1, <2>2, <2>3, HoistUpdates
    <3> DEFINE r == Hoisted(q, e)
    <3>3. Len(r) <= k /\ Updates(q, r, e) /\ observe(t, p) = Refiled(t, b, r)
      BY <2>2, <3>1, <3>2 DEF Refiled
    <3> HIDE DEF r
    <3> QED
      BY <1>1, <1>3, <2>1, <3>3, UpdateGood
  <2>4. CASE ~Knows(q, e.key) /\ Len(q) < k
    <3>1. observe(t, p) = [t EXCEPT !.buckets[b] = Append(q, e)]
      BY <1>2, <1>5, <2>4 DEF updateOrAddToBucket
    <3>2. Updates(q, Append(q, e), e) /\ Len(Append(q, e)) <= k
      <4> HIDE DEF q
      <4>1. Updates(q, Append(q, e), e) /\ Len(Append(q, e)) = Len(q) + 1
        BY <1>1, <2>2, <2>4, AddUpdates
      <4> QED
        BY <1>1, <2>2, <2>4, <4>1
    <3> DEFINE r == Append(q, e)
    <3>3. Len(r) <= k /\ Updates(q, r, e) /\ observe(t, p) = Refiled(t, b, r)
      BY <3>1, <3>2 DEF Refiled
    <3> HIDE DEF r
    <3> QED
      BY <1>1, <1>3, <2>1, <3>3, UpdateGood
  <2>5. CASE ~Knows(q, e.key) /\ ~(Len(q) < k)
    <3>1. observe(t, p) = Ping(t, Head(q).address, e)
      BY <1>2, <1>5, <2>5 DEF updateOrAddToBucket
    <3>2. Head(q).address \in Address
      <4> HIDE DEF q
      <4>1. Len(q) # 0
        BY <1>1, <2>2, <2>5
      <4>2. Head(q) \in Entry
        BY <2>2, <4>1
      <4> QED
        BY <4>2 DEF Entry
    <3>3. e.lastSeen <= epoch
      BY <1>1
    <3>4. /\ Good(Ping(t, Head(q).address, e), epoch)
          /\ Ping(t, Head(q).address, e).buckets = t.buckets
      <4> HIDE DEF q
      <4> QED
        BY <1>1, <1>3, <2>1, <3>2, <3>3, PingGood
    <3> QED
      BY <3>1, <3>4, SameGrows
  <2> QED
    BY <2>3, <2>4, <2>5
<1> QED
  BY <1>4, <1>5

\* The end of a ping leaves no trace of it.
LEMMA PingEndedGood ==
    ASSUME NEW t, NEW now \in Nat, Good(t, now), NEW a \in Address
    PROVE  Good(PingEnded(t, a), now) /\ PingEnded(t, a).buckets = t.buckets
<1> DEFINE u == PingEnded(t, a)
           pings == [t.pings_in_progress EXCEPT ![a] = {}]
           last == [t.captured EXCEPT ![a] = NoRequest]
<1>1. /\ t.pings_in_progress \in [Address -> SUBSET Callback]
      /\ t.captured \in [Address -> Callback \cup {NoRequest}]
      /\ t.buckets \in [Bucket -> Seq(Entry)]
      /\ t = [buckets |-> t.buckets, pings_in_progress |-> t.pings_in_progress,
              captured |-> t.captured]
  BY DEF Good, Tables
<1>2. /\ pings \in [Address -> SUBSET Callback]
      /\ last \in [Address -> Callback \cup {NoRequest}]
      /\ \A c \in Address :
            /\ pings[c] = IF c = a THEN {} ELSE t.pings_in_progress[c]
            /\ last[c] = IF c = a THEN NoRequest ELSE t.captured[c]
  BY <1>1
<1>3. u = [buckets |-> t.buckets, pings_in_progress |-> pings, captured |-> last]
  <2>1. u = [t EXCEPT !.pings_in_progress = pings, !.captured = last]
    BY DEF PingEnded
  <2> HIDE DEF pings, last, u
  <2> QED
    BY <1>1, <2>1
<1> HIDE DEF pings, last, u
<1>4. /\ u \in Tables /\ u.buckets = t.buckets
      /\ u.pings_in_progress = pings /\ u.captured = last
  BY <1>1, <1>2, <1>3 DEF Tables
<1>5. NoRequest \notin Entry
  BY CallbackAssumption DEF Callback
<1>6. Filed(u, now) /\ Bounded(u) /\ Tracked(u)
  BY <1>2, <1>4 DEF Good, Filed, Bounded, Tracked
<1>7. Waits(u, now)
  BY <1>2, <1>4, <1>5 DEF Good, Waits
<1> QED
  BY <1>4, <1>6, <1>7 DEF u, Good

\* Forgetting an address takes out its entries and leaves the others as they are.
LEMMA UnobserveGood ==
    ASSUME NEW t, NEW now \in Nat, Good(t, now), NEW a \in Address
    PROVE  /\ Good(unobserve(t, a), now)
           /\ unobserve(t, a).captured = t.captured
           /\ \A b \in Bucket :
                 /\ Ordered(t.buckets[b]) => Ordered(unobserve(t, a).buckets[b])
                 /\ ListedOnce(t.buckets[b]) => ListedOnce(unobserve(t, a).buckets[b])
                 /\ \A n \in DOMAIN unobserve(t, a).buckets[b] :
                       unobserve(t, a).buckets[b][n].address # a
<1> DEFINE u == unobserve(t, a)
           I(b) == {i \in DOMAIN t.buckets[b] : t.buckets[b][i].address # a}
           kept == [b \in Bucket |-> Keep(t.buckets[b], I(b))]
<1>1. /\ t.pings_in_progress \in [Address -> SUBSET Callback]
      /\ t.captured \in [Address -> Callback \cup {NoRequest}]
      /\ t.buckets \in [Bucket -> Seq(Entry)]
      /\ t = [buckets |-> t.buckets, pings_in_progress |-> t.pings_in_progress,
              captured |-> t.captured]
  BY DEF Good, Tables
<1>2. u = [buckets |-> kept, pings_in_progress |-> t.pings_in_progress,
           captured |-> t.captured]
  <2>1. u = [t EXCEPT !.buckets = kept]
    BY DEF unobserve
  <2> HIDE DEF kept, u
  <2> QED
    BY <1>1, <2>1
<1>3. ASSUME NEW b \in Bucket
      PROVE  /\ kept[b] \in Seq(Entry) /\ Len(kept[b]) <= k
             /\ \A n \in DOMAIN kept[b] : \E i \in I(b) : kept[b][n] = t.buckets[b][i]
             /\ Ordered(t.buckets[b]) => Ordered(kept[b])
             /\ ListedOnce(t.buckets[b]) => ListedOnce(kept[b])
  <2> DEFINE q == t.buckets[b]
             J == I(b)
  <2>1. q \in Seq(Entry) /\ J \in SUBSET DOMAIN q /\ Len(q) <= k
    BY <1>1 DEF Good, Bounded
  <2>2. kept[b] = Keep(q, J)
    OBVIOUS
  <2>5. k \in Nat
    BY TableAssumption
  <2> HIDE DEF q, J, kept
  <2>3. /\ Keep(q, J) \in Seq(Entry) /\ Len(Keep(q, J)) <= Len(q)
        /\ \A n \in DOMAIN Keep(q, J) : \E i \in J : Keep(q, J)[n] = q[i]
        /\ Ordered(q) => Ordered(Keep(q, J))
        /\ ListedOnce(q) => ListedOnce(Keep(q, J))
    BY <2>1, KeepFacts
  <2>4. Len(Keep(q, J)) <= k
    BY <2>1, <2>3, <2>5
  <2> QED
    BY <2>2, <2>3, <2>4 DEF q, J
<1>8. DOMAIN kept = Bucket
  OBVIOUS
<1> HIDE DEF kept
<1>4. kept \in [Bucket -> Seq(Entry)]
  <2>1. kept = [b \in Bucket |-> kept[b]]
    BY DEF kept
  <2> QED
    BY <1>3, <2>1
<1> HIDE DEF u
<1>5. /\ u \in Tables /\ u.buckets = kept
      /\ u.pings_in_progress = t.pings_in_progress /\ u.captured = t.captured
  BY <1>1, <1>2, <1>4 DEF Tables
<1>6. Filed(u, now) /\ Bounded(u)
  BY <1>3, <1>5 DEF Good, Filed, Bounded
<1>7. Waits(u, now) /\ Tracked(u)
  BY <1>5 DEF Good, Waits, Tracked
<1> QED
  BY <1>3, <1>5, <1>6, <1>7 DEF u, Good

\* One observation after the other, however many a message causes.
LEMMA ObserveAllGood ==
    ASSUME NEW t, epoch \in Nat, Good(t, epoch), NEW seen \in Seq(Peer)
    PROVE  Good(observeAll(t, seen), epoch) /\ Grows(t, observeAll(t, seen))
<1> DEFINE N == Len(seen)
           S == {u \in Tables : Good(u, epoch) /\ Grows(t, u)}
           Def(f) == [n \in 0..N |-> IF n = 0 THEN t ELSE observe(f[n - 1], seen[n])]
           step == [p \in (0..N) \X S |-> IF p[1] = 0 THEN p[2] ELSE observe(p[2], seen[p[1]])]
<1>0. N \in Nat /\ \A n \in 1..N : seen[n] \in Peer
  OBVIOUS
<1>1. t \in S
  BY SameGrows DEF Good
<1>2. \A u \in S, p \in Peer : observe(u, p) \in S
  <2> SUFFICES ASSUME NEW u \in S, NEW p \in Peer
               PROVE  observe(u, p) \in S
    OBVIOUS
  <2>1. Good(u, epoch) /\ Grows(t, u)
    OBVIOUS
  <2>2. Good(observe(u, p), epoch) /\ Grows(u, observe(u, p))
    BY <2>1, ObserveGood
  <2>3. Grows(t, observe(u, p))
    BY <2>1, <2>2, GrowsAgain
  <2>4. observe(u, p) \in Tables
    BY <2>2 DEF Good
  <2> QED
    BY <2>2, <2>3, <2>4
<1> HIDE DEF N, S
<1>3. step \in [(0..N) \X S -> S]
  <2> SUFFICES ASSUME NEW n \in 0..N, NEW u \in S
               PROVE  (IF n = 0 THEN u ELSE observe(u, seen[n])) \in S
    OBVIOUS
  <2>1. n # 0 => n \in 1..N
    BY <1>0
  <2> QED
    BY <1>0, <1>2, <2>1
<1>4. PICK f \in [0..N -> S] :
          f[0] = t /\ \A i \in 1..N : f[i] = step[<<i, f[i - 1]>>]
  <2> HIDE DEF step
  <2>1. Recursion(N, S, t, step)
    BY <1>0, <1>1, <1>3, RecursionExists
  <2> QED
    BY <2>1 DEF Recursion
<1>5. f = Def(f)
  <2>1. ASSUME NEW i \in 0..N
        PROVE  f[i] = IF i = 0 THEN t ELSE observe(f[i - 1], seen[i])
    <3>1. CASE i = 0
      BY <1>4, <3>1
    <3>2. CASE i # 0
      <4>1. i \in 1..N /\ i - 1 \in 0..N /\ i \in 0..N
        BY <1>0, <3>2
      <4>2. f[i] = step[<<i, f[i - 1]>>] /\ f[i - 1] \in S
        BY <1>4, <4>1
      <4> QED
        BY <3>2, <4>1, <4>2
    <3> QED
      BY <3>1, <3>2
  <2> QED
    BY <2>1
<1> DEFINE after == CHOOSE g : g = Def(g)
<1>6. observeAll(t, seen) = after[N]
  BY DEF observeAll, N
<1> HIDE DEF Def
<1>7. after = Def(after)
  BY <1>5
<1> HIDE DEF after
<1>8. \A n \in 0..N : after[n] = IF n = 0 THEN t ELSE observe(after[n - 1], seen[n])
  BY <1>7 DEF Def
<1> DEFINE Outside == {n \in 0..N : after[n] \notin S}
<1>9. Outside = {}
  <2> SUFFICES ASSUME Outside # {} PROVE FALSE
    OBVIOUS
  <2>1. Outside \in SUBSET Nat
    BY <1>0
  <2>2. PICK n \in Outside : \A i \in Outside : n <= i
    BY <2>1, LeastExists
  <2>3. n \in 0..N /\ n # 0
    BY <1>1, <1>8, <2>2
  <2>4. n \in 1..N /\ n - 1 \in 0..N /\ ~(n <= n - 1)
    BY <1>0, <2>3
  <2>5. after[n - 1] \in S
    BY <2>2, <2>4
  <2>6. after[n] = observe(after[n - 1], seen[n])
    BY <1>8, <2>3
  <2> QED
    BY <1>0, <1>2, <2>2, <2>4, <2>5, <2>6
<1>10. after[N] \in S
  <2>1. N \in 0..N
    BY <1>0
  <2> QED
    BY <1>9, <2>1
<1> QED
  BY <1>6, <1>10 DEF S

-----------------------------------------------------------------------------
(* The invariant *)

TableInv == epoch \in Nat /\ corrupted \in BOOLEAN /\ Good(Table, epoch)

LEMMA Becomes ==
    ASSUME NEW t, t \in Tables, Become(t)
    PROVE  Table' = t /\ buckets' = t.buckets
BY DEF Tables, Become, Table

LEMMA TableParts ==
    ASSUME Good(Table, epoch)
    PROVE  /\ Table.buckets = buckets /\ Table.captured = captured
           /\ Table.pings_in_progress = pings_in_progress
           /\ captured \in [Address -> Callback \cup {NoRequest}]
BY DEF Good, Tables, Table

LEMMA TableInit == Init => TableInv
<1> SUFFICES ASSUME Init PROVE TableInv
  OBVIOUS
<1>1. PICK pinged \in {{}} \cup {{a} : a \in Introducer} :
          /\ pings_in_progress = [a \in Address |-> IF a \in pinged THEN {NoCallback} ELSE {}]
          /\ captured = [a \in Address |-> IF a \in pinged THEN NoCallback ELSE NoRequest]
  BY DEF Init
<1>2. epoch = 0 /\ corrupted = FALSE /\ buckets = [b \in Bucket |-> <<>>]
  BY DEF Init
<1>3. NoRequest # NoCallback /\ NoCallback \in Callback /\ NoCallback \notin Entry
      /\ NoRequest \notin Entry
  BY CallbackAssumption DEF Callback
<1>4. /\ buckets \in [Bucket -> Seq(Entry)]
      /\ pings_in_progress \in [Address -> SUBSET Callback]
      /\ captured \in [Address -> Callback \cup {NoRequest}]
  BY <1>1, <1>2, <1>3
<1>5. Table \in Tables /\ Table.buckets = buckets /\ Table.captured = captured
      /\ Table.pings_in_progress = pings_in_progress
  BY <1>4 DEF Table, Tables
<1>6. \A b \in Bucket : Table.buckets[b] = <<>>
  BY <1>2, <1>5
<1>7. Filed(Table, epoch) /\ Bounded(Table)
  <2>1. k \in Nat /\ Len(<<>>) = 0 /\ DOMAIN <<>> = {}
    BY TableAssumption
  <2> QED
    BY <1>6, <2>1 DEF Filed, Bounded
<1>8. Waits(Table, epoch) /\ Tracked(Table)
  BY <1>1, <1>3, <1>5 DEF Waits, Tracked
<1> QED
  BY <1>2, <1>5, <1>7, <1>8 DEF Good, TableInv

LEMMA ReceiveStep ==
    ASSUME TableInv, NEW p \in Peer, NEW nearest \in Gossip, Receive(p, nearest)
    PROVE  TableInv' /\ Grows(Table, Table')
<1> DEFINE u == observeAll(Table, <<p>> \o nearest)
<1>1. <<p>> \o nearest \in Seq(Peer)
  <2>1. nearest \in Seq(Peer)
    BY DEF Gossip
  <2> QED
    BY <2>1
<1>2. Good(u, epoch) /\ Grows(Table, u)
  BY <1>1, ObserveAllGood DEF TableInv
<1>3. Become(u) /\ epoch' = epoch /\ corrupted' = corrupted
  BY DEF Receive
<1> HIDE DEF u
<1>4. Table' = u
  BY <1>2, <1>3, Becomes DEF Good
<1> QED
  BY <1>2, <1>3, <1>4 DEF TableInv

LEMMA PongStep ==
    ASSUME TableInv, NEW p \in Peer, PongArrives(p)
    PROVE  TableInv' /\ Grows(Table, Table')
<1> DEFINE t == PingEnded(Table, p.address)
           u == observe(t, p)
<1>1. p.address \in Address
  BY DEF Address
<1>2. Good(t, epoch) /\ Grows(Table, t)
  BY <1>1, PingEndedGood, SameGrows DEF TableInv
<1>5. Become(u) /\ epoch' = epoch /\ corrupted' = corrupted
  BY DEF PongArrives
<1> HIDE DEF t
<1>3. Good(u, epoch) /\ Grows(Table, u)
  BY <1>2, ObserveGood, GrowsAgain DEF TableInv
<1> HIDE DEF u
<1>4. Table' = u
  BY <1>3, <1>5, Becomes DEF Good
<1> QED
  BY <1>3, <1>4, <1>5 DEF TableInv

\* The newcomer takes the place of the head, which need not be the node that
\* did not answer.
LEMMA InsertGood ==
    ASSUME NEW t, NEW now \in Nat, Good(t, now), NEW e \in Entry,
           BucketOf[e.key] \in Bucket, e.lastSeen <= now, t.buckets[BucketOf[e.key]] # <<>>
    PROVE  /\ Good(InsertNewcomer(t, e), now)
           /\ \A b \in Bucket :
                 /\ Holds(t.buckets[b], InsertNewcomer(t, e).buckets[b], e)
                 /\ Blames(t.buckets[b], InsertNewcomer(t, e).buckets[b], e)
<1> DEFINE b == BucketOf[e.key]
           q == t.buckets[b]
           r == Append(Tail(q), e)
           u == InsertNewcomer(t, e)
<1>1. /\ b \in Bucket /\ q \in Seq(Entry) /\ q # <<>> /\ Len(q) <= k
      /\ t.buckets \in [Bucket -> Seq(Entry)]
  BY DEF Good, Tables, Bounded
<1>2. u = Refiled(t, b, r)
  BY DEF InsertNewcomer, Refiled
<1>3. r \in Seq(Entry) /\ Len(r) = Len(q) /\ Holds(q, r, e) /\ Blames(q, r, e)
  <2> HIDE DEF q
  <2> QED
    BY <1>1, ShiftFacts
<1> HIDE DEF r
<1>4. Len(r) <= k
  BY <1>1, <1>3
<1> HIDE DEF u
<1>5. Good(u, now) /\ u.buckets = [t.buckets EXCEPT ![b] = r]
  <2>1. BucketOf[e.key] = b
    OBVIOUS
  <2> HIDE DEF b
  <2>2. /\ Good(Refiled(t, b, r), now)
        /\ Refiled(t, b, r).buckets = [t.buckets EXCEPT ![b] = r]
    BY <1>1, <1>3, <1>4, <2>1, ReplaceGood
  <2> QED
    BY <1>2, <2>2
<1> HIDE DEF b
<1>6. \A c \in Bucket : u.buckets[c] = IF c = b THEN r ELSE t.buckets[c]
  BY <1>1, <1>5
<1>7. ASSUME NEW c \in Bucket
      PROVE  Holds(t.buckets[c], u.buckets[c], e) /\ Blames(t.buckets[c], u.buckets[c], e)
  <2>1. CASE c = b
    BY <1>3, <1>6, <2>1
  <2>2. CASE c # b
    <3>1. u.buckets[c] = t.buckets[c] /\ t.buckets[c] \in Seq(Entry)
      BY <1>1, <1>6, <2>2
    <3>2. Holds(t.buckets[c], u.buckets[c], e)
      BY <3>1 DEF Holds
    <3>3. Blames(t.buckets[c], u.buckets[c], e)
      BY <3>1, OrderlyBlames
    <3> QED
      BY <3>2, <3>3
  <2> QED
    BY <2>1, <2>2
<1> QED
  BY <1>5, <1>7 DEF u

\* The only entry of an address that is left after its ping failed is the
\* newcomer the ping was for.
Forgotten(t, a, newcomer) ==
    \A b \in Bucket : \A i \in DOMAIN t.buckets[b] :
        t.buckets[b][i].address = a => t.buckets[b][i] = newcomer

\* The newcomer is also to blame for all the disorder a failed ping makes.
LEMMA PingFailureStep ==
    ASSUME TableInv, NEW a \in Address, PingTimesOut(a)
    PROVE  /\ TableInv' /\ Forgotten(Table', a, captured[a])
           /\ \A b \in Bucket : Blames(buckets[b], buckets'[b], captured[a])
<1> DEFINE s == PingEnded(Table, a)
           t == unobserve(s, a)
           newcomer == captured[a]
           damaged == t.buckets[BucketOf[newcomer.key]] = <<>>
<1>1. Good(Table, epoch) /\ epoch \in Nat /\ corrupted \in BOOLEAN
  BY DEF TableInv
<1>2. /\ captured \in [Address -> Callback \cup {NoRequest}]
      /\ Table.captured = captured /\ Table.buckets = buckets
  BY <1>1, TableParts
<1>3. Good(s, epoch) /\ s.buckets = buckets
  BY <1>1, <1>2, PingEndedGood
<1> HIDE DEF s
<1>4. /\ Good(t, epoch)
      /\ \A b \in Bucket :
            /\ Ordered(buckets[b]) => Ordered(t.buckets[b])
            /\ ListedOnce(buckets[b]) => ListedOnce(t.buckets[b])
            /\ \A n \in DOMAIN t.buckets[b] : t.buckets[b][n].address # a
  BY <1>1, <1>3, UnobserveGood
<1>5. /\ newcomer # NoRequest /\ epoch' = epoch
      /\ \/ newcomer = NoCallback /\ Become(t) /\ UNCHANGED corrupted
         \/ /\ newcomer # NoCallback /\ ~damaged
            /\ Become(InsertNewcomer(t, newcomer)) /\ UNCHANGED corrupted
         \/ newcomer # NoCallback /\ damaged /\ Become(t) /\ corrupted' \in BOOLEAN
  BY DEF PingTimesOut, s
<1> HIDE DEF t
<1>6. CASE Become(t) /\ corrupted' \in BOOLEAN
  <2>1. Table' = t /\ buckets' = t.buckets
    BY <1>4, <1>6, Becomes DEF Good
  <2>2. Forgotten(t, a, captured[a])
    BY <1>4 DEF Forgotten
  <2>3. ASSUME NEW b \in Bucket
        PROVE  Blames(buckets[b], t.buckets[b], newcomer)
    <3>1. t.buckets[b] \in Seq(Entry)
      BY <1>4 DEF Good, Tables
    <3> HIDE DEF newcomer
    <3> QED
      BY <1>4, <3>1, OrderlyBlames
  <2> QED
    BY <1>1, <1>4, <1>5, <1>6, <2>1, <2>2, <2>3 DEF TableInv
<1>7. CASE newcomer # NoCallback /\ ~damaged /\ Become(InsertNewcomer(t, newcomer))
           /\ UNCHANGED corrupted
  <2> DEFINE u == InsertNewcomer(t, newcomer)
  <2>1. newcomer \in Entry
    BY <1>2, <1>5, <1>7 DEF Callback
  <2>2. BucketOf[newcomer.key] \in Bucket /\ newcomer.lastSeen <= epoch
    BY <1>1, <1>2, <2>1 DEF Good, Waits
  <2>3. t.buckets[BucketOf[newcomer.key]] # <<>>
    BY <1>7
  <2> HIDE DEF newcomer
  <2>4. /\ Good(u, epoch)
        /\ \A b \in Bucket : /\ Holds(t.buckets[b], u.buckets[b], newcomer)
                             /\ Blames(t.buckets[b], u.buckets[b], newcomer)
    BY <1>1, <1>4, <2>1, <2>2, <2>3, InsertGood
  <2>5. Become(u)
    BY <1>7
  <2> HIDE DEF u
  <2>6. Table' = u /\ buckets' = u.buckets
    BY <2>4, <2>5, Becomes DEF Good
  <2>7. Forgotten(u, a, newcomer)
    BY <1>4, <2>4 DEF Forgotten, Holds
  <2>8. \A b \in Bucket : Blames(buckets[b], u.buckets[b], newcomer)
    BY <1>4, <2>4 DEF Blames
  <2> QED
    BY <1>1, <1>5, <1>7, <2>4, <2>6, <2>7, <2>8 DEF TableInv, newcomer
<1> QED
  BY <1>1, <1>5, <1>6, <1>7

LEMMA RequestFailureStep ==
    ASSUME TableInv, NEW a \in Address, RequestTimesOut(a)
    PROVE  /\ TableInv' /\ Forgotten(Table', a, captured[a])
           /\ \A b \in Bucket : Ordered(buckets[b]) => Ordered(buckets'[b])
           /\ \A b \in Bucket : ListedOnce(buckets[b]) => ListedOnce(buckets'[b])
<1> DEFINE t == unobserve(Table, a)
<1>1. Good(Table, epoch) /\ epoch \in Nat /\ corrupted \in BOOLEAN
  BY DEF TableInv
<1>2. Table.buckets = buckets
  BY <1>1, TableParts
<1>3. /\ Good(t, epoch)
      /\ \A b \in Bucket :
            /\ Ordered(Table.buckets[b]) => Ordered(t.buckets[b])
            /\ ListedOnce(Table.buckets[b]) => ListedOnce(t.buckets[b])
            /\ \A n \in DOMAIN t.buckets[b] : t.buckets[b][n].address # a
  BY <1>1, UnobserveGood
<1>4. Become(t) /\ epoch' = epoch /\ corrupted' = corrupted
  BY DEF RequestTimesOut
<1> HIDE DEF t
<1>5. Table' = t /\ buckets' = t.buckets
  BY <1>3, <1>4, Becomes DEF Good
<1>6. Forgotten(t, a, captured[a])
  BY <1>3 DEF Forgotten
<1> QED
  BY <1>1, <1>2, <1>3, <1>4, <1>5, <1>6 DEF TableInv

LEMMA TickStep ==
    ASSUME TableInv, Tick
    PROVE  TableInv' /\ buckets' = buckets
<1>1. Good(Table, epoch) /\ epoch \in Nat /\ corrupted \in BOOLEAN
  BY DEF TableInv
<1>2. epoch' = epoch + 1 /\ Table' = Table /\ corrupted' = corrupted /\ buckets' = buckets
  BY DEF Tick, Table, table
<1>3. Good(Table, epoch + 1)
  <2>1. Table \in Tables /\ Bounded(Table) /\ Tracked(Table)
    BY <1>1 DEF Good
  <2>2. \A e \in Entry : e.lastSeen <= epoch => e.lastSeen <= epoch + 1
    BY <1>1 DEF Entry
  <2>3. Filed(Table, epoch + 1)
    <3> SUFFICES ASSUME NEW b \in Bucket, NEW i \in DOMAIN Table.buckets[b]
                 PROVE  /\ BucketOf[Table.buckets[b][i].key] = b
                        /\ Table.buckets[b][i].lastSeen <= epoch + 1
      BY DEF Filed
    <3>1. Table.buckets[b] \in Seq(Entry)
      BY <2>1 DEF Tables
    <3>2. Table.buckets[b][i] \in Entry
      BY <3>1
    <3> QED
      BY <1>1, <2>2, <3>2 DEF Good, Filed
  <2>4. Waits(Table, epoch + 1)
    BY <1>1, <2>2 DEF Good, Waits
  <2> QED
    BY <2>1, <2>3, <2>4 DEF Good
<1> QED
  BY <1>1, <1>2, <1>3 DEF TableInv

LEMMA TableStep == TableInv /\ [Next]_vars => TableInv'
<1> SUFFICES ASSUME TableInv, [Next]_vars PROVE TableInv'
  OBVIOUS
<1>1. CASE UNCHANGED vars
  BY <1>1 DEF TableInv, vars, table, Table
<1>2. ASSUME NEW p \in Peer, NEW nearest \in Gossip, Receive(p, nearest) PROVE TableInv'
  BY <1>2, ReceiveStep
<1>3. ASSUME NEW p \in Peer, PongArrives(p) PROVE TableInv'
  BY <1>3, PongStep
<1>4. ASSUME NEW a \in Address, PingTimesOut(a) PROVE TableInv'
  BY <1>4, PingFailureStep
<1>5. ASSUME NEW a \in Address, RequestTimesOut(a) PROVE TableInv'
  BY <1>5, RequestFailureStep
<1>6. CASE Tick
  BY <1>6, TickStep
<1> QED
  BY <1>1, <1>2, <1>3, <1>4, <1>5, <1>6 DEF Next

LEMMA TableInvariant == Spec => []TableInv
BY TableInit, TableStep, PTL DEF Spec

-----------------------------------------------------------------------------
(* Theorems *)

\* Every entry stays in the bucket of its key, whatever the node is sent and
\* whoever leaves.
THEOREM TypeCorrect == Spec => []TypeOK
<1>1. TableInv => TypeOK
  <2> SUFFICES ASSUME TableInv PROVE TypeOK
    OBVIOUS
  <2>1. Good(Table, epoch) /\ Table.buckets = buckets
    BY TableParts DEF TableInv
  <2> QED
    BY <2>1 DEF TableInv, TypeOK, Good, Tables, Filed, Table
<1> QED
  BY <1>1, TableInvariant, PTL

\* A bucket never holds more than k entries: a newcomer is added to a full one
\* only after an entry of it was erased.
THEOREM BucketsAreBounded == Spec => []BucketBound
<1>1. TableInv => BucketBound
  BY TableParts DEF TableInv, Good, Bounded, BucketBound
<1> QED
  BY <1>1, TableInvariant, PTL

\* The map of pings has an entry for an address as long as a ping is under way.
THEOREM PingsAreTracked == Spec => []PingTracked
<1>1. TableInv => PingTracked
  BY TableParts DEF TableInv, Good, Tracked, PingTracked
<1> QED
  BY <1>1, TableInvariant, PTL

\* What is received makes the node forget nobody.
THEOREM OldContactsAreKept == Spec => OldContactsStay
<1>1. TableInv /\ TableInv' /\ [Next]_vars =>
         [~TimesOut => \A b \in Bucket : Keys(buckets[b]) \subseteq Keys(buckets'[b])]_vars
  <2> SUFFICES ASSUME TableInv, TableInv', Next, ~TimesOut
               PROVE  \A b \in Bucket : Keys(buckets[b]) \subseteq Keys(buckets'[b])
    OBVIOUS
  <2>1. Table.buckets = buckets /\ Table'.buckets = buckets'
    BY DEF Table
  <2>2. CASE Grows(Table, Table')
    BY <2>1, <2>2 DEF Grows
  <2>3. CASE Tick
    BY <2>3, TickStep
  <2> QED
    BY <2>2, <2>3, ReceiveStep, PongStep DEF Next, TimesOut
<1> QED
  BY <1>1, TableInvariant, PTL DEF Spec, OldContactsStay

\* Whatever a step puts out of order or lists twice in a bucket, it puts last in
\* it, and it is the newcomer of a ping that failed.
LEMMA OnlyNewcomersDisturb ==
    ASSUME TableInv, Next, NEW b \in Bucket,
           NEW i \in DOMAIN buckets'[b], NEW j \in DOMAIN buckets'[b], i < j
    PROVE  /\ Ordered(buckets[b]) /\ ~(buckets'[b][i].lastSeen <= buckets'[b][j].lastSeen)
              => NewcomerLast(buckets'[b], j)
           /\ ListedOnce(buckets[b]) /\ buckets'[b][i].key = buckets'[b][j].key
              => NewcomerLast(buckets'[b], j)
<1>1. Table.buckets = buckets /\ Table'.buckets = buckets'
  BY DEF Table
<1>2. CASE \E a \in Address : PingTimesOut(a)
  <2>1. PICK a \in Address : PingTimesOut(a)
    BY <1>2
  <2>2. Blames(buckets[b], buckets'[b], captured[a])
    BY <2>1, PingFailureStep
  <2> QED
    BY <2>1, <2>2 DEF Blames, NewcomerLast
<1>3. CASE ~\E a \in Address : PingTimesOut(a)
  <2>1. /\ Ordered(buckets[b]) => Ordered(buckets'[b])
        /\ ListedOnce(buckets[b]) => ListedOnce(buckets'[b])
    <3>1. CASE Grows(Table, Table')
      BY <1>1, <3>1 DEF Grows
    <3>2. CASE Tick
      BY <3>2, TickStep
    <3>3. ASSUME NEW a \in Address, RequestTimesOut(a)
          PROVE  /\ Ordered(buckets[b]) => Ordered(buckets'[b])
                 /\ ListedOnce(buckets[b]) => ListedOnce(buckets'[b])
      BY <3>3, RequestFailureStep
    <3> QED
      BY <1>3, <3>1, <3>2, <3>3, ReceiveStep, PongStep DEF Next
  <2>2. i # j
    <3>1. TableInv'
      BY TableStep
    <3>2. buckets'[b] \in Seq(Entry)
      BY <1>1, <3>1 DEF TableInv, Good, Tables
    <3>3. i \in Nat /\ j \in Nat
      BY <3>2
    <3> QED
      BY <3>3
  <2> QED
    BY <2>1, <2>2 DEF Ordered, ListedOnce
<1> QED
  BY <1>2, <1>3

\* Only a failed ping can leave a bucket out of the order of its epochs, and
\* only by its newcomer.
THEOREM OrderIsKept == Spec => SeenOrderKept
<1>1. TableInv /\ [Next]_vars =>
         [\A b \in Bucket : Ordered(buckets[b]) =>
             \A i, j \in DOMAIN buckets'[b] :
                i < j /\ ~(buckets'[b][i].lastSeen <= buckets'[b][j].lastSeen)
                => NewcomerLast(buckets'[b], j)]_vars
  BY OnlyNewcomersDisturb
<1> QED
  BY <1>1, TableInvariant, PTL DEF Spec, SeenOrderKept

\* Only a failed ping can list a node a second time, and only its newcomer.
THEOREM NodesAreListedOnce == Spec => ListedOnceKept
<1>1. TableInv /\ [Next]_vars =>
         [\A b \in Bucket : ListedOnce(buckets[b]) =>
             \A i, j \in DOMAIN buckets'[b] :
                i < j /\ buckets'[b][i].key = buckets'[b][j].key
                => NewcomerLast(buckets'[b], j)]_vars
  BY OnlyNewcomersDisturb
<1> QED
  BY <1>1, TableInvariant, PTL DEF Spec, ListedOnceKept

\* A failed request clears its address from the whole table, but for the
\* newcomer of a ping.
THEOREM FailuresForget == Spec => FailureForgets
<1>1. TableInv /\ [Next]_vars =>
         [\A a \in Address : PingTimesOut(a) \/ RequestTimesOut(a) =>
             \A b \in Bucket : \A i \in DOMAIN buckets'[b] :
                buckets'[b][i].address = a => buckets'[b][i] = captured[a]]_vars
  <2> SUFFICES ASSUME TableInv, NEW a \in Address, PingTimesOut(a) \/ RequestTimesOut(a)
               PROVE  \A b \in Bucket : \A i \in DOMAIN buckets'[b] :
                         buckets'[b][i].address = a => buckets'[b][i] = captured[a]
    OBVIOUS
  <2>1. Table'.buckets = buckets'
    BY DEF Table
  <2>2. Forgotten(Table', a, captured[a])
    BY PingFailureStep, RequestFailureStep
  <2> QED
    BY <2>1, <2>2 DEF Forgotten
<1> QED
  BY <1>1, TableInvariant, PTL DEF Spec, FailureForgets
=============================================================================
