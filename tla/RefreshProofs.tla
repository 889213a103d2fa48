--------------------------- MODULE RefreshProofs ---------------------------
(***************************************************************************)
(* Proofs about Refresh, for any buckets, periods and lookups.             *)
(*                                                                         *)
(* The inductive invariant adds to the counters of the rounds that rounds  *)
(* to come are untouched (Ahead), whom a round counts (CountsItsOwn), and, *)
(* of time, that no entry is newer than its bucket's last change and that  *)
(* every round due a period after that change had the bucket (Served).     *)
(***************************************************************************)
EXTENDS Refresh, FiniteSetTheorems, Arithmetic

Ahead ==
    \A r \in Round : r >= epoch =>
        /\ waiting[r] = 0 /\ started[r] = {} /\ reports[r] = 0
        /\ r \notin alone /\ Open(r) = {}

CountsItsOwn ==
    \A r \in Round : Open(r) \subseteq started[r] /\ (r \in alone => Open(r) = {})

Phase == maintenance_offset % bucket_refresh_period

Served ==
    \A b \in Bucket :
        /\ \A lastSeen \in buckets[b] : lastSeen <= changed[b]
        /\ buckets[b] # {} =>
              \A r \in Round :
                 /\ r < epoch /\ r % bucket_refresh_period = Phase
                 /\ r >= changed[b] + bucket_refresh_period
                 => b \in started[r]

Inv == TypeOK /\ Ahead /\ CountsItsOwn /\ ReportedWhenDone /\ Served

LEMMA PeriodFacts ==
    /\ bucket_refresh_period \in Nat \ {0} /\ maintenance_period \in Nat \ {0}
    /\ MaxEpoch \in Nat /\ IsFiniteSet(Bucket)
BY RefreshAssumption

\* Buckets can be counted.
LEMMA Countable ==
    ASSUME NEW S \in SUBSET Bucket
    PROVE  /\ IsFiniteSet(S) /\ Cardinality(S) \in Nat
           /\ Cardinality(S) = 0 <=> S = {}
BY PeriodFacts, FS_Subset, FS_CardinalityType, FS_EmptySet

-----------------------------------------------------------------------------
LEMMA InitInv == Init => Inv
<1> SUFFICES ASSUME Init PROVE Inv
  OBVIOUS
<1>1. TypeOK
  BY PeriodFacts DEF Init, TypeOK, Round
<1>2. \A r \in Round : Open(r) = {}
  BY DEF Init, Open
<1>3. Cardinality({}) = 0
  BY FS_EmptySet
<1> QED
  BY <1>1, <1>2, <1>3 DEF Init, Inv, Ahead, CountsItsOwn, ReportedWhenDone, Served

\* What a tick does to the rounds: that of its epoch is added, and the others
\* stay as they are.
LEMMA TickRounds ==
    ASSUME Inv, NEW seen \in [Bucket -> SUBSET (0..epoch)], Tick(seen),
           NEW now, now = epoch
    PROVE  LET stale == {b \in Bucket : RefreshDue /\ Stale(seen[b])}
           IN  /\ now \in Round /\ epoch' \in Round /\ epoch' = now + 1
               /\ started' = [started EXCEPT ![now] = stale]
               /\ \A r \in Round \ {now} :
                     /\ waiting'[r] = waiting[r] /\ reports'[r] = reports[r]
                     /\ r \in alone' <=> r \in alone
                     /\ Open(r)' = Open(r)
               /\ \/ /\ waiting'[now] = 0 /\ Open(now)' = {} /\ now \in alone'
                     /\ reports'[now] = Cardinality(stale)
                  \/ /\ waiting'[now] = Cardinality(stale) /\ Open(now)' = stale
                     /\ now \notin alone' /\ reports'[now] = 0
               /\ waiting' \in [Round -> Nat] /\ reports' \in [Round -> Nat]
               /\ lookups' \subseteq Refreshing /\ alone' \subseteq Round
<1> DEFINE stale == {b \in Bucket : RefreshDue /\ Stale(seen[b])}
<1>1. stale \subseteq Bucket /\ Cardinality(stale) \in Nat
  BY Countable
<1>2. now \in Round /\ epoch' \in Round /\ epoch' = now + 1
  BY PeriodFacts DEF Inv, TypeOK, Tick, Round
<1>3. /\ waiting[now] = 0 /\ Open(now) = {} /\ now \notin alone /\ reports[now] = 0
  BY <1>2 DEF Inv, Ahead, Round
<1>4. started' = [started EXCEPT ![now] = stale]
  BY DEF Tick
<1>5. \/ /\ alone' = alone \cup {now}
         /\ reports' = [reports EXCEPT ![now] = Cardinality(stale)]
         /\ UNCHANGED <<waiting, lookups>>
      \/ /\ waiting' = [waiting EXCEPT ![now] = Cardinality(stale)]
         /\ lookups' = lookups \cup {[round |-> now, for |-> b] : b \in stale}
         /\ UNCHANGED <<alone, reports>>
  BY DEF Tick, Waited
<1> HIDE DEF stale
<1>6. CASE /\ alone' = alone \cup {now}
           /\ reports' = [reports EXCEPT ![now] = Cardinality(stale)]
           /\ UNCHANGED <<waiting, lookups>>
  <2>1. \A r \in Round : Open(r)' = Open(r)
    BY <1>6 DEF Open
  <2> QED
    BY <1>1, <1>2, <1>3, <1>4, <1>6, <2>1 DEF Inv, TypeOK, stale
<1>7. CASE /\ waiting' = [waiting EXCEPT ![now] = Cardinality(stale)]
           /\ lookups' = lookups \cup {[round |-> now, for |-> b] : b \in stale}
           /\ UNCHANGED <<alone, reports>>
  <2>1. \A r \in Round \ {now} : Open(r)' = Open(r)
    BY <1>7 DEF Open
  <2>2. Open(now)' = stale
    BY <1>1, <1>3, <1>7 DEF Open
  <2>3. lookups' \subseteq Refreshing
    BY <1>1, <1>2, <1>7 DEF Refreshing, Inv, TypeOK
  <2> QED
    BY <1>1, <1>2, <1>3, <1>4, <1>7, <2>1, <2>2, <2>3 DEF Inv, TypeOK, stale
<1> QED
  BY <1>5, <1>6, <1>7

LEMMA TickInv ==
    ASSUME Inv, NEW seen \in [Bucket -> SUBSET (0..epoch)], Tick(seen)
    PROVE  Inv'
<1>0. PICK now : now = epoch
  OBVIOUS
<1> DEFINE stale == {b \in Bucket : RefreshDue /\ Stale(seen[b])}
<1>1. stale \subseteq Bucket /\ Cardinality(stale) \in Nat /\ (Cardinality(stale) = 0 <=> stale = {})
  BY Countable
<1>2. /\ now \in Round /\ epoch' \in Round /\ epoch' = now + 1
      /\ started' = [started EXCEPT ![now] = stale]
      /\ \A r \in Round \ {now} :
            /\ waiting'[r] = waiting[r] /\ reports'[r] = reports[r]
            /\ r \in alone' <=> r \in alone
            /\ Open(r)' = Open(r)
      /\ \/ /\ waiting'[now] = 0 /\ Open(now)' = {} /\ now \in alone'
            /\ reports'[now] = Cardinality(stale)
         \/ /\ waiting'[now] = Cardinality(stale) /\ Open(now)' = stale
            /\ now \notin alone' /\ reports'[now] = 0
      /\ waiting' \in [Round -> Nat] /\ reports' \in [Round -> Nat]
      /\ lookups' \subseteq Refreshing /\ alone' \subseteq Round
  BY <1>0, TickRounds
<1>3. /\ buckets' = seen /\ maintenance_offset' = maintenance_offset
      /\ changed' = [b \in Bucket |-> IF seen[b] # buckets[b] THEN epoch ELSE changed[b]]
  BY DEF Tick
<1>4. \A b \in Bucket :
          b \in stale <=> RefreshDue /\ seen[b] # {}
                          /\ \A lastSeen \in seen[b] : epoch >= lastSeen + bucket_refresh_period
  BY DEF Stale
<1> HIDE DEF stale
<1>5. started'[now] = stale /\ \A r \in Round \ {now} : started'[r] = started[r]
  BY <1>2 DEF Inv, TypeOK
<1>6. Cardinality({}) = 0
  BY FS_EmptySet
<1>7. TypeOK'
  <2>1. epoch \in Nat /\ 0..epoch \subseteq 0..(epoch + 1)
    BY <1>0, <1>2 DEF Round
  <2>2. buckets' \in [Bucket -> SUBSET (0..epoch')] /\ changed' \in [Bucket -> 0..epoch']
    BY <1>0, <1>2, <1>3, <2>1 DEF Inv, TypeOK
  <2>3. started' \in [Round -> SUBSET Bucket]
    BY <1>1, <1>2 DEF Inv, TypeOK
  <2> QED
    BY <1>2, <1>3, <2>2, <2>3 DEF Inv, TypeOK
<1>8. Ahead'
  <2> SUFFICES ASSUME NEW r \in Round, r >= epoch'
               PROVE  /\ waiting'[r] = 0 /\ started'[r] = {} /\ reports'[r] = 0
                      /\ r \notin alone' /\ Open(r)' = {}
    BY DEF Ahead
  <2>1. r # now /\ r >= now
    BY <1>0, <1>2 DEF Round
  <2> QED
    BY <1>0, <1>2, <1>5, <2>1 DEF Inv, Ahead
<1>9. CountsItsOwn'
  <2> SUFFICES ASSUME NEW r \in Round
               PROVE  Open(r)' \subseteq started'[r] /\ (r \in alone' => Open(r)' = {})
    BY DEF CountsItsOwn
  <2>1. CASE r = now
    BY <1>2, <1>5, <2>1
  <2>2. CASE r # now
    BY <1>2, <1>5, <2>2 DEF Inv, CountsItsOwn
  <2> QED
    BY <2>1, <2>2
<1>10. ReportedWhenDone'
  <2> SUFFICES ASSUME NEW r \in Round
               PROVE  /\ waiting'[r] = Cardinality(Open(r)')
                      /\ Open(r)' # {} => reports'[r] = 0
                      /\ Open(r)' = {} => reports'[r] =
                             IF r \in alone' THEN Cardinality(started'[r])
                             ELSE IF started'[r] = {} THEN 0 ELSE 1
    BY DEF ReportedWhenDone
  <2>1. CASE r = now
    BY <1>1, <1>2, <1>5, <1>6, <2>1
  <2>2. CASE r # now
    BY <1>2, <1>5, <2>2 DEF Inv, ReportedWhenDone
  <2> QED
    BY <2>1, <2>2
<1>11. Served'
  <2> SUFFICES ASSUME NEW b \in Bucket
               PROVE  /\ \A lastSeen \in buckets'[b] : lastSeen <= changed'[b]
                      /\ buckets'[b] # {} =>
                            \A r \in Round :
                               /\ r < epoch' /\ r % bucket_refresh_period = Phase
                               /\ r >= changed'[b] + bucket_refresh_period
                               => b \in started'[r]
    BY <1>3 DEF Served, Phase
  <2>1. epoch \in Nat /\ bucket_refresh_period \in Nat \ {0} /\ Round \subseteq Nat
    BY <1>0, <1>2, PeriodFacts DEF Round
  <2>2. CASE seen[b] # buckets[b]
    <3>1. changed'[b] = epoch
      BY <1>3, <2>2
    <3> QED
      BY <1>0, <1>2, <1>3, <2>1, <3>1
  <2>3. CASE seen[b] = buckets[b]
    <3>1. /\ changed'[b] = changed[b] /\ changed[b] \in Nat /\ buckets'[b] = buckets[b]
          /\ \A lastSeen \in buckets[b] : lastSeen <= changed[b] /\ lastSeen \in Nat
      BY <1>3, <2>1, <2>3 DEF Inv, TypeOK, Served
    <3>2. ASSUME buckets[b] # {}, NEW r \in Round,
                 r < epoch', r % bucket_refresh_period = Phase,
                 r >= changed[b] + bucket_refresh_period
          PROVE  b \in started'[r]
      <4>1. CASE r = now
        <5>1. RefreshDue
          BY <1>0, <3>2, <4>1 DEF RefreshDue, Phase
        <5>2. \A lastSeen \in seen[b] : epoch >= lastSeen + bucket_refresh_period
          BY <1>0, <2>1, <2>3, <3>1, <3>2, <4>1
        <5> QED
          BY <1>4, <1>5, <2>3, <3>2, <4>1, <5>1, <5>2
      <4>2. CASE r # now
        <5>1. r < epoch
          BY <1>0, <1>2, <2>1, <3>2, <4>2
        <5> QED
          BY <1>5, <3>2, <4>2, <5>1 DEF Inv, Served
      <4> QED
        BY <4>1, <4>2
    <3> QED
      BY <3>1, <3>2
  <2> QED
    BY <2>2, <2>3
<1> QED
  BY <1>7, <1>8, <1>9, <1>10, <1>11 DEF Inv

\* A lookup that ends was counted by its round, and is so no more.
LEMMA EndInv ==
    ASSUME Inv, NEW l \in lookups, End(l)
    PROVE  Inv'
<1> DEFINE s == l.round
<1>1. /\ s \in Round /\ l.for \in Bucket /\ l = [round |-> s, for |-> l.for]
  BY DEF Inv, TypeOK, Refreshing
<1>2. /\ l.for \in Open(s) /\ Open(s)' = Open(s) \ {l.for}
      /\ \A r \in Round \ {s} : Open(r)' = Open(r)
  BY <1>1 DEF Open, End
<1>3. /\ IsFiniteSet(Open(s)) /\ Cardinality(Open(s)) \in Nat \ {0}
      /\ Cardinality(Open(s)') = Cardinality(Open(s)) - 1
      /\ Cardinality(Open(s)') = 0 <=> Open(s)' = {}
  <2>1. Open(s) \subseteq Bucket /\ Open(s)' \subseteq Bucket
    BY DEF Open
  <2>2. IsFiniteSet(Open(s)) /\ Cardinality(Open(s)) \in Nat /\ Cardinality(Open(s)) # 0
    BY <1>2, <2>1, Countable
  <2>3. Cardinality(Open(s) \ {l.for}) = Cardinality(Open(s)) - 1
    BY <1>2, <2>2, FS_RemoveElement
  <2>4. Cardinality(Open(s)') = 0 <=> Open(s)' = {}
    BY <2>1, Countable
  <2> QED
    BY <1>2, <2>2, <2>3, <2>4
<1>4. /\ waiting[s] = Cardinality(Open(s)) /\ reports[s] = 0 /\ s \notin alone /\ started[s] # {}
      /\ s < epoch /\ Open(s)' \subseteq started[s]
  BY <1>1, <1>2 DEF Inv, ReportedWhenDone, CountsItsOwn, Ahead, Round, TypeOK
<1>5. /\ waiting' = [waiting EXCEPT ![s] = @ - 1]
      /\ reports' = [reports EXCEPT ![s] = @ + (IF waiting'[s] = 0 THEN 1 ELSE 0)]
      /\ lookups' \subseteq lookups
      /\ UNCHANGED <<epoch, maintenance_offset, buckets, started, alone, changed>>
  BY DEF End, Over, CounterOf
<1> HIDE DEF s
<1>6. /\ waiting'[s] = Cardinality(Open(s)') /\ waiting'[s] \in Nat
      /\ reports'[s] = IF Open(s)' = {} THEN 1 ELSE 0
      /\ \A r \in Round \ {s} : waiting'[r] = waiting[r] /\ reports'[r] = reports[r]
  BY <1>1, <1>3, <1>4, <1>5 DEF Inv, TypeOK
<1>7. TypeOK'
  <2>1. waiting' \in [Round -> Nat] /\ reports' \in [Round -> Nat]
    BY <1>1, <1>5, <1>6 DEF Inv, TypeOK
  <2> QED
    BY <1>5, <2>1 DEF Inv, TypeOK
<1>8. Ahead'
  <2> SUFFICES ASSUME NEW r \in Round, r >= epoch
               PROVE  /\ waiting'[r] = 0 /\ started'[r] = {} /\ reports'[r] = 0
                      /\ r \notin alone' /\ Open(r)' = {}
    BY <1>5 DEF Ahead
  <2>1. r # s
    BY <1>1, <1>4 DEF Inv, TypeOK, Round
  <2> QED
    BY <1>2, <1>5, <1>6, <2>1 DEF Inv, Ahead
<1>9. CountsItsOwn'
  BY <1>2, <1>4, <1>5 DEF Inv, CountsItsOwn
<1>10. ReportedWhenDone'
  <2> SUFFICES ASSUME NEW r \in Round
               PROVE  /\ waiting'[r] = Cardinality(Open(r)')
                      /\ Open(r)' # {} => reports'[r] = 0
                      /\ Open(r)' = {} => reports'[r] =
                             IF r \in alone' THEN Cardinality(started'[r])
                             ELSE IF started'[r] = {} THEN 0 ELSE 1
    BY DEF ReportedWhenDone
  <2>1. CASE r = s
    BY <1>4, <1>5, <1>6, <2>1
  <2>2. CASE r # s
    BY <1>2, <1>5, <1>6, <2>2 DEF Inv, ReportedWhenDone
  <2> QED
    BY <2>1, <2>2
<1>11. Served'
  BY <1>5 DEF Inv, Served, Phase
<1> QED
  BY <1>7, <1>8, <1>9, <1>10, <1>11 DEF Inv

LEMMA NextInv == Inv /\ [Next]_vars => Inv'
<1> SUFFICES ASSUME Inv, [Next]_vars PROVE Inv'
  OBVIOUS
<1>1. CASE UNCHANGED vars
  <2>1. TypeOK' /\ Served'
    BY <1>1 DEF vars, Inv, TypeOK, Served, Phase
  <2>2. \A r \in Round : Open(r)' = Open(r)
    BY <1>1 DEF vars, Open
  <2>3. Ahead' /\ CountsItsOwn' /\ ReportedWhenDone'
    BY <1>1, <2>2 DEF vars, Inv, Ahead, CountsItsOwn, ReportedWhenDone
  <2> QED
    BY <2>1, <2>3 DEF Inv
<1>2. ASSUME NEW seen \in [Bucket -> {S \in SUBSET (0..epoch) : Cardinality(S) <= k}], Tick(seen)
      PROVE  Inv'
  <2>1. seen \in [Bucket -> SUBSET (0..epoch)]
    OBVIOUS
  <2> QED
    BY <1>2, <2>1, TickInv
<1> QED
  BY <1>1, <1>2, EndInv DEF Next, Finished

LEMMA InvHolds == Spec => []Inv
  BY InitInv, NextInv, PTL DEF Spec

-----------------------------------------------------------------------------
\* The types of the state, and with them that no counter of refreshes, an
\* unsigned number, is decremented below 0.
THEOREM TypeCorrect == Spec => []TypeOK
<1>1. Inv => TypeOK
  BY DEF Inv
<1> QED
  BY <1>1, InvHolds, PTL

\* Rounds that overlap do not take each other's lookups for their own, and the
\* callback of each is called when its last lookup ends, and once.
THEOREM RoundsAreReported == Spec => []ReportedWhenDone
<1>1. Inv => ReportedWhenDone
  BY DEF Inv
<1> QED
  BY <1>1, InvHolds, PTL

\* If a bucket with entries stayed as it is for two periods, a round of the last
\* one started a lookup for it: of the ticks of a period exactly one is due,
\* whatever the node's offset is, and in it the bucket was stale.
THEOREM StaleBucketsAreNoticed == Spec => []StaleBucketsNoticed
<1>1. Inv => StaleBucketsNoticed
  <2> SUFFICES ASSUME Inv, NEW b \in Bucket, buckets[b] # {},
                      epoch >= changed[b] + 2 * bucket_refresh_period
               PROVE  \E r \in Round : b \in started[r] /\ r + bucket_refresh_period >= epoch
    BY DEF StaleBucketsNoticed
  <2>1. /\ epoch \in Nat /\ changed[b] \in Nat /\ epoch <= MaxEpoch
        /\ maintenance_offset \in Nat
    BY PeriodFacts DEF Inv, TypeOK, Round
  <2> DEFINE first == epoch - bucket_refresh_period
  <2>2. first \in Nat /\ first >= changed[b] + bucket_refresh_period
    BY <2>1, PeriodFacts
  <2>3. Phase \in 0..(bucket_refresh_period - 1)
    BY <2>1, PeriodFacts, Division DEF Phase
  <2>4. PICK r \in Nat : /\ first <= r /\ r < first + bucket_refresh_period
                         /\ r % bucket_refresh_period = Phase
    BY <2>2, <2>3, PeriodFacts, PhaseComes
  <2>5. /\ r < epoch /\ r >= changed[b] + bucket_refresh_period /\ r \in Round
        /\ r + bucket_refresh_period >= epoch
    BY <2>1, <2>2, <2>4, PeriodFacts DEF Round
  <2> QED
    BY <2>4, <2>5 DEF Inv, Served
<1> QED
  BY <1>1, InvHolds, PTL
=============================================================================
