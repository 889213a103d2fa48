------------------------------ MODULE Refresh ------------------------------
(***************************************************************************)
(* The bucket refreshes of one KademliaNode (kademlia.cpp): the last part  *)
(* of tick, refreshBuckets, refreshSingleBucket and the callbacks that     *)
(* count the refreshes of a round.                                         *)
(*                                                                         *)
(* A bucket is the set of the times at which its entries were last seen;   *)
(* while the node handles its messages RoutingTable may change it in any   *)
(* way.  What the code does for a stale bucket is to look up a random key: *)
(* the loop that would move the key into the range of the bucket has the   *)
(* condition `j > KEY_LEN' and never runs.  So a lookup is started for a   *)
(* bucket, and counted, but seldom asks about it, and nothing here says    *)
(* that the bucket becomes fresh.  A random key is not looked for already, *)
(* and as Lookup shows its lookup ends once, in a tick of the node, or at  *)
(* once when getNearest finds nobody to ask.                               *)
(***************************************************************************)
EXTENDS Naturals, FiniteSets

CONSTANTS
    Bucket,                 \* the indices of `buckets'
    Scanned,                \* those getNearest looks at
    k,                      \* Config::k
    maintenance_period,
    bucket_refresh_period,  \* as in Config
    MaxKnown,               \* bound: the entries of all buckets together
    MaxEpoch                \* bound: the ticks the node performs

ASSUME RefreshAssumption ==
    /\ IsFiniteSet(Bucket) /\ Scanned \subseteq Bucket
    /\ k \in Nat /\ MaxKnown \in Nat /\ MaxEpoch \in Nat
    /\ maintenance_period \in Nat \ {0} /\ bucket_refresh_period \in Nat \ {0}

VARIABLES
    epoch,
    maintenance_offset,
    buckets,
    waiting,                \* the counter of each round, named by its epoch
    lookups,                \* the lookups under way that refreshes started
    \* history, read by the properties only:
    started,                \* the buckets each round started a lookup for
    alone,                  \* the rounds that found nobody to ask
    reports,                \* how often the callback of each round was called
    changed                 \* when each bucket last was

vars == <<epoch, maintenance_offset, buckets, waiting, lookups,
          started, alone, reports, changed>>

Round == 0..MaxEpoch

\* A lookup that refreshSingleBucket started: the round that waits for it, and
\* the stale bucket it was started for.  Its target is any key.
Refreshing == [round : Round, for : Bucket]

-----------------------------------------------------------------------------
(* The tick *)

RefreshDueAtOffset == epoch % bucket_refresh_period = maintenance_offset      \* mutant
\* The offset of the table maintenance serves here too.
RefreshDue ==
    epoch % bucket_refresh_period = maintenance_offset % bucket_refresh_period

\* A bucket with entries none of which was seen within the last period.
Stale(bucket) ==
    /\ bucket # {}
    /\ \A lastSeen \in bucket : epoch >= lastSeen + bucket_refresh_period

WaitedOnce(stale) == IF stale = {} THEN 0 ELSE 1                    \* mutant
WaitedOneMore(stale) == Cardinality(stale) + 1                      \* mutant
\* Each stale bucket is waited for.
Waited(stale) == Cardinality(stale)

\* The callback of the round is called.
Over(count) == count = 0

\* The tick of this epoch.  The messages that are handled and the requests
\* that fail leave the buckets as `seen': entries were added, hoisted, removed,
\* or replaced by one seen earlier.  Then the stale buckets are refreshed.  If
\* there is nobody to ask, each refresh ends before the next is started, and
\* the counter goes to 1 and back to 0 for every one of them.
Tick(seen) ==
    LET stale == {b \in Bucket : RefreshDue /\ Stale(seen[b])}
        nobody == \A b \in Scanned : seen[b] = {}
    IN  /\ epoch < MaxEpoch
        /\ epoch' = epoch + 1
        /\ buckets' = seen
        /\ \/ /\ nobody
              /\ alone' = alone \cup {epoch}
              /\ reports' = [reports EXCEPT ![epoch] = Cardinality(stale)]
              /\ UNCHANGED <<waiting, lookups>>
           \/ /\ ~nobody
              /\ waiting' = [waiting EXCEPT ![epoch] = Waited(stale)]
              /\ lookups' = lookups \cup {[round |-> epoch, for |-> b] : b \in stale}
              /\ UNCHANGED <<alone, reports>>
        /\ started' = [started EXCEPT ![epoch] = stale]
        /\ changed' = [b \in Bucket |-> IF seen[b] # buckets[b] THEN epoch ELSE changed[b]]
        /\ UNCHANGED maintenance_offset

CounterOfLatest(l) ==                                               \* mutant
    CHOOSE r \in Round : /\ started[r] # {}
                         /\ \A s \in Round : started[s] # {} => s <= r
\* Each call of refreshBuckets makes a counter, which its callbacks hold.
CounterOf(l) == l.round

\* A lookup ends while messages are handled, and its callback counts.
End(l) ==
    /\ l \in lookups
    /\ lookups' = lookups \ {l}
    /\ waiting' = [waiting EXCEPT ![CounterOf(l)] = @ - 1]
    /\ reports' = [reports EXCEPT ![l.round] = @ + (IF Over(waiting'[CounterOf(l)]) THEN 1 ELSE 0)]
    /\ UNCHANGED <<epoch, maintenance_offset, buckets, started, alone, changed>>

\* The node does no more ticks, and all its lookups are over.
Finished == epoch = MaxEpoch /\ lookups = {} /\ UNCHANGED vars

-----------------------------------------------------------------------------
Init ==
    /\ epoch = 0 /\ maintenance_offset \in 0..(maintenance_period - 1)
    /\ buckets = [b \in Bucket |-> {}]
    /\ waiting = [r \in Round |-> 0] /\ lookups = {}
    /\ started = [r \in Round |-> {}] /\ alone = {} /\ reports = [r \in Round |-> 0]
    /\ changed = [b \in Bucket |-> 0]

Next ==
    \/ \E seen \in [Bucket -> {S \in SUBSET (0..epoch) : Cardinality(S) <= k}] :
          /\ Cardinality(UNION {{b} \X seen[b] : b \in Bucket}) <= MaxKnown
          /\ Tick(seen)
    \/ \E l \in lookups : End(l)
    \/ Finished

Spec == Init /\ [][Next]_vars

\* Every lookup ends (EveryLookupEnds of Lookup), hence as long as a round has
\* some, one of them does.
FairSpec == Spec /\ \A r \in Round : WF_vars(\E l \in lookups : l.round = r /\ End(l))

-----------------------------------------------------------------------------
(* Properties *)

\* Every variable has its type; the unsigned counters, which the callbacks of
\* a round share, never drop below 0.
TypeOK ==
    /\ epoch \in Round /\ maintenance_offset \in 0..(maintenance_period - 1)
    /\ buckets \in [Bucket -> SUBSET (0..epoch)]
    /\ waiting \in [Round -> Nat] /\ lookups \subseteq Refreshing
    /\ started \in [Round -> SUBSET Bucket] /\ alone \subseteq Round
    /\ reports \in [Round -> Nat]
    /\ changed \in [Bucket -> 0..epoch]

Open(r) == {b \in Bucket : [round |-> r, for |-> b] \in lookups}

\* A round counts its own lookups only, although rounds overlap when lookups
\* take longer than a period, and it is reported once, when its last lookup
\* has ended and not before: or once per stale bucket, if it found nobody.
ReportedWhenDone ==
    \A r \in Round :
        /\ waiting[r] = Cardinality(Open(r))
        /\ Open(r) # {} => reports[r] = 0
        /\ Open(r) = {} => reports[r] = IF r \in alone THEN Cardinality(started[r])
                                        ELSE IF started[r] = {} THEN 0 ELSE 1

\* A bucket that is left alone is noticed: if one with entries has not changed
\* for two periods, a round within the last of them found it stale and started
\* a lookup for it, wherever in the period the node's offset lies and whichever
\* of the two periods is the longer.  Whether the bucket's range is queried is
\* another matter, see above.
StaleBucketsNoticed ==
    \A b \in Bucket :
        buckets[b] # {} /\ epoch >= changed[b] + 2 * bucket_refresh_period
        => \E r \in Round : b \in started[r] /\ r + bucket_refresh_period >= epoch

\* Every round that starts a lookup is reported.
EveryRoundReported ==
    \A r \in Round : started[r] # {} ~> reports[r] > 0
=============================================================================
