---------------------------- MODULE RoutingTable ----------------------------
(***************************************************************************)
(* The k-buckets of one KademliaNode (kademlia.cpp): observe, unobserve,   *)
(* updateOrAddToBucket and ping, called from the handlers of incoming      *)
(* messages and from the callbacks of outgoing requests.                   *)
(*                                                                         *)
(* The network is what may happen to the node: messages come from peers    *)
(* that are alive or have just died, addresses are assigned again after a  *)
(* node left, and a request is answered or times out (see Transport).      *)
(***************************************************************************)
EXTENDS Naturals, Sequences, FiniteSets

CONSTANTS
    Peer,             \* [key, address] of the nodes that ever live; two may share an address
    KEY_LEN_BITS,     \* the number of buckets
    BucketOf,         \* longest_matching_prefix(this->key, .), see Keys
    k,                \* Config::k, the capacity of a bucket
    NoRequest,        \* no ping to an address is in flight
    NoCallback,       \* the empty PingCallbackSet of Experiment::introduce
    Introducer,       \* the addresses a fresh node may ping first: node zero's, if any
    MaxGossip,        \* bound: entries of a FIND_NODES response
    MaxEpoch          \* bound: the epochs the node goes through

Key == {p.key : p \in Peer}
Address == {p.address : p \in Peer}
Bucket == 0..(KEY_LEN_BITS - 1)

ASSUME TableAssumption ==
    /\ KEY_LEN_BITS \in Nat \ {0} /\ BucketOf \in [Key -> 0..KEY_LEN_BITS]
    /\ k \in Nat \ {0}
    /\ Introducer \subseteq Address
    /\ MaxGossip \in Nat /\ MaxEpoch \in Nat

VARIABLES
    epoch,              \* BaseApplication::epoch
    buckets,
    pings_in_progress,  \* the map: the callbacks of each address, {} if it has no entry
    captured,           \* the callback inside the ping request in flight to each address
    corrupted           \* the vector of a bucket was damaged, the program has crashed

table == <<buckets, pings_in_progress, captured>>
vars == <<epoch, table, corrupted>>

Entry == [key : Key, address : Address, lastSeen : Nat]

\* The callbacks updateOrAddToBucket makes, by the newcomer they hold.
Callback == Entry \cup {NoCallback}

ASSUME CallbackAssumption == NoRequest \notin Callback /\ NoCallback \notin Entry

-----------------------------------------------------------------------------
(* The functions of KademliaNode, on a table t = [buckets, pings_in_progress,
   captured] *)

\* A second ping to the same address only adds its callback to the map.
Ping(t, a, callback) ==
    IF t.pings_in_progress[a] # {}
    THEN [t EXCEPT !.pings_in_progress[a] = @ \cup {callback}]
    ELSE [t EXCEPT !.pings_in_progress[a] = {callback}, !.captured[a] = callback]

\* The entries of a bucket at the places I, in their order: what is left when
\* the others are erased.
Place(I, n) == CHOOSE i \in I : Cardinality({j \in I : j <= i}) = n
Keep(bucket, I) == [n \in 1..Cardinality(I) |-> bucket[Place(I, n)]]

Knows(bucket, key) == \E i \in DOMAIN bucket : bucket[i].key = key

UpdatedInPlace(bucket, entry) ==                                   \* mutant
    [i \in DOMAIN bucket |-> IF bucket[i].key = entry.key THEN entry ELSE bucket[i]]

HoistedKeepingOld(bucket, entry) == Append(bucket, entry)          \* mutant

\* The first entry of the key is moved to the back and refreshed.
Hoisted(bucket, entry) ==
    LET known == {i \in DOMAIN bucket : bucket[i].key = entry.key}
        first == CHOOSE i \in known : \A j \in known : i <= j
    IN  Append(Keep(bucket, DOMAIN bucket \ {first}), entry)

updateEvictingHead(t, b, entry) ==                                 \* mutant
    IF b = KEY_LEN_BITS THEN t
    ELSE IF Knows(t.buckets[b], entry.key)
    THEN [t EXCEPT !.buckets[b] = Hoisted(@, entry)]
    ELSE IF Len(t.buckets[b]) < k
    THEN [t EXCEPT !.buckets[b] = Append(@, entry)]
    ELSE [t EXCEPT !.buckets[b] = Append(Tail(@), entry)]

\* The node's own key has no bucket.  A newcomer to a full bucket waits for
\* the head of the bucket to leave a ping unanswered.
updateOrAddToBucket(t, b, entry) ==
    IF b = KEY_LEN_BITS THEN t
    ELSE IF Knows(t.buckets[b], entry.key)
    THEN [t EXCEPT !.buckets[b] = Hoisted(@, entry)]
    ELSE IF Len(t.buckets[b]) < k
    THEN [t EXCEPT !.buckets[b] = Append(@, entry)]
    ELSE Ping(t, Head(t.buckets[b]).address, entry)

observeByByte(t, p) ==                                             \* mutant
    updateOrAddToBucket(t, BucketOf[p.key] \div 2,
                        [key |-> p.key, address |-> p.address, lastSeen |-> epoch])
observe(t, p) ==
    updateOrAddToBucket(t, BucketOf[p.key],
                        [key |-> p.key, address |-> p.address, lastSeen |-> epoch])

\* The senders and the nodes they list are observed one after the other.
observeAll(t, seen) ==
    LET after[n \in 0..Len(seen)] == IF n = 0 THEN t ELSE observe(after[n - 1], seen[n])
    IN  after[Len(seen)]

unobserveFirst(t, a) ==                                            \* mutant
    [t EXCEPT !.buckets = [b \in Bucket |->
        Keep(t.buckets[b], {i \in DOMAIN t.buckets[b] :
            \/ t.buckets[b][i].address # a
            \/ \E j \in 1..(i - 1) : t.buckets[b][j].address = a})]]
unobserve(t, a) ==
    [t EXCEPT !.buckets = [b \in Bucket |->
        Keep(t.buckets[b], {i \in DOMAIN t.buckets[b] : t.buckets[b][i].address # a})]]

PingEndedUntracked(t, a) == [t EXCEPT !.captured[a] = NoRequest]   \* mutant
\* What both callbacks of a ping do first, with the record of the request.
PingEnded(t, a) == [t EXCEPT !.pings_in_progress[a] = {}, !.captured[a] = NoRequest]

Table == [buckets |-> buckets, pings_in_progress |-> pings_in_progress,
          captured |-> captured]

Become(t) == /\ buckets' = t.buckets
             /\ pings_in_progress' = t.pings_in_progress
             /\ captured' = t.captured

-----------------------------------------------------------------------------
\* A node starts with an empty table; every node but node zero is introduced
\* to node zero by a ping without callbacks.
Init ==
    /\ epoch = 0 /\ corrupted = FALSE
    /\ buckets = [b \in Bucket |-> <<>>]
    /\ \E pinged \in {{}} \cup {{a} : a \in Introducer} :
          /\ pings_in_progress =
                [a \in Address |-> IF a \in pinged THEN {NoCallback} ELSE {}]
          /\ captured = [a \in Address |-> IF a \in pinged THEN NoCallback ELSE NoRequest]

\* handleMessage: a ping, a STORE, a FIND_NODES or a response comes from p;
\* the response to a FIND_NODES lists other peers, and all are observed.
Receive(p, nearest) ==
    /\ ~corrupted
    /\ Become(observeAll(Table, <<p>> \o nearest))
    /\ UNCHANGED <<epoch, corrupted>>

\* The answer to a ping, from whoever has the address by now: the callback
\* drops the newcomer, then the sender is observed.
PongArrives(p) ==
    /\ ~corrupted
    /\ captured[p.address] # NoRequest
    /\ Become(observe(PingEnded(Table, p.address), p))
    /\ UNCHANGED <<epoch, corrupted>>

InsertWithoutErase(t, newcomer) ==                                 \* mutant
    [t EXCEPT !.buckets[BucketOf[newcomer.key]] = Append(@, newcomer)]
InsertNewcomer(t, newcomer) ==
    [t EXCEPT !.buckets[BucketOf[newcomer.key]] = Append(Tail(@), newcomer)]

\* The ping request to `a' ran out of retries.  cb_failure first removes the
\* address from all buckets, then the callback erases the first entry of the
\* newcomer's bucket, whichever that is by now.  Erasing from an empty vector
\* is undefined: its size wraps, and the push_back that follows either stops
\* the program or, writing before the storage, leaves the vector empty.
PingTimesOut(a) ==
    LET t == unobserve(PingEnded(Table, a), a)
        newcomer == captured[a]
        damaged == t.buckets[BucketOf[newcomer.key]] = <<>>
    IN  /\ ~corrupted
        /\ captured[a] # NoRequest
        /\ \/ newcomer = NoCallback /\ Become(t) /\ UNCHANGED corrupted
           \/ /\ newcomer # NoCallback /\ ~damaged
              /\ Become(InsertNewcomer(t, newcomer)) /\ UNCHANGED corrupted
           \/ newcomer # NoCallback /\ damaged /\ Become(t) /\ corrupted' \in BOOLEAN
        /\ UNCHANGED epoch

\* A FIND_NODES request to `a' ran out of retries.
RequestTimesOut(a) ==
    /\ ~corrupted
    /\ Become(unobserve(Table, a))
    /\ UNCHANGED <<epoch, corrupted>>

Tick ==
    /\ ~corrupted
    /\ epoch < MaxEpoch /\ epoch' = epoch + 1
    /\ UNCHANGED <<table, corrupted>>

Gossip == UNION {[1..n -> Peer] : n \in 0..MaxGossip}

Next == \/ \E p \in Peer, nearest \in Gossip : Receive(p, nearest)
        \/ \E p \in Peer : PongArrives(p)
        \/ \E a \in Address : PingTimesOut(a) \/ RequestTimesOut(a)
        \/ Tick

Spec == Init /\ [][Next]_vars

-----------------------------------------------------------------------------
(* Properties *)

\* Every variable has its type, and every entry is in the bucket of its key:
\* refreshing, gossip and failed pings never file a node under another prefix.
TypeOK ==
    /\ epoch \in Nat /\ corrupted \in BOOLEAN
    /\ buckets \in [Bucket -> Seq(Entry)]
    /\ \A b \in Bucket : \A i \in DOMAIN buckets[b] : BucketOf[buckets[b][i].key] = b
    /\ pings_in_progress \in [Address -> SUBSET Callback]
    /\ captured \in [Address -> Callback \cup {NoRequest}]

\* No bucket ever outgrows k, although a failed ping adds its newcomer without
\* looking at the size, after any number of other entries came and went.
BucketBound == \A b \in Bucket : Len(buckets[b]) <= k

\* The map of pings knows exactly the pings in flight: no address is pinged
\* twice at once, and none is left behind that could never be pinged again.
PingTracked ==
    \A a \in Address : pings_in_progress[a] # {} <=> captured[a] # NoRequest

Keys(b) == {b[i].key : i \in DOMAIN b}
TimesOut == \E a \in Address : PingTimesOut(a) \/ RequestTimesOut(a)

\* Kademlia prefers old contacts: nothing a peer sends makes the node forget
\* another, only a request that went unanswered does.
OldContactsStay ==
    [][~TimesOut => \A b \in Bucket : Keys(buckets[b]) \subseteq Keys(buckets'[b])]_vars

\* After a request to an address failed, no entry of that address is left in
\* any bucket, but for the newcomer for which it was pinged.
FailureForgets ==
    [][\A a \in Address : PingTimesOut(a) \/ RequestTimesOut(a) =>
          \A b \in Bucket : \A i \in DOMAIN buckets'[b] :
             buckets'[b][i].address = a => buckets'[b][i] = captured[a]]_vars

Ordered(bucket) ==
    \A i, j \in DOMAIN bucket : i < j => bucket[i].lastSeen <= bucket[j].lastSeen

\* The last entry of the bucket is the newcomer a failed ping has put there.
NewcomerLast(bucket, j) ==
    /\ j = Len(bucket)
    /\ \E a \in Address : PingTimesOut(a) /\ bucket[j] = captured[a]

\* A bucket is ordered by when its nodes were last seen, so that its head is
\* the least recently seen one.  Only a failed ping disturbs the order, and it
\* does by nothing but its newcomer, which it puts last although others may
\* have been seen since it was.
SeenOrderKept ==
    [][\A b \in Bucket : Ordered(buckets[b]) =>
          \A i, j \in DOMAIN buckets'[b] :
             i < j /\ ~(buckets'[b][i].lastSeen <= buckets'[b][j].lastSeen)
             => NewcomerLast(buckets'[b], j)]_vars

ListedOnce(bucket) ==
    \A i, j \in DOMAIN bucket : bucket[i].key = bucket[j].key => i = j

\* No handler of a message lists a node in its bucket a second time, in whatever
\* order it is pinged, listed, hoisted and forgotten.  Only a failed ping can,
\* the one step that adds an entry without looking for its key, and then the
\* node listed twice is its newcomer, once where it was and once at the end.
ListedOnceKept ==
    [][\A b \in Bucket : ListedOnce(buckets[b]) =>
          \A i, j \in DOMAIN buckets'[b] :
             i < j /\ buckets'[b][i].key = buckets'[b][j].key
             => NewcomerLast(buckets'[b], j)]_vars

-----------------------------------------------------------------------------
(* What the comments say and the code does not do *)

\* updateOrAddToBucket: "If the node fails to respond, we delete it and add
\* the new entry."  A node of another address keeps its place.
OnlyUnresponsiveLeave ==
    [][\A a \in Address, b \in Bucket : PingTimesOut(a) =>
          \A i \in DOMAIN buckets[b] : buckets[b][i].address # a =>
             buckets[b][i].key \in Keys(buckets'[b])]_vars

\* kademlia.hpp: "To avoid sending tons of pings, keep track of them and add
\* callbacks together."  When a ping fails, the callbacks added to it run like
\* its own, so that the newcomer of the last one is in its bucket afterwards.
JoinedCallbacksRun ==
    [][\A a \in Address :
          LET added == pings_in_progress[a] \ {captured[a]}
          IN  PingTimesOut(a) /\ ~corrupted' /\ added # {} =>
                 \E newcomer \in added :
                    newcomer.key \in Keys(buckets'[BucketOf[newcomer.key]])]_vars
=============================================================================
