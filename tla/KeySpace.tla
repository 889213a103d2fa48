------------------------------ MODULE KeySpace ------------------------------
(***************************************************************************)
(* The key functions evaluated for every node key, every pair of other     *)
(* keys and every target of a key space, against definitions that read a   *)
(* key as a number.                                                        *)
(***************************************************************************)
EXTENDS Nearest

VARIABLES self, k1, k2, target
vars == <<self, k1, k2, target>>

Init == self \in Key /\ k1 \in Key /\ k2 \in Key /\ target \in Key

\* One look after another at the same table.
AnotherTarget == target' \in Key /\ UNCHANGED <<self, k1, k2>>

Next == AnotherTarget
Spec == Init /\ [][Next]_vars

-----------------------------------------------------------------------------
(* Keys as numbers, and as strings of bits from the most significant down *)

BitAt(k, n) == (BYTE - 1 - (n % BYTE)) \in k[n \div BYTE]

Number(k) ==
    LET upto[n \in 0..KEY_LEN_BITS] ==
            IF n = 0 THEN 0 ELSE 2 * upto[n - 1] + (IF BitAt(k, n - 1) THEN 1 ELSE 0)
    IN  upto[KEY_LEN_BITS]

Distance(k, l) == Number([i \in Index |-> Xor(k[i], l[i])])

-----------------------------------------------------------------------------
\* The bucket of a node is the number of leading bits its key shares with ours.
PrefixIsMatchingBits ==
    LET n == longest_matching_prefix(k1, k2)
    IN  /\ n \in 0..KEY_LEN_BITS
        /\ \A m \in 0..(n - 1) : BitAt(k1, m) <=> BitAt(k2, m)
        /\ n < KEY_LEN_BITS => (BitAt(k1, n) <=> ~BitAt(k2, n))

\* Nodes are ordered by XOR distance, read as a number.
ComparesDistances ==
    key_distance_cmp(target, k1, k2) <=> Distance(k1, target) < Distance(k2, target)

\* The table of a node that knows the nodes k1 and k2.
Bucket(i) ==
    LET in == {k \in {k1, k2} : longest_matching_prefix(self, k) = i}
    IN  SetToSeq({[key |-> k] : k \in in})
Table == [i \in 0..(KEY_LEN_BITS - 1) |-> Bucket(i)]

\* getNearest returns n of the entries it looks at, or all when there are
\* fewer: never the excluded node, the nearest first, and nobody it leaves
\* out is nearer to the target than somebody it returns.
NearestOfScanned ==
    \A n \in {1, 2}, exclude \in {self, k1} :
        LET known == {e \in UNION {ToSet(Table[i]) : i \in Scanned} : e.key # exclude}
            found == getNearest(Table, n, target, exclude)
        IN  /\ ToSet(found) \subseteq known
            /\ Len(found) = IF n < Cardinality(known) THEN n ELSE Cardinality(known)
            /\ \A i, j \in DOMAIN found : i < j =>
                   Distance(found[i].key, target) < Distance(found[j].key, target)
            /\ \A e \in known \ ToSet(found), i \in DOMAIN found :
                   Distance(found[i].key, target) < Distance(e.key, target)

\* Of two nodes in different buckets, the one in the deeper bucket is closer
\* to us: the buckets are ranges of distance.
DeeperIsCloser ==
    longest_matching_prefix(self, k1) > longest_matching_prefix(self, k2)
        => key_distance_cmp(self, k1, k2)

\* kademlia.cpp:618: "we can just get the k nearest nodes to us in our
\* k-buckets".  Nobody in the table that getNearest leaves out is nearer to us
\* than somebody it returns.
NearestOfTable ==
    LET known == UNION {ToSet(Table[i]) : i \in DOMAIN Table}
        found == getNearest(Table, 1, self, self)
    IN  known # {} => /\ found # <<>>
                      /\ \A e \in known \ ToSet(found) :
                             Distance(found[1].key, self) < Distance(e.key, self)
=============================================================================
