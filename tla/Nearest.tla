-------------------------------- MODULE Nearest --------------------------------
(***************************************************************************)
(* KademliaNode::getNearest: the entries of the buckets that are nearest   *)
(* to a key, as a lookup starts with them, a FIND_NODES response carries   *)
(* them and table maintenance re-stores to them.                           *)
(***************************************************************************)
EXTENDS Keys, SequencesExt

\* std::sort by key_distance_cmp: some order of the entries in which none is
\* less than one before it.
sortByDistanceTo(target, entries) ==
    LET places == DOMAIN entries
        order == CHOOSE p \in Bijection(places, places) :
                    \A i, j \in places : i < j =>
                        ~key_distance_cmp(target, entries[p[j]].key, entries[p[i]].key)
    IN  [i \in places |-> entries[order[i]]]

\* The loop over the buckets is bounded by KEY_LEN, the number of bytes of a
\* key, where the buckets are KEY_LEN_BITS.
Scanned == 0..(KEY_LEN - 1)

\* The entries are pushed one by one, except those of the excluded key.
Candidates(buckets, exclude) ==
    LET all == FlattenSeq([i \in 1..KEY_LEN |-> buckets[i - 1]])
        entries[n \in 0..Len(all)] ==
            IF n = 0 THEN <<>>
            ELSE IF all[n].key = exclude THEN entries[n - 1]
            ELSE Append(entries[n - 1], all[n])
    IN  entries[Len(all)]

getNearestUnsorted(buckets, n, target, exclude) ==                 \* mutant
    LET entries == Candidates(buckets, exclude)
    IN  SubSeq(entries, 1, IF n < Len(entries) THEN n ELSE Len(entries))
getNearest(buckets, n, target, exclude) ==
    LET entries == sortByDistanceTo(target, Candidates(buckets, exclude))
    IN  SubSeq(entries, 1, IF n < Len(entries) THEN n ELSE Len(entries))
=============================================================================
