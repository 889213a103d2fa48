-------------------------------- MODULE Keys --------------------------------
(***************************************************************************)
(* Node keys: KademliaKey (key.hpp) and the functions of kademlia.cpp that *)
(* index buckets and order nodes by them.  A byte is the set of its bits   *)
(* that are one, 0 being the least significant, and a key is an array of   *)
(* bytes, so that XOR, comparison and matching prefixes can be both        *)
(* evaluated and proved about for any length.                              *)
(***************************************************************************)
EXTENDS Integers

CONSTANTS KEY_LEN,        \* bytes of a key, 20 in the code
          BYTE            \* bits of a byte, 8 in the code

ASSUME KeyAssumption == KEY_LEN \in Nat \ {0} /\ BYTE \in Nat \ {0}

KEY_LEN_BITS == KEY_LEN * BYTE

Bit == 0..(BYTE - 1)
Byte == SUBSET Bit
Index == 0..(KEY_LEN - 1)
Key == [Index -> Byte]

\* The operators ^ and < of unsigned char.
Xor(c, d) == (c \ d) \cup (d \ c)
Below(c, d) == \E i \in Bit : /\ i \in d \ c
                              /\ \A j \in Bit : j > i => (j \in c <=> j \in d)

\* The number of right shifts after which c is zero.
l2cTrailing(c) ==                                                  \* mutant
    IF c = {} THEN 0 ELSE CHOOSE i \in c : \A j \in c : j >= i
l2c(c) == IF c = {} THEN 0 ELSE 1 + (CHOOSE i \in c : \A j \in c : j <= i)

Differ(k1, k2) == {i \in Index : k1[i] # k2[i]}

\* The loop stops at the first byte in which the keys differ.
longest_matching_prefix(k1, k2) ==
    IF Differ(k1, k2) = {} THEN KEY_LEN_BITS
    ELSE LET i == CHOOSE i \in Differ(k1, k2) : \A j \in Differ(k1, k2) : i <= j
         IN  (i + 1) * BYTE - l2c(Xor(k1[i], k2[i]))

key_distance_cmp_prefix(target, k1, k2) ==                         \* mutant
    longest_matching_prefix(target, k1) > longest_matching_prefix(target, k2)

\* Is k1 closer to target?  The first byte in which the distances differ
\* decides; equal keys are not closer than each other.
key_distance_cmp(target, k1, k2) ==
    \E i \in Index :
        /\ \A j \in 0..(i - 1) : Xor(k1[j], target[j]) = Xor(k2[j], target[j])
        /\ Below(Xor(k1[i], target[i]), Xor(k2[i], target[i]))
=============================================================================
