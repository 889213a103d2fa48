------------------------------- MODULE Query -------------------------------
(***************************************************************************)
(* What the lookups of a KademliaNode promise to those who call findNodes  *)
(* and findValue, whatever the node knows and its peers answer: one lookup *)
(* at a time per target, of the kind of the call that started it; calls    *)
(* that come meanwhile share its end, which is the same for all of them.   *)
(* Churn and Refresh rely on this, Lookup implements it.  That every       *)
(* lookup ends is EveryLookupEnds of Lookup.                               *)
(***************************************************************************)
CONSTANTS Call, Target, NoFinder

VARIABLES
    finding,    \* the lookup of each target: its kind and the calls it answers
    outcome     \* of each call

vars == <<finding, outcome>>

\* How a lookup can end.
Kinds(find_value) == IF find_value THEN {"value", "failure"} ELSE {"nodes"}

Init ==
    /\ finding = [t \in Target |-> NoFinder]
    /\ outcome = [c \in Call |-> "idle"]

\* A call that joins a lookup, whatever its own kind.
Join(c, t) ==
    /\ outcome[c] = "idle" /\ finding[t] # NoFinder
    /\ finding' = [finding EXCEPT ![t].callbacks = @ \cup {c}]
    /\ outcome' = [outcome EXCEPT ![c] = "pending"]

\* A call that starts a lookup.
Start(c, t, find_value) ==
    /\ outcome[c] = "idle" /\ finding[t] = NoFinder
    /\ finding' = [finding EXCEPT ![t] = [find_value |-> find_value, callbacks |-> {c}]]
    /\ outcome' = [outcome EXCEPT ![c] = "pending"]

\* A call whose lookup is over at once, as there is nobody to ask: it cannot
\* find a value.
StartAndEnd(c, t, find_value) ==
    /\ outcome[c] = "idle" /\ finding[t] = NoFinder
    /\ outcome' = [outcome EXCEPT ![c] = IF find_value THEN "failure" ELSE "nodes"]
    /\ UNCHANGED finding

\* All calls of a lookup are answered together, and it is forgotten.
End(t) ==
    /\ finding[t] # NoFinder
    /\ \E kind \in Kinds(finding[t].find_value) :
          outcome' = [c \in Call |-> IF c \in finding[t].callbacks THEN kind ELSE outcome[c]]
    /\ finding' = [finding EXCEPT ![t] = NoFinder]

Next ==
    \/ \E c \in Call, t \in Target :
          \/ Join(c, t)
          \/ \E find_value \in BOOLEAN : Start(c, t, find_value) \/ StartAndEnd(c, t, find_value)
    \/ \E t \in Target : End(t)

Spec == Init /\ [][Next]_vars
=============================================================================
