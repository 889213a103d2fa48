------------------------------- MODULE Churn -------------------------------
(***************************************************************************)
(* ChurnExperiment (main.cpp, experiment.hpp) on the nodes of Storage:     *)
(* every node stores a value, then the experiment replaces nodes and lets  *)
(* them fetch values, keeping a flag per node for the fetch that is under  *)
(* way.  What the flags, the callbacks that reset them and the values      *)
(* depend on are the lookups: a finder per node and key, to which later    *)
(* calls for the same key are joined (see Lookup), and which ends in some  *)
(* tick of its node, or at once when the node knows nobody.                *)
(***************************************************************************)
EXTENDS Storage

CONSTANTS
    Node,               \* the indices of `nodes'; 0 is node zero
    Home,               \* the address of each node at the beginning
    NoFinder,           \* no lookup of a value is under way
    InitTicks,          \* the ticks of init(), 500 in the code
    ChurnPeriod         \* iterations from one replacement to the next, 10 in the code

\* The value of a node is named by its index.
ASSUME ChurnAssumption ==
    /\ Node \subseteq Nat /\ 0 \in Node /\ Value \subseteq Node
    /\ Home \in [Node -> Founders] /\ Home[0] = Zero
    /\ \A i, j \in Node : i # j => Home[i] # Home[j]
    /\ \A a \in Founders : \E i \in Node : Home[i] = a
    /\ InitTicks \in Nat /\ InitTicks < MaxEpoch /\ ChurnPeriod \in Nat \ {0}

VARIABLES
    stage,              \* where in its iteration run() is
    nodes,              \* the address of each node, 0 if the network did not take it in
    waiting,
    finding,            \* nodes_being_found, of each node
    \* history, read by the properties only:
    original            \* the nodes that were never replaced

experiment == <<stage, nodes, waiting, finding, original>>
vars == <<storage, experiment>>

\* Callbacks are named by what they do: "store" sends the value to the nodes
\* found, "fetch" resets the flag of the index it was made for.
Finder == [find_value : BOOLEAN, callbacks : SUBSET {"store", "fetch"}]

ASSUME NoFinderAssumption == NoFinder \notin Finder

Idle == [v \in Value |-> NoFinder]
Open(i) == {v \in Value : finding[i][v] # NoFinder}

\* The stage at the start of the iteration of epoch e.
FirstStage(e) ==
    IF e < InitTicks THEN "tick"
    ELSE IF e = MaxEpoch THEN "done"
    ELSE IF (e - InitTicks) % ChurnPeriod = 0 THEN "replace" ELSE "fetch"

\* init(): every node looks for the nodes nearest to its value.  If it knows
\* nobody the lookup ends at once, and the value is sent to no one.
Init ==
    /\ StorageInit
    /\ nodes = Home /\ original = Node
    /\ stage = FirstStage(0)
    /\ waiting = [i \in Node |-> FALSE]
    /\ finding \in [Node -> {Idle} \cup
          {[Idle EXCEPT ![v] = [find_value |-> FALSE, callbacks |-> {"store"}]] : v \in Value}]
    /\ \A i \in Node : Open(i) \subseteq {i}

FlagStaying(i) == waiting                                           \* mutant
\* The flag of a node that is replaced is that of the new node.
FlagReset(i) == [waiting EXCEPT ![i] = FALSE]

CallbacksStaying(i) == finding                                      \* mutant
\* Its lookups and their callbacks go with the node.
LookupsGone(i) == [finding EXCEPT ![i] = Idle]

\* A random node but node zero is killed and another takes its place.
ReplaceNode(i, b, offset) ==
    /\ stage = "replace" /\ i # 0
    /\ Replace(nodes[i], b, offset)
    /\ nodes' = [nodes EXCEPT ![i] = b]
    /\ waiting' = FlagReset(i)
    /\ finding' = LookupsGone(i)
    /\ original' = original \ {i}
    /\ stage' = "fetch"

\* fetch() of the value v by a random node that is not waiting, if there is
\* one: findValue joins the finder of v, or makes one, which ends with failure
\* at once if the node knows nobody.
Fetch(i, v) ==
    /\ stage = "fetch" /\ ~waiting[i]
    /\ stage' = "tick"
    /\ \/ /\ v \in Open(i)
          /\ finding' = [finding EXCEPT ![i][v].callbacks = @ \cup {"fetch"}]
          /\ waiting' = [waiting EXCEPT ![i] = TRUE]
       \/ /\ v \notin Open(i) /\ nodes[i] # 0
          /\ finding' = [finding EXCEPT ![i][v] =
                            [find_value |-> TRUE, callbacks |-> {"fetch"}]]
          /\ waiting' = [waiting EXCEPT ![i] = TRUE]
       \/ /\ v \notin Open(i)
          /\ UNCHANGED <<finding, waiting>>
    /\ UNCHANGED <<storage, nodes, original>>

\* The node that was drawn waits for its last fetch.
SkipFetch(i) ==
    /\ stage = "fetch" /\ waiting[i]
    /\ stage' = "tick"
    /\ UNCHANGED <<storage, nodes, waiting, finding, original>>

\* The callbacks of fetch() reset the flag when they are told of a value or of
\* failure; told of nodes, by a finder they were joined to, they do nothing.
Reports(f) == "fetch" \in f.callbacks /\ f.find_value

FlagAfter(i, ended) == waiting[i] /\ ~ \E v \in ended : Reports(finding[i][v])

\* Lookups that were started by `store' tell it which nodes they contacted,
\* and each of those is sent the value.
Storing(i, ended) ==
    {v \in ended : ~finding[i][v].find_value /\ "store" \in finding[i][v].callbacks}

\* The next inhabitant's tick, in which some of its lookups end.
VisitNode(i, ended, contacted) ==
    /\ stage = "tick" /\ nodes[i] \in Upcoming
    /\ ended \subseteq Open(i)
    /\ Storing(i, ended) = {} => contacted = {}
    /\ \E nearest \in [Restored(nodes[i]) -> Nearest] :
          Tick(nodes[i], nearest, Storing(i, ended) \X contacted)
    /\ finding' = [finding EXCEPT ![i] =
          [v \in Value |-> IF v \in ended THEN NoFinder ELSE @[v]]]
    /\ waiting' = [waiting EXCEPT ![i] = FlagAfter(i, ended)]
    /\ stage' = IF turn' = NoTurn THEN FirstStage(epoch') ELSE "tick"
    /\ UNCHANGED <<nodes, original>>

\* run() returns after its last iteration.
Finished == stage = "done" /\ UNCHANGED vars

Next ==
    \/ \E i \in Node, b \in Address \cup {0}, offset \in 0..(maintenance_period - 1) :
          ReplaceNode(i, b, offset)
    \/ \E i \in Node, v \in Value : Fetch(i, v)
    \/ \E i \in Node : SkipFetch(i)
    \/ \E i \in Node, ended \in SUBSET Value, contacted \in SUBSET Address :
          VisitNode(i, ended, contacted)
    \/ Finished

Spec == Init /\ [][Next]_vars

-----------------------------------------------------------------------------
(* Properties *)

\* Every variable has its type; the network and the experiment agree on who is
\* there.
TypeOK ==
    /\ StorageTypeOK
    /\ stage \in {"replace", "fetch", "tick", "done"}
    /\ nodes \in [Node -> inhabitants \cup {0}] /\ nodes[0] = Zero
    /\ \A i, j \in Node : i # j /\ nodes[i] = nodes[j] => nodes[i] = 0
    /\ \A a \in inhabitants : \E i \in Node : nodes[i] = a
    /\ waiting \in [Node -> BOOLEAN]
    /\ finding \in [Node -> [Value -> Finder \cup {NoFinder}]]
    /\ original \subseteq Node

Fetching(i) == {v \in Open(i) : "fetch" \in finding[i][v].callbacks}

\* A node has at most one fetch under way, and while it has its flag is set:
\* neither the callbacks of a node that was replaced, nor those of an earlier
\* fetch, reset the flag of another.
FetchHasFlag ==
    \A i \in Node : /\ Fetching(i) # {} => waiting[i]
                    /\ \A u, v \in Fetching(i) : u = v

\* A flag that is set without a fetch under way stays so, as the node fetches
\* no more.  This happens only to a node that fetched the value it was still
\* storing, and a replacement heals it.
OnlyFoundersStick ==
    \A i \in Node : waiting[i] /\ Fetching(i) = {} => i \in original \cap Value
=============================================================================
