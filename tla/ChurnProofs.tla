---------------------------- MODULE ChurnProofs ----------------------------
(***************************************************************************)
(* That the flags of the experiment follow the fetches, for any number of  *)
(* nodes and values, any periods and any lookups.                          *)
(*                                                                         *)
(* What FetchHasFlag and OnlyFoundersStick lack to be inductive is where   *)
(* the lookups of nodes come from that a fetch can be joined to: a node    *)
(* has such a lookup only for its own value, and only if it has been there *)
(* from the beginning (StoresByFounders).                                  *)
(***************************************************************************)
EXTENDS Churn, StorageProofs

FlagTypes ==
    /\ waiting \in [Node -> BOOLEAN]
    /\ finding \in [Node -> [Value -> Finder \cup {NoFinder}]]
    /\ original \subseteq Node

StoresByFounders ==
    \A i \in Node, v \in Value :
        finding[i][v] # NoFinder /\ ~finding[i][v].find_value => v = i /\ i \in original

Inv == FlagTypes /\ FetchHasFlag /\ OnlyFoundersStick /\ StoresByFounders

\* A node without a lookup has no fetch under way.
LEMMA IdleNode == Idle \in [Value -> Finder \cup {NoFinder}] /\ \A v \in Value : Idle[v] = NoFinder
  BY DEF Idle

LEMMA FinderFound == \A f \in Finder : f # NoFinder
  BY NoFinderAssumption

\* The invariant for one node follows from that of the step before if its
\* flag, its lookups and its having been replaced do not change.
LEMMA Elsewhere ==
    ASSUME Inv, NEW j \in Node, waiting'[j] = waiting[j], finding'[j] = finding[j],
           j \in original <=> j \in original'
    PROVE  /\ Fetching(j)' # {} => waiting'[j]
           /\ \A u, v \in Fetching(j)' : u = v
           /\ waiting'[j] /\ Fetching(j)' = {} => j \in original' \cap Value
           /\ \A v \in Value : finding'[j][v] # NoFinder /\ ~finding'[j][v].find_value
                                  => v = j /\ j \in original'
<1>1. Fetching(j)' = Fetching(j)
  BY DEF Fetching, Open
<1> QED
  BY <1>1 DEF Inv, FetchHasFlag, OnlyFoundersStick, StoresByFounders

\* It is enough to look at each node.
LEMMA NodeByNode ==
    ASSUME FlagTypes',
           \A j \in Node :
              /\ Fetching(j)' # {} => waiting'[j]
              /\ \A u, v \in Fetching(j)' : u = v
              /\ waiting'[j] /\ Fetching(j)' = {} => j \in original' \cap Value
              /\ \A v \in Value : finding'[j][v] # NoFinder /\ ~finding'[j][v].find_value
                                     => v = j /\ j \in original'
    PROVE  Inv'
  BY DEF Inv, FetchHasFlag, OnlyFoundersStick, StoresByFounders

-----------------------------------------------------------------------------
LEMMA InitInv == Init => Inv
<1> SUFFICES ASSUME Init PROVE Inv
  OBVIOUS
<1>1. /\ waiting = [i \in Node |-> FALSE] /\ original = Node
      /\ \A i \in Node : Open(i) \subseteq {i}
      /\ finding \in [Node -> {Idle} \cup
            {[Idle EXCEPT ![v] = [find_value |-> FALSE, callbacks |-> {"store"}]] : v \in Value}]
  BY DEF Init
<1> DEFINE s == [find_value |-> FALSE, callbacks |-> {"store"}]
<1>2. s \in Finder /\ "fetch" \notin s.callbacks
  BY DEF Finder
<1> HIDE DEF s
<1>3. ASSUME NEW i \in Node
      PROVE  /\ finding[i] \in [Value -> Finder \cup {NoFinder}]
             /\ \A v \in Value : finding[i][v] # NoFinder => finding[i][v] = s
  <2>1. finding[i] = Idle \/ \E v \in Value : finding[i] = [Idle EXCEPT ![v] = s]
    BY <1>1 DEF s
  <2> QED
    BY <1>2, <2>1, IdleNode
<1>4. FlagTypes
  BY <1>1, <1>3 DEF FlagTypes
<1>5. \A i \in Node : Fetching(i) = {}
  BY <1>2, <1>3 DEF Fetching, Open
<1>6. StoresByFounders
  BY <1>1 DEF StoresByFounders, Open
<1> QED
  BY <1>1, <1>4, <1>5, <1>6 DEF Inv, FetchHasFlag, OnlyFoundersStick

\* The node that replaces another has no fetch, no flag and no lookup.
LEMMA ReplaceInv ==
    ASSUME Inv, NEW i \in Node, NEW b, NEW offset, ReplaceNode(i, b, offset)
    PROVE  Inv'
<1>1. /\ waiting' = [waiting EXCEPT ![i] = FALSE] /\ finding' = [finding EXCEPT ![i] = Idle]
      /\ original' = original \ {i}
  BY DEF ReplaceNode, FlagReset, LookupsGone
<1>2. /\ waiting'[i] = FALSE /\ finding'[i] = Idle
      /\ \A j \in Node \ {i} : waiting'[j] = waiting[j] /\ finding'[j] = finding[j]
  BY <1>1 DEF Inv, FlagTypes
<1>3. FlagTypes'
  BY <1>1, IdleNode DEF Inv, FlagTypes
<1>4. Fetching(i)' = {}
  BY <1>2, IdleNode DEF Fetching, Open
<1>5. \A v \in Value : finding'[i][v] = NoFinder
  BY <1>2, IdleNode
<1>6. \A j \in Node \ {i} : j \in original <=> j \in original'
  BY <1>1
<1> QED
  BY <1>2, <1>3, <1>4, <1>5, <1>6, Elsewhere, NodeByNode

\* A node that fetches did not wait, hence had no other fetch under way.
LEMMA FetchInv ==
    ASSUME Inv, NEW i \in Node, NEW v \in Value, Fetch(i, v)
    PROVE  Inv'
<1>1. ~waiting[i] /\ original' = original
  BY DEF Fetch
<1>2. Fetching(i) = {}
  BY <1>1 DEF Inv, FetchHasFlag
<1>3. ASSUME NEW f \in Finder, "fetch" \in f.callbacks,
             ~f.find_value => v = i /\ i \in original,
             finding' = [finding EXCEPT ![i][v] = f], waiting' = [waiting EXCEPT ![i] = TRUE]
      PROVE  Inv'
  <2>1. f # NoFinder
    BY FinderFound
  <2>2. /\ waiting'[i] /\ \A j \in Node \ {i} : waiting'[j] = waiting[j] /\ finding'[j] = finding[j]
        /\ \A u \in Value : finding'[i][u] = IF u = v THEN f ELSE finding[i][u]
    BY <1>3 DEF Inv, FlagTypes
  <2>3. FlagTypes'
    BY <1>1, <1>3 DEF Inv, FlagTypes
  <2>4. Fetching(i)' = {v}
    BY <1>2, <1>3, <2>1, <2>2 DEF Fetching, Open
  <2>5. \A u \in Value : finding'[i][u] # NoFinder /\ ~finding'[i][u].find_value
                            => u = i /\ i \in original'
    BY <1>1, <1>3, <2>2 DEF Inv, StoresByFounders
  <2> QED
    BY <1>1, <2>2, <2>3, <2>4, <2>5, Elsewhere, NodeByNode
<1>4. CASE /\ v \in Open(i)
           /\ finding' = [finding EXCEPT ![i][v].callbacks = @ \cup {"fetch"}]
           /\ waiting' = [waiting EXCEPT ![i] = TRUE]
  <2> DEFINE f == [finding[i][v] EXCEPT !.callbacks = @ \cup {"fetch"}]
  <2>1. finding[i][v] \in Finder /\ finding[i][v] # NoFinder
    BY <1>4 DEF Inv, FlagTypes, Open
  <2>2. f \in Finder /\ "fetch" \in f.callbacks /\ f.find_value = finding[i][v].find_value
    BY <2>1 DEF Finder
  <2>3. ~f.find_value => v = i /\ i \in original
    BY <2>1, <2>2 DEF Inv, StoresByFounders
  <2>4. finding' = [finding EXCEPT ![i][v] = f]
    BY <1>4
  <2> HIDE DEF f
  <2> QED
    BY <1>3, <1>4, <2>2, <2>3, <2>4
<1>5. CASE /\ finding' = [finding EXCEPT ![i][v] = [find_value |-> TRUE, callbacks |-> {"fetch"}]]
           /\ waiting' = [waiting EXCEPT ![i] = TRUE]
  <2> DEFINE f == [find_value |-> TRUE, callbacks |-> {"fetch"}]
  <2>1. f \in Finder /\ "fetch" \in f.callbacks /\ f.find_value
    BY DEF Finder
  <2>2. finding' = [finding EXCEPT ![i][v] = f]
    BY <1>5
  <2> HIDE DEF f
  <2> QED
    BY <1>3, <1>5, <2>1, <2>2
<1>6. CASE UNCHANGED <<finding, waiting>>
  <2>1. FlagTypes'
    BY <1>1, <1>6 DEF Inv, FlagTypes
  <2> QED
    BY <1>1, <1>6, <2>1, Elsewhere, NodeByNode
<1> QED
  BY <1>4, <1>5, <1>6 DEF Fetch

\* A fetch that ends without resetting the flag was joined to a lookup that
\* stores the value of the node.
LEMMA VisitInv ==
    ASSUME Inv, NEW i \in Node, NEW ended \in SUBSET Value, NEW contacted \in SUBSET Address,
           VisitNode(i, ended, contacted)
    PROVE  Inv'
<1>1. /\ original' = original /\ ended \subseteq Open(i)
      /\ finding' = [finding EXCEPT ![i] = [v \in Value |-> IF v \in ended THEN NoFinder ELSE @[v]]]
      /\ waiting' = [waiting EXCEPT ![i] = FlagAfter(i, ended)]
  BY DEF VisitNode
<1>2. /\ \A j \in Node \ {i} : waiting'[j] = waiting[j] /\ finding'[j] = finding[j]
      /\ \A v \in Value : finding'[i][v] = IF v \in ended THEN NoFinder ELSE finding[i][v]
      /\ waiting'[i] = FlagAfter(i, ended)
  BY <1>1 DEF Inv, FlagTypes
<1>3. waiting[i] \in BOOLEAN /\ FlagAfter(i, ended) \in BOOLEAN
  BY DEF Inv, FlagTypes, FlagAfter
<1>4. FlagTypes'
  BY <1>1, <1>3 DEF Inv, FlagTypes
<1>5. Fetching(i)' = Fetching(i) \ ended
  BY <1>2 DEF Fetching, Open
<1>6. /\ Fetching(i) # {} => waiting[i]
      /\ \A u, v \in Fetching(i) : u = v
  BY DEF Inv, FetchHasFlag
<1>7. Fetching(i)' # {} => waiting'[i]
  <2> SUFFICES ASSUME NEW v \in Fetching(i), v \notin ended
               PROVE  waiting'[i]
    BY <1>5
  <2>1. \A u \in ended : ~Reports(finding[i][u])
    <3> SUFFICES ASSUME NEW u \in ended, Reports(finding[i][u]) PROVE FALSE
      OBVIOUS
    <3>1. u \in Fetching(i)
      BY <1>1 DEF Reports, Fetching
    <3> QED
      BY <1>6, <3>1
  <2> QED
    BY <1>2, <1>3, <1>6, <2>1 DEF FlagAfter
<1>8. waiting'[i] /\ Fetching(i)' = {} => i \in original' \cap Value
  <2> SUFFICES ASSUME waiting'[i], Fetching(i)' = {}
               PROVE  i \in original \cap Value
    BY <1>1
  <2>1. waiting[i] /\ \A v \in ended : ~Reports(finding[i][v])
    BY <1>2 DEF FlagAfter
  <2>2. CASE Fetching(i) = {}
    BY <2>1, <2>2 DEF Inv, OnlyFoundersStick
  <2>3. CASE Fetching(i) # {}
    <3> PICK v \in Fetching(i) : TRUE
      BY <2>3
    <3>1. v \in ended /\ v \in Value /\ "fetch" \in finding[i][v].callbacks /\ finding[i][v] # NoFinder
      BY <1>5 DEF Fetching, Open
    <3>2. ~finding[i][v].find_value
      BY <2>1, <3>1 DEF Reports
    <3> QED
      BY <3>1, <3>2 DEF Inv, StoresByFounders
  <2> QED
    BY <2>2, <2>3
<1>9. \A v \in Value : finding'[i][v] # NoFinder /\ ~finding'[i][v].find_value
                          => v = i /\ i \in original'
  BY <1>1, <1>2 DEF Inv, StoresByFounders
<1>10. \A u, v \in Fetching(i)' : u = v
  BY <1>5, <1>6
<1>11. ASSUME NEW j \in Node, j # i
       PROVE  /\ Fetching(j)' # {} => waiting'[j]
              /\ \A u, v \in Fetching(j)' : u = v
              /\ waiting'[j] /\ Fetching(j)' = {} => j \in original' \cap Value
              /\ \A v \in Value : finding'[j][v] # NoFinder /\ ~finding'[j][v].find_value
                                     => v = j /\ j \in original'
  <2>1. waiting'[j] = waiting[j] /\ finding'[j] = finding[j] /\ (j \in original <=> j \in original')
    BY <1>1, <1>2, <1>11
  <2> QED
    BY <2>1, Elsewhere
<1> QED
  BY <1>4, <1>7, <1>8, <1>9, <1>10, <1>11, NodeByNode

LEMMA NextInv == Inv /\ [Next]_vars => Inv'
<1> SUFFICES ASSUME Inv, [Next]_vars PROVE Inv'
  OBVIOUS
<1>1. CASE UNCHANGED <<waiting, finding, original>>
  BY <1>1 DEF Inv, FlagTypes, FetchHasFlag, OnlyFoundersStick, StoresByFounders, Fetching, Open
<1>2. CASE UNCHANGED vars \/ Finished
  BY <1>1, <1>2 DEF Finished, vars, experiment
<1>3. ASSUME NEW i \in Node, SkipFetch(i) PROVE Inv'
  BY <1>1, <1>3 DEF SkipFetch
<1> QED
  BY <1>2, <1>3, ReplaceInv, FetchInv, VisitInv DEF Next

LEMMA InvHolds == Spec => []Inv
  BY InitInv, NextInv, PTL DEF Spec

\* A node has at most one fetch under way, and its flag is set as long as it
\* has: whatever is replaced, joined or ends in between.
THEOREM FetchesHaveFlags == Spec => []FetchHasFlag
<1>1. Inv => FetchHasFlag
  BY DEF Inv
<1> QED
  BY <1>1, InvHolds, PTL

\* A flag that nothing will reset is that of a node that fetched the value it
\* was storing, and that was never replaced.
THEOREM StuckFlags == Spec => []OnlyFoundersStick
<1>1. Inv => OnlyFoundersStick
  BY DEF Inv
<1> QED
  BY <1>1, InvHolds, PTL

-----------------------------------------------------------------------------
(* The experiment and the network *)

LEMMA ChurnFacts ==
    /\ Node \subseteq Nat /\ 0 \in Node /\ Value \subseteq Node
    /\ Home \in [Node -> Founders] /\ Home[0] = Zero
    /\ \A i, j \in Node : i # j => Home[i] # Home[j]
    /\ \A a \in Founders : \E i \in Node : Home[i] = a
BY ChurnAssumption

Stage == {"replace", "fetch", "tick", "done"}

LEMMA FirstStageType == \A e : FirstStage(e) \in Stage
BY DEF FirstStage, Stage

\* The experiment and the network agree on who is there.
Agreement ==
    /\ stage \in Stage
    /\ nodes \in [Node -> inhabitants \cup {0}] /\ nodes[0] = Zero
    /\ \A i, j \in Node : i # j /\ nodes[i] = nodes[j] => nodes[i] = 0
    /\ \A a \in inhabitants : \E i \in Node : nodes[i] = a

\* What the experiment does to the network are steps of the network.  Whom a
\* node knows matters only for the values its maintenance sends on.
LEMMA VisitIsTick ==
    ASSUME NEW i \in Node, NEW ended \in SUBSET Value, NEW contacted \in SUBSET Address,
           nodes[i] \in Address, VisitNode(i, ended, contacted)
    PROVE  \E nearest \in [Value -> Nearest], stores \in SUBSET (Value \X Address) :
              Tick(nodes[i], nearest, stores)
<1> DEFINE n == nodes[i]
           stores == Storing(i, ended) \X contacted
<1>1. PICK nearest \in [Restored(n) -> Nearest] : Tick(n, nearest, stores)
  BY DEF VisitNode
<1>2. stores \in SUBSET (Value \X Address)
  BY DEF Storing
<1> DEFINE all == [v \in Value |-> IF v \in Restored(n) THEN nearest[v] ELSE {}]
<1>3. {} \in Nearest
  BY FS_EmptySet, StorageAssumption DEF Nearest
<1>4. all \in [Value -> Nearest] /\ Restored(n) \subseteq Value
  BY <1>3 DEF Restored
<1>5. \A v \in Restored(n) : all[v] = nearest[v]
  BY <1>4
<1> HIDE DEF n, stores, all
<1>6. UNION {{v} \X nearest[v] : v \in Restored(n)} = UNION {{v} \X all[v] : v \in Restored(n)}
  BY <1>5
<1>7. /\ {v \in Restored(n) : nearest[v] \cap inhabitants \subseteq {n}}
            = {v \in Restored(n) : all[v] \cap inhabitants \subseteq {n}}
      /\ [v \in Value |-> IF v \in Restored(n) THEN nearest[v] \cap inhabitants ELSE {}]
            = [v \in Value |-> IF v \in Restored(n) THEN all[v] \cap inhabitants ELSE {}]
  BY <1>5
<1>8. Tick(n, all, stores)
  <2> DEFINE sent(f) == stores \cup UNION {{v} \X f[v] : v \in Restored(n)}
             alone(f) == {v \in Restored(n) : f[v] \cap inhabitants \subseteq {n}}
             heard(f) == [v \in Value |-> IF v \in Restored(n) THEN f[v] \cap inhabitants ELSE {}]
  <2>1. sent(nearest) = sent(all) /\ alone(nearest) = alone(all) /\ heard(nearest) = heard(all)
    BY <1>6, <1>7
  <2>2. /\ epoch < MaxEpoch /\ n \in Upcoming
        /\ table' = [table EXCEPT ![n] =
              [v \in Value |-> IF v \in Erased(n) THEN NoEntry ELSE Received(n)[v]]]
        /\ inbox' = [b \in Address |-> (IF b = n THEN {} ELSE inbox[b]) \cup
                                       (IF b \in inhabitants THEN For(b, sent(nearest)) ELSE {})]
        /\ IF \E b \in Later : b > n
           THEN turn' = n /\ UNCHANGED epoch
           ELSE turn' = NoTurn /\ epoch' = epoch + 1
        /\ stored' = stored \cup UNION {For(b, sent(nearest)) : b \in inhabitants}
        /\ excused' = excused \cup alone(nearest)
        /\ heirs' = [heirs EXCEPT ![n] = IF MaintenanceDue(n) THEN heard(nearest) ELSE @]
        /\ UNCHANGED <<inhabitants, maintenance_offset>>
    BY <1>1 DEF Tick
  <2> SUFFICES
        /\ epoch < MaxEpoch /\ n \in Upcoming
        /\ table' = [table EXCEPT ![n] =
              [v \in Value |-> IF v \in Erased(n) THEN NoEntry ELSE Received(n)[v]]]
        /\ inbox' = [b \in Address |-> (IF b = n THEN {} ELSE inbox[b]) \cup
                                       (IF b \in inhabitants THEN For(b, sent(all)) ELSE {})]
        /\ IF \E b \in Later : b > n
           THEN turn' = n /\ UNCHANGED epoch
           ELSE turn' = NoTurn /\ epoch' = epoch + 1
        /\ stored' = stored \cup UNION {For(b, sent(all)) : b \in inhabitants}
        /\ excused' = excused \cup alone(all)
        /\ heirs' = [heirs EXCEPT ![n] = IF MaintenanceDue(n) THEN heard(all) ELSE @]
        /\ UNCHANGED <<inhabitants, maintenance_offset>>
    BY DEF Tick
  <2> HIDE DEF sent, alone, heard
  <2> QED
    BY <2>1, <2>2
<1> QED
  BY <1>2, <1>4, <1>8 DEF n

LEMMA AgreementInit == Init => Agreement
<1> SUFFICES ASSUME Init PROVE Agreement
  OBVIOUS
<1>1. inhabitants = Founders /\ nodes = Home /\ stage \in Stage
  BY FirstStageType DEF Init, StorageInit
<1> QED
  BY <1>1, ChurnFacts DEF Agreement

LEMMA AgreementReplace ==
    ASSUME StorageTypeOK, Agreement, NEW i \in Node, NEW b \in Address \cup {0},
           NEW offset \in 0..(maintenance_period - 1), ReplaceNode(i, b, offset)
    PROVE  Agreement' /\ nodes[i] \in Address \cup {0} /\ Replace(nodes[i], b, offset)
<1>1. /\ i # 0 /\ Replace(nodes[i], b, offset) /\ nodes' = [nodes EXCEPT ![i] = b]
      /\ stage' = "fetch"
  BY DEF ReplaceNode
<1>2. /\ b \notin inhabitants \ {nodes[i]}
      /\ inhabitants' = (inhabitants \ {nodes[i]}) \cup ({b} \ {0})
      /\ inhabitants \subseteq Address /\ 0 \notin inhabitants /\ 0 \in Node
  BY <1>1, StorageFacts, ChurnFacts DEF Replace, Replaced, StorageTypeOK
<1>3. /\ nodes'[i] = b /\ \A j \in Node \ {i} : nodes'[j] = nodes[j]
      /\ \A j \in Node : nodes[j] \in inhabitants \cup {0}
  BY <1>1 DEF Agreement
<1>4. \A j \in Node \ {i} : nodes[j] = nodes[i] => nodes[i] = 0
  BY DEF Agreement
<1>5. nodes' \in [Node -> inhabitants' \cup {0}]
  <2>1. \A j \in Node : nodes'[j] \in inhabitants' \cup {0}
    BY <1>2, <1>3, <1>4
  <2> QED
    BY <1>1, <2>1 DEF Agreement
<1>6. \A j, l \in Node : j # l /\ nodes'[j] = nodes'[l] => nodes'[j] = 0
  <2> SUFFICES ASSUME NEW j \in Node, NEW l \in Node, j # l, nodes'[j] = nodes'[l]
               PROVE  nodes'[j] = 0
    OBVIOUS
  <2>1. CASE j # i /\ l # i
    BY <1>3, <2>1 DEF Agreement
  <2>2. CASE j = i
    BY <1>2, <1>3, <1>4, <2>2
  <2>3. CASE l = i
    BY <1>2, <1>3, <1>4, <2>3
  <2> QED
    BY <2>1, <2>2, <2>3
<1>7. \A a \in inhabitants' : \E j \in Node : nodes'[j] = a
  <2> SUFFICES ASSUME NEW a \in inhabitants' PROVE \E j \in Node : nodes'[j] = a
    OBVIOUS
  <2>1. CASE a = b
    BY <1>3, <2>1
  <2>2. CASE a \in inhabitants \ {nodes[i]}
    BY <1>3, <2>2 DEF Agreement
  <2> QED
    BY <1>2, <2>1, <2>2
<1>8. stage' \in Stage
  BY <1>1 DEF Stage
<1> QED
  BY <1>1, <1>2, <1>3, <1>5, <1>6, <1>7, <1>8 DEF Agreement

\* Every step of the experiment is a step of the network or leaves it alone,
\* and keeps the agreement.
LEMMA StepOfNetwork ==
    ASSUME StorageTypeOK, Agreement, [Next]_vars
    PROVE  Agreement' /\ [StorageNext]_storage
<1>1. ASSUME UNCHANGED <<storage, nodes>>, stage' \in Stage
      PROVE  Agreement' /\ [StorageNext]_storage
  BY <1>1 DEF Agreement, storage
<1>2. CASE UNCHANGED vars \/ Finished
  BY <1>1, <1>2 DEF vars, experiment, Finished, Agreement
<1>3. ASSUME NEW i \in Node, NEW v \in Value, Fetch(i, v)
      PROVE  Agreement' /\ [StorageNext]_storage
  BY <1>1, <1>3 DEF Fetch, Stage
<1>4. ASSUME NEW i \in Node, SkipFetch(i)
      PROVE  Agreement' /\ [StorageNext]_storage
  BY <1>1, <1>4 DEF SkipFetch, Stage
<1>5. ASSUME NEW i \in Node, NEW b \in Address \cup {0},
             NEW offset \in 0..(maintenance_period - 1), ReplaceNode(i, b, offset)
      PROVE  Agreement' /\ [StorageNext]_storage
  BY <1>5, AgreementReplace DEF StorageNext
<1>6. ASSUME NEW i \in Node, NEW ended \in SUBSET Value, NEW contacted \in SUBSET Address,
             VisitNode(i, ended, contacted)
      PROVE  Agreement' /\ [StorageNext]_storage
  <2>1. nodes[i] \in Address
    BY <1>6 DEF VisitNode, Upcoming, Later, StorageTypeOK
  <2>2. PICK nearest \in [Value -> Nearest], stores \in SUBSET (Value \X Address) :
            Tick(nodes[i], nearest, stores)
    BY <1>6, <2>1, VisitIsTick
  <2>3. inhabitants' = inhabitants
    BY <2>2 DEF Tick
  <2>4. stage' \in Stage /\ nodes' = nodes
    BY <1>6, FirstStageType DEF VisitNode, Stage
  <2> QED
    BY <2>1, <2>2, <2>3, <2>4 DEF Agreement, StorageNext
<1> QED
  BY <1>2, <1>3, <1>4, <1>5, <1>6 DEF Next

\* The experiment keeps whatever the network keeps by itself.
LEMMA NetworkInvariance == Spec => [](StorageInv /\ Agreement) /\ StorageSpec
<1>1. Init => StorageInit /\ StorageInv /\ Agreement
  BY InitStorage, AgreementInit DEF Init
<1>2. StorageInv /\ Agreement /\ [Next]_vars =>
         /\ StorageInv' /\ Agreement'
         /\ [StorageNext]_storage
  BY StepOfNetwork, StorageNextInv DEF StorageInv
<1> QED
  BY <1>1, <1>2, PTL DEF Spec, StorageSpec

\* The experiment on a network is a network: all that is proved of the values
\* in a network of which nodes are replaced at will holds in the experiment.
THEOREM ExperimentIsANetwork == Spec => StorageSpec
  BY NetworkInvariance, PTL

\* Every variable keeps its type; the experiment's array of nodes and the
\* network's inhabitants agree whatever is replaced, and when the network has
\* no address for a node.
THEOREM TypeCorrect == Spec => []TypeOK
<1>1. StorageInv /\ Agreement /\ Inv => TypeOK
  BY DEF StorageInv, Agreement, Stage, Inv, FlagTypes, TypeOK
<1> QED
  BY <1>1, NetworkInvariance, InvHolds, PTL

\* No value is lost but with a node that held it, or with one that had nobody
\* to hand it to.
THEOREM ValuesSurviveChurn == Spec => []Survives
  BY ExperimentIsANetwork, ValuesSurvive, PTL

\* No node holds a value for two periods without hearing of it.
THEOREM ValuesExpireInChurn == Spec => []NotHeldTooLong
  BY ExperimentIsANetwork, ValuesExpire, PTL

\* When a node drops a value, those it sent it to one period earlier hold it.
THEOREM ValuesAreHandedOverInChurn == Spec => Handover
  BY ExperimentIsANetwork, ValuesAreHandedOver, PTL
=============================================================================
