------------------------------- MODULE Lookup -------------------------------
(***************************************************************************)
(* The iterative lookups of one KademliaNode (kademlia.cpp): findNodes,    *)
(* findValue, and the NodeFinder they share until it finishes or fails.    *)
(*                                                                         *)
(* The node's routing table and its peers are what they may answer: the    *)
(* nodes a lookup starts with and those a FIND_NODES response lists are    *)
(* any set of at most k nodes.  A request is answered or times out, once,  *)
(* as Transport shows; an answer that comes later finds no callback.       *)
(***************************************************************************)
EXTENDS Naturals, Sequences, FiniteSets

CONSTANTS
    Call,             \* the calls of findNodes and findValue, each made once
    Target,           \* the keys looked for
    Node,             \* the keys of the other nodes
    Distance,         \* their distance to each target, as key_distance_cmp orders it
    k,                \* Config::k
    NoFinder          \* no entry for a target in `nodes_being_found'

\* That distances differ is DistanceOrder of KeysProofs.
ASSUME LookupAssumption ==
    /\ IsFiniteSet(Node) /\ k \in Nat
    /\ Distance \in [Target -> [Node -> Nat]]
    /\ \A t \in Target : \A m, n \in Node :
          m # n => Distance[t][m] # Distance[t][n]

VARIABLES
    nodes_being_found,
    requests,         \* the FIND_NODES requests without an answer yet
    \* history, read by the properties only:
    called,           \* the function each call invoked, "idle" before that
    answers,          \* what the callbacks of each call were called with
    asked,            \* the nodes each finder asked, in order
    heard             \* the nodes each finder was told of

vars == <<nodes_being_found, requests, called, answers, asked, heard>>

\* The fields of NodeFinder; `id', for the properties, is the call that made it.
Finder == [find_value : BOOLEAN, callbacks : SUBSET Call, waiting : Nat,
           uncontacted : SUBSET Node, contacted : SUBSET Node,
           seen : SUBSET Node, id : Call]

\* What the callers of a finder see of it.
Seen == [find_value : BOOLEAN, callbacks : SUBSET Call]

ASSUME NoFinderAssumption == NoFinder \notin Finder /\ NoFinder \notin Seen

Request == [target : Target, top : Node, find_value : BOOLEAN, id : Call]
Answer == [kind : {"nodes", "value", "failure"}, nodes : SUBSET Node]

\* What a routing table or a response can list.
Nearest == {S \in SUBSET Node : Cardinality(S) <= k}

Finding(t) == nodes_being_found[t] # NoFinder

-----------------------------------------------------------------------------
(* findNodesStep *)

LearnUnmarked(f, new) ==                                           \* mutant
    [f EXCEPT !.uncontacted = @ \cup (new \ f.seen)]
\* Nodes the finder has not seen before are to be contacted.
Learn(f, new) ==
    [f EXCEPT !.uncontacted = @ \cup (new \ f.seen), !.seen = @ \cup new]

FinishFirst(t, f, kind, nodes) ==                                  \* mutant
    /\ nodes_being_found' = [nodes_being_found EXCEPT ![t] = NoFinder]
    /\ answers' = [answers EXCEPT ![f.id] = Append(@, [kind |-> kind, nodes |-> nodes])]

FinishKeepingFinder(t, f, kind, nodes) ==                          \* mutant
    /\ nodes_being_found' = [nodes_being_found EXCEPT ![t] = f]
    /\ answers' = [c \in Call |->
          IF c \in f.callbacks THEN Append(answers[c], [kind |-> kind, nodes |-> nodes])
          ELSE answers[c]]

\* The callbacks of the finder are called and the finder is erased.
Finish(t, f, kind, nodes) ==
    /\ nodes_being_found' = [nodes_being_found EXCEPT ![t] = NoFinder]
    /\ answers' = [c \in Call |->
          IF c \in f.callbacks THEN Append(answers[c], [kind |-> kind, nodes |-> nodes])
          ELSE answers[c]]

AskUncounted(t, f, top, open) ==                                   \* mutant
    /\ nodes_being_found' = [nodes_being_found EXCEPT ![t] =
          [f EXCEPT !.uncontacted = @ \ {top}]]
    /\ requests' = open \cup {[target |-> t, top |-> top,
                               find_value |-> f.find_value, id |-> f.id]}
    /\ asked' = [asked EXCEPT ![f.id] = Append(@, top)]

\* One node is asked, whatever alpha is.
Ask(t, f, top, open) ==
    /\ nodes_being_found' = [nodes_being_found EXCEPT ![t] =
          [f EXCEPT !.uncontacted = @ \ {top}, !.waiting = @ + 1]]
    /\ requests' = open \cup {[target |-> t, top |-> top,
                               find_value |-> f.find_value, id |-> f.id]}
    /\ asked' = [asked EXCEPT ![f.id] = Append(@, top)]

\* A finder is told of the nodes `new', when the requests `open' are still to
\* be answered: it ends, waits on, or asks the nearest node not yet contacted.
Step(t, finder, new, open) ==
    LET f == Learn(finder, new)
    IN  /\ heard' = [heard EXCEPT ![f.id] = @ \cup new]
        /\ \/ /\ f.uncontacted = {} /\ f.waiting = 0
              /\ IF f.find_value THEN Finish(t, f, "failure", {})
                                 ELSE Finish(t, f, "nodes", f.contacted)
              /\ requests' = open
              /\ UNCHANGED asked
           \/ /\ f.uncontacted = {} /\ f.waiting # 0
              /\ nodes_being_found' = [nodes_being_found EXCEPT ![t] = f]
              /\ requests' = open
              /\ UNCHANGED <<answers, asked>>
           \/ \E top \in f.uncontacted :
              /\ \A n \in f.uncontacted : Distance[t][top] <= Distance[t][n]
              /\ Ask(t, f, top, open)
              /\ UNCHANGED answers

-----------------------------------------------------------------------------
Init ==
    /\ nodes_being_found = [t \in Target |-> NoFinder]
    /\ requests = {}
    /\ called = [c \in Call |-> "idle"]
    /\ answers = [c \in Call |-> <<>>]
    /\ asked = [c \in Call |-> <<>>]
    /\ heard = [c \in Call |-> {}]

FindReplacing(c, t, find_value, nearest) ==                        \* mutant
    /\ called[c] = "idle"
    /\ called' = [called EXCEPT ![c] = IF find_value THEN "findValue" ELSE "findNodes"]
    /\ Step(t, [find_value |-> find_value, callbacks |-> {c}, waiting |-> 0,
                uncontacted |-> {}, contacted |-> {}, seen |-> {}, id |-> c],
            nearest, requests)

JoinedUpgrading(f, c, find_value) ==                                \* mutant
    [f EXCEPT !.callbacks = @ \cup {c}, !.find_value = @ \/ find_value]
\* A call joins a finder, which stays of the kind it is.
Joined(f, c, find_value) == [f EXCEPT !.callbacks = @ \cup {c}]

\* findNodes and findValue: a call for a target that is being looked for adds
\* its callbacks to that finder; findNodesStart tells a new finder of the
\* nearest nodes of the routing table.
Find(c, t, find_value, nearest) ==
    /\ called[c] = "idle"
    /\ called' = [called EXCEPT ![c] = IF find_value THEN "findValue" ELSE "findNodes"]
    /\ \/ /\ Finding(t)
          /\ nodes_being_found' = [nodes_being_found EXCEPT ![t] = Joined(@, c, find_value)]
          /\ UNCHANGED <<requests, answers, asked, heard>>
       \/ /\ ~Finding(t)
          /\ Step(t, [find_value |-> find_value, callbacks |-> {c}, waiting |-> 0,
                      uncontacted |-> {}, contacted |-> {}, seen |-> {}, id |-> c],
                  nearest, requests)

\* The callbacks of a request find the finder of its target, or return.
Ignore(r) ==
    /\ ~Finding(r.target)
    /\ requests' = requests \ {r}
    /\ UNCHANGED <<nodes_being_found, called, answers, asked, heard>>

\* cbSuccess, for a response without the value.
Reply(r, nearest) ==
    /\ r \in requests
    /\ \/ Ignore(r)
       \/ /\ Finding(r.target)
          /\ LET f == nodes_being_found[r.target]
             IN  Step(r.target,
                      [f EXCEPT !.contacted = @ \cup {r.top}, !.waiting = @ - 1],
                      nearest, requests \ {r})
          /\ UNCHANGED called

\* cbSuccess, for the response of a node that has the value.
ReplyWithValue(r) ==
    /\ r \in requests /\ r.find_value
    /\ \/ Ignore(r)
       \/ /\ Finding(r.target)
          /\ Finish(r.target, nodes_being_found[r.target], "value", {})
          /\ requests' = requests \ {r}
          /\ UNCHANGED <<called, asked, heard>>

\* cbFailure: the node did not answer; nothing new is learned.
Timeout(r) ==
    /\ r \in requests
    /\ \/ Ignore(r)
       \/ /\ Finding(r.target)
          /\ LET f == nodes_being_found[r.target]
             IN  Step(r.target, [f EXCEPT !.waiting = @ - 1], {}, requests \ {r})
          /\ UNCHANGED called

Resolve(r) == \/ \E nearest \in Nearest : Reply(r, nearest)
              \/ ReplyWithValue(r)
              \/ Timeout(r)

\* Nothing is looked for and no call is left to be made.
Quiet ==
    /\ \A c \in Call : called[c] # "idle"
    /\ \A t \in Target : ~Finding(t)
    /\ requests = {}
    /\ UNCHANGED vars

Next == \/ \E c \in Call, t \in Target, find_value \in BOOLEAN, nearest \in Nearest :
              Find(c, t, find_value, nearest)
        \/ \E r \in requests : Resolve(r)
        \/ Quiet

Spec == Init /\ [][Next]_vars

\* Transport gives every request an answer or a failure (EveryCallEnds).
FairSpec ==
    Spec /\ \A t \in Target : WF_vars(\E r \in requests : r.target = t /\ Resolve(r))

-----------------------------------------------------------------------------
(* Properties *)

\* Every variable has its type; in particular `waiting', which is decremented
\* by callbacks that find their finder by target only, never drops below 0.
TypeOK ==
    /\ nodes_being_found \in [Target -> Finder \cup {NoFinder}]
    /\ requests \subseteq Request
    /\ called \in [Call -> {"idle", "findNodes", "findValue"}]
    /\ answers \in [Call -> Seq(Answer)]
    /\ asked \in [Call -> Seq(Node)]
    /\ heard \in [Call -> SUBSET Node]

RequestsFor(t) == {r \in requests : r.target = t}

\* A finder waits for exactly one answer, to a request of its own, and no
\* request outlives the finder that sent it: an answer is never taken for one
\* to a later lookup of the same key.
OneOutstanding ==
    \A t \in Target :
        IF Finding(t)
        THEN LET f == nodes_being_found[t]
             IN  /\ f.waiting = 1
                 /\ \E r \in requests : /\ RequestsFor(t) = {r}
                                        /\ r.id = f.id /\ r.find_value = f.find_value
        ELSE RequestsFor(t) = {}

HeldBy(t, c) == Finding(t) /\ c \in nodes_being_found[t].callbacks

\* Exactly the calls not yet answered are kept, each by one finder, and no
\* call is answered twice, or without having been made.
CallsTracked ==
    \A c \in Call :
        /\ Len(answers[c]) <= 1
        /\ called[c] = "idle" => answers[c] = <<>>
        /\ called[c] # "idle" /\ answers[c] = <<>> <=> \E t \in Target : HeldBy(t, c)
        /\ \A t, u \in Target : HeldBy(t, c) /\ HeldBy(u, c) => t = u

\* A lookup asks no node twice, and when it ends without a value it has asked
\* every node it was told of.
Exhaustive ==
    \A c \in Call :
        /\ \A i, j \in DOMAIN asked[c] : i # j => asked[c][i] # asked[c][j]
        /\ \A i \in DOMAIN answers[c] : answers[c][i].kind # "value" =>
              {asked[c][j] : j \in DOMAIN asked[c]} = heard[c]

\* Every call of findNodes and findValue is answered.
EveryLookupEnds ==
    \A c \in Call : called[c] # "idle" ~> answers[c] # <<>>

\* The lookups as the callers see them.
CallersFinding ==
    [t \in Target |-> IF Finding(t) THEN [find_value |-> nodes_being_found[t].find_value,
                                          callbacks |-> nodes_being_found[t].callbacks]
                      ELSE NoFinder]

CallersOutcome ==
    [c \in Call |-> IF called[c] = "idle" THEN "idle"
                    ELSE IF answers[c] = <<>> THEN "pending"
                    ELSE answers[c][Len(answers[c])].kind]

Promise == INSTANCE Query WITH finding <- CallersFinding, outcome <- CallersOutcome

\* The finders keep what Query promises the callers: a lookup keeps its kind,
\* and with it the ways it can end, although a fetch may join a search for
\* nodes and the other way round; its end reaches all its callers in one step
\* and no others.
ImplementsQuery == Promise!Spec

-----------------------------------------------------------------------------
(* What the comments say and the code does not do *)

\* The flag of Experiment::waiting for a call of Experiment::fetch: it is reset
\* by recordFind and recordFail, that is when findValue's callbacks are called
\* with the value or with failure.
WaitingFlag(c) ==
    /\ called[c] = "findValue"
    /\ \A i \in DOMAIN answers[c] : answers[c][i].kind = "nodes"

\* experiment.hpp: "a bit mask over each node, 'is this node waiting for
\* something?'"  A node whose flag is set has a lookup that goes on.
FlagMeansWaiting ==
    \A c \in Call : WaitingFlag(c) => \E t \in Target : HeldBy(t, c)
=============================================================================
