---------------------------- MODULE LookupProofs ----------------------------
(***************************************************************************)
(* That a lookup never has more than one request open, and answers each of *)
(* its callers once, for any number of calls, targets and nodes.           *)
(*                                                                         *)
(* The invariant is the conjunction of TypeOK, OneOutstanding and          *)
(* CallsTracked, which is inductive: a finder between two steps waits for  *)
(* one answer, so the callback of that answer finds it with waiting = 0    *)
(* and no request of its target open.  StepInv shows that findNodesStep    *)
(* leads from there back to the invariant; each action that calls it only  *)
(* has to establish its hypotheses.                                        *)
(***************************************************************************)
EXTENDS Lookup, TLAPS, SequenceTheorems

Inv == TypeOK /\ OneOutstanding /\ CallsTracked

\* What findNodesStep learns changes none of the fields that relate a finder
\* to its requests and calls.
LEMMA LearnKeeps ==
    ASSUME NEW f \in Finder, NEW new \in SUBSET Node
    PROVE  /\ Learn(f, new) \in Finder
           /\ Learn(f, new).waiting = f.waiting
           /\ Learn(f, new).callbacks = f.callbacks
           /\ Learn(f, new).find_value = f.find_value
           /\ Learn(f, new).id = f.id
  BY DEF Learn, Finder

\* No finder is the mark for a missing one.
LEMMA FinderFound == \A f \in Finder : f # NoFinder
  BY NoFinderAssumption

\* An answer makes the answers of a call one longer.
LEMMA OneAnswer ==
    ASSUME NEW a \in Answer
    PROVE  /\ Append(<<>>, a) \in Seq(Answer)
           /\ Append(<<>>, a) # <<>>
           /\ Len(Append(<<>>, a)) = 1
<1> DEFINE e == <<>>
<1>1. e \in Seq(Answer) /\ Len(e) = 0
  BY EmptySeq
<1> HIDE DEF e
<1>2. Append(e, a) \in Seq(Answer) /\ Len(Append(e, a)) = 1
  BY <1>1, AppendProperties
<1> QED
  BY <1>1, <1>2 DEF e

\* A finder without open requests that ends answers exactly its calls and
\* leaves the rest of the invariant as it is.
LEMMA FinishInv ==
    ASSUME Inv, NEW t \in Target, NEW f \in Finder,
           NEW kind \in {"nodes", "value", "failure"}, NEW nodes \in SUBSET Node,
           requests' = requests \ RequestsFor(t),
           called' \in [Call -> {"idle", "findNodes", "findValue"}],
           asked' \in [Call -> Seq(Node)], heard' \in [Call -> SUBSET Node],
           \A c \in Call : called[c] # "idle" => called'[c] # "idle",
           \A c \in Call : c \in f.callbacks <=>
                /\ called'[c] # "idle" /\ answers[c] = <<>>
                /\ \A u \in Target \ {t} : ~HeldBy(u, c),
           \A c \in Call : c \notin f.callbacks /\ called[c] = "idle" => called'[c] = "idle",
           Finish(t, f, kind, nodes)
    PROVE  Inv'
<1> DEFINE a == [kind |-> kind, nodes |-> nodes]
<1>1. a \in Answer
  BY DEF Answer
<1>2. /\ nodes_being_found' \in [Target -> Finder \cup {NoFinder}]
      /\ nodes_being_found'[t] = NoFinder
      /\ \A u \in Target \ {t} : nodes_being_found'[u] = nodes_being_found[u]
  BY DEF Finish, Inv, TypeOK
<1>3. \A c \in Call : c \in f.callbacks => answers'[c] = Append(<<>>, a)
  BY DEF Finish, Inv, TypeOK
<1>4. \A c \in Call : c \notin f.callbacks => answers'[c] = answers[c]
  BY DEF Finish, Inv, TypeOK
<1>5. answers' = [c \in Call |-> answers'[c]]
  BY DEF Finish
<1> HIDE DEF a
<1> DEFINE one == Append(<<>>, a)
<1>6. one \in Seq(Answer) /\ one # <<>> /\ Len(one) <= 1
  BY <1>1, OneAnswer
<1>7. \A c \in Call : c \in f.callbacks => answers'[c] = one
  BY <1>3
<1> HIDE DEF one
<1>8. \A c \in Call : answers'[c] \in Seq(Answer) /\ Len(answers'[c]) <= 1
  <2> TAKE c \in Call
  <2>1. answers[c] \in Seq(Answer) /\ Len(answers[c]) <= 1
    BY DEF Inv, TypeOK, CallsTracked
  <2>2. CASE c \in f.callbacks
    <3>1. answers'[c] = one
      BY <1>7, <2>2
    <3> QED
      BY <1>6, <3>1
  <2>3. CASE c \notin f.callbacks
    <3>1. answers'[c] = answers[c]
      BY <1>4, <2>3
    <3> QED
      BY <2>1, <3>1
  <2> QED
    BY <2>2, <2>3
<1>9. TypeOK'
  BY <1>2, <1>5, <1>8 DEF Inv, TypeOK
<1>10. OneOutstanding'
  <2> SUFFICES ASSUME NEW u \in Target
               PROVE  IF Finding(u)'
                      THEN LET g == nodes_being_found'[u]
                           IN  /\ g.waiting = 1
                               /\ \E r \in requests' : /\ RequestsFor(u)' = {r}
                                                       /\ r.id = g.id
                                                       /\ r.find_value = g.find_value
                      ELSE RequestsFor(u)' = {}
    BY DEF OneOutstanding
  <2>1. CASE u = t
    BY <1>2, <2>1 DEF Finding, RequestsFor
  <2>2. CASE u # t
    <3>1. RequestsFor(u)' = RequestsFor(u)
      BY <2>2 DEF RequestsFor
    <3> QED
      BY <1>2, <2>2, <3>1 DEF Inv, OneOutstanding, Finding, RequestsFor
  <2> QED
    BY <2>1, <2>2
<1>11. CallsTracked'
  <2>1. \A c \in Call : ~HeldBy(t, c)'
    BY <1>2 DEF HeldBy, Finding
  <2>2. \A c \in Call, u \in Target \ {t} : HeldBy(u, c)' <=> HeldBy(u, c)
    BY <1>2 DEF HeldBy, Finding
  <2> SUFFICES ASSUME NEW c \in Call
               PROVE  /\ called'[c] = "idle" => answers'[c] = <<>>
                      /\ called'[c] # "idle" /\ answers'[c] = <<>>
                           <=> \E u \in Target : HeldBy(u, c)'
                      /\ \A u, v \in Target : HeldBy(u, c)' /\ HeldBy(v, c)' => u = v
    BY <1>8 DEF CallsTracked
  <2>3. /\ called[c] = "idle" => answers[c] = <<>>
        /\ called[c] # "idle" /\ answers[c] = <<>> <=> \E u \in Target : HeldBy(u, c)
        /\ \A u, v \in Target : HeldBy(u, c) /\ HeldBy(v, c) => u = v
    BY DEF Inv, CallsTracked
  <2>4. CASE c \in f.callbacks
    BY <1>6, <1>7, <2>1, <2>2, <2>3, <2>4
  <2>5. CASE c \notin f.callbacks
    BY <1>4, <2>1, <2>2, <2>3, <2>5
  <2> QED
    BY <2>4, <2>5
<1> QED
  BY <1>9, <1>10, <1>11 DEF Inv

\* A finder without open requests that asks a node waits for that one answer,
\* with the same calls.
LEMMA AskInv ==
    ASSUME Inv, NEW t \in Target, NEW f \in Finder, f.waiting = 0, NEW top \in Node,
           NEW open, open = requests \ RequestsFor(t),
           called' \in [Call -> {"idle", "findNodes", "findValue"}],
           heard' \in [Call -> SUBSET Node], answers' = answers,
           \A c \in Call : called[c] # "idle" => called'[c] # "idle",
           \A c \in Call : c \in f.callbacks <=>
                /\ called'[c] # "idle" /\ answers[c] = <<>>
                /\ \A u \in Target \ {t} : ~HeldBy(u, c),
           \A c \in Call : c \notin f.callbacks /\ called[c] = "idle" => called'[c] = "idle",
           Ask(t, f, top, open)
    PROVE  Inv'
<1> DEFINE g == [f EXCEPT !.uncontacted = @ \ {top}, !.waiting = 1]
           s == [target |-> t, top |-> top, find_value |-> f.find_value, id |-> f.id]
<1>1. /\ g \in Finder /\ g.waiting = 1 /\ g.callbacks = f.callbacks
      /\ g.find_value = f.find_value /\ g.id = f.id
  BY DEF Finder
<1>2. s \in Request /\ s.target = t /\ s.find_value = f.find_value /\ s.id = f.id
  BY DEF Request, Finder
<1>3. nodes_being_found' = [nodes_being_found EXCEPT ![t] = g] /\ requests' = open \cup {s}
  <2>1. f.waiting + 1 = 1
    OBVIOUS
  <2> QED
    BY <2>1 DEF Ask
<1> HIDE DEF g, s
<1>4. /\ nodes_being_found' \in [Target -> Finder \cup {NoFinder}]
      /\ nodes_being_found'[t] = g /\ Finding(t)'
      /\ \A u \in Target \ {t} : nodes_being_found'[u] = nodes_being_found[u]
  BY <1>1, <1>3, FinderFound DEF Inv, TypeOK, Finding
<1>5. asked' \in [Call -> Seq(Node)]
  <2>1. f.id \in Call /\ asked[f.id] \in Seq(Node)
    BY DEF Finder, Inv, TypeOK
  <2>2. Append(asked[f.id], top) \in Seq(Node)
    BY <2>1, AppendProperties
  <2> QED
    BY <2>1, <2>2 DEF Ask, Inv, TypeOK
<1>6. TypeOK'
  BY <1>2, <1>3, <1>4, <1>5 DEF Inv, TypeOK, RequestsFor
<1>7. RequestsFor(t)' = {s}
  BY <1>2, <1>3 DEF RequestsFor
<1>8. OneOutstanding'
  <2> SUFFICES ASSUME NEW u \in Target
               PROVE  IF Finding(u)'
                      THEN LET h == nodes_being_found'[u]
                           IN  /\ h.waiting = 1
                               /\ \E r \in requests' : /\ RequestsFor(u)' = {r}
                                                       /\ r.id = h.id
                                                       /\ r.find_value = h.find_value
                      ELSE RequestsFor(u)' = {}
    BY DEF OneOutstanding
  <2>1. CASE u = t
    BY <1>1, <1>2, <1>3, <1>4, <1>7, <2>1
  <2>2. CASE u # t
    <3>1. RequestsFor(u)' = RequestsFor(u)
      BY <1>2, <1>3, <2>2 DEF RequestsFor
    <3> QED
      BY <1>4, <2>2, <3>1 DEF Inv, OneOutstanding, Finding, RequestsFor
  <2> QED
    BY <2>1, <2>2
<1>9. CallsTracked'
  <2>1. \A c \in Call : HeldBy(t, c)' <=> c \in f.callbacks
    BY <1>1, <1>4 DEF HeldBy
  <2>2. \A c \in Call, u \in Target \ {t} : HeldBy(u, c)' <=> HeldBy(u, c)
    BY <1>4 DEF HeldBy, Finding
  <2> SUFFICES ASSUME NEW c \in Call
               PROVE  /\ Len(answers'[c]) <= 1
                      /\ called'[c] = "idle" => answers'[c] = <<>>
                      /\ called'[c] # "idle" /\ answers'[c] = <<>>
                           <=> \E u \in Target : HeldBy(u, c)'
                      /\ \A u, v \in Target : HeldBy(u, c)' /\ HeldBy(v, c)' => u = v
    BY DEF CallsTracked
  <2>3. /\ Len(answers[c]) <= 1
        /\ called[c] = "idle" => answers[c] = <<>>
        /\ called[c] # "idle" /\ answers[c] = <<>> <=> \E u \in Target : HeldBy(u, c)
        /\ \A u, v \in Target : HeldBy(u, c) /\ HeldBy(v, c) => u = v
    BY DEF Inv, CallsTracked
  <2> QED
    BY <2>1, <2>2, <2>3
<1> QED
  BY <1>6, <1>8, <1>9 DEF Inv

\* findNodesStep, called for a finder whose answer has just come.
LEMMA StepInv ==
    ASSUME Inv, NEW t \in Target, NEW f \in Finder, f.waiting = 0,
           NEW new \in SUBSET Node, NEW open, open = requests \ RequestsFor(t),
           called' \in [Call -> {"idle", "findNodes", "findValue"}],
           \A c \in Call : called[c] # "idle" => called'[c] # "idle",
           \A c \in Call : c \in f.callbacks <=>
                /\ called'[c] # "idle" /\ answers[c] = <<>>
                /\ \A u \in Target \ {t} : ~HeldBy(u, c),
           \A c \in Call : c \notin f.callbacks /\ called[c] = "idle" => called'[c] = "idle",
           Step(t, f, new, open)
    PROVE  Inv'
<1> DEFINE g == Learn(f, new)
<1>1. g \in Finder /\ g.waiting = 0 /\ g.callbacks = f.callbacks /\ g.id = f.id
  BY LearnKeeps
<1>2. heard' = [heard EXCEPT ![g.id] = @ \cup new]
  BY DEF Step
<1>3. \/ /\ IF g.find_value THEN Finish(t, g, "failure", {})
                              ELSE Finish(t, g, "nodes", g.contacted)
         /\ requests' = open /\ asked' = asked
      \/ \E top \in g.uncontacted : Ask(t, g, top, open) /\ answers' = answers
  BY <1>1 DEF Step
<1> HIDE DEF g
<1>4. g.contacted \in SUBSET Node /\ g.uncontacted \in SUBSET Node /\ g.id \in Call
  BY <1>1 DEF Finder
<1>5. heard' \in [Call -> SUBSET Node]
  BY <1>2, <1>4 DEF Inv, TypeOK
<1>6. asked' = asked => asked' \in [Call -> Seq(Node)]
  BY DEF Inv, TypeOK
<1>7. \A c \in Call : c \in g.callbacks <=>
           /\ called'[c] # "idle" /\ answers[c] = <<>>
           /\ \A u \in Target \ {t} : ~HeldBy(u, c)
  BY <1>1
<1>8. \A c \in Call : c \notin g.callbacks /\ called[c] = "idle" => called'[c] = "idle"
  BY <1>1
<1>9. CASE Finish(t, g, "failure", {}) /\ requests' = open /\ asked' = asked
  BY <1>1, <1>5, <1>6, <1>7, <1>8, <1>9, FinishInv
<1>10. CASE Finish(t, g, "nodes", g.contacted) /\ requests' = open /\ asked' = asked
  BY <1>1, <1>4, <1>5, <1>6, <1>7, <1>8, <1>10, FinishInv
<1>11. CASE \E top \in g.uncontacted : Ask(t, g, top, open) /\ answers' = answers
  <2>1. PICK top \in Node : Ask(t, g, top, open) /\ answers' = answers
    BY <1>4, <1>11
  <2> QED
    BY <1>1, <1>5, <1>7, <1>8, <2>1, AskInv
<1> QED
  BY <1>3, <1>9, <1>10, <1>11

-----------------------------------------------------------------------------
(* The actions *)

\* A call that joins a finder is held by that finder and no other.
LEMMA JoinInv ==
    ASSUME Inv, NEW c \in Call, NEW t \in Target, NEW find_value \in BOOLEAN,
           called[c] = "idle", Finding(t),
           called' = [called EXCEPT ![c] = IF find_value THEN "findValue" ELSE "findNodes"],
           nodes_being_found' = [nodes_being_found EXCEPT ![t].callbacks = @ \cup {c}],
           UNCHANGED <<requests, answers, asked, heard>>
    PROVE  Inv'
<1> DEFINE f == nodes_being_found[t]
           g == [f EXCEPT !.callbacks = @ \cup {c}]
<1>1. f \in Finder
  BY DEF Inv, TypeOK, Finding
<1>2. /\ g \in Finder /\ g.waiting = f.waiting /\ g.find_value = f.find_value
      /\ g.id = f.id /\ g.callbacks = f.callbacks \cup {c}
  BY <1>1 DEF Finder
<1>3. nodes_being_found' = [nodes_being_found EXCEPT ![t] = g]
  OBVIOUS
<1> HIDE DEF g
<1>4. /\ nodes_being_found' \in [Target -> Finder \cup {NoFinder}]
      /\ nodes_being_found'[t] = g /\ g # NoFinder
      /\ \A u \in Target \ {t} : nodes_being_found'[u] = nodes_being_found[u]
  BY <1>2, <1>3, FinderFound DEF Inv, TypeOK
<1>5. called' \in [Call -> {"idle", "findNodes", "findValue"}] /\ called'[c] # "idle"
      /\ \A d \in Call \ {c} : called'[d] = called[d]
  BY DEF Inv, TypeOK
<1>6. TypeOK'
  BY <1>4, <1>5 DEF Inv, TypeOK
<1>7. OneOutstanding'
  <2> SUFFICES ASSUME NEW u \in Target
               PROVE  IF Finding(u)'
                      THEN LET h == nodes_being_found'[u]
                           IN  /\ h.waiting = 1
                               /\ \E r \in requests' : /\ RequestsFor(u)' = {r}
                                                       /\ r.id = h.id
                                                       /\ r.find_value = h.find_value
                      ELSE RequestsFor(u)' = {}
    BY DEF OneOutstanding
  <2>1. RequestsFor(u)' = RequestsFor(u)
    BY DEF RequestsFor
  <2>2. CASE u = t
    <3>1. f.waiting = 1 /\ \E r \in requests : /\ RequestsFor(t) = {r}
                                              /\ r.id = f.id /\ r.find_value = f.find_value
      BY DEF Inv, OneOutstanding
    <3>2. nodes_being_found'[u] = g /\ RequestsFor(u)' = RequestsFor(t) /\ Finding(u)'
      BY <1>4, <2>1, <2>2 DEF Finding
    <3> HIDE DEF f
    <3> QED
      BY <1>2, <3>1, <3>2
  <2>3. CASE u # t
    BY <1>4, <2>1, <2>3 DEF Inv, OneOutstanding, Finding
  <2> QED
    BY <2>2, <2>3
<1>8. CallsTracked'
  <2>1. \A d \in Call : HeldBy(t, d)' <=> HeldBy(t, d) \/ d = c
    BY <1>2, <1>4 DEF HeldBy, Finding
  <2>2. \A d \in Call, u \in Target \ {t} : HeldBy(u, d)' <=> HeldBy(u, d)
    BY <1>4 DEF HeldBy, Finding
  <2> SUFFICES ASSUME NEW d \in Call
               PROVE  /\ Len(answers'[d]) <= 1
                      /\ called'[d] = "idle" => answers'[d] = <<>>
                      /\ called'[d] # "idle" /\ answers'[d] = <<>>
                           <=> \E u \in Target : HeldBy(u, d)'
                      /\ \A u, v \in Target : HeldBy(u, d)' /\ HeldBy(v, d)' => u = v
    BY DEF CallsTracked
  <2>3. /\ Len(answers[d]) <= 1
        /\ called[d] = "idle" => answers[d] = <<>>
        /\ called[d] # "idle" /\ answers[d] = <<>> <=> \E u \in Target : HeldBy(u, d)
        /\ \A u, v \in Target : HeldBy(u, d) /\ HeldBy(v, d) => u = v
    BY DEF Inv, CallsTracked
  <2> QED
    BY <1>5, <2>1, <2>2, <2>3
<1> QED
  BY <1>6, <1>7, <1>8 DEF Inv

\* A finder is found again by the answer to its request: it has waited for
\* that one, and holds the calls that no other finder holds.
LEMMA Answered ==
    ASSUME Inv, NEW r \in requests
    PROVE  /\ r.target \in Target /\ r.top \in Node /\ Finding(r.target)
           /\ nodes_being_found[r.target] \in Finder
           /\ nodes_being_found[r.target].waiting = 1
           /\ RequestsFor(r.target) = {r}
           /\ \A c \in Call : c \in nodes_being_found[r.target].callbacks <=>
                  /\ called[c] # "idle" /\ answers[c] = <<>>
                  /\ \A u \in Target \ {r.target} : ~HeldBy(u, c)
<1> DEFINE t == r.target
<1>1. t \in Target /\ r.top \in Node
  BY DEF Inv, TypeOK, Request
<1>2. r \in RequestsFor(t)
  BY DEF RequestsFor
<1>3. Finding(t) /\ nodes_being_found[t].waiting = 1 /\ RequestsFor(t) = {r}
  BY <1>1, <1>2 DEF Inv, OneOutstanding
<1>4. nodes_being_found[t] \in Finder
  BY <1>1, <1>3 DEF Inv, TypeOK, Finding
<1>5. ASSUME NEW c \in Call
      PROVE  c \in nodes_being_found[t].callbacks <=>
                /\ called[c] # "idle" /\ answers[c] = <<>>
                /\ \A u \in Target \ {t} : ~HeldBy(u, c)
  <2>1. c \in nodes_being_found[t].callbacks <=> HeldBy(t, c)
    BY <1>3 DEF HeldBy
  <2>2. /\ called[c] # "idle" /\ answers[c] = <<>> <=> \E u \in Target : HeldBy(u, c)
        /\ \A u, v \in Target : HeldBy(u, c) /\ HeldBy(v, c) => u = v
    BY DEF Inv, CallsTracked
  <2> QED
    BY <1>1, <2>1, <2>2
<1> QED
  BY <1>1, <1>3, <1>4, <1>5

LEMMA FindInv ==
    ASSUME Inv, NEW c \in Call, NEW t \in Target, NEW find_value \in BOOLEAN,
           NEW nearest \in Nearest, Find(c, t, find_value, nearest)
    PROVE  Inv'
<1>1. CASE Finding(t)
  BY <1>1, JoinInv DEF Find, Joined
<1>2. CASE ~Finding(t)
  <2> DEFINE f == [find_value |-> find_value, callbacks |-> {c}, waiting |-> 0,
                   uncontacted |-> {}, contacted |-> {}, seen |-> {}, id |-> c]
  <2>1. f \in Finder /\ f.waiting = 0 /\ f.callbacks = {c}
    BY DEF Finder
  <2>2. Step(t, f, nearest, requests)
    BY <1>2 DEF Find
  <2> HIDE DEF f
  <2>3. nearest \in SUBSET Node
    BY DEF Nearest
  <2>4. requests = requests \ RequestsFor(t)
    BY <1>2 DEF Inv, OneOutstanding
  <2>5. /\ called[c] = "idle"
        /\ called' \in [Call -> {"idle", "findNodes", "findValue"}] /\ called'[c] # "idle"
        /\ \A d \in Call \ {c} : called'[d] = called[d]
    BY DEF Find, Inv, TypeOK
  <2>6. \A d \in Call : ~HeldBy(t, d)
    BY <1>2 DEF HeldBy
  <2>7. \A d \in Call : /\ called[d] = "idle" => answers[d] = <<>>
                        /\ called[d] # "idle" /\ answers[d] = <<>>
                              <=> \E u \in Target : HeldBy(u, d)
    BY DEF Inv, CallsTracked
  <2>8. \A d \in Call : d \in f.callbacks <=>
             /\ called'[d] # "idle" /\ answers[d] = <<>>
             /\ \A u \in Target \ {t} : ~HeldBy(u, d)
    BY <2>1, <2>5, <2>6, <2>7
  <2>9. /\ \A d \in Call : called[d] # "idle" => called'[d] # "idle"
        /\ \A d \in Call : d \notin f.callbacks /\ called[d] = "idle" => called'[d] = "idle"
    BY <2>1, <2>5
  <2> QED
    BY <2>1, <2>2, <2>3, <2>4, <2>5, <2>8, <2>9, StepInv
<1> QED
  BY <1>1, <1>2

LEMMA ReplyInv ==
    ASSUME Inv, NEW r \in requests, NEW nearest \in Nearest, Reply(r, nearest)
    PROVE  Inv'
<1> DEFINE t == r.target
           f == nodes_being_found[t]
           g == [f EXCEPT !.contacted = @ \cup {r.top}, !.waiting = 0]
<1>1. /\ t \in Target /\ r.top \in Node /\ Finding(t) /\ f \in Finder /\ f.waiting = 1
      /\ RequestsFor(t) = {r}
      /\ \A c \in Call : c \in f.callbacks <=>
             /\ called[c] # "idle" /\ answers[c] = <<>>
             /\ \A u \in Target \ {t} : ~HeldBy(u, c)
  BY Answered
<1>2. g \in Finder /\ g.waiting = 0 /\ g.callbacks = f.callbacks
  BY <1>1 DEF Finder
<1>3. Step(t, g, nearest, requests \ {r}) /\ called' = called
  <2>1. f.waiting - 1 = 0
    BY <1>1
  <2> QED
    BY <1>1, <2>1 DEF Reply, Ignore
<1>4. nearest \in SUBSET Node
  BY DEF Nearest
<1> HIDE DEF g, f, t
<1>5. called' \in [Call -> {"idle", "findNodes", "findValue"}]
  BY <1>3 DEF Inv, TypeOK
<1> QED
  BY <1>1, <1>2, <1>3, <1>4, <1>5, StepInv

LEMMA TimeoutInv ==
    ASSUME Inv, NEW r \in requests, Timeout(r)
    PROVE  Inv'
<1> DEFINE t == r.target
           f == nodes_being_found[t]
           g == [f EXCEPT !.waiting = 0]
<1>1. /\ t \in Target /\ Finding(t) /\ f \in Finder /\ f.waiting = 1
      /\ RequestsFor(t) = {r}
      /\ \A c \in Call : c \in f.callbacks <=>
             /\ called[c] # "idle" /\ answers[c] = <<>>
             /\ \A u \in Target \ {t} : ~HeldBy(u, c)
  BY Answered
<1>2. g \in Finder /\ g.waiting = 0 /\ g.callbacks = f.callbacks
  BY <1>1 DEF Finder
<1>3. Step(t, g, {}, requests \ {r}) /\ called' = called
  <2>1. f.waiting - 1 = 0
    BY <1>1
  <2> QED
    BY <1>1, <2>1 DEF Timeout, Ignore
<1> HIDE DEF g, f, t
<1>4. called' \in [Call -> {"idle", "findNodes", "findValue"}]
  BY <1>3 DEF Inv, TypeOK
<1> QED
  BY <1>1, <1>2, <1>3, <1>4, StepInv

LEMMA ReplyWithValueInv ==
    ASSUME Inv, NEW r \in requests, ReplyWithValue(r)
    PROVE  Inv'
<1> DEFINE t == r.target
           f == nodes_being_found[t]
<1>1. /\ t \in Target /\ Finding(t) /\ f \in Finder /\ RequestsFor(t) = {r}
      /\ \A c \in Call : c \in f.callbacks <=>
             /\ called[c] # "idle" /\ answers[c] = <<>>
             /\ \A u \in Target \ {t} : ~HeldBy(u, c)
  BY Answered
<1>2. /\ Finish(t, f, "value", {}) /\ requests' = requests \ {r}
      /\ called' = called /\ asked' = asked /\ heard' = heard
  BY <1>1 DEF ReplyWithValue, Ignore
<1> HIDE DEF f, t
<1>3. /\ called' \in [Call -> {"idle", "findNodes", "findValue"}]
      /\ asked' \in [Call -> Seq(Node)] /\ heard' \in [Call -> SUBSET Node]
  BY <1>2 DEF Inv, TypeOK
<1> QED
  BY <1>1, <1>2, <1>3, FinishInv

-----------------------------------------------------------------------------
LEMMA InitInv == Init => Inv
<1> SUFFICES ASSUME Init PROVE Inv
  OBVIOUS
<1> DEFINE e == <<>>
<1>1. e \in Seq(Node) /\ e \in Seq(Answer) /\ Len(e) = 0
  BY EmptySeq
<1>2. answers = [c \in Call |-> e] /\ asked = [c \in Call |-> e]
  BY DEF Init
<1>3. \A t \in Target : ~Finding(t) /\ RequestsFor(t) = {}
  BY DEF Init, Finding, RequestsFor
<1>4. OneOutstanding
  BY <1>3 DEF OneOutstanding
<1>5. \A c \in Call : called[c] = "idle" /\ answers[c] = e
  BY <1>2 DEF Init
<1>6. \A t \in Target, c \in Call : ~HeldBy(t, c)
  BY <1>3 DEF HeldBy
<1> HIDE DEF e
<1>7. TypeOK
  BY <1>1, <1>2 DEF Init, TypeOK
<1>8. CallsTracked
  <2>1. e = <<>>
    BY DEF e
  <2> QED
    BY <1>1, <1>5, <1>6, <2>1 DEF CallsTracked
<1> QED
  BY <1>4, <1>7, <1>8 DEF Inv

LEMMA NextInv == Inv /\ [Next]_vars => Inv'
<1> SUFFICES ASSUME Inv, [Next]_vars PROVE Inv'
  OBVIOUS
<1>1. CASE UNCHANGED vars
  BY <1>1 DEF vars, Inv, TypeOK, OneOutstanding, CallsTracked, RequestsFor, HeldBy, Finding
<1>2. ASSUME NEW c \in Call, NEW t \in Target, NEW find_value \in BOOLEAN,
             NEW nearest \in Nearest, Find(c, t, find_value, nearest)
      PROVE  Inv'
  BY <1>2, FindInv
<1>3. ASSUME NEW r \in requests, Resolve(r) PROVE Inv'
  BY <1>3, ReplyInv, ReplyWithValueInv, TimeoutInv DEF Resolve
<1> QED
  BY <1>1, <1>2, <1>3 DEF Next, Quiet

LEMMA InvHolds == Spec => []Inv
  BY InitInv, NextInv, PTL DEF Spec

\* Every variable keeps its type; the counter of a finder is never decremented
\* below zero.
THEOREM TypeCorrect == Spec => []TypeOK
<1>1. Inv => TypeOK
  BY DEF Inv
<1> QED
  BY <1>1, InvHolds, PTL

\* A finder waits for exactly one answer, and no request outlives its finder.
THEOREM LookupIsSequential == Spec => []OneOutstanding
<1>1. Inv => OneOutstanding
  BY DEF Inv
<1> QED
  BY <1>1, InvHolds, PTL

\* Every call waits with one finder until it is answered, once.
THEOREM CallsAnsweredOnce == Spec => []CallsTracked
<1>1. Inv => CallsTracked
  BY DEF Inv
<1> QED
  BY <1>1, InvHolds, PTL

-----------------------------------------------------------------------------
(* Lookup implements Query *)

\* A call that has one answer has that for its outcome.
LEMMA LastAnswer ==
    ASSUME NEW a \in Answer
    PROVE  Append(<<>>, a) # <<>> /\ Append(<<>>, a)[Len(Append(<<>>, a))] = a
<1> DEFINE e == <<>>
<1>1. e \in Seq(Answer) /\ Len(e) = 0
  BY EmptySeq
<1> HIDE DEF e
<1>2. Len(Append(e, a)) = 1 /\ Append(e, a)[1] = a
  BY <1>1, AppendProperties
<1> QED
  BY <1>1, <1>2, OneAnswer DEF e

\* The mark for a missing finder is not what the callers see of one either.
LEMMA MarkDiffers ==
    \A f \in Finder : [find_value |-> f.find_value, callbacks |-> f.callbacks] # NoFinder
  BY NoFinderAssumption DEF Finder, Seen

\* The callers `calls' of the lookup of t wait on, or are told its end.
Waiting(t, find_value, calls) ==
    /\ CallersFinding' = [CallersFinding EXCEPT ![t] =
           [find_value |-> find_value, callbacks |-> calls]]
    /\ CallersOutcome' = [c \in Call |-> IF c \in calls THEN "pending" ELSE CallersOutcome[c]]

Ended(t, kind, calls) ==
    /\ CallersFinding' = [CallersFinding EXCEPT ![t] = NoFinder]
    /\ CallersOutcome' = [c \in Call |-> IF c \in calls THEN kind ELSE CallersOutcome[c]]

EndWithout(find_value) == IF find_value THEN "failure" ELSE "nodes"

\* A finder that ends is an end for its callers and no others.
LEMMA FinishSeen ==
    ASSUME Inv, NEW t \in Target, NEW f \in Finder,
           NEW kind \in {"nodes", "value", "failure"}, NEW nodes \in SUBSET Node,
           \A c \in Call : c \in f.callbacks => called'[c] # "idle" /\ answers[c] = <<>>,
           \A c \in Call : c \notin f.callbacks => called'[c] = called[c],
           Finish(t, f, kind, nodes)
    PROVE  Ended(t, kind, f.callbacks)
<1> DEFINE a == [kind |-> kind, nodes |-> nodes]
<1>1. a \in Answer /\ a.kind = kind
  BY DEF Answer
<1>2. \A c \in Call : answers'[c] = IF c \in f.callbacks THEN Append(answers[c], a)
                                    ELSE answers[c]
  BY DEF Finish
<1> HIDE DEF a
<1>3. \A u \in Target : nodes_being_found'[u] = IF u = t THEN NoFinder ELSE nodes_being_found[u]
  BY DEF Finish, Inv, TypeOK
<1>4. ASSUME NEW u \in Target
      PROVE  CallersFinding'[u] = IF u = t THEN NoFinder ELSE CallersFinding[u]
  BY <1>3 DEF CallersFinding, Finding
<1>5. ASSUME NEW c \in Call
      PROVE  CallersOutcome'[c] = IF c \in f.callbacks THEN kind ELSE CallersOutcome[c]
  <2>1. CASE c \in f.callbacks
    <3>1. called'[c] # "idle" /\ answers'[c] = Append(<<>>, a)
      BY <1>2, <2>1
    <3>2. Append(<<>>, a) # <<>> /\ Append(<<>>, a)[Len(Append(<<>>, a))].kind = kind
      BY <1>1, LastAnswer
    <3> QED
      BY <2>1, <3>1, <3>2 DEF CallersOutcome
  <2>2. CASE c \notin f.callbacks
    BY <1>2, <2>2 DEF CallersOutcome
  <2> QED
    BY <2>1, <2>2
<1> QED
  BY <1>4, <1>5 DEF CallersFinding, CallersOutcome, Ended

\* A finder that asks has its callers wait.
LEMMA AskSeen ==
    ASSUME Inv, NEW t \in Target, NEW f \in Finder, NEW top, NEW open,
           \A c \in Call : c \in f.callbacks => called'[c] # "idle" /\ answers[c] = <<>>,
           \A c \in Call : c \notin f.callbacks => called'[c] = called[c],
           Ask(t, f, top, open), answers' = answers
    PROVE  Waiting(t, f.find_value, f.callbacks)
<1> DEFINE g == [f EXCEPT !.uncontacted = @ \ {top}, !.waiting = @ + 1]
<1>1. g \in Finder /\ g.find_value = f.find_value /\ g.callbacks = f.callbacks
  <2> DEFINE h == [f EXCEPT !.uncontacted = @ \ {top}]
             w == f.waiting + 1
  <2>1. w \in Nat
    BY DEF Finder
  <2> HIDE DEF w
  <2>2. h \in Finder /\ h.find_value = f.find_value /\ h.callbacks = f.callbacks
    BY DEF Finder
  <2>3. g = [h EXCEPT !.waiting = w]
    BY DEF w
  <2> HIDE DEF g, h
  <2> QED
    BY <2>1, <2>2, <2>3 DEF Finder
<1>2. nodes_being_found' = [nodes_being_found EXCEPT ![t] = g]
  BY DEF Ask
<1> HIDE DEF g
<1>3. \A u \in Target : nodes_being_found'[u] = IF u = t THEN g ELSE nodes_being_found[u]
  BY <1>2 DEF Inv, TypeOK
<1>4. g # NoFinder
  BY <1>1, FinderFound
<1>5. ASSUME NEW u \in Target
      PROVE  CallersFinding'[u] = IF u = t THEN [find_value |-> f.find_value,
                                                 callbacks |-> f.callbacks]
                                  ELSE CallersFinding[u]
  BY <1>1, <1>3, <1>4 DEF CallersFinding, Finding
<1>6. ASSUME NEW c \in Call
      PROVE  CallersOutcome'[c] = IF c \in f.callbacks THEN "pending" ELSE CallersOutcome[c]
  BY DEF CallersOutcome
<1> QED
  BY <1>5, <1>6 DEF CallersFinding, CallersOutcome, Waiting

\* findNodesStep, to the callers: they wait on, or their lookup ends without a
\* value.
LEMMA StepSeen ==
    ASSUME Inv, NEW t \in Target, NEW f \in Finder, f.waiting = 0,
           NEW new \in SUBSET Node, NEW open,
           \A c \in Call : c \in f.callbacks => called'[c] # "idle" /\ answers[c] = <<>>,
           \A c \in Call : c \notin f.callbacks => called'[c] = called[c],
           Step(t, f, new, open)
    PROVE  \/ Waiting(t, f.find_value, f.callbacks)
           \/ Ended(t, EndWithout(f.find_value), f.callbacks)
<1> DEFINE g == Learn(f, new)
<1>1. /\ g \in Finder /\ g.waiting = 0 /\ g.callbacks = f.callbacks
      /\ g.find_value = f.find_value
  BY LearnKeeps
<1>2. \/ IF g.find_value THEN Finish(t, g, "failure", {})
                         ELSE Finish(t, g, "nodes", g.contacted)
      \/ \E top \in g.uncontacted : Ask(t, g, top, open) /\ answers' = answers
  BY <1>1 DEF Step
<1> HIDE DEF g
<1>3. g.contacted \in SUBSET Node
  BY <1>1 DEF Finder
<1>4. CASE f.find_value /\ Finish(t, g, "failure", {})
  <2>1. {} \in SUBSET Node
    OBVIOUS
  <2>2. Ended(t, "failure", f.callbacks)
    BY <1>1, <1>4, <2>1, FinishSeen
  <2> QED
    BY <1>4, <2>2 DEF EndWithout
<1>5. CASE ~f.find_value /\ Finish(t, g, "nodes", g.contacted)
  BY <1>1, <1>3, <1>5, FinishSeen DEF EndWithout
<1>6. CASE \E top \in g.uncontacted : Ask(t, g, top, open) /\ answers' = answers
  <2>1. PICK top \in g.uncontacted : Ask(t, g, top, open) /\ answers' = answers
    BY <1>6
  <2> QED
    BY <1>1, <2>1, AskSeen
<1> QED
  BY <1>1, <1>2, <1>4, <1>5, <1>6

\* A call that joins a finder.
LEMMA JoinSeen ==
    ASSUME Inv, NEW c \in Call, NEW t \in Target, NEW find_value \in BOOLEAN,
           NEW nearest, Find(c, t, find_value, nearest), Finding(t)
    PROVE  Promise!Join(c, t)
<1> DEFINE f == nodes_being_found[t]
           g == [f EXCEPT !.callbacks = @ \cup {c}]
<1>1. f \in Finder
  BY DEF Inv, TypeOK, Finding
<1>2. /\ called[c] = "idle" /\ answers' = answers
      /\ called' = [called EXCEPT ![c] = IF find_value THEN "findValue" ELSE "findNodes"]
      /\ nodes_being_found' = [nodes_being_found EXCEPT ![t] = g]
  BY DEF Find, Joined
<1>3. g \in Finder /\ g.find_value = f.find_value /\ g.callbacks = f.callbacks \cup {c}
  BY <1>1 DEF Finder
<1> HIDE DEF g
<1>4. /\ \A u \in Target : nodes_being_found'[u] = IF u = t THEN g ELSE nodes_being_found[u]
      /\ g # NoFinder
  BY <1>2, <1>3, FinderFound DEF Inv, TypeOK
<1>5. answers[c] = <<>>
  BY <1>2 DEF Inv, CallsTracked
<1>6. CallersOutcome[c] = "idle" /\ CallersFinding[t] = [find_value |-> f.find_value,
                                                        callbacks |-> f.callbacks]
  BY <1>2 DEF CallersOutcome, CallersFinding
<1>7. CallersFinding[t] # NoFinder
  BY <1>1, <1>6, MarkDiffers
<1>8. CallersOutcome' = [CallersOutcome EXCEPT ![c] = "pending"]
  <2>1. \A d \in Call : called'[d] = IF d = c THEN IF find_value THEN "findValue" ELSE "findNodes"
                                     ELSE called[d]
    BY <1>2 DEF Inv, TypeOK
  <2>2. \A d \in Call : CallersOutcome'[d] = IF d = c THEN "pending" ELSE CallersOutcome[d]
    BY <1>2, <1>5, <2>1 DEF CallersOutcome
  <2> QED
    BY <2>2 DEF CallersOutcome
<1>9. CallersFinding' = [CallersFinding EXCEPT ![t].callbacks = @ \cup {c}]
  <2>1. CallersFinding'[t] = [find_value |-> f.find_value, callbacks |-> f.callbacks \cup {c}]
    BY <1>3, <1>4 DEF CallersFinding, Finding
  <2>2. \A u \in Target \ {t} : CallersFinding'[u] = CallersFinding[u]
    BY <1>4 DEF CallersFinding, Finding
  <2>3. [CallersFinding[t] EXCEPT !.callbacks = @ \cup {c}]
           = [find_value |-> f.find_value, callbacks |-> f.callbacks \cup {c}]
    <3>1. \A r : r = [find_value |-> f.find_value, callbacks |-> f.callbacks] =>
              [r EXCEPT !.callbacks = @ \cup {c}]
                 = [find_value |-> f.find_value, callbacks |-> f.callbacks \cup {c}]
      OBVIOUS
    <3> QED
      BY <1>6, <3>1
  <2> QED
    BY <2>1, <2>2, <2>3 DEF CallersFinding
<1> QED
  BY <1>6, <1>7, <1>8, <1>9 DEF Promise!Join

\* A call that starts a lookup.
LEMMA StartSeen ==
    ASSUME Inv, NEW c \in Call, NEW t \in Target, NEW find_value \in BOOLEAN,
           NEW nearest \in Nearest, Find(c, t, find_value, nearest), ~Finding(t)
    PROVE  Promise!Start(c, t, find_value) \/ Promise!StartAndEnd(c, t, find_value)
<1> DEFINE f == [find_value |-> find_value, callbacks |-> {c}, waiting |-> 0,
                 uncontacted |-> {}, contacted |-> {}, seen |-> {}, id |-> c]
<1>1. /\ f \in Finder /\ f.waiting = 0 /\ f.callbacks = {c} /\ f.find_value = find_value
  BY DEF Finder
<1>2. /\ called[c] = "idle" /\ Step(t, f, nearest, requests)
      /\ called' = [called EXCEPT ![c] = IF find_value THEN "findValue" ELSE "findNodes"]
  BY DEF Find
<1> HIDE DEF f
<1>3. answers[c] = <<>> /\ called'[c] # "idle"
      /\ \A d \in Call \ {c} : called'[d] = called[d]
  BY <1>2 DEF Inv, CallsTracked, TypeOK
<1>4. nearest \in SUBSET Node
  BY DEF Nearest
<1>5. Waiting(t, find_value, {c}) \/ Ended(t, EndWithout(find_value), {c})
  BY <1>1, <1>2, <1>3, <1>4, StepSeen
<1>6. CallersOutcome[c] = "idle" /\ CallersFinding[t] = NoFinder
  BY <1>2 DEF CallersOutcome, CallersFinding
<1>7. [CallersFinding EXCEPT ![t] = NoFinder] = CallersFinding
  BY <1>6 DEF CallersFinding
<1>8. \A o : [d \in Call |-> IF d \in {c} THEN o ELSE CallersOutcome[d]]
              = [CallersOutcome EXCEPT ![c] = o]
  BY DEF CallersOutcome
<1> QED
  BY <1>5, <1>6, <1>7, <1>8 DEF Waiting, Ended, EndWithout, Promise!Start, Promise!StartAndEnd

\* Before the answer of its request, a finder is a lookup of pending calls.
LEMMA AnsweredSeen ==
    ASSUME Inv, NEW r \in requests, NEW t, t = r.target, NEW f, f = nodes_being_found[t]
    PROVE  /\ CallersFinding[t] = [find_value |-> f.find_value, callbacks |-> f.callbacks]
           /\ CallersFinding[t] # NoFinder /\ r.find_value = f.find_value
           /\ \A c \in f.callbacks : c \in Call /\ called[c] # "idle" /\ answers[c] = <<>>
           /\ \A c \in f.callbacks : CallersOutcome[c] = "pending"
<1>1. /\ t \in Target /\ Finding(t) /\ f \in Finder /\ RequestsFor(t) = {r}
      /\ \A c \in Call : c \in f.callbacks => called[c] # "idle" /\ answers[c] = <<>>
  BY Answered
<1>2. r.find_value = f.find_value
  BY <1>1 DEF Inv, OneOutstanding
<1>3. CallersFinding[t] = [find_value |-> f.find_value, callbacks |-> f.callbacks]
  BY <1>1 DEF CallersFinding
<1>4. f.callbacks \subseteq Call
  BY <1>1 DEF Finder
<1> QED
  BY <1>1, <1>2, <1>3, <1>4, MarkDiffers DEF CallersOutcome

\* A lookup whose callers all get an outcome that its kind allows has ended.
LEMMA EndSeen ==
    ASSUME NEW t \in Target, NEW f, NEW kind,
           CallersFinding[t] = [find_value |-> f.find_value, callbacks |-> f.callbacks],
           CallersFinding[t] # NoFinder,
           kind \in IF f.find_value THEN {"value", "failure"} ELSE {"nodes"},
           Ended(t, kind, f.callbacks)
    PROVE  Promise!End(t)
<1>1. /\ CallersFinding[t].callbacks = f.callbacks
      /\ CallersFinding[t].find_value = f.find_value
  OBVIOUS
<1>2. kind \in Promise!Kinds(CallersFinding[t].find_value)
  BY <1>1 DEF Promise!Kinds
<1> QED
  BY <1>1, <1>2 DEF Ended, Promise!End

\* The callers of a finder that goes on wait on.
LEMMA StepRefines ==
    ASSUME Inv, NEW r \in requests, NEW t, t = r.target, NEW f, f = nodes_being_found[t],
           NEW g \in Finder, g.waiting = 0, g.callbacks = f.callbacks,
           g.find_value = f.find_value,
           NEW new \in SUBSET Node, Step(t, g, new, requests \ {r}), called' = called
    PROVE  Promise!End(t) \/ UNCHANGED Promise!vars
<1>1. t \in Target /\ f \in Finder
  BY Answered
<1>2. /\ CallersFinding[t] = [find_value |-> f.find_value, callbacks |-> f.callbacks]
      /\ CallersFinding[t] # NoFinder
      /\ \A c \in f.callbacks : c \in Call /\ called[c] # "idle" /\ answers[c] = <<>>
      /\ \A c \in f.callbacks : CallersOutcome[c] = "pending"
  BY AnsweredSeen
<1>3. Waiting(t, f.find_value, f.callbacks) \/ Ended(t, EndWithout(f.find_value), f.callbacks)
  BY <1>1, <1>2, StepSeen
<1>4. CASE Waiting(t, f.find_value, f.callbacks)
  <2>1. CallersFinding' = CallersFinding
    BY <1>2, <1>4 DEF CallersFinding, Waiting
  <2>2. CallersOutcome' = CallersOutcome
    BY <1>2, <1>4 DEF CallersOutcome, Waiting
  <2> QED
    BY <2>1, <2>2 DEF Promise!vars
<1>5. CASE Ended(t, EndWithout(f.find_value), f.callbacks)
  <2>1. EndWithout(f.find_value) \in IF f.find_value THEN {"value", "failure"} ELSE {"nodes"}
    BY DEF EndWithout
  <2> QED
    BY <1>1, <1>2, <1>5, <2>1, EndSeen
<1> QED
  BY <1>3, <1>4, <1>5

LEMMA ResolveRefines ==
    ASSUME Inv, NEW r \in requests, Resolve(r)
    PROVE  Promise!End(r.target) \/ UNCHANGED Promise!vars
<1> DEFINE t == r.target
           f == nodes_being_found[t]
<1>1. t \in Target /\ r.top \in Node /\ Finding(t) /\ f \in Finder /\ f.waiting - 1 = 0
  BY Answered
<1>2. ASSUME NEW nearest \in Nearest, Reply(r, nearest)
      PROVE  Promise!End(t) \/ UNCHANGED Promise!vars
  <2> DEFINE g == [f EXCEPT !.contacted = @ \cup {r.top}, !.waiting = 0]
  <2>1. Step(t, g, nearest, requests \ {r}) /\ called' = called
    BY <1>1, <1>2 DEF Reply, Ignore
  <2>2. g \in Finder /\ g.waiting = 0 /\ g.callbacks = f.callbacks /\ g.find_value = f.find_value
    BY <1>1 DEF Finder
  <2>3. nearest \in SUBSET Node
    BY DEF Nearest
  <2> HIDE DEF g, f, t
  <2> QED
    BY <2>1, <2>2, <2>3, StepRefines DEF f, t
<1>3. CASE Timeout(r)
  <2> DEFINE g == [f EXCEPT !.waiting = 0]
  <2>1. Step(t, g, {}, requests \ {r}) /\ called' = called
    BY <1>1, <1>3 DEF Timeout, Ignore
  <2>2. g \in Finder /\ g.waiting = 0 /\ g.callbacks = f.callbacks /\ g.find_value = f.find_value
    BY <1>1 DEF Finder
  <2> HIDE DEF g, f, t
  <2> QED
    BY <2>1, <2>2, StepRefines DEF f, t
<1>4. CASE ReplyWithValue(r)
  <2>1. r.find_value /\ Finish(t, f, "value", {}) /\ called' = called
    BY <1>1, <1>4 DEF ReplyWithValue, Ignore
  <2>2. /\ CallersFinding[t] = [find_value |-> f.find_value, callbacks |-> f.callbacks]
        /\ CallersFinding[t] # NoFinder /\ r.find_value = f.find_value
        /\ \A c \in f.callbacks : called[c] # "idle" /\ answers[c] = <<>>
    BY AnsweredSeen
  <2> HIDE DEF f, t
  <2>3. Ended(t, "value", f.callbacks)
    BY <1>1, <2>1, <2>2, FinishSeen
  <2> DEFINE kind == "value"
  <2>4. kind \in IF f.find_value THEN {"value", "failure"} ELSE {"nodes"}
    BY <2>1, <2>2
  <2>5. Ended(t, kind, f.callbacks)
    BY <2>3
  <2> HIDE DEF kind
  <2> QED
    BY <1>1, <2>2, <2>4, <2>5, EndSeen DEF t
<1> QED
  BY <1>2, <1>3, <1>4 DEF Resolve

LEMMA RefinesInit == Init => Promise!Init
  BY DEF Init, Promise!Init, CallersFinding, CallersOutcome, Finding

LEMMA RefinesStep == Inv /\ [Next]_vars => [Promise!Next]_(Promise!vars)
<1> SUFFICES ASSUME Inv, [Next]_vars
             PROVE  [Promise!Next]_(Promise!vars)
  OBVIOUS
<1>1. CASE UNCHANGED vars
  BY <1>1 DEF vars, Promise!vars, CallersFinding, CallersOutcome, Finding
<1>2. ASSUME NEW c \in Call, NEW t \in Target, NEW find_value \in BOOLEAN,
             NEW nearest \in Nearest, Find(c, t, find_value, nearest)
      PROVE  Promise!Next
  <2>1. Promise!Join(c, t) \/ Promise!Start(c, t, find_value)
           \/ Promise!StartAndEnd(c, t, find_value)
    BY <1>2, JoinSeen, StartSeen
  <2> QED
    BY <2>1 DEF Promise!Next
<1>3. ASSUME NEW r \in requests, Resolve(r)
      PROVE  [Promise!Next]_(Promise!vars)
  <2>1. Promise!End(r.target) \/ UNCHANGED Promise!vars
    BY <1>3, ResolveRefines
  <2>2. r.target \in Target
    BY Answered
  <2> QED
    BY <2>1, <2>2 DEF Promise!Next
<1> QED
  BY <1>1, <1>2, <1>3 DEF Next, Quiet

\* Whatever the node knows and its peers answer, its lookups are to their
\* callers what Query says: in particular a lookup ends as its kind allows,
\* and for all its callers at once.
THEOREM Refinement == Spec => ImplementsQuery
  BY RefinesInit, RefinesStep, InvHolds, PTL DEF Spec, ImplementsQuery, Promise!Spec

-----------------------------------------------------------------------------
(* That a lookup is exhaustive.  What is asked and heard is history, which a *)
(* finder repeats in fields of its own: what it has seen is what it heard    *)
(* of, and what it asked is what it has seen and is not to be contacted any  *)
(* more.  As the nodes to be contacted are those not asked, none is asked    *)
(* twice; when none is left, all that were heard of have been asked.         *)

Asked(c) == {asked[c][j] : j \in DOMAIN asked[c]}
NoneTwice(c) == \A i, j \in DOMAIN asked[c] : i # j => asked[c][i] # asked[c][j]
GotValue(c) == \E i \in DOMAIN answers[c] : answers[c][i].kind = "value"
Owner(t, c) == Finding(t) /\ nodes_being_found[t].id = c

\* A finder belongs to one of the calls it keeps and knows its history.
Remembers(f) ==
    /\ f.id \in f.callbacks
    /\ f.uncontacted \subseteq f.seen
    /\ f.seen = heard[f.id] /\ Asked(f.id) = f.seen \ f.uncontacted

Gathered ==
    /\ \A t \in Target : Finding(t) => Remembers(nodes_being_found[t])
    /\ \A c \in Call :
          /\ NoneTwice(c)
          /\ called[c] = "idle" => asked[c] = <<>> /\ heard[c] = {}
          /\ (\A t \in Target : ~Owner(t, c)) => GotValue(c) \/ Asked(c) = heard[c]

\* Asking a node that was not asked before.
LEMMA AskOnce ==
    ASSUME NEW s \in Seq(Node), NEW top \in Node, \A i \in DOMAIN s : s[i] # top,
           \A i, j \in DOMAIN s : i # j => s[i] # s[j]
    PROVE  LET e == Append(s, top)
           IN  /\ \A i, j \in DOMAIN e : i # j => e[i] # e[j]
               /\ {e[j] : j \in DOMAIN e} = {s[j] : j \in DOMAIN s} \cup {top}
<1> DEFINE e == Append(s, top)
           n == Len(s)
<1>1. /\ e \in Seq(Node) /\ Len(e) = n + 1 /\ n \in Nat
      /\ \A i \in 1..n : e[i] = s[i]
      /\ e[n + 1] = top
  BY AppendProperties
<1>2. DOMAIN s = 1..n /\ DOMAIN e = 1..(n + 1)
  BY <1>1
<1> HIDE DEF e, n
<1>3. 1..(n + 1) = 1..n \cup {n + 1} /\ n + 1 \notin 1..n
  BY <1>1
<1>4. \A i, j \in DOMAIN e : i # j => e[i] # e[j]
  BY <1>1, <1>2, <1>3
<1>5. {e[j] : j \in DOMAIN e} = {s[j] : j \in DOMAIN s} \cup {top}
  BY <1>1, <1>2, <1>3
<1> QED
  BY <1>4, <1>5 DEF e

\* What is learned is to be contacted, and nothing else changes.
LEMMA LearnRemembers ==
    ASSUME NEW f \in Finder, NEW new \in SUBSET Node, NEW done,
           f.uncontacted \subseteq f.seen, done = f.seen \ f.uncontacted
    PROVE  /\ Learn(f, new).uncontacted \subseteq Learn(f, new).seen
           /\ Learn(f, new).seen = f.seen \cup new
           /\ done = Learn(f, new).seen \ Learn(f, new).uncontacted
<1>1. /\ Learn(f, new).seen = f.seen \cup new
      /\ Learn(f, new).uncontacted = f.uncontacted \cup (new \ f.seen)
  BY DEF Learn, Finder
<1> QED
  BY <1>1

\* A step of the lookup of t, which belongs to the call o, concerns only what
\* was gathered of these two; the calls that are answered with it have
\* gathered nothing of their own.
LEMMA GatheredElsewhere ==
    ASSUME TypeOK, Gathered, NEW t \in Target, NEW o \in Call,
           Finding(t) => nodes_being_found[t].id = o,
           \A u \in Target \ {t} : /\ nodes_being_found'[u] = nodes_being_found[u]
                                   /\ ~Owner(u, o),
           \A c \in Call \ {o} : asked'[c] = asked[c] /\ heard'[c] = heard[c],
           \A c \in Call \ {o} : answers'[c] = answers[c] \/ ~GotValue(c),
           \A c \in Call : called'[c] = "idle" => c # o /\ called[c] = "idle",
           NoneTwice(o)',
           Finding(t)' => nodes_being_found'[t].id = o /\ Remembers(nodes_being_found[t])',
           ~Finding(t)' => GotValue(o)' \/ Asked(o)' = heard'[o]
    PROVE  Gathered'
<1>1. ASSUME NEW u \in Target, Finding(u)' PROVE Remembers(nodes_being_found[u])'
  <2>1. CASE u = t
    BY <1>1, <2>1
  <2>2. CASE u # t
    <3> DEFINE f == nodes_being_found[u]
    <3>1. nodes_being_found'[u] = f /\ Finding(u) /\ ~Owner(u, o)
      BY <1>1, <2>2 DEF Finding
    <3>2. f.id # o /\ Remembers(f)
      BY <3>1 DEF Owner, Gathered
    <3>3. f.id \in Call /\ asked'[f.id] = asked[f.id] /\ heard'[f.id] = heard[f.id]
      BY <3>1, <3>2 DEF TypeOK, Finding, Finder
    <3> QED
      BY <3>1, <3>2, <3>3 DEF Remembers, Asked
  <2> QED
    BY <2>1, <2>2
<1>2. ASSUME NEW c \in Call
      PROVE  /\ NoneTwice(c)'
             /\ called'[c] = "idle" => asked'[c] = <<>> /\ heard'[c] = {}
             /\ (\A u \in Target : ~Owner(u, c)') => GotValue(c)' \/ Asked(c)' = heard'[c]
  <2>1. CASE c = o
    BY <2>1 DEF Owner
  <2>2. CASE c # o
    <3>1. NoneTwice(c)' /\ (called'[c] = "idle" => asked'[c] = <<>> /\ heard'[c] = {})
      BY <2>2 DEF Gathered, NoneTwice
    <3>2. ASSUME \A u \in Target : ~Owner(u, c)'
          PROVE  GotValue(c)' \/ Asked(c)' = heard'[c]
      <4>1. \A u \in Target : ~Owner(u, c)
        BY <2>2, <3>2 DEF Owner, Finding
      <4> QED
        BY <2>2, <4>1 DEF Gathered, GotValue, Asked
    <3> QED
      BY <3>1, <3>2
  <2> QED
    BY <2>1, <2>2
<1> QED
  BY <1>1, <1>2 DEF Gathered

\* A finder with nothing to contact that ends has asked all it was told of; one
\* that asks the nearest node left has not asked it before.
LEMMA StepGathers ==
    ASSUME Inv, Gathered, NEW t \in Target, NEW f \in Finder, f.waiting = 0,
           NEW new \in SUBSET Node, NEW open,
           Remembers(f), NoneTwice(f.id),
           Finding(t) => nodes_being_found[t].id = f.id,
           \A u \in Target \ {t} : ~Owner(u, f.id),
           \A c \in f.callbacks : answers[c] = <<>>,
           \A c \in Call : called'[c] = "idle" => c # f.id /\ called[c] = "idle",
           Step(t, f, new, open)
    PROVE  Gathered'
<1>0. PICK o \in Call : o = f.id
  BY DEF Finder
<1> DEFINE g == Learn(f, new)
<1>1. /\ g \in Finder /\ g.waiting = 0 /\ g.callbacks = f.callbacks /\ g.id = o
      /\ o \in Call /\ o \in f.callbacks
  BY <1>0, LearnKeeps DEF Remembers
<1>2. /\ g.uncontacted \subseteq g.seen /\ g.uncontacted \subseteq Node
      /\ g.seen = heard[o] \cup new /\ Asked(o) = g.seen \ g.uncontacted
  BY <1>0, <1>1, LearnRemembers DEF Remembers, Finder
<1>3. heard' = [heard EXCEPT ![o] = @ \cup new]
  BY <1>1 DEF Step
<1>4. heard'[o] = g.seen /\ \A c \in Call \ {o} : heard'[c] = heard[c]
  BY <1>1, <1>2, <1>3 DEF Inv, TypeOK
<1>5. \/ /\ g.uncontacted = {} /\ asked' = asked
         /\ \E kind, nodes : Finish(t, g, kind, nodes)
      \/ \E top \in g.uncontacted : Ask(t, g, top, open) /\ answers' = answers
  <2>1. \/ /\ g.uncontacted = {} /\ asked' = asked
           /\ IF g.find_value THEN Finish(t, g, "failure", {})
                              ELSE Finish(t, g, "nodes", g.contacted)
        \/ \E top \in g.uncontacted : Ask(t, g, top, open) /\ answers' = answers
    BY <1>1 DEF Step
  <2> HIDE DEF g
  <2> QED
    BY <2>1
<1> HIDE DEF g
<1>6. \A c \in f.callbacks : ~GotValue(c)
  BY DEF GotValue
<1>7. ASSUME g.uncontacted = {}, asked' = asked, NEW kind, NEW nodes, Finish(t, g, kind, nodes)
      PROVE  Gathered'
  <2>1. /\ ~Finding(t)' /\ \A u \in Target \ {t} : nodes_being_found'[u] = nodes_being_found[u]
        /\ \A c \in Call \ f.callbacks : answers'[c] = answers[c]
    BY <1>1, <1>7 DEF Finish, Finding, Inv, TypeOK
  <2>2. NoneTwice(o)' /\ Asked(o)' = heard'[o]
    BY <1>0, <1>2, <1>4, <1>7 DEF NoneTwice, Asked
  <2> QED
    BY <1>0, <1>1, <1>4, <1>6, <1>7, <2>1, <2>2, GatheredElsewhere DEF Inv
<1>8. ASSUME NEW top \in g.uncontacted, Ask(t, g, top, open), answers' = answers
      PROVE  Gathered'
  <2>1. /\ nodes_being_found'[t] = [g EXCEPT !.uncontacted = @ \ {top}, !.waiting = @ + 1]
        /\ \A u \in Target \ {t} : nodes_being_found'[u] = nodes_being_found[u]
        /\ asked'[o] = Append(asked[o], top)
        /\ \A c \in Call \ {o} : asked'[c] = asked[c]
    BY <1>1, <1>8 DEF Ask, Inv, TypeOK
  <2>2. /\ top \in Node /\ asked[o] \in Seq(Node)
        /\ \A i \in DOMAIN asked[o] : asked[o][i] # top
        /\ \A i, j \in DOMAIN asked[o] : i # j => asked[o][i] # asked[o][j]
    BY <1>0, <1>1, <1>2, <1>8 DEF Inv, TypeOK, Asked, NoneTwice
  <2> DEFINE e == Append(asked[o], top)
  <2>3. /\ \A i, j \in DOMAIN e : i # j => e[i] # e[j]
        /\ {e[j] : j \in DOMAIN e} = Asked(o) \cup {top}
    BY <2>2, AskOnce DEF Asked
  <2> HIDE DEF e
  <2>6. asked'[o] = e
    BY <2>1 DEF e
  <2>7. NoneTwice(o)' /\ Asked(o)' = Asked(o) \cup {top}
    BY <2>3, <2>6 DEF NoneTwice, Asked
  <2>4. Remembers(nodes_being_found[t])' /\ nodes_being_found'[t].id = o
    <3>1. /\ nodes_being_found'[t].id = o /\ nodes_being_found'[t].callbacks = f.callbacks
          /\ nodes_being_found'[t].seen = g.seen
          /\ nodes_being_found'[t].uncontacted = g.uncontacted \ {top}
      BY <1>1, <2>1 DEF Finder
    <3> QED
      BY <1>0, <1>1, <1>2, <1>4, <1>8, <2>7, <3>1 DEF Remembers
  <2>5. Finding(t)'
    <3>1. g.waiting + 1 \in Nat
      BY <1>1
    <3>2. [g EXCEPT !.uncontacted = @ \ {top}, !.waiting = @ + 1] \in Finder
      BY <1>1, <3>1 DEF Finder
    <3> QED
      BY <2>1, <3>2, FinderFound DEF Finding
  <2>8. /\ Finding(t) => nodes_being_found[t].id = o
        /\ \A u \in Target \ {t} : ~Owner(u, o)
        /\ \A c \in Call : called'[c] = "idle" => c # o /\ called[c] = "idle"
        /\ \A c \in Call \ {o} : answers'[c] = answers[c] \/ ~GotValue(c)
        /\ \A c \in Call \ {o} : asked'[c] = asked[c] /\ heard'[c] = heard[c]
    BY <1>0, <1>4, <1>8, <2>1
  <2>9. /\ NoneTwice(o)'
        /\ Finding(t)' => nodes_being_found'[t].id = o /\ Remembers(nodes_being_found[t])'
        /\ ~Finding(t)' => GotValue(o)' \/ Asked(o)' = heard'[o]
        /\ \A u \in Target \ {t} : nodes_being_found'[u] = nodes_being_found[u]
    BY <2>1, <2>4, <2>5, <2>7
  <2> QED
    BY <2>8, <2>9, GatheredElsewhere DEF Inv
<1> QED
  BY <1>5, <1>7, <1>8

\* A call that joins a finder adds nothing to what it knows.
LEMMA JoinGathers ==
    ASSUME Inv, Gathered, NEW c \in Call, NEW t \in Target, NEW find_value \in BOOLEAN,
           NEW nearest \in Nearest, Find(c, t, find_value, nearest), Finding(t)
    PROVE  Gathered'
<1> DEFINE f == nodes_being_found[t]
           g == [f EXCEPT !.callbacks = @ \cup {c}]
<1>1. /\ f \in Finder /\ nodes_being_found' = [nodes_being_found EXCEPT ![t] = g]
      /\ called[c] = "idle" /\ UNCHANGED <<answers, asked, heard>>
      /\ called' = [called EXCEPT ![c] = IF find_value THEN "findValue" ELSE "findNodes"]
  BY DEF Find, Joined, Inv, TypeOK, Finding
<1>2. /\ g.id = f.id /\ g.callbacks = f.callbacks \cup {c} /\ g.seen = f.seen
      /\ g.uncontacted = f.uncontacted /\ f.id \in Call
  BY <1>1 DEF Finder
<1>3. nodes_being_found'[t] = g
      /\ \A u \in Target \ {t} : nodes_being_found'[u] = nodes_being_found[u]
  BY <1>1 DEF Inv, TypeOK
<1>4. Remembers(g) /\ Remembers(f)
  BY <1>2 DEF Gathered, Remembers
<1>5. called[f.id] # "idle" /\ \A u \in Target \ {t} : ~Owner(u, f.id)
  <2>1. HeldBy(t, f.id)
    BY <1>4 DEF Remembers, HeldBy
  <2>2. \A u \in Target : Owner(u, f.id) => HeldBy(u, f.id)
    BY DEF Owner, HeldBy, Gathered, Remembers
  <2> QED
    BY <1>2, <2>1, <2>2 DEF Inv, CallsTracked
<1>6. \A d \in Call : called'[d] = "idle" => called[d] = "idle" /\ d # f.id
  BY <1>1, <1>5 DEF Inv, TypeOK
<1>7. PICK o \in Call : o = f.id
  BY <1>2
<1>8. NoneTwice(o)'
  BY <1>1 DEF Gathered, NoneTwice
<1>9. Finding(t)'
  <2>1. g \in Finder
    BY <1>1, <1>2 DEF Finder
  <2> QED
    BY <1>3, <2>1, FinderFound DEF Finding
<1> HIDE DEF f, g
<1>10. Remembers(nodes_being_found[t])'
  BY <1>1, <1>3, <1>4 DEF Remembers, Asked
<1> QED
  BY <1>1, <1>2, <1>3, <1>5, <1>6, <1>7, <1>8, <1>9, <1>10, GatheredElsewhere DEF Inv, f

\* A new finder knows nothing, as does the call it belongs to.
LEMMA StartGathers ==
    ASSUME Inv, Gathered, NEW c \in Call, NEW t \in Target, NEW find_value \in BOOLEAN,
           NEW nearest \in Nearest, Find(c, t, find_value, nearest), ~Finding(t)
    PROVE  Gathered'
<1> DEFINE f == [find_value |-> find_value, callbacks |-> {c}, waiting |-> 0,
                 uncontacted |-> {}, contacted |-> {}, seen |-> {}, id |-> c]
<1>1. /\ f \in Finder /\ f.waiting = 0 /\ f.callbacks = {c} /\ f.id = c
      /\ f.seen = {} /\ f.uncontacted = {}
  BY DEF Finder
<1>2. Step(t, f, nearest, requests) /\ nearest \subseteq Node
  BY DEF Find, Nearest
<1> HIDE DEF f
<1>3. called[c] = "idle" /\ \A d \in Call : called'[d] = "idle" => d # c /\ called[d] = "idle"
  BY DEF Find, Inv, TypeOK
<1>4. asked[c] = <<>> /\ heard[c] = {} /\ answers[c] = <<>> /\ NoneTwice(c)
  BY <1>3 DEF Gathered, Inv, CallsTracked
<1>5. Asked(c) = {}
  BY <1>4 DEF Asked
<1>6. \A u \in Target : ~Owner(u, c)
  <2>1. \A u \in Target : Owner(u, c) => HeldBy(u, c)
    BY DEF Owner, HeldBy, Gathered, Remembers
  <2> QED
    BY <1>3, <2>1 DEF Inv, CallsTracked
<1> QED
  BY <1>1, <1>2, <1>3, <1>4, <1>5, <1>6, StepGathers DEF Remembers

\* What the callback of a request finds.
LEMMA AnsweredGathers ==
    ASSUME Inv, Gathered, NEW r \in requests
    PROVE  LET f == nodes_being_found[r.target]
           IN  /\ Remembers(f) /\ NoneTwice(f.id)
               /\ \A u \in Target \ {r.target} : ~Owner(u, f.id)
               /\ \A c \in f.callbacks : answers[c] = <<>> /\ called[c] # "idle"
<1> DEFINE t == r.target
           f == nodes_being_found[t]
<1>1. /\ t \in Target /\ Finding(t) /\ f \in Finder
      /\ \A c \in Call : c \in f.callbacks =>
             /\ called[c] # "idle" /\ answers[c] = <<>>
             /\ \A u \in Target \ {t} : ~HeldBy(u, c)
  BY Answered
<1>2. Remembers(f) /\ f.callbacks \subseteq Call /\ f.id \in Call
  BY <1>1 DEF Gathered, Finder
<1>3. \A u \in Target : Owner(u, f.id) => HeldBy(u, f.id)
  BY DEF Owner, HeldBy, Gathered, Remembers
<1> QED
  BY <1>1, <1>2, <1>3 DEF Remembers, Gathered

LEMMA ResolveGathers ==
    ASSUME Inv, Gathered, NEW r \in requests, Resolve(r)
    PROVE  Gathered'
<1> DEFINE t == r.target
           f == nodes_being_found[t]
<1>1. t \in Target /\ r.top \in Node /\ Finding(t) /\ f \in Finder /\ f.waiting = 1
  BY Answered
<1>2. /\ Remembers(f) /\ NoneTwice(f.id)
      /\ \A u \in Target \ {t} : ~Owner(u, f.id)
      /\ \A c \in f.callbacks : answers[c] = <<>> /\ called[c] # "idle"
  BY AnsweredGathers
<1>3. ASSUME NEW g \in Finder, g.waiting = 0, g.callbacks = f.callbacks, g.id = f.id,
             g.seen = f.seen, g.uncontacted = f.uncontacted,
             NEW new \in SUBSET Node, Step(t, g, new, requests \ {r}), called' = called
      PROVE  Gathered'
  <2>1. Remembers(g) /\ f.id \in f.callbacks
    BY <1>2, <1>3 DEF Remembers
  <2> QED
    BY <1>1, <1>2, <1>3, <2>1, StepGathers
<1>4. ASSUME NEW nearest \in Nearest, Reply(r, nearest) PROVE Gathered'
  <2> DEFINE g == [f EXCEPT !.contacted = @ \cup {r.top}, !.waiting = 0]
  <2>0. f.waiting - 1 = 0
    BY <1>1
  <2>1. /\ g \in Finder /\ g.waiting = 0 /\ g.callbacks = f.callbacks /\ g.id = f.id
        /\ g.seen = f.seen /\ g.uncontacted = f.uncontacted
    BY <1>1 DEF Finder
  <2>2. Step(t, g, nearest, requests \ {r}) /\ called' = called /\ nearest \subseteq Node
    BY <1>1, <1>4, <2>0 DEF Reply, Ignore, Nearest
  <2> HIDE DEF g, f, t
  <2> QED
    BY <1>3, <2>1, <2>2
<1>5. ASSUME Timeout(r) PROVE Gathered'
  <2> DEFINE g == [f EXCEPT !.waiting = 0]
  <2>0. f.waiting - 1 = 0
    BY <1>1
  <2>1. /\ g \in Finder /\ g.waiting = 0 /\ g.callbacks = f.callbacks /\ g.id = f.id
        /\ g.seen = f.seen /\ g.uncontacted = f.uncontacted
    BY <1>1 DEF Finder
  <2>2. Step(t, g, {}, requests \ {r}) /\ called' = called
    BY <1>1, <1>5, <2>0 DEF Timeout, Ignore
  <2> HIDE DEF g, f, t
  <2> QED
    BY <1>3, <2>1, <2>2
<1>6. ASSUME ReplyWithValue(r) PROVE Gathered'
  <2>1. /\ Finish(t, f, "value", {})
        /\ called' = called /\ asked' = asked /\ heard' = heard
    BY <1>1, <1>6 DEF ReplyWithValue, Ignore
  <2>2. f.id \in f.callbacks /\ f.callbacks \subseteq Call
    BY <1>1, <1>2 DEF Remembers, Finder
  <2> HIDE DEF f, t
  <2>o. PICK o \in Call : o = f.id
    BY <2>2
  <2>3. /\ ~Finding(t)' /\ \A u \in Target \ {t} : nodes_being_found'[u] = nodes_being_found[u]
        /\ \A c \in Call \ f.callbacks : answers'[c] = answers[c]
        /\ answers'[o] = Append(answers[o], [kind |-> "value", nodes |-> {}])
    BY <1>1, <2>1, <2>2, <2>o DEF Finish, Finding, Inv, TypeOK
  <2> DEFINE a == [kind |-> "value", nodes |-> {}]
  <2>4. GotValue(o)'
    <3>1. a \in Answer /\ a.kind = "value"
      BY DEF Answer
    <3> HIDE DEF a
    <3>2. answers[o] = <<>> /\ answers[o] \in Seq(Answer) /\ answers'[o] = Append(answers[o], a)
      BY <1>2, <2>2, <2>3, <2>o DEF a, Inv, TypeOK
    <3>3. Len(answers[o]) = 0
      BY <3>2, EmptySeq
    <3>4. Len(answers'[o]) = 1 /\ answers'[o][1] = a /\ answers'[o] \in Seq(Answer)
      BY <3>1, <3>2, <3>3, AppendProperties
    <3> QED
      BY <3>1, <3>4 DEF GotValue
  <2>5. NoneTwice(o)'
    BY <1>2, <2>1, <2>o DEF NoneTwice
  <2>6. \A c \in f.callbacks : ~GotValue(c)
    BY <1>2 DEF GotValue
  <2>7. Finding(t) => nodes_being_found[t].id = o
    BY <2>o DEF f
  <2> QED
    BY <1>1, <1>2, <2>1, <2>2, <2>o, <2>3, <2>4, <2>5, <2>6, <2>7, GatheredElsewhere DEF Inv
<1> QED
  BY <1>4, <1>5, <1>6 DEF Resolve

LEMMA InitGathers == Init => Gathered
<1> SUFFICES ASSUME Init PROVE Gathered
  OBVIOUS
<1>1. \A t \in Target : ~Finding(t)
  BY DEF Init, Finding
<1>2. \A c \in Call : asked[c] = <<>> /\ heard[c] = {}
  BY DEF Init
<1>3. \A c \in Call : NoneTwice(c) /\ Asked(c) = {}
  BY <1>2 DEF NoneTwice, Asked
<1> QED
  BY <1>1, <1>2, <1>3 DEF Gathered

LEMMA NextGathers == Inv /\ Gathered /\ [Next]_vars => Gathered'
<1> SUFFICES ASSUME Inv, Gathered, [Next]_vars PROVE Gathered'
  OBVIOUS
<1>1. CASE UNCHANGED vars
  BY <1>1 DEF vars, Gathered, Remembers, NoneTwice, Asked, GotValue, Owner, Finding
<1>2. ASSUME NEW c \in Call, NEW t \in Target, NEW find_value \in BOOLEAN,
             NEW nearest \in Nearest, Find(c, t, find_value, nearest)
      PROVE  Gathered'
  BY <1>2, JoinGathers, StartGathers
<1>3. ASSUME NEW r \in requests, Resolve(r) PROVE Gathered'
  BY <1>3, ResolveGathers
<1> QED
  BY <1>1, <1>2, <1>3 DEF Next, Quiet

\* No node is asked twice by a lookup, and one that ends without a value has
\* asked every node it was told of: for every routing table, every order of
\* answers and failures, and whatever calls join it.
THEOREM LookupsAreExhaustive == Spec => []Exhaustive
<1>1. Inv /\ Gathered => Exhaustive
  <2> SUFFICES ASSUME Inv, Gathered, NEW c \in Call
               PROVE  /\ NoneTwice(c)
                      /\ \A i \in DOMAIN answers[c] : answers[c][i].kind # "value" =>
                            Asked(c) = heard[c]
    BY DEF Exhaustive, NoneTwice, Asked
  <2>1. NoneTwice(c)
    BY DEF Gathered
  <2>2. ASSUME NEW i \in DOMAIN answers[c], answers[c][i].kind # "value"
        PROVE  Asked(c) = heard[c]
    <3>1. answers[c] \in Seq(Answer) /\ Len(answers[c]) <= 1
      BY DEF Inv, TypeOK, CallsTracked
    <3>2. DOMAIN answers[c] = {i} /\ answers[c] # <<>>
      BY <2>2, <3>1
    <3>3. \A t \in Target : ~Owner(t, c)
      <4>1. \A t \in Target : Owner(t, c) => HeldBy(t, c)
        BY DEF Owner, HeldBy, Gathered, Remembers
      <4> QED
        BY <3>2, <4>1 DEF Inv, CallsTracked
    <3> QED
      BY <2>2, <3>2, <3>3 DEF Gathered, GotValue
  <2> QED
    BY <2>1, <2>2
<1>2. Spec => []Gathered
  BY InitGathers, NextGathers, InvHolds, PTL DEF Spec
<1> QED
  BY <1>1, <1>2, InvHolds, PTL
=============================================================================
