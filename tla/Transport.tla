----------------------------- MODULE Transport -----------------------------
(***************************************************************************)
(* The messaging layer of dhtsim: CentralizedNetwork (network.cpp) moving  *)
(* messages between the queues of BaseApplication (base.hpp), and the      *)
(* request/response bookkeeping of BaseApplication::send, handleMessage    *)
(* and tick.  The application above it is KademliaNode, of which this      *)
(* module keeps what the layer can tell: it answers every request at once  *)
(* with a response of the same tag, and may send new messages whenever its *)
(* code runs (in its own tick, or between two ticks of the network).       *)
(*                                                                         *)
(* The program is one thread.  A network tick visits the inhabitants in    *)
(* ascending order of address; the steps below are the iterations of the   *)
(* loops of CentralizedNetwork::tick and BaseApplication::tick.            *)
(***************************************************************************)
EXTENDS Naturals, Sequences, FiniteSets

CONSTANTS
    Address,          \* the addresses getNewAddress can return; 0 is its failure
    Zero,             \* the address of node zero, which is never killed
    Founders,         \* the inhabitants main() adds before the first tick
    Tag,              \* message tags; randomTag always returns an unused one
    NoRecord,         \* no entry for a tag in `callbacks'
    InqueueLimit, OutqueueLimit,
    LinkLimit,        \* CentralizedNetwork::linkLimit, bytes per node and tick
    RequestSize, ReplySize,             \* the sizes of `Message::data'
    Timeout, MaxRetries, BackoffFactor, \* arguments of send, base of backoff
    LastCall,         \* bound: no message is sent by the application later
    MaxReplacements,  \* bound: how often the experiment replaces a node
    MaxTime           \* bound: the number of ticks the main loop performs

ASSUME AddressAssumption ==
    /\ Address \subseteq Nat \ {0}
    /\ Founders \subseteq Address /\ Zero \in Founders
    /\ IsFiniteSet(Address)
ASSUME LimitAssumption ==
    /\ InqueueLimit \in Nat \ {0} /\ OutqueueLimit \in Nat \ {0}
    /\ LinkLimit \in Nat
    /\ RequestSize \subseteq Nat /\ ReplySize \subseteq Nat
ASSUME TimeAssumption ==
    /\ Timeout \in Nat \ {0} /\ MaxRetries \in Nat /\ BackoffFactor \in Nat \ {0}
    /\ LastCall \in Nat /\ MaxReplacements \in Nat /\ MaxTime \in Nat

VARIABLES
    epoch,            \* CentralizedNetwork::epoch
    inhabitants,      \* the keys of CentralizedNetwork::inhabitants
    turn,             \* the inhabitant being visited, 0 between two ticks
    phase,            \* "tick" in app->tick, "flush" in the outbound loop
    transferred,      \* totalLinkTransfer
    replacements,     \* how many nodes were replaced, for the bound
    appEpoch,         \* BaseApplication::epoch of the node at each address
    inqueue, outqueue,
    callbacks,        \* BaseApplication::callbacks
    \* history, read by the properties only:
    status,           \* how each message stands with its sender, see Rpc
    executed,         \* how many times the request of each tag was handled
    issued,           \* who sent the message of each tag, to whom, in which epoch
    dropped           \* tags of which some message was discarded

program == <<epoch, inhabitants, turn, phase, transferred, replacements,
             appEpoch, inqueue, outqueue, callbacks>>
history == <<status, executed, issued, dropped>>
vars == <<program, history>>

NoTurn == 0

Message == [type : {"request", "reply"}, originator : Address,
            destination : Address, tag : Tag, size : RequestSize \cup ReplySize]

Record == [message : Message, timeSent : Nat, nextSend : Nat, retries : Nat]

ASSUME NoRecordAssumption == NoRecord \notin Record

-----------------------------------------------------------------------------
(* Queues and records *)

\* queueIn and queueOut: a message that finds the queue full is discarded.
Push(q, m, limit) == IF Len(q) < limit THEN Append(q, m) ELSE q
Full(q, limit) == Len(q) >= limit

SentMessageOverdue(m, now) ==                                      \* mutant
    [message |-> m, timeSent |-> now, nextSend |-> now, retries |-> 0]
SentMessage(m, now) ==
    [message |-> m, timeSent |-> now, nextSend |-> now + Timeout, retries |-> 0]

NeedsRetry(record) == record.retries < MaxRetries

RetriedUncounted(record, now) ==                                   \* mutant
    [record EXCEPT !.timeSent = now,
                   !.nextSend = now + (record.nextSend - record.timeSent) * BackoffFactor]

\* SentMessage::retry: the interval grows by the backoff factor.
Retried(record, now) ==
    [record EXCEPT !.timeSent = now,
                   !.nextSend = now + (record.nextSend - record.timeSent) * BackoffFactor,
                   !.retries = @ + 1]

ReplyToSelf(m, s) ==                                               \* mutant
    [type |-> "reply", originator |-> m.destination,
     destination |-> m.destination, tag |-> m.tag, size |-> s]
ReplyTo(m, s) ==
    [type |-> "reply", originator |-> m.destination,
     destination |-> m.originator, tag |-> m.tag, size |-> s]

Pending(a) == {t \in Tag : callbacks[a][t] # NoRecord}

OverdueLate(a) ==                                                  \* mutant
    {t \in Pending(a) : appEpoch[a] > callbacks[a][t].nextSend}
Overdue(a) == {t \in Pending(a) : appEpoch[a] >= callbacks[a][t].nextSend}

-----------------------------------------------------------------------------
Init ==
    /\ epoch = 0 /\ inhabitants = Founders
    /\ turn = NoTurn /\ phase = "tick" /\ transferred = 0 /\ replacements = 0
    /\ appEpoch = [a \in Address |-> 0]
    /\ inqueue = [a \in Address |-> <<>>]
    /\ outqueue = [a \in Address |-> <<>>]
    /\ callbacks = [a \in Address |-> [t \in Tag |-> NoRecord]]
    /\ status = [t \in Tag |-> "unused"]
    /\ executed = [t \in Tag |-> 0]
    /\ issued = [t \in Tag |-> [by |-> Zero, to |-> Zero, at |-> 0]]
    /\ dropped = {}

\* BaseApplication::send of a new message, with a callback set (a call) or
\* without (a post).  A message the full outqueue refuses is still recorded.
\* The destination may be the sender itself: a bucket can hold the address of
\* a departed node that the network has assigned again, to this very node.
Send(a, b, t, size, s) ==
    LET m == [type |-> "request", originator |-> a, destination |-> b,
              tag |-> t, size |-> size]
    IN  /\ a \in inhabitants
        /\ \/ turn = NoTurn
           \/ turn = a /\ phase = "tick"
        /\ epoch <= LastCall
        /\ status[t] = "unused"
        /\ outqueue' = [outqueue EXCEPT ![a] = Push(@, m, OutqueueLimit)]
        /\ callbacks' = [callbacks EXCEPT ![a][t] =
                            IF s = "waiting" THEN SentMessage(m, appEpoch[a]) ELSE @]
        /\ status' = [status EXCEPT ![t] = s]
        /\ issued' = [issued EXCEPT ![t] = [by |-> a, to |-> b, at |-> epoch]]
        /\ dropped' = dropped \cup {u \in {t} : Full(outqueue[a], OutqueueLimit)}
        /\ UNCHANGED <<epoch, inhabitants, turn, phase, transferred, replacements,
                       appEpoch, inqueue, executed>>

-----------------------------------------------------------------------------
(* BaseApplication::tick of the node whose turn it is *)

AnswerKeepingRecord(m) ==                                          \* mutant
    /\ callbacks' = callbacks
    /\ status' = IF m.tag \in Pending(turn)
                 THEN [status EXCEPT ![m.tag] = "success"] ELSE status

AnswerBySender(m) ==                                               \* mutant
    LET matching == {t \in Pending(turn) :
                        callbacks[turn][t].message.destination = m.originator}
    IN  /\ callbacks' = [callbacks EXCEPT ![turn] =
                            [t \in Tag |-> IF t \in matching THEN NoRecord ELSE @[t]]]
        /\ status' = [t \in Tag |-> IF t \in matching THEN "success" ELSE status[t]]

\* What handleMessage of the base class does first: a message whose tag is in
\* `callbacks' is taken for the response, and the record is erased.
Answer(m) ==
    /\ callbacks' = [callbacks EXCEPT ![turn][m.tag] = NoRecord]
    /\ status' = IF m.tag \in Pending(turn)
                 THEN [status EXCEPT ![m.tag] = "success"] ELSE status

HandleRequest(size) ==
    LET m == Head(inqueue[turn])
    IN  /\ turn # NoTurn /\ phase = "tick" /\ inqueue[turn] # <<>>
        /\ m.type = "request"
        /\ inqueue' = [inqueue EXCEPT ![turn] = Tail(@)]
        /\ Answer(m)
        /\ outqueue' = [outqueue EXCEPT ![turn] = Push(@, ReplyTo(m, size), OutqueueLimit)]
        /\ executed' = [executed EXCEPT ![m.tag] = @ + 1]
        /\ dropped' = dropped \cup {u \in {m.tag} : Full(outqueue[turn], OutqueueLimit)}
        /\ UNCHANGED <<epoch, inhabitants, turn, phase, transferred, replacements,
                       appEpoch, issued>>

HandleReply ==
    LET m == Head(inqueue[turn])
    IN  /\ turn # NoTurn /\ phase = "tick" /\ inqueue[turn] # <<>>
        /\ m.type = "reply"
        /\ inqueue' = [inqueue EXCEPT ![turn] = Tail(@)]
        /\ Answer(m)
        /\ UNCHANGED <<epoch, inhabitants, turn, phase, transferred, replacements,
                       appEpoch, outqueue, executed, issued, dropped>>

\* The loop over `callbacks' starts when the inqueue is drained.  The map is
\* ordered by tag and tags are random, so any overdue record may come first.
Scanning(t) ==
    /\ turn # NoTurn /\ phase = "tick" /\ inqueue[turn] = <<>>
    /\ t \in Overdue(turn)

AttemptRetry(t) ==
    LET record == callbacks[turn][t]
    IN  /\ Scanning(t)
        /\ NeedsRetry(record)
        /\ outqueue' = [outqueue EXCEPT ![turn] = Push(@, record.message, OutqueueLimit)]
        /\ callbacks' = [callbacks EXCEPT ![turn][t] = Retried(@, appEpoch[turn])]
        /\ dropped' = dropped \cup {u \in {t} : Full(outqueue[turn], OutqueueLimit)}
        /\ UNCHANGED <<epoch, inhabitants, turn, phase, transferred, replacements,
                       appEpoch, inqueue, status, executed, issued>>

GiveUp(t) ==
    /\ Scanning(t)
    /\ ~NeedsRetry(callbacks[turn][t])
    /\ callbacks' = [callbacks EXCEPT ![turn][t] = NoRecord]
    /\ status' = [status EXCEPT ![t] = "failure"]
    /\ UNCHANGED <<epoch, inhabitants, turn, phase, transferred, replacements,
                   appEpoch, inqueue, outqueue, executed, issued, dropped>>

\* app->tick returns when nothing is left to handle and nothing is overdue.
EndAppTick ==
    /\ turn # NoTurn /\ phase = "tick" /\ inqueue[turn] = <<>>
    /\ Overdue(turn) = {}
    /\ phase' = "flush" /\ transferred' = 0
    /\ UNCHANGED <<epoch, inhabitants, turn, replacements, appEpoch, inqueue,
                   outqueue, callbacks, history>>

-----------------------------------------------------------------------------
(* CentralizedNetwork::tick *)

Later == {b \in inhabitants : b > turn}

\* The for loop moves to the next inhabitant and calls its tick; after the
\* last one the epoch ends.
Advance ==
    /\ phase' = "tick"
    /\ \/ /\ Later = {}
          /\ turn' = NoTurn /\ epoch' = epoch + 1
          /\ UNCHANGED appEpoch
       \/ \E b \in Later :
          /\ \A c \in Later : b <= c
          /\ turn' = b
          /\ appEpoch' = [appEpoch EXCEPT ![b] = epoch]
          /\ UNCHANGED epoch

StartTick ==
    /\ turn = NoTurn /\ epoch < MaxTime
    /\ Advance
    /\ UNCHANGED <<inhabitants, transferred, replacements, inqueue, outqueue,
                   callbacks, history>>

Unqueue == outqueue' = [outqueue EXCEPT ![turn] = Tail(@)]

Flushing == turn # NoTurn /\ phase = "flush" /\ outqueue[turn] # <<>>

Oversize(m) == m.size > LinkLimit
ReachesLimit(m) == transferred + m.size >= LinkLimit               \* mutant
Exceeds(m) == transferred + m.size > LinkLimit

\* A message no link can carry is discarded, and ends the flush.
DropOversize ==
    LET m == Head(outqueue[turn])
    IN  /\ Flushing /\ Oversize(m)
        /\ Unqueue /\ Advance
        /\ dropped' = dropped \cup {m.tag}
        /\ UNCHANGED <<inhabitants, transferred, replacements, inqueue, callbacks,
                       status, executed, issued>>

RequeueLosing ==                                                   \* mutant
    LET m == Head(outqueue[turn])
    IN  /\ Flushing /\ ~Oversize(m) /\ Exceeds(m)
        /\ Unqueue /\ Advance
        /\ UNCHANGED <<inhabitants, transferred, replacements, inqueue, callbacks, history>>

RequeueKeepingHead ==                                              \* mutant
    LET m == Head(outqueue[turn])
    IN  /\ Flushing /\ ~Oversize(m) /\ Exceeds(m)
        /\ outqueue' = [outqueue EXCEPT ![turn] = Push(@, m, OutqueueLimit)]
        /\ Advance
        /\ UNCHANGED <<inhabitants, transferred, replacements, inqueue, callbacks, history>>

\* A message beyond this tick's share of the link goes to the back of the
\* queue (app->send without callbacks), and ends the flush.
Requeue ==
    LET m == Head(outqueue[turn])
    IN  /\ Flushing /\ ~Oversize(m) /\ Exceeds(m)
        /\ outqueue' = [outqueue EXCEPT ![turn] = Push(Tail(@), m, OutqueueLimit)]
        /\ Advance
        /\ UNCHANGED <<inhabitants, transferred, replacements, inqueue, callbacks, history>>

\* passAlongMessage: straight into the inqueue of the destination, if there
\* is one and its queue is not full.
PassAlong ==
    LET m == Head(outqueue[turn])
    IN  /\ Flushing /\ ~Oversize(m) /\ ~Exceeds(m)
        /\ Unqueue
        /\ transferred' = transferred + m.size
        /\ IF m.destination \in inhabitants
           THEN inqueue' = [inqueue EXCEPT ![m.destination] = Push(@, m, InqueueLimit)]
           ELSE UNCHANGED inqueue
        /\ dropped' = dropped \cup
              {u \in {m.tag} : \/ m.destination \notin inhabitants
                               \/ Full(inqueue[m.destination], InqueueLimit)}
        /\ UNCHANGED <<epoch, inhabitants, turn, phase, replacements, appEpoch, callbacks,
                       status, executed, issued>>

FlushDone ==
    /\ turn # NoTurn /\ phase = "flush" /\ outqueue[turn] = <<>>
    /\ Advance
    /\ UNCHANGED <<inhabitants, transferred, replacements, inqueue, outqueue,
                   callbacks, history>>

-----------------------------------------------------------------------------
(* ChurnExperiment::run between two ticks *)

Carried(a, t) ==
    \E q \in {inqueue[a], outqueue[a]} : \E i \in DOMAIN q : q[i].tag = t

MortalWithZero == inhabitants \cup {0}                              \* mutant
Mortal == (inhabitants \cup {0}) \ {Zero}

\* die() and remove() of the node at `a', add() of a fresh one.  The address
\* of the new node may be that of the old; 0 means that add() found none, and
\* the network goes on without the new node.  Such a node has the address 0,
\* and when its turn comes to be replaced, remove() finds nothing to remove.
Replace(a, b) ==
    LET joins == {b} \ {0}
        fresh == joins \cup {a}
    IN  /\ turn = NoTurn
        /\ replacements < MaxReplacements
        /\ a \in Mortal
        /\ b \notin inhabitants \ {a}
        /\ inhabitants' = (inhabitants \ {a}) \cup joins
        /\ appEpoch' = [c \in Address |-> IF c \in joins THEN epoch
                                          ELSE IF c = a THEN 0 ELSE appEpoch[c]]
        /\ inqueue' = [c \in Address |-> IF c \in fresh THEN <<>> ELSE inqueue[c]]
        /\ outqueue' = [c \in Address |-> IF c \in fresh THEN <<>> ELSE outqueue[c]]
        /\ callbacks' = [c \in Address |-> IF c \in fresh THEN [t \in Tag |-> NoRecord]
                                           ELSE callbacks[c]]
        /\ replacements' = replacements + 1
        /\ status' = [t \in Tag |-> IF a # 0 /\ t \in Pending(a) THEN "abandoned" ELSE status[t]]
        /\ dropped' = dropped \cup {t \in Tag : a # 0 /\ Carried(a, t)}
        /\ UNCHANGED <<epoch, turn, phase, transferred, executed, issued>>

\* main() returns after its last iteration.
Finished == turn = NoTurn /\ epoch = MaxTime /\ UNCHANGED vars

-----------------------------------------------------------------------------
AppTick == \/ \E size \in ReplySize : HandleRequest(size)
           \/ HandleReply
           \/ \E t \in Tag : AttemptRetry(t) \/ GiveUp(t)
           \/ EndAppTick

Flush == DropOversize \/ Requeue \/ PassAlong \/ FlushDone

NetworkTick == StartTick \/ AppTick \/ Flush

Next == \/ NetworkTick
        \/ \E a \in Address, b \in Address, t \in Tag, size \in RequestSize,
              s \in {"posted", "waiting"} : Send(a, b, t, size, s)
        \/ \E a, b \in Address \cup {0} : Replace(a, b)
        \/ Finished

Spec == Init /\ [][Next]_vars

\* The main loop calls net.tick() until it is done, and the tick runs to its
\* end whatever the applications do.
FairSpec == Spec /\ WF_vars(NetworkTick)

-----------------------------------------------------------------------------
(* Properties *)

\* Every variable has its type.
TypeOK ==
    /\ epoch \in Nat /\ inhabitants \subseteq Address /\ Zero \in inhabitants
    /\ turn \in inhabitants \cup {NoTurn} /\ phase \in {"tick", "flush"}
    /\ transferred \in Nat /\ replacements \in Nat
    /\ appEpoch \in [Address -> Nat]
    /\ inqueue \in [Address -> Seq(Message)]
    /\ outqueue \in [Address -> Seq(Message)]
    /\ callbacks \in [Address -> [Tag -> Record \cup {NoRecord}]]
    /\ status \in [Tag -> {"unused", "posted", "waiting", "success", "failure",
                           "abandoned"}]
    /\ executed \in [Tag -> Nat]
    /\ issued \in [Tag -> [by : Address, to : Address, at : Nat]]
    /\ dropped \subseteq Tag

\* A record is kept for exactly the calls that wait for an answer, by exactly
\* the node that made the call: replies, retries, failures, a node leaving and
\* its address being reused neither orphan a callback nor leave one behind.
PendingIffWaiting ==
    \A t \in Tag, a \in Address :
        t \in Pending(a) <=> status[t] = "waiting" /\ issued[t].by = a

\* A request is handled at most once for the first send and once for each
\* retry, however the messages are requeued and wherever they are delayed.
BoundedExecution == \A t \in Tag : executed[t] <= 1 + MaxRetries

\* How long a call waits after its i-th retry, and from its send on until then,
\* by SentMessage::retry: the interval grows by the backoff factor.
Wait[i \in 0..MaxRetries] == IF i = 0 THEN Timeout ELSE Wait[i - 1] * BackoffFactor
WaitUpTo[i \in 0..MaxRetries] == Wait[i] + (IF i = 0 THEN 0 ELSE WaitUpTo[i - 1])

\* The time after which a call is over.
Patience == WaitUpTo[MaxRetries]

\* Between two ticks no call is older than the timeouts of its sends together.
TimelyResolution ==
    turn = NoTurn =>
        \A t \in Tag : status[t] = "waiting" => epoch <= issued[t].at + Patience

\* Unless a message of it was discarded, what was sent and is not yet answered
\* (or, for a post, not yet handled) is still in the queue of some inhabitant.
NothingLost ==
    \A t \in Tag \ dropped :
        \/ status[t] = "waiting"
        \/ status[t] = "posted" /\ executed[t] = 0
        => \E a \in inhabitants : Carried(a, t)

\* On links that are never saturated, a call fails, or is even retried, only
\* if some message of it was discarded: the timeout is longer than any answer
\* can take, whatever the addresses of the two ends.
NoSpuriousTimeout ==
    \A t \in Tag :
        \/ status[t] = "failure"
        \/ \E a \in Address : t \in Pending(a) /\ callbacks[a][t].retries > 0
        => t \in dropped

\* The layer keeps the promise of Rpc: an answer comes at most once, never
\* changes, and it is a success only if the request was handled.
Promise == INSTANCE Rpc WITH executed <- {t \in Tag : executed[t] > 0}
ImplementsRpc == Promise!Spec

\* Every call is answered or abandoned.
EveryCallEnds == \A t \in Tag : status[t] = "waiting" ~> status[t] # "waiting"

\* Once the applications send nothing new (after LastCall), the layer comes to
\* rest: requeued messages change places but do not circle, one that fills the
\* link exactly is passed on, and replies and retries run out, until all queues
\* are empty for good.  Nothing is said of a link that is kept busy: there the
\* code can overtake a requeued message for ever.
QueuesDrain == <>[](\A a \in Address : inqueue[a] = <<>> /\ outqueue[a] = <<>>)

-----------------------------------------------------------------------------
(* What the documentation says and the code does not do *)

\* README.md: "Every node can send a message to every other node in the same
\* amount of time."  Requests sent in the same epoch have either all or none
\* been handled when the tick of that epoch is over.
EqualLatency ==
    turn = NoTurn =>
        \A t, u \in {v \in Tag : status[v] # "unused" /\ issued[v].by # issued[v].to} :
            issued[t].at = issued[u].at /\ issued[t].at < epoch
            => (executed[t] > 0 <=> executed[u] > 0)

=============================================================================
