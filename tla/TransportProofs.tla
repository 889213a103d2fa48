-------------------------- MODULE TransportProofs --------------------------
(***************************************************************************)
(* Proofs about Transport, for every network, limit and timeout.  The      *)
(* inductive invariant adds to the type of the state that records belong   *)
(* to waiting calls (PendingIffWaiting) and that every message in a queue  *)
(* is sound: its tag was issued, and a reply follows an executed request.  *)
(* The parts after the refinement add to it where messages are on their    *)
(* way to, by when records are due, how many copies of a request there     *)
(* are, and in which tick each message leaves and arrives.                 *)
(***************************************************************************)
EXTENDS Transport, TLAPS, FiniteSetTheorems, Arithmetic

-----------------------------------------------------------------------------
(* Queues *)

\* A queue holds what was pushed or was there; what is refused changes nothing.
LEMMA PushType ==
    ASSUME NEW S, NEW q \in Seq(S), NEW m \in S, NEW limit \in Nat
    PROVE  Push(q, m, limit) \in Seq(S)
BY DEF Push

\* A queue keeps its type when its head is removed.
LEMMA TailType ==
    ASSUME NEW S, NEW q \in Seq(S), q # <<>>
    PROVE  /\ Tail(q) \in Seq(S)
           /\ Head(q) \in S
OBVIOUS

\* A queue over a set is a queue over any larger set.
LEMMA SeqMonotone ==
    ASSUME NEW S, NEW T, S \subseteq T
    PROVE  Seq(S) \subseteq Seq(T)
OBVIOUS

-----------------------------------------------------------------------------
(* Types *)

\* The responses and records the code builds have their types.
LEMMA ReplyType ==
    ASSUME NEW m \in Message, NEW s \in ReplySize
    PROVE  ReplyTo(m, s) \in Message
BY DEF ReplyTo, Message

LEMMA RecordType ==
    ASSUME NEW m \in Message, NEW now \in Nat
    PROVE  /\ SentMessage(m, now) \in Record
           /\ SentMessage(m, now) # NoRecord
           /\ SentMessage(m, now).message = m
BY NoRecordAssumption, TimeAssumption DEF SentMessage, Record

\* A record whose next send is not before its last keeps that order, and its
\* type, when it is retried.
LEMMA RetriedType ==
    ASSUME NEW r \in Record, NEW now \in Nat, r.nextSend >= r.timeSent
    PROVE  /\ Retried(r, now) \in Record
           /\ Retried(r, now) # NoRecord
           /\ Retried(r, now).message = r.message
           /\ Retried(r, now).nextSend >= Retried(r, now).timeSent
<1> DEFINE d == (r.nextSend - r.timeSent) * BackoffFactor
           next == now + d
           count == r.retries + 1
<1>1. r.nextSend - r.timeSent \in Nat /\ count \in Nat
  BY DEF Record
<1>2. d \in Nat
  BY <1>1, TimeAssumption
<1>3. next \in Nat /\ next >= now
  <2> HIDE DEF d
  <2> QED BY <1>2
<1>4. Retried(r, now) = [r EXCEPT !.timeSent = now, !.nextSend = next, !.retries = count]
  BY DEF Retried
<1> HIDE DEF d, next, count
<1>5. /\ Retried(r, now) \in Record
      /\ Retried(r, now).message = r.message
      /\ Retried(r, now).timeSent = now /\ Retried(r, now).nextSend = next
  BY <1>1, <1>3, <1>4 DEF Record
<1> QED
  BY <1>3, <1>5, NoRecordAssumption

-----------------------------------------------------------------------------
\* A record is never due before it was sent: retry subtracts the two times,
\* as unsigned numbers.
Ordered ==
    \A a \in Address, t \in Tag :
        t \in Pending(a) => callbacks[a][t].nextSend >= callbacks[a][t].timeSent

TypeInv == TypeOK /\ Ordered

LEMMA TypeInit == Init => TypeInv
BY AddressAssumption, NoRecordAssumption DEF Init, TypeInv, TypeOK, Ordered, Pending, NoTurn

\* Sending keeps the types.
LEMMA TypeSend ==
    ASSUME TypeInv, NEW a \in Address, NEW b \in Address, NEW t \in Tag,
           NEW size \in RequestSize, NEW s \in {"posted", "waiting"}, Send(a, b, t, size, s)
    PROVE  TypeInv'
<1> DEFINE m == [type |-> "request", originator |-> a, destination |-> b,
                 tag |-> t, size |-> size]
<1>1. m \in Message
  BY DEF Message
<1>2. appEpoch[a] \in Nat
  BY DEF TypeInv, TypeOK
<1>3. /\ SentMessage(m, appEpoch[a]) \in Record
      /\ SentMessage(m, appEpoch[a]).nextSend >= SentMessage(m, appEpoch[a]).timeSent
  BY <1>1, <1>2, RecordType, TimeAssumption DEF SentMessage
<1>4. outqueue' \in [Address -> Seq(Message)]
  <2>1. Push(outqueue[a], m, OutqueueLimit) \in Seq(Message)
    BY <1>1, PushType, LimitAssumption DEF TypeInv, TypeOK
  <2> QED
    BY <2>1 DEF Send, TypeInv, TypeOK
<1>5. callbacks' \in [Address -> [Tag -> Record \cup {NoRecord}]]
  BY <1>3 DEF Send, TypeInv, TypeOK
<1>6. Ordered'
  BY <1>3 DEF Send, TypeInv, TypeOK, Ordered, Pending
<1> QED
  BY <1>4, <1>5, <1>6 DEF Send, TypeInv, TypeOK

\* Handling a message keeps the types.
LEMMA TypeHandle ==
    ASSUME TypeInv, \/ \E size \in ReplySize : HandleRequest(size)
                    \/ HandleReply
    PROVE  TypeInv'
<1> DEFINE m == Head(inqueue[turn])
<1>1. /\ turn \in Address /\ inqueue[turn] \in Seq(Message) /\ inqueue[turn] # <<>>
      /\ inqueue' = [inqueue EXCEPT ![turn] = Tail(@)]
      /\ Answer(m)
      /\ UNCHANGED <<epoch, inhabitants, turn, phase, transferred, replacements,
                     appEpoch, issued>>
  BY DEF HandleRequest, HandleReply, TypeInv, TypeOK, NoTurn
<1>2. m \in Message /\ m.tag \in Tag /\ Tail(inqueue[turn]) \in Seq(Message)
  <2>1. m \in Message /\ Tail(inqueue[turn]) \in Seq(Message)
    BY <1>1, TailType
  <2> QED
    BY <2>1 DEF Message
<1>3. inqueue' \in [Address -> Seq(Message)]
  BY <1>1, <1>2 DEF TypeInv, TypeOK
<1>4. callbacks' \in [Address -> [Tag -> Record \cup {NoRecord}]] /\ Ordered'
  BY <1>1, <1>2 DEF Answer, TypeInv, TypeOK, Ordered, Pending
<1>5. status' \in [Tag -> {"unused", "posted", "waiting", "success", "failure",
                           "abandoned"}]
  BY <1>1, <1>2 DEF Answer, TypeInv, TypeOK
<1>6. ASSUME NEW size \in ReplySize, HandleRequest(size)
      PROVE  /\ outqueue' \in [Address -> Seq(Message)]
             /\ executed' \in [Tag -> Nat]
             /\ dropped' \subseteq Tag
  <2>1. Push(outqueue[turn], ReplyTo(m, size), OutqueueLimit) \in Seq(Message)
    BY <1>1, <1>2, ReplyType, PushType, LimitAssumption DEF TypeInv, TypeOK
  <2>2. outqueue' = [outqueue EXCEPT ![turn] = Push(@, ReplyTo(m, size), OutqueueLimit)]
    BY <1>6 DEF HandleRequest
  <2>3. executed' \in [Tag -> Nat]
    <3> DEFINE n == executed[m.tag] + 1
    <3>1. executed \in [Tag -> Nat] /\ executed[m.tag] \in Nat
      BY <1>2 DEF TypeInv, TypeOK
    <3>2. executed' = [executed EXCEPT ![m.tag] = n] /\ n \in Nat
      BY <1>6, <3>1 DEF HandleRequest
    <3> HIDE DEF n
    <3> QED
      BY <3>1, <3>2 DEF TypeInv, TypeOK
  <2>4. dropped' \subseteq Tag
    BY <1>2, <1>6 DEF HandleRequest, TypeInv, TypeOK
  <2> QED
    BY <2>1, <2>2, <2>3, <2>4 DEF TypeInv, TypeOK
<1>7. ASSUME HandleReply
      PROVE  UNCHANGED <<outqueue, executed, dropped>>
  BY <1>7 DEF HandleReply
<1> QED
  BY <1>1, <1>3, <1>4, <1>5, <1>6, <1>7 DEF TypeInv, TypeOK

\* Retrying and giving up keep the types.
LEMMA TypeScan ==
    ASSUME TypeInv, NEW t \in Tag, AttemptRetry(t) \/ GiveUp(t)
    PROVE  TypeInv'
<1>1. /\ turn \in Address /\ callbacks[turn][t] \in Record
      /\ callbacks[turn][t].nextSend >= callbacks[turn][t].timeSent
      /\ appEpoch[turn] \in Nat
  BY DEF AttemptRetry, GiveUp, Scanning, Overdue, Pending, TypeInv, TypeOK, Ordered, NoTurn
<1>2. CASE AttemptRetry(t)
  <2> DEFINE r == Retried(callbacks[turn][t], appEpoch[turn])
  <2>1. r \in Record /\ r.nextSend >= r.timeSent
    BY <1>1, RetriedType
  <2>2. Push(outqueue[turn], callbacks[turn][t].message, OutqueueLimit) \in Seq(Message)
    BY <1>1, PushType, LimitAssumption DEF TypeInv, TypeOK, Record
  <2>3. callbacks' = [callbacks EXCEPT ![turn][t] = r]
    BY <1>2 DEF AttemptRetry
  <2> HIDE DEF r
  <2>4. callbacks' \in [Address -> [Tag -> Record \cup {NoRecord}]]
    BY <1>1, <2>1, <2>3 DEF TypeInv, TypeOK
  <2>5. Ordered'
    BY <1>1, <2>1, <2>3 DEF TypeInv, TypeOK, Ordered, Pending
  <2>6. outqueue' \in [Address -> Seq(Message)] /\ dropped' \subseteq Tag
    BY <1>1, <1>2, <2>2 DEF AttemptRetry, TypeInv, TypeOK
  <2> QED
    BY <1>2, <2>4, <2>5, <2>6 DEF AttemptRetry, TypeInv, TypeOK
<1>3. CASE GiveUp(t)
  <2>1. callbacks' \in [Address -> [Tag -> Record \cup {NoRecord}]] /\ Ordered'
    BY <1>1, <1>3 DEF GiveUp, TypeInv, TypeOK, Ordered, Pending
  <2> QED
    BY <1>3, <2>1 DEF GiveUp, TypeInv, TypeOK
<1> QED
  BY <1>2, <1>3

\* What the visit of the next inhabitant does to the clocks and the turn.
LEMMA AdvanceEffect ==
    ASSUME TypeInv, Advance, UNCHANGED inhabitants
    PROVE  /\ epoch' \in Nat /\ appEpoch' \in [Address -> Nat]
           /\ turn' \in inhabitants' \cup {NoTurn} /\ phase' = "tick"
<1>1. CASE Later = {}
  BY <1>1 DEF Advance, Later, TypeInv, TypeOK
<1>2. CASE Later # {}
  <2>1. PICK b \in Later : turn' = b /\ appEpoch' = [appEpoch EXCEPT ![b] = epoch]
    BY <1>2 DEF Advance
  <2> QED
    BY <1>2, <2>1 DEF Advance, Later, TypeInv, TypeOK
<1> QED
  BY <1>1, <1>2

\* Draining an outqueue and passing messages along keep the types.
LEMMA TypeFlush ==
    ASSUME TypeInv, Flush
    PROVE  TypeInv'
<1> DEFINE m == Head(outqueue[turn])
<1>1. CASE FlushDone
  BY <1>1, AdvanceEffect DEF FlushDone, TypeInv, TypeOK, Ordered, Pending, history
<1>2. ASSUME Flushing
      PROVE  /\ turn \in Address /\ m \in Message /\ m.tag \in Tag
             /\ Tail(outqueue[turn]) \in Seq(Message)
  <2>1. turn \in Address /\ outqueue[turn] \in Seq(Message) /\ outqueue[turn] # <<>>
    BY <1>2 DEF Flushing, TypeInv, TypeOK, NoTurn
  <2>2. m \in Message /\ Tail(outqueue[turn]) \in Seq(Message)
    BY <2>1, TailType
  <2> QED
    BY <2>1, <2>2 DEF Message
<1>3. CASE DropOversize
  <2>1. Flushing /\ Unqueue /\ dropped' = dropped \cup {m.tag}
    BY <1>3 DEF DropOversize
  <2>2. outqueue' \in [Address -> Seq(Message)] /\ dropped' \subseteq Tag
    BY <1>2, <2>1 DEF Unqueue, TypeInv, TypeOK
  <2> QED
    BY <1>3, <2>2, AdvanceEffect DEF DropOversize, TypeInv, TypeOK, Ordered, Pending
<1>4. CASE Requeue
  <2>1. Flushing /\ outqueue' = [outqueue EXCEPT ![turn] = Push(Tail(@), m, OutqueueLimit)]
    BY <1>4 DEF Requeue
  <2>2. outqueue' \in [Address -> Seq(Message)]
    BY <1>2, <2>1, PushType, LimitAssumption DEF TypeInv, TypeOK
  <2> QED
    BY <1>4, <2>2, AdvanceEffect DEF Requeue, TypeInv, TypeOK, Ordered, Pending, history
<1>5. CASE PassAlong
  <2>1. Flushing /\ Unqueue
    BY <1>5 DEF PassAlong
  <2>2. outqueue' \in [Address -> Seq(Message)]
    BY <1>2, <2>1 DEF Unqueue, TypeInv, TypeOK
  <2>3. inqueue' \in [Address -> Seq(Message)]
    <3>1. m.destination \in Address
      BY <1>2, <2>1 DEF Message
    <3>2. Push(inqueue[m.destination], m, InqueueLimit) \in Seq(Message)
      BY <1>2, <2>1, <3>1, PushType, LimitAssumption DEF TypeInv, TypeOK
    <3> QED
      BY <1>5, <3>1, <3>2 DEF PassAlong, TypeInv, TypeOK
  <2>4. transferred' \in Nat
    <3>1. m.size \in Nat
      BY <1>2, <2>1, LimitAssumption DEF Message
    <3>2. transferred' = transferred + m.size
      BY <1>5 DEF PassAlong
    <3> QED
      BY <3>1, <3>2 DEF TypeInv, TypeOK
  <2>5. dropped' \subseteq Tag
    BY <1>2, <1>5, <2>1 DEF PassAlong, TypeInv, TypeOK
  <2> QED
    BY <1>5, <2>2, <2>3, <2>4, <2>5 DEF PassAlong, TypeInv, TypeOK, Ordered, Pending
<1> QED
  BY <1>1, <1>3, <1>4, <1>5 DEF Flush

\* Replacing a node keeps the types.
LEMMA TypeReplace ==
    ASSUME TypeInv, NEW a \in Address \cup {0}, NEW b \in Address \cup {0}, Replace(a, b)
    PROVE  TypeInv'
<1>1. /\ inhabitants' \subseteq Address /\ Zero \in inhabitants'
      /\ replacements' \in Nat
      /\ appEpoch' \in [Address -> Nat]
  BY DEF Replace, Mortal, TypeInv, TypeOK
<1>2. /\ inqueue' \in [Address -> Seq(Message)]
      /\ outqueue' \in [Address -> Seq(Message)]
  BY DEF Replace, TypeInv, TypeOK
<1>3. callbacks' \in [Address -> [Tag -> Record \cup {NoRecord}]] /\ Ordered'
  BY DEF Replace, TypeInv, TypeOK, Ordered, Pending
<1>4. /\ status' \in [Tag -> {"unused", "posted", "waiting", "success", "failure",
                              "abandoned"}]
      /\ dropped' \subseteq Tag
  BY DEF Replace, TypeInv, TypeOK
<1> QED
  BY <1>1, <1>2, <1>3, <1>4 DEF Replace, TypeInv, TypeOK

LEMMA TypeStep == TypeInv /\ [Next]_vars => TypeInv'
<1> SUFFICES ASSUME TypeInv, [Next]_vars
             PROVE  TypeInv'
  OBVIOUS
<1>1. CASE UNCHANGED vars
  BY <1>1 DEF vars, program, history, TypeInv, TypeOK, Ordered, Pending
<1>2. CASE StartTick
  BY <1>2, AdvanceEffect DEF StartTick, history, TypeInv, TypeOK, Ordered, Pending
<1>3. CASE AppTick
  <2>1. CASE EndAppTick
    BY <2>1 DEF EndAppTick, history, TypeInv, TypeOK, Ordered, Pending
  <2> QED
    BY <1>3, <2>1, TypeHandle, TypeScan DEF AppTick
<1> QED
  BY <1>1, <1>2, <1>3, TypeFlush, TypeSend, TypeReplace DEF Next, NetworkTick, Finished

LEMMA TypeInvariance == Spec => []TypeInv
BY TypeInit, TypeStep, PTL DEF Spec

\* Every variable keeps its type, whatever the constants.
THEOREM TypeCorrect == Spec => []TypeOK
<1>1. TypeInv => TypeOK
  BY DEF TypeInv
<1> QED
  BY <1>1, TypeInvariance, PTL

\* SentMessage::retry subtracts the time of a message's last send from that
\* of its next, as unsigned numbers: the difference never wraps around.
THEOREM RetryNeverWraps == Spec => []Ordered
<1>1. TypeInv => Ordered
  BY DEF TypeInv
<1> QED
  BY <1>1, TypeInvariance, PTL

-----------------------------------------------------------------------------
(* Records and calls *)

\* A node that is not on the network waits for nothing.
AbsentWaitForNothing == \A a \in Address \ inhabitants : Pending(a) = {}

PendingInv == PendingIffWaiting /\ AbsentWaitForNothing

LEMMA PendingInit == Init => PendingInv
BY DEF Init, PendingInv, PendingIffWaiting, AbsentWaitForNothing, Pending

LEMMA PendingStep == TypeInv /\ PendingInv /\ [Next]_vars => PendingInv'
<1> SUFFICES ASSUME TypeInv, PendingInv, [Next]_vars
             PROVE  PendingInv'
  OBVIOUS
<1> USE DEF PendingInv, PendingIffWaiting, AbsentWaitForNothing, Pending
<1>1. CASE UNCHANGED <<callbacks, status, issued, inhabitants>>
  BY <1>1
<1>2. ASSUME NEW a \in Address, NEW b \in Address, NEW t \in Tag,
             NEW size \in RequestSize, NEW s \in {"posted", "waiting"}, Send(a, b, t, size, s)
      PROVE  PendingInv'
  <2> DEFINE m == [type |-> "request", originator |-> a, destination |-> b,
                   tag |-> t, size |-> size]
             r == SentMessage(m, appEpoch[a])
  <2>1. r # NoRecord
    <3>1. m \in Message
      BY DEF Message
    <3> QED
      BY <3>1, RecordType DEF TypeInv, TypeOK
  <2>2. /\ callbacks' = [callbacks EXCEPT ![a][t] = IF s = "waiting" THEN r ELSE @]
        /\ status' = [status EXCEPT ![t] = s]
        /\ issued' = [issued EXCEPT ![t] = [by |-> a, to |-> b, at |-> epoch]]
        /\ a \in inhabitants /\ inhabitants' = inhabitants
        /\ status[t] = "unused"
    BY <1>2 DEF Send
  <2> HIDE DEF r
  <2>3. \A c \in Address : callbacks[c][t] = NoRecord
    BY <2>2
  <2>4. \A c \in Address, u \in Tag :
            callbacks'[c][u] = IF c = a /\ u = t /\ s = "waiting" THEN r ELSE callbacks[c][u]
    BY <2>2 DEF TypeInv, TypeOK
  <2>5. \A u \in Tag : status'[u] = IF u = t THEN s ELSE status[u]
    BY <2>2 DEF TypeInv, TypeOK
  <2>6. \A u \in Tag : issued'[u].by = IF u = t THEN a ELSE issued[u].by
    BY <2>2 DEF TypeInv, TypeOK
  <2> QED
    BY <2>1, <2>2, <2>3, <2>4, <2>5, <2>6
<1>3. ASSUME NEW m \in Message, turn \in Address, Answer(m), UNCHANGED <<issued, inhabitants>>
      PROVE  PendingInv'
  <2>1. m.tag \in Tag
    BY DEF Message
  <2>2. \A c \in Address, u \in Tag :
            callbacks'[c][u] = IF c = turn /\ u = m.tag THEN NoRecord ELSE callbacks[c][u]
    BY <1>3, <2>1 DEF Answer, TypeInv, TypeOK
  <2>3. CASE m.tag \in Pending(turn)
    <3>1. \A u \in Tag : status'[u] = IF u = m.tag THEN "success" ELSE status[u]
      BY <1>3, <2>1, <2>3 DEF Answer, TypeInv, TypeOK
    <3> QED
      BY <1>3, <2>1, <2>2, <2>3, <3>1
  <2>4. CASE m.tag \notin Pending(turn)
    <3>1. status' = status
      BY <1>3, <2>4 DEF Answer
    <3> QED
      BY <1>3, <2>1, <2>2, <2>4, <3>1
  <2> QED
    BY <2>3, <2>4
<1>4. CASE HandleReply \/ \E size \in ReplySize : HandleRequest(size)
  <2>1. /\ turn \in Address /\ inqueue[turn] \in Seq(Message) /\ inqueue[turn] # <<>>
        /\ Answer(Head(inqueue[turn])) /\ UNCHANGED <<issued, inhabitants>>
    BY <1>4 DEF HandleReply, HandleRequest, TypeInv, TypeOK, NoTurn
  <2> QED
    BY <1>3, <2>1, TailType
<1>5. ASSUME NEW t \in Tag, AttemptRetry(t)
      PROVE  PendingInv'
  <2> DEFINE r == Retried(callbacks[turn][t], appEpoch[turn])
  <2>1. /\ turn \in Address /\ callbacks[turn][t] \in Record /\ appEpoch[turn] \in Nat
        /\ callbacks[turn][t].nextSend >= callbacks[turn][t].timeSent
    BY <1>5 DEF AttemptRetry, Scanning, Overdue, TypeInv, TypeOK, Ordered, NoTurn
  <2>2. r # NoRecord /\ callbacks[turn][t] # NoRecord
    BY <2>1, RetriedType, NoRecordAssumption
  <2>3. callbacks' = [callbacks EXCEPT ![turn][t] = r] /\ UNCHANGED <<status, issued, inhabitants>>
    BY <1>5 DEF AttemptRetry
  <2> HIDE DEF r
  <2>4. \A c \in Address, u \in Tag :
            callbacks'[c][u] = IF c = turn /\ u = t THEN r ELSE callbacks[c][u]
    BY <2>1, <2>3 DEF TypeInv, TypeOK
  <2> QED
    BY <2>2, <2>3, <2>4
<1>6. ASSUME NEW t \in Tag, GiveUp(t)
      PROVE  PendingInv'
  <2>1. turn \in Address /\ callbacks[turn][t] # NoRecord
    BY <1>6 DEF GiveUp, Scanning, Overdue, TypeInv, TypeOK, NoTurn
  <2>2. /\ callbacks' = [callbacks EXCEPT ![turn][t] = NoRecord]
        /\ status' = [status EXCEPT ![t] = "failure"]
        /\ UNCHANGED <<issued, inhabitants>>
    BY <1>6 DEF GiveUp
  <2>3. \A c \in Address, u \in Tag :
            callbacks'[c][u] = IF c = turn /\ u = t THEN NoRecord ELSE callbacks[c][u]
    BY <2>1, <2>2 DEF TypeInv, TypeOK
  <2>4. \A u \in Tag : status'[u] = IF u = t THEN "failure" ELSE status[u]
    BY <2>2 DEF TypeInv, TypeOK
  <2> QED
    BY <2>1, <2>2, <2>3, <2>4
<1>7. ASSUME NEW a \in Address \cup {0}, NEW b \in Address \cup {0}, Replace(a, b)
      PROVE  PendingInv'
  <2> DEFINE fresh == ({b} \ {0}) \cup {a}
  <2>1. \A c \in Address \ fresh : callbacks'[c] = callbacks[c]
    BY <1>7 DEF Replace
  <2>2. \A c \in Address \cap fresh, t \in Tag : callbacks'[c][t] = NoRecord
    BY <1>7 DEF Replace
  <2>3. /\ inhabitants' = (inhabitants \ {a}) \cup ({b} \ {0}) /\ issued' = issued
        /\ \A t \in Tag : status'[t] = IF a # 0 /\ t \in Pending(a) THEN "abandoned" ELSE status[t]
        /\ b \notin inhabitants \ {a}
    BY <1>7 DEF Replace
  <2>4. \A c \in Address \cap fresh, t \in Tag :
            callbacks[c][t] # NoRecord => a # 0 /\ t \in Pending(a)
    BY <2>3, AddressAssumption
  <2> QED
    BY <2>1, <2>2, <2>3, <2>4
<1>8. CASE StartTick \/ EndAppTick \/ Flush
  <2>1. UNCHANGED <<callbacks, status, issued, inhabitants>>
    BY <1>8 DEF StartTick, EndAppTick, Flush, DropOversize, Requeue, PassAlong, FlushDone,
                history
  <2> QED
    BY <1>1, <2>1
<1>9. CASE UNCHANGED vars
  BY <1>1, <1>9 DEF vars, program, history
<1> QED
  BY <1>2, <1>4, <1>5, <1>6, <1>7, <1>8, <1>9 DEF Next, NetworkTick, AppTick, Finished

LEMMA PendingInvariance == Spec => [](TypeInv /\ PendingInv)
BY TypeInit, TypeStep, PendingInit, PendingStep, PTL DEF Spec

\* The records are those of the calls that wait, each at the node that called.
THEOREM PendingCorrect == Spec => []PendingIffWaiting
<1>1. PendingInv => PendingIffWaiting
  BY DEF PendingInv
<1> QED
  BY <1>1, PendingInvariance, PTL

-----------------------------------------------------------------------------
(* Where messages come from *)

\* A message that may be in a queue: it was sent, and if it is a reply, its
\* request was handled.
SoundMessages ==
    {m \in Message : /\ status[m.tag] # "unused"
                     /\ m.type = "reply" => executed[m.tag] > 0}

\* The message a record of tag t keeps for retries.
RecordsSound ==
    \A a \in Address, t \in Tag :
        t \in Pending(a) => /\ callbacks[a][t].message.tag = t
                            /\ callbacks[a][t].message.type = "request"

SoundInv == /\ inqueue \in [Address -> Seq(SoundMessages)]
            /\ outqueue \in [Address -> Seq(SoundMessages)]
            /\ RecordsSound

Inv == TypeInv /\ PendingInv /\ SoundInv

LEMMA SoundInit == Init => SoundInv
BY DEF Init, SoundInv, RecordsSound, Pending

\* How a step may change what the queues are judged by.
Grows == \A t \in Tag : /\ status[t] # "unused" => status'[t] # "unused"
                        /\ executed[t] > 0 => executed'[t] > 0

LEMMA SoundMonotone ==
    ASSUME Grows
    PROVE  SoundMessages \subseteq SoundMessages'
BY DEF Grows, SoundMessages, Message

\* Queues that only lose messages stay sound when nothing is un-sent.
LEMMA SoundQueues ==
    ASSUME Grows, NEW q \in [Address -> Seq(SoundMessages)]
    PROVE  q \in [Address -> Seq(SoundMessages')]
BY SoundMonotone, SeqMonotone

\* Handling a message: the effect on the history.
LEMMA HandleEffect ==
    ASSUME Inv, HandleReply \/ \E size \in ReplySize : HandleRequest(size)
    PROVE  LET m == Head(inqueue[turn]) IN
           /\ turn \in Address /\ m \in SoundMessages /\ m.tag \in Tag
           /\ Tail(inqueue[turn]) \in Seq(SoundMessages)
           /\ inqueue' = [inqueue EXCEPT ![turn] = Tail(@)]
           /\ Answer(m)
           /\ executed' = [executed EXCEPT ![m.tag] =
                              executed[m.tag] + (IF m.type = "request" THEN 1 ELSE 0)]
           /\ Grows
<1> DEFINE m == Head(inqueue[turn])
<1>1. /\ turn \in Address /\ inqueue[turn] \in Seq(SoundMessages) /\ inqueue[turn] # <<>>
      /\ inqueue' = [inqueue EXCEPT ![turn] = Tail(@)] /\ Answer(m)
  BY DEF HandleReply, HandleRequest, Inv, SoundInv, TypeInv, TypeOK, NoTurn
<1>2. m \in SoundMessages /\ Tail(inqueue[turn]) \in Seq(SoundMessages)
  BY <1>1, TailType
<1>3. m.tag \in Tag
  BY <1>2 DEF SoundMessages, Message
<1>4. /\ executed[m.tag] \in Nat
      /\ executed \in [Tag -> Nat]
  BY <1>3 DEF Inv, TypeInv, TypeOK
<1>5. executed' = [executed EXCEPT ![m.tag] =
                      executed[m.tag] + (IF m.type = "request" THEN 1 ELSE 0)]
  <2>1. CASE HandleReply
    <3>1. executed' = executed /\ m.type = "reply"
      BY <2>1 DEF HandleReply
    <3> QED
      BY <1>4, <3>1
  <2>2. CASE \E size \in ReplySize : HandleRequest(size)
    BY <2>2 DEF HandleRequest
  <2> QED
    BY <2>1, <2>2
<1>6. Grows
  <2>1. \A t \in Tag : status[t] # "unused" => status'[t] # "unused"
    BY <1>1, <1>3 DEF Answer, Inv, TypeInv, TypeOK
  <2>2. \A t \in Tag : executed[t] > 0 => executed'[t] > 0
    <3> DEFINE n == executed[m.tag] + (IF m.type = "request" THEN 1 ELSE 0)
    <3>1. n \in Nat /\ (executed[m.tag] > 0 => n > 0)
      BY <1>4
    <3>2. executed' = [executed EXCEPT ![m.tag] = n]
      BY <1>5
    <3> HIDE DEF n
    <3> QED
      BY <1>3, <1>4, <3>1, <3>2
  <2> QED
    BY <2>1, <2>2 DEF Grows
<1> QED
  BY <1>1, <1>2, <1>3, <1>5, <1>6

\* A pending record of tag t keeps a sound message.
LEMMA RecordSound ==
    ASSUME Inv, NEW a \in Address, NEW t \in Pending(a)
    PROVE  /\ callbacks[a][t].message \in SoundMessages
           /\ status[t] = "waiting" /\ issued[t].by = a
<1>1. callbacks[a][t].message \in Message
  BY DEF Inv, TypeInv, TypeOK, Pending, Record
<1> QED
  BY <1>1 DEF Inv, SoundInv, RecordsSound, SoundMessages, PendingInv, PendingIffWaiting, Pending

\* Sending adds a request whose tag is now used.
LEMMA SoundSend ==
    ASSUME Inv, NEW a \in Address, NEW b \in Address, NEW t \in Tag,
           NEW size \in RequestSize, NEW s \in {"posted", "waiting"}, Send(a, b, t, size, s)
    PROVE  SoundInv'
<1> DEFINE m == [type |-> "request", originator |-> a, destination |-> b,
                 tag |-> t, size |-> size]
           r == SentMessage(m, appEpoch[a])
<1>1. /\ outqueue' = [outqueue EXCEPT ![a] = Push(@, m, OutqueueLimit)]
      /\ callbacks' = [callbacks EXCEPT ![a][t] = IF s = "waiting" THEN r ELSE @]
      /\ status' = [status EXCEPT ![t] = s]
      /\ executed' = executed /\ inqueue' = inqueue
  BY DEF Send
<1>2. Grows
  BY <1>1 DEF Grows, Inv, TypeInv, TypeOK
<1>3. m \in SoundMessages'
  BY <1>1 DEF SoundMessages, Message, Inv, TypeInv, TypeOK
<1> HIDE DEF m
<1>4. inqueue' \in [Address -> Seq(SoundMessages')]
  BY <1>1, <1>2, SoundQueues DEF Inv, SoundInv
<1>5. outqueue \in [Address -> Seq(SoundMessages')]
  BY <1>2, SoundQueues DEF Inv, SoundInv
<1>6. Push(outqueue[a], m, OutqueueLimit) \in Seq(SoundMessages')
  BY <1>3, <1>5, PushType, LimitAssumption
<1>7. outqueue' \in [Address -> Seq(SoundMessages')]
  BY <1>1, <1>5, <1>6
<1>8. r.message = m
  BY DEF SentMessage
<1> HIDE DEF r
<1>9. m.tag = t /\ m.type = "request"
  BY DEF m
<1>10. RecordsSound'
  <2>1. \A c \in Address, u \in Tag :
            callbacks'[c][u] = IF c = a /\ u = t /\ s = "waiting" THEN r ELSE callbacks[c][u]
    BY <1>1 DEF Inv, TypeInv, TypeOK
  <2> QED
    BY <1>8, <1>9, <2>1 DEF RecordsSound, Pending, Inv, SoundInv
<1> QED
  BY <1>4, <1>7, <1>10 DEF SoundInv

\* Handling a request adds the reply to a request that is now executed.
LEMMA SoundHandle ==
    ASSUME Inv, HandleReply \/ \E size \in ReplySize : HandleRequest(size)
    PROVE  SoundInv'
<1> DEFINE m == Head(inqueue[turn])
<1>1. /\ turn \in Address /\ m \in SoundMessages /\ m.tag \in Tag
      /\ Tail(inqueue[turn]) \in Seq(SoundMessages)
      /\ inqueue' = [inqueue EXCEPT ![turn] = Tail(@)]
      /\ Answer(m) /\ Grows
  BY HandleEffect
<1>2. inqueue' \in [Address -> Seq(SoundMessages')]
  <2>1. inqueue' \in [Address -> Seq(SoundMessages)]
    BY <1>1 DEF Inv, SoundInv
  <2> QED
    BY <1>1, <2>1, SoundQueues
<1>3. outqueue \in [Address -> Seq(SoundMessages')]
  BY <1>1, SoundQueues DEF Inv, SoundInv
<1>4. RecordsSound'
  <2> PICK u : u = m.tag
    OBVIOUS
  <2>1. /\ callbacks' = [callbacks EXCEPT ![turn][u] = NoRecord]
        /\ callbacks \in [Address -> [Tag -> Record \cup {NoRecord}]]
    BY <1>1 DEF Answer, Inv, TypeInv, TypeOK
  <2>2. \A c \in Address, t \in Tag :
           callbacks'[c][t] = IF c = turn /\ t = u THEN NoRecord ELSE callbacks[c][t]
    BY <1>1, <2>1
  <2>3. \A c \in Address, t \in Tag :
           t \in Pending(c)' => t \in Pending(c) /\ callbacks'[c][t] = callbacks[c][t]
    BY <2>2 DEF Pending
  <2>4. RecordsSound
    BY DEF Inv, SoundInv
  <2> QED
    BY <2>3, <2>4 DEF RecordsSound
<1>5. ASSUME NEW size \in ReplySize, HandleRequest(size)
      PROVE  outqueue' \in [Address -> Seq(SoundMessages')]
  <2>1. outqueue' = [outqueue EXCEPT ![turn] = Push(@, ReplyTo(m, size), OutqueueLimit)]
    BY <1>5 DEF HandleRequest
  <2>2. ReplyTo(m, size) \in SoundMessages'
    <3>1. m \in Message /\ m \in SoundMessages'
      BY <1>1, SoundMonotone DEF SoundMessages
    <3>2. ReplyTo(m, size) \in Message /\ ReplyTo(m, size).tag = m.tag
      BY <3>1, ReplyType DEF ReplyTo
    <3>3. executed'[m.tag] > 0
      <4>1. executed[m.tag] \in Nat /\ executed \in [Tag -> Nat]
        BY <1>1 DEF Inv, TypeInv, TypeOK
      <4>2. executed' = [executed EXCEPT ![m.tag] = executed[m.tag] + 1]
        BY <1>5 DEF HandleRequest
      <4> QED
        BY <1>1, <4>1, <4>2
    <3> QED
      BY <3>1, <3>2, <3>3 DEF SoundMessages
  <2>3. Push(outqueue[turn], ReplyTo(m, size), OutqueueLimit) \in Seq(SoundMessages')
    BY <1>1, <1>3, <2>2, PushType, LimitAssumption
  <2> QED
    BY <1>3, <2>1, <2>3
<1>6. HandleReply => outqueue' = outqueue
  BY DEF HandleReply
<1> QED
  BY <1>2, <1>3, <1>4, <1>5, <1>6 DEF SoundInv

\* Retrying sends a sound message again; giving up sends nothing.
LEMMA SoundScan ==
    ASSUME Inv, NEW t \in Tag, AttemptRetry(t) \/ GiveUp(t)
    PROVE  SoundInv'
<1>1. turn \in Address /\ t \in Pending(turn) /\ inqueue' = inqueue /\ executed' = executed
  BY DEF AttemptRetry, GiveUp, Scanning, Overdue, Inv, TypeInv, TypeOK, NoTurn
<1>2. Grows
  BY <1>1 DEF AttemptRetry, GiveUp, Grows, Inv, TypeInv, TypeOK
<1>3. /\ inqueue' \in [Address -> Seq(SoundMessages')]
      /\ outqueue \in [Address -> Seq(SoundMessages')]
  BY <1>1, <1>2, SoundQueues DEF Inv, SoundInv
<1>4. CASE AttemptRetry(t)
  <2> DEFINE m == callbacks[turn][t].message
             r == Retried(callbacks[turn][t], appEpoch[turn])
  <2>1. m \in SoundMessages'
    BY <1>1, <1>2, RecordSound, SoundMonotone
  <2>2. Push(outqueue[turn], m, OutqueueLimit) \in Seq(SoundMessages')
    BY <1>1, <1>3, <2>1, PushType, LimitAssumption
  <2>3. outqueue' \in [Address -> Seq(SoundMessages')]
    BY <1>3, <1>4, <2>2 DEF AttemptRetry
  <2>4. r.message = m /\ m.tag = t /\ m.type = "request"
    <3>1. /\ callbacks[turn][t] \in Record /\ appEpoch[turn] \in Nat
          /\ callbacks[turn][t].nextSend >= callbacks[turn][t].timeSent
      BY <1>1 DEF Inv, TypeInv, TypeOK, Ordered, Pending
    <3>2. r.message = m
      BY <3>1, RetriedType
    <3> QED
      BY <1>1, <3>2 DEF Inv, SoundInv, RecordsSound
  <2>5. callbacks' = [callbacks EXCEPT ![turn][t] = r]
    BY <1>4 DEF AttemptRetry
  <2> HIDE DEF r
  <2>6. RecordsSound'
    <3>1. \A c \in Address, u \in Tag :
              callbacks'[c][u] = IF c = turn /\ u = t THEN r ELSE callbacks[c][u]
      BY <1>1, <2>5 DEF Inv, TypeInv, TypeOK
    <3>2. RecordsSound
      BY DEF Inv, SoundInv
    <3> QED
      BY <1>1, <2>4, <3>1, <3>2 DEF RecordsSound, Pending
  <2> QED
    BY <1>3, <2>3, <2>6 DEF SoundInv
<1>5. CASE GiveUp(t)
  <2>1. /\ \A c \in Address, u \in Tag : callbacks'[c][u] \in {callbacks[c][u], NoRecord}
        /\ outqueue' = outqueue
    BY <1>1, <1>5 DEF GiveUp, Inv, TypeInv, TypeOK
  <2>2. RecordsSound
    BY DEF Inv, SoundInv
  <2>3. RecordsSound'
    BY <2>1, <2>2 DEF RecordsSound, Pending
  <2> QED
    BY <1>3, <2>1, <2>3 DEF SoundInv
<1> QED
  BY <1>4, <1>5

\* Flushing moves sound messages from one queue to another.
LEMMA SoundFlush ==
    ASSUME Inv, Flush
    PROVE  SoundInv'
<1> DEFINE m == Head(outqueue[turn])
<1>1. UNCHANGED <<status, executed, callbacks>>
  BY DEF Flush, FlushDone, DropOversize, Requeue, PassAlong, history
<1>2. SoundMessages' = SoundMessages /\ RecordsSound'
  BY <1>1 DEF SoundMessages, RecordsSound, Pending, Inv, SoundInv
<1>3. ASSUME Flushing
      PROVE  /\ turn \in Address /\ m \in SoundMessages /\ m.destination \in Address
             /\ Tail(outqueue[turn]) \in Seq(SoundMessages)
  <2>1. turn \in Address /\ outqueue[turn] \in Seq(SoundMessages) /\ outqueue[turn] # <<>>
    BY <1>3 DEF Flushing, Inv, TypeInv, TypeOK, SoundInv, NoTurn
  <2>2. m \in SoundMessages /\ Tail(outqueue[turn]) \in Seq(SoundMessages)
    BY <2>1, TailType
  <2> QED
    BY <2>1, <2>2 DEF SoundMessages, Message
<1>4. outqueue' \in [Address -> Seq(SoundMessages)]
  <2>1. CASE FlushDone
    BY <2>1 DEF FlushDone, Inv, SoundInv
  <2>2. CASE DropOversize \/ PassAlong
    <3>1. Flushing /\ Unqueue
      BY <2>2 DEF DropOversize, PassAlong
    <3> QED
      BY <1>3, <3>1 DEF Unqueue, Inv, SoundInv
  <2>3. CASE Requeue
    <3>1. Flushing /\ outqueue' = [outqueue EXCEPT ![turn] = Push(Tail(@), m, OutqueueLimit)]
      BY <2>3 DEF Requeue
    <3>2. Push(Tail(outqueue[turn]), m, OutqueueLimit) \in Seq(SoundMessages)
      BY <1>3, <3>1, PushType, LimitAssumption
    <3> QED
      BY <1>3, <3>1, <3>2 DEF Inv, SoundInv
  <2> QED
    BY <2>1, <2>2, <2>3 DEF Flush
<1>5. inqueue' \in [Address -> Seq(SoundMessages)]
  <2>1. CASE ~PassAlong
    BY <2>1 DEF Flush, FlushDone, DropOversize, Requeue, Inv, SoundInv
  <2>2. CASE PassAlong
    <3>1. Flushing
      BY <2>2 DEF PassAlong
    <3>2. Push(inqueue[m.destination], m, InqueueLimit) \in Seq(SoundMessages)
      BY <1>3, <3>1, PushType, LimitAssumption DEF Inv, SoundInv
    <3> QED
      BY <1>3, <2>2, <3>1, <3>2 DEF PassAlong, Inv, SoundInv
  <2> QED
    BY <2>1, <2>2
<1> QED
  BY <1>2, <1>4, <1>5 DEF SoundInv

LEMMA SoundReplace ==
    ASSUME Inv, NEW a \in Address \cup {0}, NEW b \in Address \cup {0}, Replace(a, b)
    PROVE  SoundInv'
<1>1. Grows
  BY DEF Replace, Grows, Inv, TypeInv, TypeOK
<1>2. /\ inqueue \in [Address -> Seq(SoundMessages')]
      /\ outqueue \in [Address -> Seq(SoundMessages')]
  BY <1>1, SoundQueues DEF Inv, SoundInv
<1>3. /\ inqueue' \in [Address -> Seq(SoundMessages')]
      /\ outqueue' \in [Address -> Seq(SoundMessages')]
  BY <1>2 DEF Replace
<1>4. RecordsSound'
  BY DEF Replace, RecordsSound, Pending, Inv, SoundInv
<1> QED
  BY <1>3, <1>4 DEF SoundInv

LEMMA SoundStep == Inv /\ [Next]_vars => SoundInv'
<1> SUFFICES ASSUME Inv, [Next]_vars
             PROVE  SoundInv'
  OBVIOUS
<1>1. CASE UNCHANGED <<inqueue, outqueue, callbacks, status, executed>>
  BY <1>1 DEF Inv, SoundInv, SoundMessages, RecordsSound, Pending
<1>2. CASE UNCHANGED vars \/ StartTick \/ EndAppTick
  BY <1>1, <1>2 DEF vars, program, history, StartTick, EndAppTick
<1> QED
  BY <1>2, SoundSend, SoundHandle, SoundScan, SoundFlush, SoundReplace
  DEF Next, NetworkTick, AppTick, Finished

LEMMA Invariance == Spec => []Inv
<1>1. Init => Inv
  BY TypeInit, PendingInit, SoundInit DEF Inv
<1>2. Inv /\ [Next]_vars => Inv'
  BY TypeStep, PendingStep, SoundStep DEF Inv
<1> QED
  BY <1>1, <1>2, PTL DEF Spec

-----------------------------------------------------------------------------
(* The layer implements Rpc *)

LEMMA RefinesInit == Init => Promise!Init
BY DEF Init, Promise!Init

\* A message taken from the inqueue answers a waiting call, or executes a
\* request, or is a late reply that changes nothing.
LEMMA RefinesHandle ==
    ASSUME Inv, HandleReply \/ \E size \in ReplySize : HandleRequest(size)
    PROVE  [Promise!Next]_(Promise!vars)
<1> DEFINE m == Head(inqueue[turn])
           done == {t \in Tag : executed[t] > 0}
           n == executed[m.tag] + (IF m.type = "request" THEN 1 ELSE 0)
<1>1. /\ turn \in Address /\ m \in SoundMessages /\ m.tag \in Tag /\ Answer(m)
      /\ executed' = [executed EXCEPT ![m.tag] = n]
  BY HandleEffect
<1>2. /\ executed \in [Tag -> Nat] /\ n \in Nat
      /\ n > 0 <=> (executed[m.tag] > 0 \/ m.type = "request")
  <2>1. executed \in [Tag -> Nat] /\ executed[m.tag] \in Nat
    BY <1>1 DEF Inv, TypeInv, TypeOK
  <2> QED
    BY <2>1
<1>3. done' = done \cup (IF n > 0 THEN {m.tag} ELSE {})
  <2> HIDE DEF n
  <2>1. \A t \in Tag : executed'[t] = IF t = m.tag THEN n ELSE executed[t]
    BY <1>1, <1>2
  <2>2. m.tag \in done => n > 0
    BY <1>2
  <2> QED
    BY <1>1, <2>1, <2>2
<1>4. m.type \in {"request", "reply"} /\ (m.type = "reply" => m.tag \in done)
      /\ status[m.tag] # "unused"
  BY <1>1 DEF SoundMessages, Message
<1>5. m.tag \in done' /\ done' \in {done, done \cup {m.tag}}
  BY <1>1, <1>2, <1>3, <1>4
<1> PICK t \in Tag : t = m.tag
  BY <1>1
<1>6. CASE m.tag \in Pending(turn)
  <2>1. status[m.tag] = "waiting"
    BY <1>1, <1>6 DEF Inv, PendingInv, PendingIffWaiting
  <2>2. status' = [status EXCEPT ![m.tag] = "success"]
    BY <1>1, <1>6 DEF Answer
  <2>3. Promise!Succeed(t)
    BY <1>5, <2>1, <2>2 DEF Promise!Succeed
  <2> QED
    BY <2>3 DEF Promise!Next
<1>7. CASE m.tag \notin Pending(turn)
  <2>1. status' = status
    BY <1>1, <1>7 DEF Answer
  <2>2. CASE done' = done
    BY <2>1, <2>2 DEF Promise!vars
  <2>3. CASE done' = done \cup {m.tag}
    <3>1. Promise!Execute(t)
      BY <1>4, <2>1, <2>3 DEF Promise!Execute
    <3> QED
      BY <3>1 DEF Promise!Next
  <2> QED
    BY <1>5, <2>2, <2>3
<1> QED
  BY <1>6, <1>7

LEMMA RefinesStep == Inv /\ [Next]_vars => [Promise!Next]_(Promise!vars)
<1> SUFFICES ASSUME Inv, [Next]_vars
             PROVE  [Promise!Next]_(Promise!vars)
  OBVIOUS
<1>1. CASE UNCHANGED <<status, executed>>
  BY <1>1 DEF Promise!vars
<1>2. ASSUME NEW a \in Address, NEW b \in Address, NEW t \in Tag,
             NEW size \in RequestSize, NEW s \in {"posted", "waiting"}, Send(a, b, t, size, s)
      PROVE  Promise!Next
  <2>1. Promise!Issue(t, s)
    BY <1>2 DEF Send, Promise!Issue
  <2> QED
    BY <2>1 DEF Promise!Next
<1>3. ASSUME NEW t \in Tag, GiveUp(t)
      PROVE  Promise!Next
  <2>1. turn \in Address /\ t \in Pending(turn)
    BY <1>3 DEF GiveUp, Scanning, Overdue, Inv, TypeInv, TypeOK, NoTurn
  <2>2. status[t] = "waiting"
    BY <2>1, RecordSound
  <2>3. Promise!Fail(t)
    BY <1>3, <2>2 DEF GiveUp, Promise!Fail
  <2> QED
    BY <2>3 DEF Promise!Next
<1>4. ASSUME NEW a \in Address \cup {0}, NEW b \in Address \cup {0}, Replace(a, b)
      PROVE  Promise!Next
  <2> DEFINE gone == {t \in Tag : a # 0 /\ t \in Pending(a)}
  <2>1. \A t \in gone : status[t] = "waiting"
    BY DEF Inv, PendingInv, PendingIffWaiting, Pending
  <2>2. Promise!Abandon(gone) /\ gone \in SUBSET Tag
    BY <1>4, <2>1 DEF Replace, Promise!Abandon
  <2> QED
    BY <2>2 DEF Promise!Next
<1>5. ASSUME NEW t \in Tag, AttemptRetry(t)
      PROVE  UNCHANGED <<status, executed>>
  BY <1>5 DEF AttemptRetry
<1>6. CASE UNCHANGED vars \/ StartTick \/ EndAppTick \/ Flush
  <2>1. UNCHANGED <<status, executed>>
    BY <1>6 DEF vars, program, history, StartTick, EndAppTick, Flush, FlushDone, DropOversize,
                Requeue, PassAlong
  <2> QED
    BY <1>1, <2>1
<1> QED
  BY <1>1, <1>2, <1>3, <1>4, <1>5, <1>6, RefinesHandle DEF Next, NetworkTick, AppTick, Finished

\* Whatever the limits, sizes and timeouts, and whoever comes and goes: every
\* call is answered at most once, and a success means the request was handled.
THEOREM Refinement == Spec => ImplementsRpc
BY RefinesInit, RefinesStep, Invariance, PTL DEF Spec, ImplementsRpc, Promise!Spec

-----------------------------------------------------------------------------
(* Nothing is lost.  A message is on its way to, or back to, the node that   *)
(* issued its tag: so the answer that is taken from the last queue is taken  *)
(* by the node that waits for it.  And no outqueue is longer than its limit, *)
(* so that a message taken from it can be put back.                          *)

\* A message between the node that issued its tag and another.
Routed ==
    {m \in SoundMessages :
        /\ m.type = "request" => m.originator = issued[m.tag].by
        /\ m.type = "reply" => m.destination = issued[m.tag].by}
RoutedTo(a) == {m \in Routed : m.destination = a}

RouteInv ==
    /\ \A a \in Address : /\ inqueue[a] \in Seq(RoutedTo(a))
                          /\ outqueue[a] \in Seq(Routed) /\ Len(outqueue[a]) <= OutqueueLimit
    /\ \A a \in Address, t \in Tag :
          t \in Pending(a) => callbacks[a][t].message.originator = a

Carries(q, t) == \E i \in DOMAIN q : q[i].tag = t
Outstanding(t) == status[t] = "waiting" \/ (status[t] = "posted" /\ executed[t] = 0)

LEMMA CarriedBy == \A a, t : Carried(a, t) <=> Carries(inqueue[a], t) \/ Carries(outqueue[a], t)
BY DEF Carried, Carries

\* What a queue carries when a message is pushed.
LEMMA CarriesPush ==
    ASSUME NEW q \in Seq(Message), NEW m \in Message, NEW limit \in Nat
    PROVE  /\ \A t : Carries(q, t) => Carries(Push(q, m, limit), t)
           /\ ~Full(q, limit) => Carries(Push(q, m, limit), m.tag)
           /\ Len(q) <= limit => Len(Push(q, m, limit)) <= limit
<1>1. CASE Len(q) < limit
  <2> DEFINE e == Append(q, m)
  <2>1. /\ Push(q, m, limit) = e /\ Len(e) = Len(q) + 1 /\ Len(q) \in Nat
        /\ DOMAIN e = 1..(Len(q) + 1) /\ DOMAIN q = 1..Len(q)
        /\ \A i \in DOMAIN q : e[i] = q[i]
        /\ e[Len(q) + 1] = m
    BY <1>1 DEF Push
  <2> HIDE DEF e
  <2>2. \A t : Carries(q, t) => Carries(e, t)
    BY <2>1 DEF Carries
  <2>3. Carries(e, m.tag)
    BY <2>1 DEF Carries
  <2> QED
    BY <1>1, <2>1, <2>2, <2>3
<1>2. CASE ~(Len(q) < limit)
  BY <1>2 DEF Push, Full
<1> QED
  BY <1>1, <1>2

\* What a queue carries when its head is removed.
LEMMA CarriesTail ==
    ASSUME NEW q \in Seq(Message), q # <<>>
    PROVE  /\ \A t : Carries(q, t) => t = Head(q).tag \/ Carries(Tail(q), t)
           /\ Len(Tail(q)) < Len(q)
<1> DEFINE r == Tail(q)
<1>1. /\ Len(q) \in Nat /\ Len(q) > 0 /\ Len(r) = Len(q) - 1
      /\ DOMAIN q = 1..Len(q) /\ DOMAIN r = 1..(Len(q) - 1)
      /\ \A i \in DOMAIN r : r[i] = q[i + 1]
      /\ Head(q) = q[1]
  OBVIOUS
<1> HIDE DEF r
<1>2. ASSUME NEW i \in DOMAIN q, i # 1 PROVE i - 1 \in DOMAIN r /\ r[i - 1] = q[i]
  BY <1>1, <1>2
<1>3. \A t : Carries(q, t) => t = Head(q).tag \/ Carries(r, t)
  BY <1>1, <1>2 DEF Carries
<1> QED
  BY <1>1, <1>3 DEF r

\* What was issued stays issued by the same node, and so messages stay routed.
LEMMA RoutedMonotone ==
    ASSUME Grows, \A t \in Tag : status[t] # "unused" => issued'[t] = issued[t]
    PROVE  Routed \subseteq Routed' /\ \A a \in Address : RoutedTo(a) \subseteq RoutedTo(a)'
<1>1. SoundMessages \subseteq SoundMessages'
  BY SoundMonotone
<1>2. \A m \in SoundMessages : issued'[m.tag] = issued[m.tag]
  BY DEF SoundMessages, Message
<1> QED
  BY <1>1, <1>2 DEF Routed, RoutedTo

\* A step is judged by the queues and records it changes.
LEMMA RouteStep ==
    ASSUME RouteInv, Grows, \A t \in Tag : status[t] # "unused" => issued'[t] = issued[t],
           \A a \in Address : /\ \/ inqueue'[a] = inqueue[a]
                                 \/ inqueue'[a] \in Seq(RoutedTo(a)')
                              /\ \/ outqueue'[a] = outqueue[a]
                                 \/ /\ outqueue'[a] \in Seq(Routed')
                                    /\ Len(outqueue'[a]) <= OutqueueLimit,
           \A a \in Address, t \in Tag : t \in Pending(a)' =>
                \/ t \in Pending(a) /\ callbacks'[a][t].message = callbacks[a][t].message
                \/ callbacks'[a][t].message.originator = a
    PROVE  RouteInv'
<1>1. /\ Seq(Routed) \subseteq Seq(Routed')
      /\ \A a \in Address : Seq(RoutedTo(a)) \subseteq Seq(RoutedTo(a)')
  BY RoutedMonotone, SeqMonotone
<1> QED
  BY <1>1 DEF RouteInv

LEMMA RouteTypes ==
    ASSUME RouteInv
    PROVE  /\ Routed \subseteq Message
           /\ \A a \in Address : /\ inqueue[a] \in Seq(Message) /\ outqueue[a] \in Seq(Message)
                                 /\ RoutedTo(a) \subseteq Routed
<1>1. Routed \subseteq Message /\ \A a \in Address : RoutedTo(a) \subseteq Routed
  BY DEF Routed, RoutedTo, SoundMessages
<1> QED
  BY <1>1, SeqMonotone DEF RouteInv

\* The order of the steps is that of Next.
DeliveryInv == RouteInv /\ NothingLost

LEMMA DeliveryInit == Init => DeliveryInv
BY LimitAssumption DEF Init, DeliveryInv, RouteInv, Pending, NothingLost

LEMMA DeliverySend ==
    ASSUME Inv, DeliveryInv, NEW a \in Address, NEW b \in Address, NEW t \in Tag,
           NEW size \in RequestSize, NEW s \in {"posted", "waiting"}, Send(a, b, t, size, s)
    PROVE  DeliveryInv'
<1> DEFINE m == [type |-> "request", originator |-> a, destination |-> b,
                 tag |-> t, size |-> size]
           r == SentMessage(m, appEpoch[a])
<1>1. /\ outqueue' = [outqueue EXCEPT ![a] = Push(@, m, OutqueueLimit)]
      /\ callbacks' = [callbacks EXCEPT ![a][t] = IF s = "waiting" THEN r ELSE @]
      /\ status' = [status EXCEPT ![t] = s]
      /\ issued' = [issued EXCEPT ![t] = [by |-> a, to |-> b, at |-> epoch]]
      /\ executed' = executed /\ inqueue' = inqueue /\ inhabitants' = inhabitants
      /\ a \in inhabitants /\ status[t] = "unused"
      /\ dropped' = dropped \cup {u \in {t} : Full(outqueue[a], OutqueueLimit)}
  BY DEF Send
<1>2. Grows
  BY <1>1 DEF Grows, Inv, TypeInv, TypeOK
<1>3. m \in Message /\ m \in Routed' /\ m.tag = t /\ m.originator = a
  <2>1. m \in SoundMessages'
    BY <1>1 DEF SoundMessages, Message, Inv, TypeInv, TypeOK
  <2>2. issued'[t].by = a
    BY <1>1 DEF Inv, TypeInv, TypeOK
  <2> QED
    BY <2>1, <2>2 DEF Routed, SoundMessages
<1>4. r.message = m
  BY DEF SentMessage
<1> HIDE DEF m, r
<1>5. \A u \in Tag : status[u] # "unused" => issued'[u] = issued[u]
  BY <1>1 DEF Inv, TypeInv, TypeOK
<1>6. /\ outqueue[a] \in Seq(Message) /\ outqueue[a] \in Seq(Routed')
      /\ Len(outqueue[a]) <= OutqueueLimit
  BY <1>2, <1>5, RoutedMonotone, SeqMonotone, RouteTypes DEF DeliveryInv, RouteInv
<1>7. /\ outqueue'[a] = Push(outqueue[a], m, OutqueueLimit)
      /\ \A c \in Address \ {a} : outqueue'[c] = outqueue[c]
  BY <1>1 DEF Inv, TypeInv, TypeOK
<1>8. outqueue'[a] \in Seq(Routed') /\ Len(outqueue'[a]) <= OutqueueLimit
  BY <1>3, <1>6, <1>7, PushType, CarriesPush, LimitAssumption
<1>9. \A c \in Address, u \in Tag :
          callbacks'[c][u] = IF c = a /\ u = t /\ s = "waiting" THEN r ELSE callbacks[c][u]
  BY <1>1 DEF Inv, TypeInv, TypeOK
<1>10. RouteInv'
  BY <1>1, <1>2, <1>3, <1>4, <1>5, <1>7, <1>8, <1>9, RouteStep DEF DeliveryInv, Pending
<1>11. ASSUME NEW u \in Tag \ dropped', Outstanding(u)'
       PROVE  \E c \in inhabitants' : Carried(c, u)'
  <2>1. CASE u = t
    <3>1. ~Full(outqueue[a], OutqueueLimit)
      BY <1>1, <1>11, <2>1
    <3>2. Carries(outqueue'[a], t)
      BY <1>3, <1>6, <1>7, <3>1, CarriesPush, LimitAssumption
    <3> QED
      BY <1>1, <2>1, <3>2, CarriedBy DEF Carried, Carries
  <2>2. CASE u # t
    <3>1. Outstanding(u) /\ u \notin dropped
      BY <1>1, <1>11, <2>2 DEF Outstanding, Inv, TypeInv, TypeOK
    <3>2. PICK c \in inhabitants : Carried(c, u)
      BY <3>1 DEF DeliveryInv, NothingLost, Outstanding
    <3>3. Carries(inqueue'[c], u) \/ Carries(outqueue'[c], u)
      <4>1. c \in Address
        BY DEF Inv, TypeInv, TypeOK
      <4> QED
        BY <1>1, <1>3, <1>6, <1>7, <3>2, <4>1, CarriedBy, CarriesPush, LimitAssumption
    <3> QED
      BY <1>1, <3>3 DEF Carried, Carries
  <2> QED
    BY <2>1, <2>2
<1> QED
  BY <1>10, <1>11 DEF DeliveryInv, NothingLost, Outstanding

\* A message that is handled is answered on the way back, or has come back.
LEMMA DeliveryHandle ==
    ASSUME Inv, DeliveryInv, HandleReply \/ \E size \in ReplySize : HandleRequest(size)
    PROVE  DeliveryInv'
<1> DEFINE m == Head(inqueue[turn])
<1>1. /\ turn \in Address /\ m \in SoundMessages /\ m.tag \in Tag
      /\ inqueue' = [inqueue EXCEPT ![turn] = Tail(@)]
      /\ Answer(m) /\ Grows
  BY HandleEffect
<1>2. /\ inqueue[turn] # <<>> /\ issued' = issued /\ inhabitants' = inhabitants
      /\ turn \in inhabitants /\ turn' = turn
  BY DEF HandleReply, HandleRequest, Inv, TypeInv, TypeOK
<1>3. /\ inqueue[turn] \in Seq(RoutedTo(turn)) /\ inqueue[turn] \in Seq(Message)
      /\ outqueue[turn] \in Seq(Routed) /\ outqueue[turn] \in Seq(Message)
      /\ Len(outqueue[turn]) <= OutqueueLimit
  BY <1>1, RouteTypes DEF DeliveryInv, RouteInv
<1>4. m \in RoutedTo(turn) /\ m \in Message /\ Tail(inqueue[turn]) \in Seq(RoutedTo(turn))
  <2>1. m \in RoutedTo(turn) /\ Tail(inqueue[turn]) \in Seq(RoutedTo(turn))
    BY <1>2, <1>3, TailType
  <2> QED
    BY <2>1 DEF RoutedTo, Routed, SoundMessages
<1> PICK a \in Address : a = turn
  BY <1>1
<1> PICK t \in Tag : t = m.tag
  BY <1>1
<1>5. /\ inqueue'[a] \in Seq(RoutedTo(a)')
      /\ \A c \in Address \ {a} : inqueue'[c] = inqueue[c]
  <2>1. RoutedTo(a) \subseteq RoutedTo(a)'
    BY <1>1, <1>2, RoutedMonotone
  <2>2. inqueue'[a] \in Seq(RoutedTo(a)) /\ \A c \in Address \ {a} : inqueue'[c] = inqueue[c]
    BY <1>1, <1>4 DEF Inv, TypeInv, TypeOK
  <2> QED
    BY <2>1, <2>2, SeqMonotone
<1>6. \A c \in Address, u \in Tag :
          callbacks'[c][u] = IF c = a /\ u = t THEN NoRecord ELSE callbacks[c][u]
  BY <1>1 DEF Answer, Inv, TypeInv, TypeOK
<1>7. \/ /\ outqueue' = outqueue /\ m.type = "reply" /\ dropped' = dropped
         /\ executed' = executed
      \/ \E r \in Message :
            /\ r.tag = t /\ r \in Routed'
            /\ outqueue' = [outqueue EXCEPT ![a] = Push(@, r, OutqueueLimit)]
            /\ dropped' = dropped \cup {u \in {t} : Full(outqueue[a], OutqueueLimit)}
            /\ executed'[t] > 0 /\ \A u \in Tag \ {t} : executed'[u] = executed[u]
  <2>1. CASE HandleReply
    BY <2>1 DEF HandleReply
  <2>2. ASSUME NEW size \in ReplySize, HandleRequest(size)
        PROVE  \E r \in Message :
            /\ r.tag = t /\ r \in Routed'
            /\ outqueue' = [outqueue EXCEPT ![a] = Push(@, r, OutqueueLimit)]
            /\ dropped' = dropped \cup {u \in {t} : Full(outqueue[a], OutqueueLimit)}
            /\ executed'[t] > 0 /\ \A u \in Tag \ {t} : executed'[u] = executed[u]
    <3> DEFINE r == ReplyTo(m, size)
    <3>1. r \in Message /\ r.tag = t /\ r.type = "reply" /\ r.destination = m.originator
      BY <1>4, ReplyType DEF ReplyTo
    <3>2. executed'[t] > 0 /\ \A u \in Tag \ {t} : executed'[u] = executed[u]
      <4>1. executed[t] \in Nat /\ executed \in [Tag -> Nat]
        BY DEF Inv, TypeInv, TypeOK
      <4>2. executed' = [executed EXCEPT ![t] = executed[t] + 1]
        BY <2>2 DEF HandleRequest
      <4> QED
        BY <4>1, <4>2
    <3>3. status'[t] # "unused"
      BY <1>1 DEF SoundMessages, Grows
    <3>4. m.originator = issued'[t].by
      BY <1>2, <1>4, <2>2 DEF RoutedTo, Routed, HandleRequest
    <3>5. /\ outqueue' = [outqueue EXCEPT ![a] = Push(@, r, OutqueueLimit)]
          /\ dropped' = dropped \cup {u \in {t} : Full(outqueue[a], OutqueueLimit)}
      BY <2>2 DEF HandleRequest
    <3> HIDE DEF r
    <3>6. r \in Routed'
      BY <3>1, <3>2, <3>3, <3>4 DEF Routed, SoundMessages
    <3> QED
      BY <3>1, <3>2, <3>5, <3>6
  <2> QED
    BY <2>1, <2>2
<1>8. \A c \in Address : \/ outqueue'[c] = outqueue[c]
                         \/ c = a /\ \E r \in Routed' : outqueue'[c] = Push(outqueue[a], r, OutqueueLimit)
  BY <1>7 DEF Inv, TypeInv, TypeOK
<1>9. \A c \in Address : \/ outqueue'[c] = outqueue[c]
                         \/ /\ outqueue'[c] \in Seq(Routed')
                            /\ Len(outqueue'[c]) <= OutqueueLimit
  <2> SUFFICES ASSUME NEW r \in Routed'
               PROVE  /\ Push(outqueue[a], r, OutqueueLimit) \in Seq(Routed')
                      /\ Len(Push(outqueue[a], r, OutqueueLimit)) <= OutqueueLimit
    BY <1>8
  <2>1. Routed \subseteq Routed'
    BY <1>1, <1>2, RoutedMonotone
  <2>2. outqueue[a] \in Seq(Routed') /\ outqueue[a] \in Seq(Message)
    BY <1>3, <2>1, SeqMonotone
  <2>3. r \in Message
    BY DEF Routed, SoundMessages
  <2> QED
    BY <1>3, <2>2, <2>3, PushType, CarriesPush, LimitAssumption
<1>10. RouteInv'
  BY <1>1, <1>2, <1>5, <1>6, <1>9, RouteStep DEF DeliveryInv, Pending
<1>11. ASSUME NEW c \in Address, NEW u \in Tag, Carried(c, u), u # t
       PROVE  Carried(c, u)'
  <2>1. Carries(inqueue[c], u) => Carries(inqueue'[c], u)
    BY <1>1, <1>2, <1>3, <1>5, <1>11, CarriesTail DEF Inv, TypeInv, TypeOK
  <2>2. \/ outqueue'[c] = outqueue[c]
        \/ c = a /\ \E r \in Message : outqueue'[c] = Push(outqueue[a], r, OutqueueLimit)
    BY <1>7 DEF Inv, TypeInv, TypeOK
  <2>3. Carries(outqueue[c], u) => Carries(outqueue'[c], u)
    BY <1>3, <2>2, CarriesPush, LimitAssumption
  <2> QED
    BY <1>11, <2>1, <2>3, CarriedBy DEF Carried, Carries
<1>12. ASSUME NEW u \in Tag \ dropped', Outstanding(u)'
       PROVE  \E c \in inhabitants' : Carried(c, u)'
  <2>1. CASE u # t
    <3>1. Outstanding(u) /\ u \notin dropped
      BY <1>1, <1>7, <1>12, <2>1 DEF Outstanding, Answer, Inv, TypeInv, TypeOK
    <3>2. PICK c \in inhabitants : Carried(c, u)
      BY <3>1 DEF DeliveryInv, NothingLost, Outstanding
    <3>3. c \in Address
      BY DEF Inv, TypeInv, TypeOK
    <3> QED
      BY <1>2, <1>11, <2>1, <3>2, <3>3
  <2>2. CASE u = t /\ m.type = "request"
    <3>1. /\ ~Full(outqueue[a], OutqueueLimit)
          /\ \E r \in Message : r.tag = t /\ outqueue'[a] = Push(outqueue[a], r, OutqueueLimit)
      BY <1>7, <1>12, <2>2 DEF Inv, TypeInv, TypeOK
    <3>2. Carries(outqueue'[a], t)
      BY <1>3, <3>1, CarriesPush, LimitAssumption
    <3> QED
      BY <1>2, <2>2, <3>2 DEF Carried, Carries
  <2>3. CASE u = t /\ m.type = "reply"
    <3>1. issued[t].by = a /\ executed[t] > 0
      BY <1>4, <2>3 DEF RoutedTo, Routed, SoundMessages
    <3>2. executed'[t] > 0
      BY <1>1, <3>1 DEF Grows
    <3>3. status'[t] = "waiting"
      BY <1>12, <2>3, <3>2 DEF Outstanding, Inv, TypeInv, TypeOK
    <3>4. t \notin Pending(turn)
      BY <1>1, <3>3 DEF Answer, Inv, TypeInv, TypeOK
    <3>5. status[t] = "waiting"
      BY <1>1, <3>3, <3>4 DEF Answer
    <3> QED
      BY <3>1, <3>4, <3>5 DEF Inv, PendingInv, PendingIffWaiting
  <2> QED
    BY <1>4, <2>1, <2>2, <2>3 DEF Message
<1> QED
  BY <1>10, <1>12 DEF DeliveryInv, NothingLost, Outstanding

\* What is sent again is the message that was sent.
LEMMA DeliveryScan ==
    ASSUME Inv, DeliveryInv, NEW t \in Tag, AttemptRetry(t) \/ GiveUp(t)
    PROVE  DeliveryInv'
<1>1. /\ turn \in Address /\ t \in Pending(turn) /\ inqueue' = inqueue /\ executed' = executed
      /\ issued' = issued /\ inhabitants' = inhabitants /\ dropped \subseteq dropped'
  BY DEF AttemptRetry, GiveUp, Scanning, Overdue, Inv, TypeInv, TypeOK, NoTurn
<1>2. Grows
  BY <1>1 DEF AttemptRetry, GiveUp, Grows, Inv, TypeInv, TypeOK
<1> PICK a \in Address : a = turn
  BY <1>1
<1> DEFINE m == callbacks[a][t].message
<1>3. /\ m \in SoundMessages /\ status[t] = "waiting" /\ issued[t].by = a
      /\ m.originator = a /\ m.tag = t /\ m.type = "request"
  BY <1>1, RecordSound DEF DeliveryInv, RouteInv, Inv, SoundInv, RecordsSound
<1>4. m \in Routed' /\ m \in Message
  <2>1. m \in Routed
    BY <1>3 DEF Routed
  <2> QED
    BY <1>1, <1>2, <2>1, RoutedMonotone, RouteTypes DEF DeliveryInv
<1>5. /\ outqueue[a] \in Seq(Routed') /\ outqueue[a] \in Seq(Message)
      /\ Len(outqueue[a]) <= OutqueueLimit
  BY <1>1, <1>2, RoutedMonotone, SeqMonotone, RouteTypes DEF DeliveryInv, RouteInv
<1>6. \A c \in Address : \/ outqueue'[c] = outqueue[c]
                         \/ c = a /\ outqueue'[c] = Push(outqueue[a], m, OutqueueLimit)
  BY <1>1 DEF AttemptRetry, GiveUp, Inv, TypeInv, TypeOK
<1>7. \A c \in Address, u \in Tag : u \in Pending(c)' =>
          u \in Pending(c) /\ callbacks'[c][u].message = callbacks[c][u].message
  <2>1. CASE GiveUp(t)
    BY <1>1, <2>1 DEF GiveUp, Pending, Inv, TypeInv, TypeOK
  <2>2. CASE AttemptRetry(t)
    <3> DEFINE r == Retried(callbacks[a][t], appEpoch[a])
    <3>1. /\ callbacks[a][t] \in Record /\ appEpoch[a] \in Nat
          /\ callbacks[a][t].nextSend >= callbacks[a][t].timeSent
      BY <1>1 DEF Inv, TypeInv, TypeOK, Ordered, Pending
    <3>2. r.message = m
      BY <3>1, RetriedType
    <3>3. callbacks' = [callbacks EXCEPT ![a][t] = r]
      BY <2>2 DEF AttemptRetry
    <3> HIDE DEF r
    <3> QED
      BY <1>1, <3>2, <3>3 DEF Pending, Inv, TypeInv, TypeOK
  <2> QED
    BY <2>1, <2>2
<1> HIDE DEF m
<1>8. Push(outqueue[a], m, OutqueueLimit) \in Seq(Routed')
      /\ Len(Push(outqueue[a], m, OutqueueLimit)) <= OutqueueLimit
  BY <1>4, <1>5, PushType, CarriesPush, LimitAssumption
<1>9. RouteInv'
  BY <1>1, <1>2, <1>6, <1>7, <1>8, RouteStep DEF DeliveryInv
<1>10. ASSUME NEW u \in Tag \ dropped', Outstanding(u)'
       PROVE  \E c \in inhabitants' : Carried(c, u)'
  <2>1. Outstanding(u)
    BY <1>1, <1>10 DEF AttemptRetry, GiveUp, Outstanding, Inv, TypeInv, TypeOK
  <2>2. PICK c \in inhabitants : Carried(c, u)
    BY <1>1, <1>10, <2>1 DEF DeliveryInv, NothingLost, Outstanding
  <2>3. c \in Address
    BY DEF Inv, TypeInv, TypeOK
  <2>4. Carries(outqueue[c], u) => Carries(outqueue'[c], u)
    BY <1>4, <1>5, <1>6, <2>3, CarriesPush, LimitAssumption
  <2> QED
    BY <1>1, <2>2, <2>4 DEF Carried, Carries
<1> QED
  BY <1>9, <1>10 DEF DeliveryInv, NothingLost, Outstanding

\* The flush moves a message to the back of its queue or to its destination.
LEMMA DeliveryFlush ==
    ASSUME Inv, DeliveryInv, Flush
    PROVE  DeliveryInv'
<1> DEFINE m == Head(outqueue[turn])
<1>1. UNCHANGED <<status, executed, issued, callbacks, inhabitants>> /\ dropped \subseteq dropped'
  BY DEF Flush, FlushDone, DropOversize, Requeue, PassAlong, history
<1>2. Grows /\ Routed' = Routed /\ \A c \in Address : RoutedTo(c)' = RoutedTo(c)
  BY <1>1 DEF Grows, Routed, RoutedTo, SoundMessages
<1>3. \A u : Outstanding(u)' <=> Outstanding(u)
  BY <1>1 DEF Outstanding
<1>4. CASE FlushDone
  <2>1. UNCHANGED <<inqueue, outqueue, dropped>>
    BY <1>4 DEF FlushDone, history
  <2>2. RouteInv'
    BY <1>1, <1>2, <2>1, RouteStep DEF DeliveryInv, Pending
  <2> QED
    BY <1>1, <2>1, <2>2 DEF DeliveryInv, NothingLost, Carried
<1>5. CASE DropOversize \/ Requeue \/ PassAlong
  <2>1. Flushing /\ turn \in Address /\ turn \in inhabitants /\ outqueue[turn] # <<>>
    BY <1>5 DEF DropOversize, Requeue, PassAlong, Flushing, Inv, TypeInv, TypeOK
  <2> PICK a \in Address : a = turn
    BY <2>1
  <2>2. /\ outqueue[a] \in Seq(Routed) /\ outqueue[a] \in Seq(Message)
        /\ Len(outqueue[a]) <= OutqueueLimit /\ outqueue[a] # <<>>
    BY <2>1, RouteTypes DEF DeliveryInv, RouteInv
  <2>3. /\ m \in Routed /\ Tail(outqueue[a]) \in Seq(Routed)
        /\ Tail(outqueue[a]) \in Seq(Message)
    BY <2>2, TailType
  <2>4. m \in Message /\ m.tag \in Tag /\ m.destination \in Address
    BY <2>3 DEF Routed, SoundMessages, Message
  <2>5. /\ Len(Tail(outqueue[a])) < Len(outqueue[a])
        /\ Len(outqueue[a]) \in Nat /\ Len(Tail(outqueue[a])) \in Nat
    BY <2>2, <2>3, CarriesTail
  <2>6. ~Full(Tail(outqueue[a]), OutqueueLimit)
    BY <2>2, <2>5, LimitAssumption DEF Full
  <2>7. PICK d \in Address, t \in Tag : d = m.destination /\ t = m.tag
    BY <2>4
  <2>8. \/ outqueue' = [outqueue EXCEPT ![a] = Tail(@)]
        \/ outqueue' = [outqueue EXCEPT ![a] = Push(Tail(@), m, OutqueueLimit)]
    BY <1>5 DEF DropOversize, Requeue, PassAlong, Unqueue
  <2>9. \/ inqueue' = inqueue
        \/ inqueue' = [inqueue EXCEPT ![d] = Push(@, m, InqueueLimit)]
    BY <1>5, <2>7 DEF DropOversize, Requeue, PassAlong
  <2> HIDE DEF m
  <2>10. /\ \A c \in Address \ {a} : outqueue'[c] = outqueue[c]
         /\ \/ outqueue'[a] = Tail(outqueue[a])
            \/ outqueue'[a] = Push(Tail(outqueue[a]), m, OutqueueLimit)
    BY <2>8 DEF Inv, TypeInv, TypeOK
  <2>11. /\ outqueue'[a] \in Seq(Routed) /\ Len(outqueue'[a]) <= OutqueueLimit
    <3>1. Push(Tail(outqueue[a]), m, OutqueueLimit) \in Seq(Routed)
      BY <2>3, PushType, LimitAssumption
    <3>2. Len(Tail(outqueue[a])) <= OutqueueLimit
      BY <2>2, <2>5, LimitAssumption
    <3>3. Len(Push(Tail(outqueue[a]), m, OutqueueLimit)) <= OutqueueLimit
      BY <2>3, <2>4, <3>2, CarriesPush, LimitAssumption
    <3> QED
      BY <2>3, <2>10, <3>1, <3>2, <3>3
  <2>12. \A c \in Address : inqueue'[c] = inqueue[c] \/ inqueue'[c] \in Seq(RoutedTo(c))
    <3>1. m \in RoutedTo(d)
      BY <2>3, <2>7 DEF RoutedTo
    <3>2. Push(inqueue[d], m, InqueueLimit) \in Seq(RoutedTo(d))
      BY <3>1, PushType, LimitAssumption DEF DeliveryInv, RouteInv
    <3> QED
      BY <2>9, <3>2 DEF Inv, TypeInv, TypeOK
  <2>13. RouteInv'
    BY <1>1, <1>2, <2>10, <2>11, <2>12, RouteStep DEF DeliveryInv, Pending
  <2>14. ASSUME NEW c \in Address, NEW u \in Tag, Carried(c, u), u # t
         PROVE  Carried(c, u)'
    <3>1. inqueue[c] \in Seq(Message)
      BY RouteTypes DEF DeliveryInv
    <3>2. inqueue'[c] = inqueue[c] \/ inqueue'[c] = Push(inqueue[c], m, InqueueLimit)
      BY <2>9 DEF Inv, TypeInv, TypeOK
    <3>3. Carries(inqueue[c], u) => Carries(inqueue'[c], u)
      BY <2>4, <3>1, <3>2, CarriesPush, LimitAssumption
    <3>4. Carries(outqueue[c], u) => c # a \/ Carries(Tail(outqueue[a]), u)
      BY <2>1, <2>2, <2>7, <2>14, CarriesTail DEF m
    <3>5. Carries(outqueue[c], u) => Carries(outqueue'[c], u)
      BY <2>3, <2>4, <2>10, <3>4, CarriesPush, LimitAssumption
    <3> QED
      BY <2>14, <3>3, <3>5, CarriedBy DEF Carried, Carries
  <2>15. ASSUME t \notin dropped' PROVE \E c \in inhabitants' : Carried(c, t)'
    <3>1. CASE DropOversize
      BY <2>7, <2>15, <3>1 DEF DropOversize, m
    <3>2. CASE Requeue
      <4>1. outqueue'[a] = Push(Tail(outqueue[a]), m, OutqueueLimit)
        BY <3>2 DEF Requeue, m, Inv, TypeInv, TypeOK
      <4>2. Carries(outqueue'[a], t)
        BY <2>3, <2>4, <2>6, <2>7, <4>1, CarriesPush, LimitAssumption
      <4> QED
        BY <1>1, <2>1, <4>2 DEF Carried, Carries
    <3>3. CASE PassAlong
      <4>1. /\ d \in inhabitants /\ ~Full(inqueue[d], InqueueLimit)
            /\ inqueue'[d] = Push(inqueue[d], m, InqueueLimit)
        BY <2>7, <2>15, <3>3 DEF PassAlong, m, Inv, TypeInv, TypeOK
      <4>2. inqueue[d] \in Seq(Message)
        BY RouteTypes DEF DeliveryInv
      <4>3. Carries(inqueue'[d], t)
        BY <2>4, <2>7, <4>1, <4>2, CarriesPush, LimitAssumption
      <4> QED
        BY <1>1, <4>1, <4>3 DEF Carried, Carries
    <3> QED
      BY <1>5, <3>1, <3>2, <3>3
  <2>16. ASSUME NEW u \in Tag \ dropped', Outstanding(u)'
         PROVE  \E c \in inhabitants' : Carried(c, u)'
    <3>1. CASE u = t
      BY <2>15, <2>16, <3>1
    <3>2. CASE u # t
      <4>1. PICK c \in inhabitants : Carried(c, u)
        BY <1>1, <1>3, <2>16 DEF DeliveryInv, NothingLost, Outstanding
      <4>2. c \in Address
        BY DEF Inv, TypeInv, TypeOK
      <4> QED
        BY <1>1, <2>14, <3>2, <4>1, <4>2
    <3> QED
      BY <3>1, <3>2
  <2> QED
    BY <2>13, <2>16 DEF DeliveryInv, NothingLost, Outstanding
<1> QED
  BY <1>4, <1>5 DEF Flush

\* A node that leaves takes with it what its queues carry, and no more.
LEMMA DeliveryReplace ==
    ASSUME Inv, DeliveryInv, NEW a \in Address \cup {0}, NEW b \in Address \cup {0}, Replace(a, b)
    PROVE  DeliveryInv'
<1> DEFINE fresh == ({b} \ {0}) \cup {a}
<1>1. /\ executed' = executed /\ issued' = issued
      /\ inhabitants' = (inhabitants \ {a}) \cup ({b} \ {0})
      /\ b \notin inhabitants \ {a}
      /\ dropped' = dropped \cup {t \in Tag : a # 0 /\ Carried(a, t)}
      /\ \A c \in Address : /\ inqueue'[c] = IF c \in fresh THEN <<>> ELSE inqueue[c]
                            /\ outqueue'[c] = IF c \in fresh THEN <<>> ELSE outqueue[c]
                            /\ c \notin fresh => callbacks'[c] = callbacks[c]
                            /\ \A t \in Tag : c \in fresh => callbacks'[c][t] = NoRecord
      /\ \A t \in Tag : status'[t] = IF a # 0 /\ t \in Pending(a) THEN "abandoned" ELSE status[t]
  BY DEF Replace
<1> HIDE DEF fresh
<1>2. Grows
  BY <1>1 DEF Grows
<1> DEFINE e == <<>>
<1>3. Len(e) = 0 /\ \A S : e \in Seq(S)
  OBVIOUS
<1>4. \A c \in Address : /\ inqueue'[c] = IF c \in fresh THEN e ELSE inqueue[c]
                         /\ outqueue'[c] = IF c \in fresh THEN e ELSE outqueue[c]
  BY <1>1
<1> HIDE DEF e
<1>5. RouteInv'
  <2>1. \A c \in Address : /\ \/ inqueue'[c] = inqueue[c]
                              \/ inqueue'[c] \in Seq(RoutedTo(c)')
                           /\ \/ outqueue'[c] = outqueue[c]
                              \/ /\ outqueue'[c] \in Seq(Routed')
                                 /\ Len(outqueue'[c]) <= OutqueueLimit
    <3>1. Len(e) <= OutqueueLimit
      BY <1>3, LimitAssumption
    <3>2. e \in Seq(Routed') /\ \A c \in Address : e \in Seq(RoutedTo(c)')
      BY <1>3
    <3> QED
      BY <1>4, <3>1, <3>2
  <2>2. \A c \in Address, t \in Tag : t \in Pending(c)' =>
            t \in Pending(c) /\ callbacks'[c][t].message = callbacks[c][t].message
    BY <1>1 DEF Pending
  <2> QED
    BY <1>1, <1>2, <2>1, <2>2, RouteStep DEF DeliveryInv
<1>6. ASSUME NEW u \in Tag \ dropped', Outstanding(u)'
      PROVE  \E c \in inhabitants' : Carried(c, u)'
  <2>1. Outstanding(u) /\ u \notin dropped /\ ~(a # 0 /\ Carried(a, u))
    BY <1>1, <1>6 DEF Outstanding
  <2>2. PICK c \in inhabitants : Carried(c, u)
    BY <2>1 DEF DeliveryInv, NothingLost, Outstanding
  <2>3. c \in Address /\ c # a /\ c \notin fresh
    BY <1>1, <2>1, <2>2, AddressAssumption DEF fresh, Inv, TypeInv, TypeOK
  <2> QED
    BY <1>1, <2>2, <2>3 DEF Carried
<1> QED
  BY <1>5, <1>6 DEF DeliveryInv, NothingLost, Outstanding

LEMMA DeliveryStep == Inv /\ DeliveryInv /\ [Next]_vars => DeliveryInv'
<1> SUFFICES ASSUME Inv, DeliveryInv, [Next]_vars
             PROVE  DeliveryInv'
  OBVIOUS
<1>1. CASE UNCHANGED <<inqueue, outqueue, callbacks, history, inhabitants>>
  BY <1>1 DEF DeliveryInv, RouteInv, Routed, RoutedTo, SoundMessages, Pending, NothingLost,
              Carried, history
<1>2. CASE UNCHANGED vars \/ StartTick \/ EndAppTick
  BY <1>1, <1>2 DEF vars, program, StartTick, EndAppTick
<1> QED
  BY <1>2, DeliverySend, DeliveryHandle, DeliveryScan, DeliveryFlush, DeliveryReplace
  DEF Next, NetworkTick, AppTick, Finished

\* What was sent and not answered is in the queue of an inhabitant as long as
\* no message of it was discarded: whatever is requeued, retried or replaced.
THEOREM NothingIsLost == Spec => []NothingLost
<1>1. DeliveryInv => NothingLost
  BY DEF DeliveryInv
<1> QED
  BY <1>1, DeliveryInit, DeliveryStep, Invariance, PTL DEF Spec

-----------------------------------------------------------------------------
(* How long a call waits *)

LEMMA WaitValue ==
    /\ Wait \in [0..MaxRetries -> Nat] /\ Wait[0] = Timeout
    /\ \A i \in 1..MaxRetries : Wait[i] = Wait[i - 1] * BackoffFactor
<1> DEFINE Def(f) == [i \in 0..MaxRetries |->
                         IF i = 0 THEN Timeout ELSE f[i - 1] * BackoffFactor]
           step == [p \in (0..MaxRetries) \X Nat |-> p[2] * BackoffFactor]
<1>1. step \in [(0..MaxRetries) \X Nat -> Nat]
  BY TimeAssumption
<1>2. PICK f \in [0..MaxRetries -> Nat] :
          f[0] = Timeout /\ \A i \in 1..MaxRetries : f[i] = step[<<i, f[i - 1]>>]
  <2> HIDE DEF step
  <2>1. Recursion(MaxRetries, Nat, Timeout, step)
    BY <1>1, TimeAssumption, RecursionExists
  <2> QED
    BY <2>1 DEF Recursion
<1>3. f = Def(f)
  <2>1. ASSUME NEW i \in 0..MaxRetries
        PROVE  f[i] = IF i = 0 THEN Timeout ELSE f[i - 1] * BackoffFactor
    <3>1. CASE i = 0
      BY <1>2, <3>1
    <3>2. CASE i # 0
      <4>1. i \in 1..MaxRetries /\ i - 1 \in 0..MaxRetries
        BY <3>2, TimeAssumption
      <4>2. f[i] = step[<<i, f[i - 1]>>] /\ f[i - 1] \in Nat
        BY <1>2, <4>1
      <4> QED
        BY <3>2, <4>2
    <3> QED
      BY <3>1, <3>2
  <2> QED
    BY <2>1
<1>4. Wait = CHOOSE g : g = Def(g)
  BY DEF Wait
<1> HIDE DEF Def
<1>5. Wait = Def(Wait)
  BY <1>3, <1>4
<1> USE DEF Def
<1>6. Wait[0] = Timeout /\ \A i \in 1..MaxRetries : Wait[i] = Wait[i - 1] * BackoffFactor
  BY <1>5, TimeAssumption
<1>7. DOMAIN Wait = 0..MaxRetries /\ Wait = [i \in 0..MaxRetries |-> Wait[i]]
  BY <1>5
<1> HIDE DEF Def
<1> DEFINE Odd == {i \in 0..MaxRetries : Wait[i] \notin Nat}
<1>8. Odd = {}
  <2> SUFFICES ASSUME Odd # {} PROVE FALSE
    OBVIOUS
  <2>1. Odd \in SUBSET Nat
    OBVIOUS
  <2>2. PICK n \in Odd : \A i \in Odd : n <= i
    BY <2>1, LeastExists
  <2>3. n \in 1..MaxRetries /\ n - 1 \in 0..MaxRetries /\ ~(n <= n - 1)
    BY <1>6, <2>2, TimeAssumption
  <2>4. Wait[n - 1] \in Nat
    BY <2>2, <2>3
  <2>5. Wait[n] = Wait[n - 1] * BackoffFactor /\ BackoffFactor \in Nat
    BY <1>6, <2>3, TimeAssumption
  <2> QED
    BY <2>2, <2>4, <2>5
<1> QED
  BY <1>6, <1>7, <1>8

LEMMA WaitUpToValue ==
    /\ WaitUpTo \in [0..MaxRetries -> Nat] /\ WaitUpTo[0] = Timeout
    /\ \A i \in 1..MaxRetries : WaitUpTo[i] = Wait[i] + WaitUpTo[i - 1]
<1> DEFINE Def(f) == [i \in 0..MaxRetries |-> Wait[i] + (IF i = 0 THEN 0 ELSE f[i - 1])]
           step == [p \in (0..MaxRetries) \X Nat |-> Wait[p[1]] + p[2]]
<1>0. MaxRetries \in Nat /\ Timeout \in Nat
  BY TimeAssumption
<1>1. step \in [(0..MaxRetries) \X Nat -> Nat]
  BY WaitValue
<1>2. PICK f \in [0..MaxRetries -> Nat] :
          f[0] = Timeout /\ \A i \in 1..MaxRetries : f[i] = step[<<i, f[i - 1]>>]
  <2> HIDE DEF step
  <2>1. Recursion(MaxRetries, Nat, Timeout, step)
    BY <1>0, <1>1, RecursionExists
  <2> QED
    BY <2>1 DEF Recursion
<1>3. f = Def(f)
  <2>1. ASSUME NEW i \in 0..MaxRetries
        PROVE  f[i] = Wait[i] + (IF i = 0 THEN 0 ELSE f[i - 1])
    <3>1. CASE i = 0
      BY <1>0, <1>2, <3>1, WaitValue
    <3>2. CASE i # 0
      <4>1. i \in 1..MaxRetries /\ i - 1 \in 0..MaxRetries
        BY <1>0, <3>2
      <4>2. f[i] = step[<<i, f[i - 1]>>] /\ f[i - 1] \in Nat
        BY <1>2, <4>1
      <4> QED
        BY <3>2, <4>2
    <3> QED
      BY <3>1, <3>2
  <2> QED
    BY <2>1
<1>4. WaitUpTo = CHOOSE g : g = Def(g)
  BY DEF WaitUpTo
<1> HIDE DEF Def
<1>5. WaitUpTo = Def(WaitUpTo)
  BY <1>3, <1>4
<1> USE DEF Def
<1>6. /\ WaitUpTo[0] = Timeout
      /\ \A i \in 1..MaxRetries : WaitUpTo[i] = Wait[i] + WaitUpTo[i - 1]
  <2>1. \A i \in 0..MaxRetries :
            WaitUpTo[i] = Wait[i] + (IF i = 0 THEN 0 ELSE WaitUpTo[i - 1])
    BY <1>5
  <2> HIDE DEF Def
  <2>2. 0 \in 0..MaxRetries /\ \A i \in 1..MaxRetries : i \in 0..MaxRetries /\ i # 0
    BY <1>0
  <2> QED
    BY <1>0, <2>1, <2>2, WaitValue
<1>7. DOMAIN WaitUpTo = 0..MaxRetries /\ WaitUpTo = [i \in 0..MaxRetries |-> WaitUpTo[i]]
  BY <1>5
<1> HIDE DEF Def
<1> DEFINE Odd == {i \in 0..MaxRetries : WaitUpTo[i] \notin Nat}
<1>8. Odd = {}
  <2> SUFFICES ASSUME Odd # {} PROVE FALSE
    OBVIOUS
  <2>1. Odd \in SUBSET Nat
    OBVIOUS
  <2>2. PICK n \in Odd : \A i \in Odd : n <= i
    BY <2>1, LeastExists
  <2>3. n \in 1..MaxRetries /\ n - 1 \in 0..MaxRetries /\ ~(n <= n - 1)
    BY <1>0, <1>6, <2>2
  <2>4. WaitUpTo[n - 1] \in Nat
    BY <2>2, <2>3
  <2>5. WaitUpTo[n] = Wait[n] + WaitUpTo[n - 1] /\ Wait[n] \in Nat
    BY <1>6, <2>2, <2>3, WaitValue
  <2> QED
    BY <2>2, <2>4, <2>5
<1> QED
  BY <1>6, <1>7, <1>8

\* No call waits longer than it does with all its retries.
LEMMA PatienceIsLongest == \A i \in 0..MaxRetries : WaitUpTo[i] <= Patience
<1> SUFFICES ASSUME NEW i \in 0..MaxRetries, ~(WaitUpTo[i] <= Patience) PROVE FALSE
  OBVIOUS
<1>1. MaxRetries \in Nat /\ Patience = WaitUpTo[MaxRetries]
  BY TimeAssumption DEF Patience
<1> DEFINE Beyond == {n \in 0..MaxRetries : ~(WaitUpTo[n] <= Patience)}
<1>2. PICK n \in Beyond : \A m \in Beyond : m <= n
  <2>1. Beyond \in SUBSET (0..MaxRetries) /\ Beyond # {}
    OBVIOUS
  <2> HIDE DEF Beyond
  <2> QED
    BY <1>1, <2>1, GreatestExists
<1>3. WaitUpTo[n] \in Nat /\ Patience \in Nat
  BY <1>1, WaitUpToValue
<1>4. n # MaxRetries
  BY <1>1, <1>2, <1>3
<1>5. n + 1 \in 1..MaxRetries /\ n + 1 \in 0..MaxRetries /\ (n + 1) - 1 = n
  BY <1>1, <1>2, <1>4
<1>6. /\ WaitUpTo[n + 1] = Wait[n + 1] + WaitUpTo[n]
      /\ Wait[n + 1] \in Nat /\ WaitUpTo[n + 1] \in Nat
  BY <1>5, WaitUpToValue, WaitValue
<1>7. ~(WaitUpTo[n + 1] <= Patience)
  BY <1>2, <1>3, <1>6
<1>8. n + 1 \in Beyond
  BY <1>5, <1>7
<1> QED
  BY <1>2, <1>5, <1>8

\* The node at a has been visited in this tick of the network.
Visited(a) == turn # NoTurn /\ (a < turn \/ (a = turn /\ phase = "flush"))

\* The records of an inhabitant are not overdue but in its own tick; and the
\* intervals between their sends are those that retry computes.
Due(a, t) ==
    LET r == callbacks[a][t]
    IN  /\ r.retries <= MaxRetries
        /\ r.nextSend = r.timeSent + Wait[r.retries]
        /\ r.nextSend <= issued[t].at + WaitUpTo[r.retries]
        /\ r.nextSend >= epoch
        /\ Visited(a) => r.nextSend > epoch

\* Between two ticks a node's clock is that of the last tick, or of its birth.
Clock(a) == /\ appEpoch[a] <= epoch /\ epoch <= appEpoch[a] + 1
            /\ Visited(a) \/ a = turn => appEpoch[a] = epoch

TimeInv == \A a \in inhabitants : Clock(a) /\ \A t \in Pending(a) : Due(a, t)

LEMMA TimeInit == Init => TimeInv
<1> SUFFICES ASSUME Init, NEW a \in inhabitants PROVE Clock(a) /\ Pending(a) = {}
  BY DEF TimeInv
<1>1. a \in Address /\ a # NoTurn
  BY AddressAssumption DEF Init, NoTurn
<1> QED
  BY <1>1 DEF Init, Clock, Visited, Pending

\* What the records and clocks are.
LEMMA TimeTypes ==
    ASSUME Inv
    PROVE  /\ epoch \in Nat /\ inhabitants \subseteq Address /\ turn \in inhabitants \cup {NoTurn}
           /\ \A a \in Address : appEpoch[a] \in Nat /\ a \in Nat /\ a # NoTurn
           /\ \A a \in Address : \A t \in Pending(a) :
                 /\ t \in Tag /\ callbacks[a][t] \in Record
                 /\ callbacks[a][t].nextSend \in Nat /\ callbacks[a][t].timeSent \in Nat
                 /\ callbacks[a][t].retries \in Nat /\ issued[t].at \in Nat
                 /\ status[t] = "waiting" /\ issued[t].by = a
<1>1. \A a \in Address : a \in Nat /\ a # NoTurn
  BY AddressAssumption DEF NoTurn
<1>2. ASSUME NEW a \in Address, NEW t \in Pending(a)
      PROVE  /\ t \in Tag /\ callbacks[a][t] \in Record
             /\ issued[t] \in [by : Address, to : Address, at : Nat]
             /\ status[t] = "waiting" /\ issued[t].by = a
  BY DEF Inv, TypeInv, TypeOK, PendingInv, PendingIffWaiting, Pending
<1> QED
  BY <1>1, <1>2 DEF Inv, TypeInv, TypeOK, Record

\* A step in which time stands still keeps the records that it does not touch.
LEMMA TimeStands ==
    ASSUME Inv, TimeInv, UNCHANGED <<epoch, turn, phase, appEpoch, inhabitants>>,
           \A a \in inhabitants, t \in Tag : t \in Pending(a)' =>
                \/ /\ t \in Pending(a) /\ callbacks'[a][t] = callbacks[a][t]
                   /\ issued'[t] = issued[t]
                \/ Due(a, t)'
    PROVE  TimeInv'
<1>1. \A a \in inhabitants : Clock(a)'
  BY DEF TimeInv, Clock, Visited
<1>2. \A a \in inhabitants, t \in Tag : t \in Pending(a)' => Due(a, t)'
  BY DEF TimeInv, Due, Visited
<1>3. \A a \in inhabitants : Pending(a)' \subseteq Tag
  BY DEF Pending
<1> QED
  BY <1>1, <1>2, <1>3 DEF TimeInv

\* A call is made by a node that has not been visited yet, or is being visited.
LEMMA TimeSend ==
    ASSUME Inv, TimeInv, NEW a \in Address, NEW b \in Address, NEW t \in Tag,
           NEW size \in RequestSize, NEW s \in {"posted", "waiting"}, Send(a, b, t, size, s)
    PROVE  TimeInv'
<1> DEFINE m == [type |-> "request", originator |-> a, destination |-> b,
                 tag |-> t, size |-> size]
           r == SentMessage(m, appEpoch[a])
<1>1. /\ a \in inhabitants /\ UNCHANGED <<epoch, turn, phase, appEpoch, inhabitants>>
      /\ turn = NoTurn \/ (turn = a /\ phase = "tick")
      /\ status[t] = "unused"
      /\ callbacks' = [callbacks EXCEPT ![a][t] = IF s = "waiting" THEN r ELSE @]
      /\ issued' = [issued EXCEPT ![t] = [by |-> a, to |-> b, at |-> epoch]]
  BY DEF Send
<1>2. /\ r.retries = 0 /\ r.timeSent = appEpoch[a] /\ r.nextSend = appEpoch[a] + Timeout
  BY DEF SentMessage
<1> HIDE DEF r
<1>3. /\ \A c \in Address, u \in Tag :
            callbacks'[c][u] = IF c = a /\ u = t /\ s = "waiting" THEN r ELSE callbacks[c][u]
      /\ \A u \in Tag \ {t} : issued'[u] = issued[u]
      /\ issued'[t].at = epoch
  BY <1>1 DEF Inv, TypeInv, TypeOK
<1>4. \A c \in Address : t \notin Pending(c)
  BY <1>1 DEF Inv, PendingInv, PendingIffWaiting
<1>5. t \in Pending(a)' => Due(a, t)'
  <2>1. CASE s = "waiting"
    <3>1. callbacks'[a][t] = r
      BY <1>3, <2>1
    <3>2. ~Visited(a)'
      BY <1>1, TimeTypes DEF Visited
    <3>3. /\ Timeout \in Nat /\ Timeout > 0 /\ MaxRetries \in Nat
          /\ Wait[0] = Timeout /\ WaitUpTo[0] = Timeout
      BY TimeAssumption, WaitValue, WaitUpToValue
    <3>4. /\ epoch \in Nat /\ appEpoch[a] \in Nat
          /\ appEpoch[a] <= epoch /\ epoch <= appEpoch[a] + 1
      BY <1>1, TimeTypes DEF TimeInv, Clock
    <3>5. /\ appEpoch[a] + Timeout <= epoch + Timeout /\ appEpoch[a] + Timeout >= epoch
      BY <3>3, <3>4
    <3> QED
      BY <1>1, <1>2, <1>3, <3>1, <3>2, <3>3, <3>5 DEF Due
  <2>2. CASE s # "waiting"
    BY <1>3, <1>4, <2>2 DEF Pending
  <2> QED
    BY <2>1, <2>2
<1>6. \A c \in inhabitants, u \in Tag : u \in Pending(c)' =>
          \/ /\ u \in Pending(c) /\ callbacks'[c][u] = callbacks[c][u]
             /\ issued'[u] = issued[u]
          \/ Due(c, u)'
  <2> SUFFICES ASSUME NEW c \in inhabitants, NEW u \in Tag, u \in Pending(c)'
               PROVE  \/ /\ u \in Pending(c) /\ callbacks'[c][u] = callbacks[c][u]
                         /\ issued'[u] = issued[u]
                      \/ Due(c, u)'
    OBVIOUS
  <2>1. c \in Address
    BY TimeTypes
  <2>2. CASE c = a /\ u = t
    BY <1>5, <2>2
  <2>3. CASE u # t
    BY <1>3, <2>1, <2>3 DEF Pending
  <2>4. CASE c # a /\ u = t
    BY <1>3, <1>4, <2>1, <2>4 DEF Pending
  <2> QED
    BY <2>2, <2>3, <2>4
<1> QED
  BY <1>1, <1>6, TimeStands

\* A retry happens in the very tick it is due, so that the waits add up.
LEMMA TimeRetry ==
    ASSUME Inv, TimeInv, NEW t \in Tag, AttemptRetry(t)
    PROVE  TimeInv'
<1> DEFINE r == callbacks[turn][t]
           next == Retried(r, appEpoch[turn])
<1>1. /\ turn # NoTurn /\ phase = "tick" /\ t \in Pending(turn)
      /\ appEpoch[turn] >= r.nextSend /\ r.retries < MaxRetries
      /\ callbacks' = [callbacks EXCEPT ![turn][t] = next]
      /\ UNCHANGED <<epoch, turn, phase, appEpoch, inhabitants, issued>>
  BY DEF AttemptRetry, Scanning, Overdue, NeedsRetry
<1>2. turn \in inhabitants /\ turn \in Address
  BY <1>1, TimeTypes
<1>3. /\ r \in Record /\ r.nextSend \in Nat /\ r.timeSent \in Nat /\ r.retries \in Nat
      /\ issued[t].at \in Nat /\ epoch \in Nat
  BY <1>1, <1>2, TimeTypes
<1>4. appEpoch[turn] = epoch /\ Due(turn, t)
  BY <1>1, <1>2 DEF TimeInv, Clock
<1>5. /\ r.nextSend = epoch /\ r.nextSend = r.timeSent + Wait[r.retries]
      /\ epoch <= issued[t].at + WaitUpTo[r.retries]
  BY <1>1, <1>3, <1>4 DEF Due
<1>6. /\ next.retries = r.retries + 1 /\ next.timeSent = epoch
      /\ next.nextSend = epoch + (r.nextSend - r.timeSent) * BackoffFactor
  <2> HIDE DEF r
  <2> QED
    BY <1>3, <1>4 DEF Retried, Record
<1> PICK n \in Nat : n = r.retries
  BY <1>3
<1>7. /\ n \in 0..MaxRetries /\ n + 1 \in 1..MaxRetries /\ n + 1 <= MaxRetries
      /\ (n + 1) - 1 = n
  BY <1>1, TimeAssumption
<1>8. /\ Wait[n] \in Nat /\ Wait[n + 1] \in Nat /\ WaitUpTo[n] \in Nat
      /\ Wait[n + 1] = Wait[n] * BackoffFactor
      /\ WaitUpTo[n + 1] = Wait[n + 1] + WaitUpTo[n]
  BY <1>7, WaitValue, WaitUpToValue
<1> HIDE DEF next
<1>9. next.nextSend = epoch + Wait[n + 1]
  <2>1. r.nextSend - r.timeSent = Wait[n]
    BY <1>3, <1>5, <1>8
  <2> QED
    BY <1>6, <1>8, <2>1
<1>10. /\ next.nextSend <= issued[t].at + WaitUpTo[n + 1] /\ next.nextSend >= epoch
  <2>1. epoch <= issued[t].at + WaitUpTo[n]
    BY <1>5
  <2>2. /\ epoch + Wait[n + 1] <= issued[t].at + (Wait[n + 1] + WaitUpTo[n])
        /\ epoch + Wait[n + 1] >= epoch
    BY <1>3, <1>8, <2>1
  <2> QED
    BY <1>8, <1>9, <2>2
<1> PICK a \in inhabitants : a = turn
  BY <1>2
<1>11. /\ \A c \in Address, u \in Tag :
             callbacks'[c][u] = IF c = a /\ u = t THEN next ELSE callbacks[c][u]
       /\ a \in Address
  BY <1>1, <1>2 DEF Inv, TypeInv, TypeOK
<1>12. Due(a, t)'
  <2>1. callbacks'[a][t] = next /\ ~Visited(a)'
    BY <1>1, <1>2, <1>11, TimeTypes DEF Visited
  <2> QED
    BY <1>1, <1>6, <1>7, <1>9, <1>10, <2>1 DEF Due
<1>13. \A c \in inhabitants, u \in Tag : u \in Pending(c)' =>
           \/ u \in Pending(c) /\ callbacks'[c][u] = callbacks[c][u] /\ issued'[u] = issued[u]
           \/ Due(c, u)'
  <2>1. \A c \in inhabitants : c \in Address
    BY TimeTypes
  <2> QED
    BY <1>1, <1>11, <1>12, <2>1 DEF Pending
<1> QED
  BY <1>1, <1>13, TimeStands

\* The tick of a node ends when nothing is overdue.
LEMMA TimeEndAppTick ==
    ASSUME Inv, TimeInv, EndAppTick
    PROVE  TimeInv'
<1>1. /\ turn # NoTurn /\ phase = "tick" /\ phase' = "flush" /\ Overdue(turn) = {}
      /\ UNCHANGED <<epoch, turn, appEpoch, inhabitants, callbacks, issued>>
  BY DEF EndAppTick, history
<1>2. turn \in inhabitants /\ turn \in Address /\ appEpoch[turn] = epoch /\ epoch \in Nat
  BY <1>1, TimeTypes DEF TimeInv, Clock
<1>3. \A t \in Pending(turn) : callbacks[turn][t].nextSend > epoch
  BY <1>1, <1>2, TimeTypes DEF Overdue
<1>4. \A a \in inhabitants : Visited(a)' <=> Visited(a) \/ a = turn
  BY <1>1, TimeTypes DEF Visited
<1>5. ASSUME NEW a \in inhabitants
      PROVE  Clock(a)' /\ Pending(a)' = Pending(a)
  BY <1>1, <1>2, <1>4 DEF TimeInv, Clock, Pending
<1>6. ASSUME NEW a \in inhabitants, NEW t \in Pending(a)
      PROVE  Due(a, t)'
  BY <1>1, <1>3, <1>4 DEF TimeInv, Due
<1> QED
  BY <1>1, <1>5, <1>6 DEF TimeInv

\* The visit of the next inhabitant follows the flush of the one before; the
\* epoch ends when all have been visited.
LEMMA TimeAdvance ==
    ASSUME Inv, TimeInv, Advance, turn = NoTurn \/ phase = "flush",
           UNCHANGED <<inhabitants, callbacks, issued>>
    PROVE  TimeInv'
<1>1. /\ Zero \in inhabitants /\ NoTurn = 0 /\ \A a \in inhabitants : a \in Nat /\ a > 0
      /\ turn \in Nat /\ epoch \in Nat
      /\ \A a \in inhabitants : a \in Address /\ appEpoch[a] \in Nat /\ a # NoTurn
  <2>1. Zero \in inhabitants /\ turn \in inhabitants \cup {0} /\ epoch \in Nat
    BY DEF Inv, TypeInv, TypeOK, NoTurn
  <2>2. \A a \in inhabitants : a \in Address /\ appEpoch[a] \in Nat /\ a # NoTurn
    BY TimeTypes
  <2>3. \A a \in inhabitants : a \in Nat /\ a # 0
    BY <2>2, TimeTypes DEF NoTurn
  <2>4. \A n \in Nat : n # 0 => n > 0
    OBVIOUS
  <2> QED
    BY <2>1, <2>2, <2>3, <2>4 DEF NoTurn
<1>2. \A a \in inhabitants : Pending(a)' = Pending(a)
  BY DEF Pending
<1>3. CASE Later = {}
  <2>1. turn' = NoTurn /\ epoch' = epoch + 1 /\ UNCHANGED appEpoch
    BY <1>3 DEF Advance
  <2>2. \A a \in inhabitants : Visited(a)
    BY <1>1, <1>3 DEF Later, Visited
  <2>3. \A a \in inhabitants : ~Visited(a)' /\ a # turn'
    BY <1>1, <2>1 DEF Visited
  <2>4. ASSUME NEW a \in inhabitants
        PROVE  Clock(a)'
    <3>1. appEpoch[a] = epoch
      BY <2>2 DEF TimeInv, Clock
    <3> QED
      BY <1>1, <2>1, <2>3, <3>1 DEF Clock
  <2>5. ASSUME NEW a \in inhabitants, NEW t \in Pending(a)
        PROVE  Due(a, t)'
    <3>1. Due(a, t) /\ callbacks[a][t].nextSend > epoch
      BY <2>2, <2>5 DEF TimeInv, Due
    <3>2. callbacks[a][t].nextSend \in Nat
      BY <1>1, TimeTypes
    <3>3. callbacks[a][t].nextSend >= epoch + 1
      BY <1>1, <3>1, <3>2
    <3> QED
      BY <2>1, <2>3, <3>1, <3>3 DEF Due
  <2> QED
    BY <1>2, <2>4, <2>5 DEF TimeInv
<1>4. CASE Later # {}
  <2>1. PICK b \in Later : /\ \A c \in Later : b <= c
                           /\ turn' = b /\ phase' = "tick" /\ UNCHANGED epoch
                           /\ appEpoch' = [appEpoch EXCEPT ![b] = epoch]
    BY <1>4 DEF Advance
  <2>2. b \in inhabitants /\ b > turn
    BY <2>1 DEF Later
  <2>3. ASSUME NEW a \in inhabitants
        PROVE  /\ appEpoch'[a] = IF a = b THEN epoch ELSE appEpoch[a]
               /\ Visited(a)' => Visited(a)
    <3>1. appEpoch'[a] = IF a = b THEN epoch ELSE appEpoch[a]
      BY <1>1, <2>1, <2>2 DEF Inv, TypeInv, TypeOK
    <3>2. ASSUME Visited(a)' PROVE Visited(a)
      <4>1. a < b
        BY <2>1, <3>2 DEF Visited
      <4>2. ~(a > turn)
        BY <1>1, <2>1, <2>2, <4>1 DEF Later
      <4> QED
        BY <1>1, <4>2 DEF Visited
    <3> QED
      BY <3>1, <3>2
  <2>4. ASSUME NEW a \in inhabitants
        PROVE  Clock(a)'
    BY <1>1, <2>1, <2>3 DEF TimeInv, Clock
  <2>5. ASSUME NEW a \in inhabitants, NEW t \in Pending(a)
        PROVE  Due(a, t)'
    BY <2>1, <2>3 DEF TimeInv, Due
  <2> QED
    BY <1>2, <2>4, <2>5 DEF TimeInv
<1> QED
  BY <1>3, <1>4

\* The steps that take a message or a record away leave the others as due.
LEMMA TimeKeeps ==
    ASSUME Inv, TimeInv, UNCHANGED <<epoch, turn, phase, appEpoch, inhabitants, issued>>,
           \A a \in Address, t \in Tag : callbacks'[a][t] \in {callbacks[a][t], NoRecord}
    PROVE  TimeInv'
<1>1. \A a \in inhabitants : a \in Address
  BY TimeTypes
<1>2. \A a \in inhabitants, t \in Tag : t \in Pending(a)' =>
          /\ t \in Pending(a) /\ callbacks'[a][t] = callbacks[a][t]
          /\ issued'[t] = issued[t]
  BY <1>1 DEF Pending
<1> QED
  BY <1>2, TimeStands

\* A new node has no records and is born with the time of the network.
LEMMA TimeReplace ==
    ASSUME Inv, TimeInv, NEW a \in Address \cup {0}, NEW b \in Address \cup {0}, Replace(a, b)
    PROVE  TimeInv'
<1> DEFINE joins == {b} \ {0}
           fresh == joins \cup {a}
<1>1. /\ turn = NoTurn /\ UNCHANGED <<epoch, turn, phase, issued>>
      /\ inhabitants' = (inhabitants \ {a}) \cup joins
      /\ \A c \in Address :
            /\ appEpoch'[c] = IF c \in joins THEN epoch
                              ELSE IF c = a THEN 0 ELSE appEpoch[c]
            /\ c \notin fresh => callbacks'[c] = callbacks[c]
            /\ \A t \in Tag : c \in fresh => callbacks'[c][t] = NoRecord
  BY DEF Replace
<1>2. \A c \in Address : c # NoTurn
  BY TimeTypes
<1>3. epoch \in Nat /\ epoch <= epoch + 1 /\ inhabitants \subseteq Address
  BY TimeTypes
<1>4. ASSUME NEW c \in inhabitants'
      PROVE  Clock(c)' /\ \A t \in Pending(c)' : Due(c, t)'
  <2>1. c \in Address
    BY <1>1, <1>3
  <2>2. ~Visited(c)' /\ c # turn'
    BY <1>1, <1>2, <2>1 DEF Visited
  <2>3. CASE c \in joins
    <3>1. appEpoch'[c] = epoch /\ Pending(c)' = {}
      BY <1>1, <2>1, <2>3 DEF Pending
    <3> QED
      BY <1>1, <1>3, <2>2, <3>1 DEF Clock
  <2>4. CASE c \notin joins
    <3>1. c \in inhabitants /\ c \notin fresh /\ c # a
      BY <1>1, <2>4
    <3>2. appEpoch'[c] = appEpoch[c] /\ callbacks'[c] = callbacks[c]
      BY <1>1, <2>1, <2>4, <3>1
    <3>3. Pending(c)' = Pending(c)
      BY <3>2 DEF Pending
    <3>4. Clock(c)'
      BY <1>1, <2>2, <3>1, <3>2 DEF TimeInv, Clock
    <3>5. \A t \in Pending(c) : Due(c, t)'
      BY <1>1, <2>2, <3>1, <3>2 DEF TimeInv, Due
    <3> QED
      BY <3>3, <3>4, <3>5
  <2> QED
    BY <2>3, <2>4
<1> QED
  BY <1>4 DEF TimeInv

LEMMA TimeStep == Inv /\ TimeInv /\ [Next]_vars => TimeInv'
<1> SUFFICES ASSUME Inv, TimeInv, [Next]_vars
             PROVE  TimeInv'
  OBVIOUS
<1>1. CASE UNCHANGED vars
  BY <1>1, TimeKeeps DEF vars, program, history
<1>2. CASE StartTick \/ DropOversize \/ Requeue \/ FlushDone
  BY <1>2, TimeAdvance
  DEF StartTick, DropOversize, Requeue, FlushDone, Flushing, history
<1>3. CASE PassAlong
  BY <1>3, TimeKeeps DEF PassAlong
<1>4. CASE HandleReply \/ \E size \in ReplySize : HandleRequest(size)
  <2>1. PICK m \in SoundMessages : m.tag \in Tag /\ turn \in Address /\ Answer(m)
    BY <1>4, HandleEffect
  <2>2. \A a \in Address, t \in Tag : callbacks'[a][t] \in {callbacks[a][t], NoRecord}
    BY <2>1 DEF Answer, Inv, TypeInv, TypeOK
  <2> QED
    BY <1>4, <2>2, TimeKeeps DEF HandleReply, HandleRequest
<1>5. ASSUME NEW t \in Tag, GiveUp(t) PROVE TimeInv'
  <2>1. callbacks' = [callbacks EXCEPT ![turn][t] = NoRecord]
    BY <1>5 DEF GiveUp
  <2>2. \A a \in Address, u \in Tag : callbacks'[a][u] \in {callbacks[a][u], NoRecord}
    BY <2>1 DEF Inv, TypeInv, TypeOK
  <2> QED
    BY <1>5, <2>2, TimeKeeps DEF GiveUp
<1> QED
  BY <1>1, <1>2, <1>3, <1>4, <1>5, TimeSend, TimeRetry, TimeEndAppTick, TimeReplace
  DEF Next, NetworkTick, AppTick, Flush, Finished

\* No call is older between two ticks than the timeouts of its sends together,
\* whatever the messages, the load and the replacements of other nodes.
THEOREM CallsResolveInTime == Spec => []TimelyResolution
<1>1. ASSUME Inv, TimeInv PROVE TimelyResolution
  <2> SUFFICES ASSUME turn = NoTurn, NEW t \in Tag, status[t] = "waiting"
               PROVE  epoch <= issued[t].at + Patience
    BY DEF TimelyResolution
  <2> DEFINE a == issued[t].by
             r == callbacks[a][t]
  <2>1. a \in Address /\ t \in Pending(a)
    BY <1>1 DEF Inv, TypeInv, TypeOK, PendingInv, PendingIffWaiting
  <2>2. a \in inhabitants
    BY <1>1, <2>1 DEF Inv, PendingInv, AbsentWaitForNothing
  <2>3. /\ r.nextSend \in Nat /\ r.retries \in Nat /\ issued[t].at \in Nat /\ epoch \in Nat
    BY <1>1, <2>1, TimeTypes
  <2>4. /\ r.retries <= MaxRetries /\ r.nextSend >= epoch
        /\ r.nextSend <= issued[t].at + WaitUpTo[r.retries]
    BY <1>1, <2>1, <2>2 DEF TimeInv, Due
  <2>5. r.retries \in 0..MaxRetries
    BY <2>3, <2>4, TimeAssumption
  <2> HIDE DEF r
  <2>6. WaitUpTo[r.retries] \in Nat /\ WaitUpTo[r.retries] <= Patience
    BY <2>5, PatienceIsLongest, WaitUpToValue
  <2>7. Patience \in Nat
    BY WaitUpToValue, TimeAssumption DEF Patience
  <2> QED
    BY <2>3, <2>4, <2>6, <2>7
<1> QED
  BY <1>1, TimeInit, TimeStep, Invariance, PTL DEF Spec


-----------------------------------------------------------------------------
(* How often a request is handled.  Every request in a queue was put there  *)
(* by a send of its own: the first, or a retry the record has counted.  So   *)
(* what was handled and what is still queued are together no more than the  *)
(* sends, whoever left or answered meanwhile.                                *)

\* Where the queues q hold a request of tag t.
Asks(m, t) == m.type = "request" /\ m.tag = t
Copies(q, t) == {p \in Address \X Nat : p[2] \in DOMAIN q[p[1]] /\ Asks(q[p[1]][p[2]], t)}
Count(q, t) == Cardinality(Copies(q, t))
One(m, t) == IF Asks(m, t) THEN 1 ELSE 0

\* How often the request of tag t may have been sent.
Sends(t) == CASE status[t] = "unused" -> 0
              [] status[t] = "waiting" -> 1 + callbacks[issued[t].by][t].retries
              [] OTHER -> 1 + MaxRetries

CountInv ==
    \A t \in Tag : /\ IsFiniteSet(Copies(inqueue, t)) /\ IsFiniteSet(Copies(outqueue, t))
                   /\ executed[t] + (Count(inqueue, t) + Count(outqueue, t)) <= Sends(t)

\* Removing the head of a queue removes what it asks, and moves the rest up.
LEMMA PopCopies ==
    ASSUME NEW q \in [Address -> Seq(Message)], NEW a \in Address, q[a] # <<>>,
           NEW t, IsFiniteSet(Copies(q, t)),
           NEW r, r = [q EXCEPT ![a] = Tail(@)]
    PROVE  /\ IsFiniteSet(Copies(r, t))
           /\ Count(r, t) + One(Head(q[a]), t) <= Count(q, t)
<1> DEFINE first == <<a, 1>>
           rest == Copies(q, t) \ {first}
           up == [p \in Copies(r, t) |-> IF p[1] = a THEN <<a, p[2] + 1>> ELSE p]
<1>1. /\ Len(q[a]) \in Nat /\ Len(q[a]) > 0
      /\ DOMAIN q[a] = 1..Len(q[a]) /\ DOMAIN r[a] = 1..(Len(q[a]) - 1)
      /\ \A i \in DOMAIN r[a] : r[a][i] = q[a][i + 1]
      /\ Head(q[a]) = q[a][1]
      /\ \A b \in Address \ {a} : r[b] = q[b]
  <2>1. q[a] \in Seq(Message) /\ r[a] = Tail(q[a]) /\ \A b \in Address \ {a} : r[b] = q[b]
    OBVIOUS
  <2> QED
    BY <2>1
<1>2. first \in Copies(q, t) <=> Asks(Head(q[a]), t)
  BY <1>1 DEF Copies
<1>3. up \in Injection(Copies(r, t), rest)
  <2>1. ASSUME NEW p \in Copies(r, t)
        PROVE  /\ p[1] \in Address /\ p[2] \in Nat /\ p = <<p[1], p[2]>>
               /\ up[p] = IF p[1] = a THEN <<a, p[2] + 1>> ELSE p
               /\ up[p] \in rest
    <3>1. /\ p[1] \in Address /\ p[2] \in Nat /\ p = <<p[1], p[2]>>
          /\ p[2] \in DOMAIN r[p[1]] /\ Asks(r[p[1]][p[2]], t)
      BY DEF Copies
    <3>2. CASE p[1] = a
      <4>1. p[2] + 1 \in DOMAIN q[a] /\ p[2] + 1 # 1 /\ p[2] + 1 \in Nat
        BY <1>1, <3>1, <3>2
      <4>2. Asks(q[a][p[2] + 1], t)
        BY <1>1, <3>1, <3>2
      <4> DEFINE n == p[2] + 1
      <4>3. up[p] = <<a, n>>
        BY <3>2
      <4> HIDE DEF n, up
      <4>4. <<a, n>> \in Copies(q, t) /\ <<a, n>> # first
        BY <4>1, <4>2 DEF Copies, n
      <4> QED
        BY <3>1, <3>2, <4>3, <4>4 DEF n
    <3>3. CASE p[1] # a
      <4>1. up[p] = p /\ p \in Copies(q, t) /\ p # first
        BY <1>1, <3>1, <3>3 DEF Copies
      <4> QED
        BY <3>1, <3>3, <4>1
    <3> QED
      BY <3>2, <3>3
  <2>2. ASSUME NEW p \in Copies(r, t), NEW o \in Copies(r, t), up[p] = up[o]
        PROVE  p = o
    <3>1. \A c \in Copies(r, t) :
              /\ up[c][1] = c[1]
              /\ up[c][2] = IF c[1] = a THEN c[2] + 1 ELSE c[2]
      BY <2>1
    <3>2. p[1] = o[1] /\ up[p][2] = up[o][2]
      BY <2>2, <3>1
    <3>3. (IF p[1] = a THEN p[2] + 1 ELSE p[2]) = (IF p[1] = a THEN o[2] + 1 ELSE o[2])
      BY <3>1, <3>2
    <3>4. p[2] \in Nat /\ o[2] \in Nat /\ p = <<p[1], p[2]>> /\ o = <<o[1], o[2]>>
      BY <2>1
    <3>5. p[2] = o[2]
      BY <3>3, <3>4
    <3> QED
      BY <3>2, <3>4, <3>5
  <2>3. up \in [Copies(r, t) -> rest]
    BY <2>1
  <2> QED
    <3> HIDE DEF up, rest
    <3> QED
      BY <2>2, <2>3 DEF Injection, IsInjective
<1>4. /\ IsFiniteSet(rest)
      /\ Cardinality(rest) = IF first \in Copies(q, t) THEN Count(q, t) - 1 ELSE Count(q, t)
  BY FS_RemoveElement DEF Count
<1>5. IsFiniteSet(Copies(r, t)) /\ Count(r, t) <= Cardinality(rest)
  BY <1>3, <1>4, FS_Injection DEF Count
<1>6. Count(q, t) \in Nat /\ Count(r, t) \in Nat
  BY <1>5, FS_CardinalityType DEF Count
<1> QED
  BY <1>2, <1>4, <1>5, <1>6 DEF One

\* Pushing a message adds what it asks, if it is not refused.
LEMMA PushCopies ==
    ASSUME NEW q \in [Address -> Seq(Message)], NEW a \in Address, NEW m \in Message,
           NEW limit \in Nat, NEW t, IsFiniteSet(Copies(q, t)),
           NEW r, r = [q EXCEPT ![a] = Push(@, m, limit)]
    PROVE  /\ IsFiniteSet(Copies(r, t))
           /\ Count(r, t) <= Count(q, t) + One(m, t)
<1> DEFINE last == <<a, Len(q[a]) + 1>>
           both == Copies(q, t) \cup {last}
<1>1. Count(q, t) \in Nat
  BY FS_CardinalityType DEF Count
<1>2. CASE ~(Len(q[a]) < limit)
  <2>1. r = q
    BY <1>2 DEF Push
  <2> QED
    BY <1>1, <2>1 DEF One
<1>3. CASE Len(q[a]) < limit
  <2>1. /\ q[a] \in Seq(Message) /\ r[a] = Append(q[a], m)
        /\ \A b \in Address \ {a} : r[b] = q[b]
    BY <1>3 DEF Push
  <2>2. /\ Len(q[a]) \in Nat
        /\ DOMAIN q[a] = 1..Len(q[a]) /\ DOMAIN r[a] = 1..(Len(q[a]) + 1)
        /\ \A i \in DOMAIN q[a] : r[a][i] = q[a][i]
        /\ r[a][Len(q[a]) + 1] = m
    BY <2>1
  <2>3. ASSUME NEW p \in Copies(r, t)
        PROVE  p \in Copies(q, t) \/ (p = last /\ Asks(m, t))
    <3>1. /\ p[1] \in Address /\ p[2] \in Nat /\ p = <<p[1], p[2]>> /\ p \in Address \X Nat
          /\ p[2] \in DOMAIN r[p[1]] /\ Asks(r[p[1]][p[2]], t)
      BY DEF Copies
    <3>2. CASE p[1] # a
      BY <2>1, <3>1, <3>2 DEF Copies
    <3>3. CASE p[1] = a /\ p[2] = Len(q[a]) + 1
      BY <2>2, <3>1, <3>3
    <3>4. CASE p[1] = a /\ p[2] # Len(q[a]) + 1
      <4>1. p[2] \in DOMAIN q[a]
        BY <2>2, <3>1, <3>4
      <4> QED
        BY <2>2, <3>1, <3>4, <4>1 DEF Copies
    <3> QED
      BY <3>2, <3>3, <3>4
  <2>4. CASE Asks(m, t)
    <3>1. Copies(r, t) \in SUBSET both
      BY <2>3
    <3>2. IsFiniteSet(both) /\ Cardinality(both) \in Nat /\ Cardinality(both) <= Count(q, t) + 1
      <4>1. /\ IsFiniteSet(both)
            /\ Cardinality(both) = IF last \in Copies(q, t) THEN Count(q, t) ELSE Count(q, t) + 1
        BY FS_AddElement DEF Count
      <4> HIDE DEF both
      <4> QED
        BY <1>1, <4>1
    <3> HIDE DEF both
    <3>3. IsFiniteSet(Copies(r, t)) /\ Count(r, t) <= Cardinality(both)
      BY <3>1, <3>2, FS_Subset DEF Count
    <3>4. Count(r, t) \in Nat
      BY <3>3, FS_CardinalityType DEF Count
    <3> QED
      BY <1>1, <2>4, <3>2, <3>3, <3>4 DEF One
  <2>5. CASE ~Asks(m, t)
    <3>1. Copies(r, t) \in SUBSET Copies(q, t)
      BY <2>3, <2>5
    <3>2. IsFiniteSet(Copies(r, t)) /\ Count(r, t) <= Count(q, t)
      BY <3>1, FS_Subset DEF Count
    <3> QED
      BY <1>1, <2>5, <3>2 DEF One
  <2> QED
    BY <2>4, <2>5
<1> QED
  BY <1>2, <1>3

\* Emptying queues removes copies.
LEMMA ClearCopies ==
    ASSUME NEW q, NEW r, \A a \in Address : r[a] = q[a] \/ r[a] = <<>>,
           NEW t, IsFiniteSet(Copies(q, t))
    PROVE  IsFiniteSet(Copies(r, t)) /\ Count(r, t) <= Count(q, t)
<1>1. Copies(r, t) \in SUBSET Copies(q, t)
  <2> SUFFICES ASSUME NEW p \in Copies(r, t) PROVE p \in Copies(q, t)
    OBVIOUS
  <2>1. p \in Address \X Nat /\ p[2] \in DOMAIN r[p[1]] /\ Asks(r[p[1]][p[2]], t)
    BY DEF Copies
  <2>2. r[p[1]] = q[p[1]]
    BY <2>1
  <2> QED
    BY <2>1, <2>2 DEF Copies
<1> QED
  BY <1>1, FS_Subset DEF Count


LEMMA CountInit == Init => CountInv
<1> SUFFICES ASSUME Init, NEW t \in Tag
             PROVE  /\ Copies(inqueue, t) = {} /\ Copies(outqueue, t) = {}
                    /\ executed[t] = 0 /\ status[t] = "unused"
  BY FS_EmptySet DEF CountInv, Count, Sends
<1>1. \A a \in Address : inqueue[a] = <<>> /\ outqueue[a] = <<>>
  BY DEF Init
<1> QED
  BY <1>1 DEF Init, Copies

\* A record counts no more retries than there may be.
LEMMA CountTypes ==
    ASSUME Inv, TimeInv, CountInv, NEW t \in Tag
    PROVE  /\ executed[t] \in Nat /\ Count(inqueue, t) \in Nat /\ Count(outqueue, t) \in Nat
           /\ Sends(t) \in Nat /\ Sends(t) <= 1 + MaxRetries
<1>1. executed[t] \in Nat /\ MaxRetries \in Nat
  BY TimeAssumption DEF Inv, TypeInv, TypeOK
<1>2. Count(inqueue, t) \in Nat /\ Count(outqueue, t) \in Nat
  BY FS_CardinalityType DEF CountInv, Count
<1>3. CASE status[t] = "waiting"
  <2> DEFINE a == issued[t].by
  <2>1. a \in Address /\ t \in Pending(a)
    BY <1>3 DEF Inv, TypeInv, TypeOK, PendingInv, PendingIffWaiting
  <2>2. a \in inhabitants
    BY <2>1 DEF Inv, PendingInv, AbsentWaitForNothing
  <2>3. callbacks[a][t].retries \in Nat /\ callbacks[a][t].retries <= MaxRetries
    BY <2>1, <2>2, TimeTypes DEF TimeInv, Due
  <2>4. Sends(t) = 1 + callbacks[a][t].retries
    BY <1>3 DEF Sends
  <2> HIDE DEF a
  <2> QED
    BY <1>1, <1>2, <2>3, <2>4
<1>4. CASE status[t] # "waiting"
  BY <1>1, <1>2, <1>4 DEF Sends
<1> QED
  BY <1>3, <1>4

\* A message whose record is kept as it is, or that is over, may still have been
\* sent as often as before.
LEMMA SendsKeep ==
    ASSUME Inv, TimeInv, CountInv, NEW t \in Tag,
           \/ /\ status'[t] = status[t] /\ issued'[t] = issued[t]
              /\ status[t] = "waiting" =>
                    callbacks'[issued[t].by][t] = callbacks[issued[t].by][t]
           \/ status'[t] \notin {"unused", "waiting"}
    PROVE  Sends(t)' \in Nat /\ Sends(t) <= Sends(t)'
<1>1. Sends(t) \in Nat /\ Sends(t) <= 1 + MaxRetries /\ 1 + MaxRetries \in Nat
  BY CountTypes, TimeAssumption
<1>2. CASE status'[t] \notin {"unused", "waiting"}
  <2>1. Sends(t)' = 1 + MaxRetries
    BY <1>2 DEF Sends
  <2> QED
    BY <1>1, <2>1
<1>3. CASE /\ status'[t] = status[t] /\ issued'[t] = issued[t]
           /\ status[t] = "waiting" =>
                 callbacks'[issued[t].by][t] = callbacks[issued[t].by][t]
  <2>1. Sends(t)' = Sends(t)
    BY <1>3 DEF Sends
  <2> QED
    BY <1>1, <2>1
<1> QED
  BY <1>2, <1>3

\* The first send puts the only request of its tag into a queue.
LEMMA CountSend ==
    ASSUME Inv, TimeInv, CountInv, NEW a \in Address, NEW b \in Address, NEW t \in Tag,
           NEW size \in RequestSize, NEW s \in {"posted", "waiting"}, Send(a, b, t, size, s)
    PROVE  CountInv'
<1> DEFINE m == [type |-> "request", originator |-> a, destination |-> b,
                 tag |-> t, size |-> size]
           r == SentMessage(m, appEpoch[a])
<1>1. /\ outqueue' = [outqueue EXCEPT ![a] = Push(@, m, OutqueueLimit)]
      /\ callbacks' = [callbacks EXCEPT ![a][t] = IF s = "waiting" THEN r ELSE @]
      /\ status' = [status EXCEPT ![t] = s]
      /\ issued' = [issued EXCEPT ![t] = [by |-> a, to |-> b, at |-> epoch]]
      /\ executed' = executed /\ inqueue' = inqueue /\ status[t] = "unused"
  BY DEF Send
<1>2. m \in Message /\ m.tag = t /\ r.retries = 0
  BY DEF Message, SentMessage
<1> HIDE DEF m, r
<1>3. /\ \A u \in Tag \ {t} : status'[u] = status[u] /\ issued'[u] = issued[u]
      /\ \A c \in Address, u \in Tag \ {t} : callbacks'[c][u] = callbacks[c][u]
      /\ \A u \in Tag : issued[u].by \in Address
      /\ status'[t] = s /\ issued'[t].by = a
      /\ s = "waiting" => callbacks'[a][t] = r
  BY <1>1 DEF Inv, TypeInv, TypeOK
<1>4. ASSUME NEW u \in Tag
      PROVE  /\ IsFiniteSet(Copies(outqueue', u))
             /\ Count(outqueue', u) <= Count(outqueue, u) + One(m, u)
             /\ Count(outqueue', u) \in Nat
  <2>1. outqueue \in [Address -> Seq(Message)] /\ OutqueueLimit \in Nat
    BY LimitAssumption DEF Inv, TypeInv, TypeOK
  <2>2. IsFiniteSet(Copies(outqueue', u)) /\ Count(outqueue', u) <= Count(outqueue, u) + One(m, u)
    BY <1>1, <1>2, <2>1, PushCopies DEF CountInv
  <2> QED
    BY <2>2, FS_CardinalityType DEF Count
<1>5. ASSUME NEW u \in Tag
      PROVE  executed'[u] + (Count(inqueue', u) + Count(outqueue', u)) <= Sends(u)'
  <2>1. /\ executed[u] \in Nat /\ Count(inqueue, u) \in Nat /\ Count(outqueue, u) \in Nat
        /\ executed[u] + (Count(inqueue, u) + Count(outqueue, u)) <= Sends(u)
        /\ Sends(u) \in Nat
    BY CountTypes DEF CountInv
  <2>2. executed'[u] = executed[u] /\ Count(inqueue', u) = Count(inqueue, u)
    BY <1>1
  <2>3. CASE u = t
    <3>1. Sends(u) = 0
      BY <1>1, <2>3 DEF Sends
    <3>2. Sends(u)' >= 1 /\ Sends(u)' \in Nat
      BY <1>2, <1>3, <2>3, TimeAssumption DEF Sends
    <3>3. One(m, u) \in {0, 1}
      BY DEF One
    <3> QED
      BY <1>4, <2>1, <2>2, <3>1, <3>2, <3>3
  <2>4. CASE u # t
    <3>1. One(m, u) = 0
      BY <1>2, <2>4 DEF One, Asks
    <3>2. Sends(u)' \in Nat /\ Sends(u) <= Sends(u)'
      BY <1>3, <2>4, SendsKeep
    <3> QED
      BY <1>4, <2>1, <2>2, <3>1, <3>2
  <2> QED
    BY <2>3, <2>4
<1> QED
  BY <1>1, <1>4, <1>5 DEF CountInv

\* A request that is handled leaves its queue; the response is no request.
LEMMA CountHandle ==
    ASSUME Inv, TimeInv, CountInv, HandleReply \/ \E size \in ReplySize : HandleRequest(size)
    PROVE  CountInv'
<1> PICK m \in SoundMessages : m = Head(inqueue[turn])
  BY HandleEffect
<1> PICK a \in Address : a = turn
  BY HandleEffect
<1>1. /\ inqueue' = [inqueue EXCEPT ![a] = Tail(@)] /\ inqueue[a] # <<>>
      /\ callbacks' = [callbacks EXCEPT ![a][m.tag] = NoRecord]
      /\ status' = IF m.tag \in Pending(a) THEN [status EXCEPT ![m.tag] = "success"] ELSE status
      /\ executed' = [executed EXCEPT ![m.tag] =
                         executed[m.tag] + (IF m.type = "request" THEN 1 ELSE 0)]
      /\ issued' = issued /\ m.tag \in Tag /\ m \in Message
  BY HandleEffect DEF Answer, HandleReply, HandleRequest, SoundMessages
<1>2. \/ outqueue' = outqueue
      \/ \E r \in Message : /\ r.type = "reply"
                            /\ outqueue' = [outqueue EXCEPT ![a] = Push(@, r, OutqueueLimit)]
  <2>1. CASE HandleReply
    BY <2>1 DEF HandleReply
  <2>2. ASSUME NEW size \in ReplySize, HandleRequest(size)
        PROVE  \E r \in Message : /\ r.type = "reply"
                                  /\ outqueue' = [outqueue EXCEPT ![a] = Push(@, r, OutqueueLimit)]
    <3>1. ReplyTo(m, size) \in Message /\ ReplyTo(m, size).type = "reply"
      BY <1>1, ReplyType DEF ReplyTo
    <3>2. outqueue' = [outqueue EXCEPT ![a] = Push(@, ReplyTo(m, size), OutqueueLimit)]
      BY <2>2 DEF HandleRequest
    <3> QED
      BY <3>1, <3>2
  <2> QED
    BY <2>1, <2>2
<1>3. /\ inqueue \in [Address -> Seq(Message)] /\ outqueue \in [Address -> Seq(Message)]
      /\ OutqueueLimit \in Nat
  BY LimitAssumption DEF Inv, TypeInv, TypeOK
<1>4. ASSUME NEW u \in Tag
      PROVE  /\ IsFiniteSet(Copies(inqueue', u)) /\ Count(inqueue', u) \in Nat
             /\ Count(inqueue', u) + One(m, u) <= Count(inqueue, u)
  <2>1. /\ IsFiniteSet(Copies(inqueue', u))
        /\ Count(inqueue', u) + One(m, u) <= Count(inqueue, u)
    BY <1>1, <1>3, PopCopies DEF CountInv
  <2> QED
    BY <2>1, FS_CardinalityType DEF Count
<1>5. ASSUME NEW u \in Tag
      PROVE  /\ IsFiniteSet(Copies(outqueue', u)) /\ Count(outqueue', u) \in Nat
             /\ Count(outqueue', u) <= Count(outqueue, u)
  <2>1. IsFiniteSet(Copies(outqueue, u)) /\ Count(outqueue, u) \in Nat
    BY CountTypes DEF CountInv
  <2>2. CASE outqueue' = outqueue
    BY <2>1, <2>2
  <2>3. ASSUME NEW r \in Message, r.type = "reply",
               outqueue' = [outqueue EXCEPT ![a] = Push(@, r, OutqueueLimit)]
        PROVE  /\ IsFiniteSet(Copies(outqueue', u)) /\ Count(outqueue', u) \in Nat
               /\ Count(outqueue', u) <= Count(outqueue, u)
    <3>1. /\ IsFiniteSet(Copies(outqueue', u))
          /\ Count(outqueue', u) <= Count(outqueue, u) + One(r, u)
      BY <1>3, <2>1, <2>3, PushCopies
    <3>2. One(r, u) = 0
      BY <2>3 DEF One, Asks
    <3>3. Count(outqueue', u) \in Nat
      BY <3>1, FS_CardinalityType DEF Count
    <3> QED
      BY <2>1, <3>1, <3>2, <3>3
  <2> QED
    BY <1>2, <2>2, <2>3
<1>6. ASSUME NEW u \in Tag
      PROVE  executed'[u] + (Count(inqueue', u) + Count(outqueue', u)) <= Sends(u)'
  <2>1. /\ executed[u] \in Nat /\ Count(inqueue, u) \in Nat /\ Count(outqueue, u) \in Nat
        /\ executed[u] + (Count(inqueue, u) + Count(outqueue, u)) <= Sends(u)
        /\ Sends(u) \in Nat
    BY CountTypes DEF CountInv
  <2>2. executed'[u] = executed[u] + One(m, u) /\ One(m, u) \in {0, 1}
    <3>1. executed \in [Tag -> Nat]
      BY DEF Inv, TypeInv, TypeOK
    <3>2. CASE u = m.tag
      BY <1>1, <2>1, <3>1, <3>2 DEF One, Asks
    <3>3. CASE u # m.tag
      BY <1>1, <2>1, <3>1, <3>3 DEF One, Asks
    <3> QED
      BY <3>2, <3>3
  <2>3. Sends(u)' \in Nat /\ Sends(u) <= Sends(u)'
    <3>1. /\ issued[u].by \in Address /\ DOMAIN status = Tag
          /\ callbacks \in [Address -> [Tag -> Record \cup {NoRecord}]]
          /\ \A c \in Address : u \in Pending(c) <=> status[u] = "waiting" /\ issued[u].by = c
      BY DEF Inv, TypeInv, TypeOK, PendingInv, PendingIffWaiting
    <3>2. CASE u = m.tag /\ u \in Pending(a)
      <4>1. status'[u] = "success"
        BY <1>1, <3>1, <3>2
      <4> QED
        BY <4>1, SendsKeep
    <3>3. CASE ~(u = m.tag /\ u \in Pending(a))
      <4>1. status'[u] = status[u] /\ issued'[u] = issued[u]
        BY <1>1, <3>1, <3>3
      <4>2. status[u] = "waiting" => callbacks'[issued[u].by][u] = callbacks[issued[u].by][u]
        BY <1>1, <3>1, <3>3
      <4> QED
        BY <4>1, <4>2, SendsKeep
    <3> QED
      BY <3>2, <3>3
  <2> QED
    BY <1>4, <1>5, <2>1, <2>2, <2>3
<1> QED
  BY <1>4, <1>5, <1>6 DEF CountInv

\* A retry puts one request into a queue and is counted by the record; a call
\* that is given up is over.
LEMMA CountScan ==
    ASSUME Inv, TimeInv, CountInv, NEW t \in Tag, AttemptRetry(t) \/ GiveUp(t)
    PROVE  CountInv'
<1>1. /\ turn \in Address /\ t \in Pending(turn) /\ inqueue' = inqueue /\ executed' = executed
      /\ issued' = issued
  BY DEF AttemptRetry, GiveUp, Scanning, Overdue, Inv, TypeInv, TypeOK, NoTurn
<1> PICK a \in Address : a = turn
  BY <1>1
<1>2. /\ status[t] = "waiting" /\ issued[t].by = a /\ callbacks[a][t] \in Record
      /\ \A u \in Tag : issued[u].by \in Address
      /\ DOMAIN status = Tag
      /\ callbacks \in [Address -> [Tag -> Record \cup {NoRecord}]]
  <2>1. status[t] = "waiting" /\ issued[t].by = a
    BY <1>1, RecordSound
  <2>2. callbacks \in [Address -> [Tag -> Record \cup {NoRecord}]] /\ DOMAIN status = Tag
    BY DEF Inv, TypeInv, TypeOK
  <2>3. \A u \in Tag : issued[u].by \in Address
    BY DEF Inv, TypeInv, TypeOK
  <2>4. callbacks[a][t] \in Record
    BY <1>1, <2>2 DEF Pending
  <2> QED
    BY <2>1, <2>2, <2>3, <2>4
<1>3. ASSUME NEW u \in Tag
      PROVE  /\ executed'[u] = executed[u] /\ executed[u] \in Nat
             /\ IsFiniteSet(Copies(inqueue', u)) /\ Count(inqueue', u) = Count(inqueue, u)
             /\ Count(inqueue, u) \in Nat /\ Count(outqueue, u) \in Nat
             /\ executed[u] + (Count(inqueue, u) + Count(outqueue, u)) <= Sends(u)
             /\ Sends(u) \in Nat /\ IsFiniteSet(Copies(outqueue, u))
  BY <1>1, CountTypes DEF CountInv
<1>4. CASE GiveUp(t)
  <2>1. /\ outqueue' = outqueue
        /\ callbacks' = [callbacks EXCEPT ![a][t] = NoRecord]
        /\ status' = [status EXCEPT ![t] = "failure"]
    BY <1>4 DEF GiveUp
  <2>2. ASSUME NEW u \in Tag
        PROVE  Sends(u)' \in Nat /\ Sends(u) <= Sends(u)'
    <3>1. CASE u = t
      <4>1. status'[u] = "failure"
        BY <1>2, <2>1, <3>1
      <4> QED
        BY <4>1, SendsKeep
    <3>2. CASE u # t
      <4>1. /\ status'[u] = status[u] /\ issued'[u] = issued[u]
            /\ callbacks'[issued[u].by][u] = callbacks[issued[u].by][u]
        BY <1>1, <1>2, <2>1, <3>2
      <4> QED
        BY <4>1, SendsKeep
    <3> QED
      BY <3>1, <3>2
  <2>3. ASSUME NEW u \in Tag
        PROVE  executed'[u] + (Count(inqueue', u) + Count(outqueue', u)) <= Sends(u)'
    <3>1. Count(outqueue', u) = Count(outqueue, u)
      BY <2>1
    <3> QED
      BY <1>3, <2>2, <3>1
  <2> QED
    BY <1>3, <2>1, <2>3 DEF CountInv
<1>5. CASE AttemptRetry(t)
  <2> DEFINE m == callbacks[a][t].message
             r == Retried(callbacks[a][t], appEpoch[a])
  <2>1. /\ status' = status
        /\ outqueue' = [outqueue EXCEPT ![a] = Push(@, m, OutqueueLimit)]
        /\ callbacks' = [callbacks EXCEPT ![a][t] = r]
    BY <1>5 DEF AttemptRetry
  <2>2. m \in Message /\ m.tag = t /\ r.retries = callbacks[a][t].retries + 1
    <3>1. m \in Message /\ m.tag = t
      BY <1>1, <1>2 DEF Inv, SoundInv, RecordsSound, Record
    <3>2. r.retries = callbacks[a][t].retries + 1
      BY <1>2 DEF Retried, Record
    <3> QED
      BY <3>1, <3>2
  <2>3. outqueue \in [Address -> Seq(Message)] /\ OutqueueLimit \in Nat
    BY LimitAssumption DEF Inv, TypeInv, TypeOK
  <2> HIDE DEF m, r
  <2>4. ASSUME NEW u \in Tag
        PROVE  /\ IsFiniteSet(Copies(outqueue', u)) /\ Count(outqueue', u) \in Nat
               /\ Count(outqueue', u) <= Count(outqueue, u) + One(m, u)
    <3>1. /\ IsFiniteSet(Copies(outqueue', u))
          /\ Count(outqueue', u) <= Count(outqueue, u) + One(m, u)
      BY <1>3, <2>1, <2>2, <2>3, PushCopies
    <3> QED
      BY <3>1, FS_CardinalityType DEF Count
  <2>5. ASSUME NEW u \in Tag
        PROVE  executed'[u] + (Count(inqueue', u) + Count(outqueue', u)) <= Sends(u)'
    <3>1. CASE u = t
      <4>1. callbacks'[a][t] = r
        BY <1>2, <2>1
      <4>2. callbacks[a][t].retries \in Nat
        BY <1>2 DEF Record
      <4>3. Sends(u) = 1 + callbacks[a][t].retries /\ Sends(u)' = 1 + r.retries
        BY <1>1, <1>2, <2>1, <3>1, <4>1 DEF Sends
      <4>4. Sends(u)' = Sends(u) + 1
        BY <2>2, <4>2, <4>3
      <4>5. One(m, u) \in {0, 1}
        BY DEF One
      <4> QED
        BY <1>3, <2>4, <4>4, <4>5
    <3>2. CASE u # t
      <4>1. One(m, u) = 0
        BY <2>2, <3>2 DEF One, Asks
      <4>2. /\ status'[u] = status[u] /\ issued'[u] = issued[u]
            /\ callbacks'[issued[u].by][u] = callbacks[issued[u].by][u]
        BY <1>1, <1>2, <2>1, <3>2
      <4>3. Sends(u)' \in Nat /\ Sends(u) <= Sends(u)'
        BY <4>2, SendsKeep
      <4> QED
        BY <1>3, <2>4, <4>1, <4>3
    <3> QED
      BY <3>1, <3>2
  <2> QED
    BY <1>3, <2>4, <2>5 DEF CountInv
<1> QED
  BY <1>4, <1>5

\* What the network and the experiment do takes no request out of a queue but
\* to put it into another, or to discard it.
LEMMA CountMoves ==
    ASSUME Inv, TimeInv, CountInv, executed' = executed,
           \A u \in Tag :
               /\ \/ /\ status'[u] = status[u] /\ issued'[u] = issued[u]
                     /\ status[u] = "waiting" =>
                           callbacks'[issued[u].by][u] = callbacks[issued[u].by][u]
                  \/ status'[u] \notin {"unused", "waiting"}
               /\ IsFiniteSet(Copies(inqueue', u)) /\ IsFiniteSet(Copies(outqueue', u))
               /\ Count(inqueue', u) + Count(outqueue', u)
                     <= Count(inqueue, u) + Count(outqueue, u)
    PROVE  CountInv'
<1> SUFFICES ASSUME NEW u \in Tag
             PROVE  executed'[u] + (Count(inqueue', u) + Count(outqueue', u)) <= Sends(u)'
  BY DEF CountInv
<1>1. Count(inqueue', u) \in Nat /\ Count(outqueue', u) \in Nat
  BY FS_CardinalityType DEF Count
<1>2. Sends(u)' \in Nat /\ Sends(u) <= Sends(u)'
  BY SendsKeep
<1>3. /\ executed[u] \in Nat /\ Count(inqueue, u) \in Nat /\ Count(outqueue, u) \in Nat
      /\ Sends(u) \in Nat
      /\ executed[u] + (Count(inqueue, u) + Count(outqueue, u)) <= Sends(u)
  BY CountTypes DEF CountInv
<1> DEFINE old == Count(inqueue, u) + Count(outqueue, u)
           new == Count(inqueue', u) + Count(outqueue', u)
<1>4. old \in Nat /\ new \in Nat /\ new <= old /\ executed[u] + old <= Sends(u)
  BY <1>1, <1>3
<1> HIDE DEF old, new
<1>5. executed[u] + new <= Sends(u)'
  BY <1>2, <1>3, <1>4
<1> QED
  BY <1>5 DEF new

LEMMA CountFlush ==
    ASSUME Inv, TimeInv, CountInv, Flush
    PROVE  CountInv'
<1>1. UNCHANGED <<status, executed, issued, callbacks>>
  BY DEF Flush, FlushDone, DropOversize, Requeue, PassAlong, history
<1>2. /\ inqueue \in [Address -> Seq(Message)] /\ outqueue \in [Address -> Seq(Message)]
      /\ OutqueueLimit \in Nat /\ InqueueLimit \in Nat
  BY LimitAssumption DEF Inv, TypeInv, TypeOK
<1> SUFFICES ASSUME NEW u \in Tag
             PROVE  /\ IsFiniteSet(Copies(inqueue', u)) /\ IsFiniteSet(Copies(outqueue', u))
                    /\ Count(inqueue', u) + Count(outqueue', u)
                          <= Count(inqueue, u) + Count(outqueue, u)
  BY <1>1, CountMoves
<1>3. /\ Count(inqueue, u) \in Nat /\ Count(outqueue, u) \in Nat
      /\ IsFiniteSet(Copies(inqueue, u)) /\ IsFiniteSet(Copies(outqueue, u))
  BY CountTypes DEF CountInv
<1>4. CASE FlushDone
  <2>1. inqueue' = inqueue /\ outqueue' = outqueue
    BY <1>4 DEF FlushDone
  <2> QED
    BY <1>3, <2>1
<1>5. CASE DropOversize \/ Requeue \/ PassAlong
  <2>1. turn \in Address /\ outqueue[turn] # <<>>
    BY <1>5 DEF DropOversize, Requeue, PassAlong, Flushing, Inv, TypeInv, TypeOK
  <2> PICK a \in Address : a = turn
    BY <2>1
  <2>2. Head(outqueue[a]) \in Message
    BY <1>2, <2>1, TailType
  <2> PICK m \in Message : m = Head(outqueue[a])
    BY <2>2
  <2> DEFINE rest == [outqueue EXCEPT ![a] = Tail(@)]
  <2>3. /\ IsFiniteSet(Copies(rest, u)) /\ Count(rest, u) \in Nat
        /\ Count(rest, u) + One(m, u) <= Count(outqueue, u)
        /\ rest \in [Address -> Seq(Message)] /\ One(m, u) \in {0, 1}
    <3>1. rest \in [Address -> Seq(Message)]
      BY <1>2, <2>1, TailType
    <3>2. /\ IsFiniteSet(Copies(rest, u))
          /\ Count(rest, u) + One(m, u) <= Count(outqueue, u)
      BY <1>2, <1>3, <2>1, PopCopies
    <3>3. Count(rest, u) \in Nat
      BY <3>2, FS_CardinalityType DEF Count
    <3> QED
      BY <3>1, <3>2, <3>3 DEF One
  <2>4. CASE DropOversize
    <3>1. inqueue' = inqueue /\ outqueue' = rest
      BY <2>4 DEF DropOversize, Unqueue
    <3> HIDE DEF rest
    <3> QED
      BY <1>3, <2>3, <3>1
  <2>5. CASE Requeue
    <3>1. inqueue' = inqueue /\ outqueue' = [rest EXCEPT ![a] = Push(@, m, OutqueueLimit)]
      BY <1>2, <2>5 DEF Requeue
    <3> HIDE DEF rest
    <3>2. /\ IsFiniteSet(Copies(outqueue', u))
          /\ Count(outqueue', u) <= Count(rest, u) + One(m, u)
      BY <1>2, <2>3, <3>1, PushCopies
    <3>3. Count(outqueue', u) \in Nat
      BY <3>2, FS_CardinalityType DEF Count
    <3> QED
      BY <1>3, <2>3, <3>1, <3>2, <3>3
  <2>6. CASE PassAlong
    <3>1. /\ outqueue' = rest
          /\ \/ inqueue' = inqueue
             \/ \E b \in Address : inqueue' = [inqueue EXCEPT ![b] = Push(@, m, InqueueLimit)]
      <4>1. m.destination \in Address
        BY DEF Message
      <4> QED
        BY <2>6, <4>1 DEF PassAlong, Unqueue
    <3> HIDE DEF rest
    <3>2. /\ IsFiniteSet(Copies(inqueue', u))
          /\ Count(inqueue', u) <= Count(inqueue, u) + One(m, u)
      <4>1. CASE inqueue' = inqueue
        BY <1>3, <2>3, <4>1
      <4>2. ASSUME NEW b \in Address, inqueue' = [inqueue EXCEPT ![b] = Push(@, m, InqueueLimit)]
            PROVE  /\ IsFiniteSet(Copies(inqueue', u))
                   /\ Count(inqueue', u) <= Count(inqueue, u) + One(m, u)
        BY <1>2, <1>3, <4>2, PushCopies
      <4> QED
        BY <3>1, <4>1, <4>2
    <3>3. Count(inqueue', u) \in Nat
      BY <3>2, FS_CardinalityType DEF Count
    <3> QED
      BY <1>3, <2>3, <3>1, <3>2, <3>3
  <2> QED
    BY <1>5, <2>4, <2>5, <2>6
<1> QED
  BY <1>4, <1>5 DEF Flush

LEMMA CountReplace ==
    ASSUME Inv, TimeInv, CountInv, NEW a \in Address \cup {0}, NEW b \in Address \cup {0}, Replace(a, b)
    PROVE  CountInv'
<1> DEFINE fresh == ({b} \ {0}) \cup {a}
<1>1. /\ executed' = executed /\ issued' = issued /\ b \notin inhabitants \ {a}
      /\ \A c \in Address : /\ inqueue'[c] = IF c \in fresh THEN <<>> ELSE inqueue[c]
                            /\ outqueue'[c] = IF c \in fresh THEN <<>> ELSE outqueue[c]
                            /\ c \notin fresh => callbacks'[c] = callbacks[c]
      /\ \A t \in Tag : status'[t] = IF a # 0 /\ t \in Pending(a) THEN "abandoned" ELSE status[t]
  BY DEF Replace
<1>2. ASSUME NEW u \in Tag
      PROVE  /\ IsFiniteSet(Copies(inqueue', u)) /\ IsFiniteSet(Copies(outqueue', u))
             /\ Count(inqueue', u) + Count(outqueue', u)
                   <= Count(inqueue, u) + Count(outqueue, u)
  <2>1. /\ IsFiniteSet(Copies(inqueue', u)) /\ Count(inqueue', u) <= Count(inqueue, u)
        /\ IsFiniteSet(Copies(outqueue', u)) /\ Count(outqueue', u) <= Count(outqueue, u)
    BY <1>1, ClearCopies DEF CountInv
  <2>2. Count(inqueue', u) \in Nat /\ Count(outqueue', u) \in Nat
    BY <2>1, FS_CardinalityType DEF Count
  <2>3. Count(inqueue, u) \in Nat /\ Count(outqueue, u) \in Nat
    BY CountTypes
  <2> QED
    BY <2>1, <2>2, <2>3
<1>3. ASSUME NEW u \in Tag
      PROVE  \/ /\ status'[u] = status[u] /\ issued'[u] = issued[u]
                /\ status[u] = "waiting" =>
                      callbacks'[issued[u].by][u] = callbacks[issued[u].by][u]
             \/ status'[u] \notin {"unused", "waiting"}
  <2>1. CASE a # 0 /\ u \in Pending(a)
    BY <1>1, <2>1
  <2>2. CASE ~(a # 0 /\ u \in Pending(a))
    <3> DEFINE c == issued[u].by
    <3>1. ASSUME status[u] = "waiting" PROVE callbacks'[c][u] = callbacks[c][u]
      <4>1. c \in Address /\ u \in Pending(c)
        BY <3>1 DEF Inv, TypeInv, TypeOK, PendingInv, PendingIffWaiting
      <4>2. c \in inhabitants
        BY <4>1 DEF Inv, PendingInv, AbsentWaitForNothing
      <4>3. c \notin fresh
        BY <1>1, <2>2, <4>1, <4>2, AddressAssumption
      <4> QED
        BY <1>1, <4>1, <4>3
    <3> QED
      BY <1>1, <2>2, <3>1
  <2> QED
    BY <2>1, <2>2
<1> QED
  BY <1>1, <1>2, <1>3, CountMoves

LEMMA CountStep == Inv /\ TimeInv /\ CountInv /\ [Next]_vars => CountInv'
<1> SUFFICES ASSUME Inv, TimeInv, CountInv, [Next]_vars
             PROVE  CountInv'
  OBVIOUS
<1>1. ASSUME UNCHANGED <<inqueue, outqueue, callbacks, history>>
      PROVE  CountInv'
  <2>1. UNCHANGED <<inqueue, outqueue, callbacks, status, executed, issued>>
    BY <1>1 DEF history
  <2>2. \A t \in Tag : Sends(t)' = Sends(t)
    BY <2>1 DEF Sends
  <2> QED
    BY <2>1, <2>2 DEF CountInv
<1>2. CASE UNCHANGED vars \/ StartTick \/ EndAppTick
  BY <1>1, <1>2 DEF vars, program, StartTick, EndAppTick
<1> QED
  BY <1>2, CountSend, CountHandle, CountScan, CountFlush, CountReplace
  DEF Next, NetworkTick, AppTick, Finished

\* A request is handled at most once for each send of it: once, and once more
\* for each retry, wherever its copies were requeued, delayed or cut off.
THEOREM HandledOncePerSend == Spec => []BoundedExecution
<1>1. ASSUME Inv, TimeInv, CountInv PROVE BoundedExecution
  <2> SUFFICES ASSUME NEW t \in Tag PROVE executed[t] <= 1 + MaxRetries
    BY DEF BoundedExecution
  <2>1. /\ executed[t] \in Nat /\ Count(inqueue, t) \in Nat /\ Count(outqueue, t) \in Nat
        /\ Sends(t) \in Nat /\ Sends(t) <= 1 + MaxRetries /\ MaxRetries \in Nat
        /\ executed[t] + (Count(inqueue, t) + Count(outqueue, t)) <= Sends(t)
    BY <1>1, CountTypes, TimeAssumption DEF CountInv
  <2> QED
    BY <2>1
<1> QED
  BY <1>1, CountInit, CountStep, TimeInit, TimeStep, Invariance, PTL DEF Spec

-----------------------------------------------------------------------------
(* No timeout is spurious.  As long as every flush empties its outqueue, a   *)
(* request leaves in the tick of its call, and the node that called has the  *)
(* reply in its inqueue when it is visited in the tick after that, at the    *)
(* latest: it handles its inqueue before it looks for what is overdue.       *)

\* The flush of an outqueue ends before the queue is empty.
CutOff == DropOversize \/ Requeue

\* A call of which no message was discarded.
Intact(t) == status[t] = "waiting" /\ t \notin dropped

\* The epochs in which the queues of the node at a are drained next.
NextVisit(a) == IF Visited(a) THEN epoch + 1 ELSE epoch
NextFlush(a) == IF turn # NoTurn /\ a < turn THEN epoch + 1 ELSE epoch

\* The epoch in which a request is handled at the latest.
HandledBy(t) == IF issued[t].to > issued[t].by THEN issued[t].at ELSE issued[t].at + 1

LeavesBy(m) == IF m.type = "request" THEN issued[m.tag].at ELSE HandledBy(m.tag)
ArrivesBy(m) == IF m.type = "request" THEN HandledBy(m.tag) ELSE issued[m.tag].at + 1

\* The other end of a message is the node that was called; who calls itself
\* has its answer in the request.
OtherEnd(m) ==
    /\ m.type = "request" => m.destination = issued[m.tag].to
    /\ m.type = "reply" => /\ m.originator = issued[m.tag].to
                           /\ Intact(m.tag) => issued[m.tag].to # issued[m.tag].by

Leaving(a) == {m \in Routed : /\ m.originator = a /\ OtherEnd(m)
                              /\ Intact(m.tag) => NextFlush(a) <= LeavesBy(m)}
Arriving(a) == {m \in RoutedTo(a) : /\ OtherEnd(m)
                                    /\ Intact(m.tag) => NextVisit(a) <= ArrivesBy(m)}

\* A record that was never retried is not due in the epoch of its call.
Fresh(a, t) == /\ callbacks[a][t].message.destination = issued[t].to
               /\ t \notin dropped => /\ callbacks[a][t].retries = 0
                                      /\ callbacks[a][t].nextSend > issued[t].at

PromptInv ==
    /\ \A a \in inhabitants : /\ outqueue[a] \in Seq(Leaving(a))
                              /\ inqueue[a] \in Seq(Arriving(a))
                              /\ \A t \in Pending(a) : Fresh(a, t)
    /\ \A t \in Tag : status[t] = "failure" => t \in dropped

LEMMA PromptInit == Init => PromptInv
<1> SUFFICES ASSUME Init PROVE PromptInv
  OBVIOUS
<1> DEFINE e == <<>>
<1>1. \A S : e \in Seq(S)
  OBVIOUS
<1>2. \A a \in Address : outqueue[a] = e /\ inqueue[a] = e
  BY DEF Init
<1> HIDE DEF e
<1>3. inhabitants \subseteq Address /\ \A t \in Tag : status[t] = "unused"
  BY AddressAssumption DEF Init
<1>4. \A a \in Address : Pending(a) = {}
  BY DEF Init, Pending
<1> QED
  BY <1>1, <1>2, <1>3, <1>4 DEF PromptInv

\* What a step must not do for messages to stay as prompt as they are.
Keeps ==
    /\ Grows /\ dropped \subseteq dropped'
    /\ \A t \in Tag : status[t] # "unused" =>
          issued'[t] = issued[t] /\ (status'[t] = "waiting" => status[t] = "waiting")

LEMMA PromptMonotone ==
    ASSUME Inv, Keeps, NEW a \in Address
    PROVE  /\ NextFlush(a)' = NextFlush(a) => Leaving(a) \subseteq Leaving(a)'
           /\ NextVisit(a)' = NextVisit(a) => Arriving(a) \subseteq Arriving(a)'
<1>1. Routed \subseteq Routed' /\ RoutedTo(a) \subseteq RoutedTo(a)'
  BY RoutedMonotone DEF Keeps
<1>2. ASSUME NEW m \in Routed
      PROVE  /\ issued'[m.tag] = issued[m.tag] /\ m.tag \in Tag
             /\ Intact(m.tag)' => Intact(m.tag)
             /\ OtherEnd(m) => OtherEnd(m)'
             /\ LeavesBy(m)' = LeavesBy(m) /\ ArrivesBy(m)' = ArrivesBy(m)
  <2>1. m.tag \in Tag /\ status[m.tag] # "unused"
    BY DEF Routed, SoundMessages, Message
  <2>2. issued'[m.tag] = issued[m.tag] /\ (Intact(m.tag)' => Intact(m.tag))
    BY <2>1 DEF Keeps, Intact
  <2> QED
    BY <2>1, <2>2 DEF OtherEnd, LeavesBy, ArrivesBy, HandledBy
<1>3. \A m \in RoutedTo(a) : m \in Routed
  BY DEF RoutedTo
<1> QED
  BY <1>1, <1>2, <1>3 DEF Leaving, Arriving

\* A step is judged by the queues and records it changes.
LEMMA PromptStays ==
    ASSUME Inv, PromptInv, Keeps,
           \A a \in inhabitants' :
              /\ \/ a \in inhabitants /\ outqueue'[a] = outqueue[a] /\ NextFlush(a)' = NextFlush(a)
                 \/ outqueue'[a] \in Seq(Leaving(a)')
              /\ \/ a \in inhabitants /\ inqueue'[a] = inqueue[a] /\ NextVisit(a)' = NextVisit(a)
                 \/ inqueue'[a] \in Seq(Arriving(a)')
              /\ \A t \in Pending(a)' :
                 \/ a \in inhabitants /\ t \in Pending(a) /\ callbacks'[a][t] = callbacks[a][t]
                 \/ Fresh(a, t)',
           \A t \in Tag : status'[t] = "failure" => status[t] = "failure" \/ t \in dropped'
    PROVE  PromptInv'
<1>1. \A a \in inhabitants : a \in Address
  BY TimeTypes
<1>2. \A a \in inhabitants' : outqueue'[a] \in Seq(Leaving(a)')
  BY <1>1, PromptMonotone, SeqMonotone DEF PromptInv
<1>3. \A a \in inhabitants' : inqueue'[a] \in Seq(Arriving(a)')
  BY <1>1, PromptMonotone, SeqMonotone DEF PromptInv
<1>4. ASSUME NEW a \in inhabitants', NEW t \in Pending(a)'
      PROVE  Fresh(a, t)'
  <2>1. CASE a \in inhabitants /\ t \in Pending(a) /\ callbacks'[a][t] = callbacks[a][t]
    <3>1. t \in Tag /\ status[t] # "unused" /\ Fresh(a, t)
      BY <1>1, <2>1, TimeTypes DEF PromptInv
    <3> QED
      BY <2>1, <3>1 DEF Fresh, Keeps
  <2> QED
    BY <2>1
<1>5. \A t \in Tag : status'[t] = "failure" => t \in dropped'
  BY DEF PromptInv, Keeps
<1> QED
  BY <1>2, <1>3, <1>4, <1>5 DEF PromptInv

LEMMA PromptSend ==
    ASSUME Inv, TimeInv, DeliveryInv, PromptInv, Timeout > 1,
           NEW a \in Address, NEW b \in Address, NEW t \in Tag,
           NEW size \in RequestSize, NEW s \in {"posted", "waiting"}, Send(a, b, t, size, s)
    PROVE  PromptInv'
<1> DEFINE m == [type |-> "request", originator |-> a, destination |-> b,
                 tag |-> t, size |-> size]
           r == SentMessage(m, appEpoch[a])
<1>1. /\ outqueue' = [outqueue EXCEPT ![a] = Push(@, m, OutqueueLimit)]
      /\ callbacks' = [callbacks EXCEPT ![a][t] = IF s = "waiting" THEN r ELSE @]
      /\ status' = [status EXCEPT ![t] = s]
      /\ issued' = [issued EXCEPT ![t] = [by |-> a, to |-> b, at |-> epoch]]
      /\ executed' = executed /\ inqueue' = inqueue /\ inhabitants' = inhabitants
      /\ a \in inhabitants /\ status[t] = "unused"
      /\ turn = NoTurn \/ (turn = a /\ phase = "tick")
      /\ UNCHANGED <<epoch, turn, phase>> /\ dropped \subseteq dropped'
  BY DEF Send
<1>2. /\ m.type = "request" /\ m.originator = a /\ m.destination = b /\ m.tag = t
      /\ m \in Message /\ r.message = m /\ r.retries = 0 /\ r.nextSend = appEpoch[a] + Timeout
  BY DEF Message, SentMessage
<1> HIDE DEF m, r
<1>3. /\ \A u \in Tag \ {t} : status'[u] = status[u] /\ issued'[u] = issued[u]
      /\ issued'[t].by = a /\ issued'[t].to = b /\ issued'[t].at = epoch
      /\ status'[t] = s
      /\ \A c \in Address, u \in Tag :
            callbacks'[c][u] = IF c = a /\ u = t /\ s = "waiting" THEN r ELSE callbacks[c][u]
      /\ outqueue'[a] = Push(outqueue[a], m, OutqueueLimit)
      /\ \A c \in Address \ {a} : outqueue'[c] = outqueue[c]
  BY <1>1 DEF Inv, TypeInv, TypeOK
<1>4. Keeps
  BY <1>1, <1>3 DEF Keeps, Grows
<1>5. \A c \in Address : NextFlush(c)' = NextFlush(c) /\ NextVisit(c)' = NextVisit(c)
  BY <1>1 DEF NextFlush, NextVisit, Visited
<1>6. m \in Leaving(a)'
  <2>1. m \in Routed'
    BY <1>1, <1>2, <1>3 DEF Routed, SoundMessages
  <2>2. OtherEnd(m)' /\ LeavesBy(m)' = epoch
    BY <1>2, <1>3 DEF OtherEnd, LeavesBy
  <2>3. NextFlush(a)' = epoch /\ epoch \in Nat
    BY <1>1, <1>5, TimeTypes DEF NextFlush
  <2> QED
    BY <1>2, <2>1, <2>2, <2>3 DEF Leaving
<1>7. outqueue'[a] \in Seq(Leaving(a)')
  <2>1. Leaving(a) \subseteq Leaving(a)'
    BY <1>4, <1>5, PromptMonotone
  <2>2. outqueue[a] \in Seq(Leaving(a)')
    BY <1>1, <2>1, SeqMonotone DEF PromptInv
  <2>3. Push(outqueue[a], m, OutqueueLimit) \in Seq(Leaving(a)')
    BY <1>6, <2>2, PushType, LimitAssumption
  <2> QED
    BY <1>3, <2>3
<1>8. s = "waiting" => Fresh(a, t)'
  <2> SUFFICES ASSUME s = "waiting" PROVE Fresh(a, t)'
    OBVIOUS
  <2>1. epoch \in Nat /\ appEpoch[a] \in Nat /\ epoch <= appEpoch[a] + 1
    BY <1>1, TimeTypes DEF TimeInv, Clock
  <2>2. appEpoch[a] + Timeout > epoch
    BY <2>1, TimeAssumption
  <2>3. callbacks'[a][t] = r
    BY <1>3
  <2> QED
    BY <1>2, <1>3, <2>2, <2>3 DEF Fresh
<1>9. ASSUME NEW c \in inhabitants', NEW u \in Pending(c)'
      PROVE  \/ c \in inhabitants /\ u \in Pending(c) /\ callbacks'[c][u] = callbacks[c][u]
             \/ Fresh(c, u)'
  <2>1. c \in Address /\ c \in inhabitants /\ u \in Tag
    BY <1>1, TimeTypes DEF Pending
  <2> QED
    BY <1>3, <1>8, <2>1 DEF Pending
<1>10. \A c \in inhabitants : c \in Address
  BY TimeTypes
<1>11. \A u \in Tag : status'[u] = "failure" => status[u] = "failure"
  BY <1>3
<1> QED
  BY <1>1, <1>3, <1>4, <1>5, <1>7, <1>9, <1>10, <1>11, PromptStays

\* The reply leaves in the tick in which the request is handled.
LEMMA PromptHandle ==
    ASSUME Inv, DeliveryInv, PromptInv, HandleReply \/ \E size \in ReplySize : HandleRequest(size)
    PROVE  PromptInv'
<1> PICK m : m = Head(inqueue[turn])
  OBVIOUS
<1>1. /\ turn \in Address /\ m.tag \in Tag
      /\ inqueue' = [inqueue EXCEPT ![turn] = Tail(@)]
      /\ Answer(m) /\ Grows
  BY HandleEffect
<1>2. /\ inqueue[turn] # <<>> /\ issued' = issued /\ inhabitants' = inhabitants
      /\ turn \in inhabitants /\ turn # NoTurn /\ phase = "tick" /\ dropped \subseteq dropped'
      /\ UNCHANGED <<epoch, turn, phase>>
  BY DEF HandleReply, HandleRequest, Inv, TypeInv, TypeOK
<1>3. m \in Arriving(turn) /\ Tail(inqueue[turn]) \in Seq(Arriving(turn))
  BY <1>2, TailType DEF PromptInv
<1>4. /\ m \in Message /\ m \in Routed /\ m.destination = turn /\ OtherEnd(m)
      /\ Intact(m.tag) => NextVisit(turn) <= ArrivesBy(m)
  BY <1>3 DEF Arriving, RoutedTo, Routed, SoundMessages
<1> PICK a \in inhabitants : a = turn
  BY <1>2
<1> PICK t \in Tag : t = m.tag
  BY <1>1
<1>5. /\ \A c \in Address, u \in Tag :
            callbacks'[c][u] = IF c = a /\ u = t THEN NoRecord ELSE callbacks[c][u]
      /\ \A u \in Tag : status'[u] = IF u = t /\ t \in Pending(a) THEN "success" ELSE status[u]
      /\ inqueue'[a] = Tail(inqueue[turn])
      /\ \A c \in Address \ {a} : inqueue'[c] = inqueue[c]
      /\ a \in Address
  BY <1>1 DEF Answer, Inv, TypeInv, TypeOK
<1>6. Keeps
  BY <1>1, <1>2, <1>5 DEF Keeps
<1>7. \A c \in Address : NextFlush(c)' = NextFlush(c) /\ NextVisit(c)' = NextVisit(c)
  BY <1>2 DEF NextFlush, NextVisit, Visited
<1>8. inqueue'[a] \in Seq(Arriving(a)')
  BY <1>3, <1>5, <1>6, <1>7, PromptMonotone, SeqMonotone
<1>9. ASSUME NEW size \in ReplySize, HandleRequest(size)
      PROVE  /\ outqueue'[a] \in Seq(Leaving(a)')
             /\ \A c \in Address \ {a} : outqueue'[c] = outqueue[c]
  <2> PICK r : r = ReplyTo(m, size)
    OBVIOUS
  <2>1. /\ r \in Message /\ r.tag = t /\ r.type = "reply" /\ r.destination = m.originator
        /\ r.originator = a /\ m.type = "request"
    BY <1>4, <1>9, ReplyType DEF ReplyTo, HandleRequest
  <2>2. /\ outqueue'[a] = Push(outqueue[a], r, OutqueueLimit)
        /\ \A c \in Address \ {a} : outqueue'[c] = outqueue[c]
    BY <1>5, <1>9 DEF HandleRequest, Inv, TypeInv, TypeOK
  <2>3. executed'[t] > 0
    <3>1. executed[t] \in Nat /\ executed \in [Tag -> Nat]
      BY DEF Inv, TypeInv, TypeOK
    <3>2. executed' = [executed EXCEPT ![t] = executed[t] + 1]
      BY <1>9 DEF HandleRequest
    <3> QED
      BY <3>1, <3>2
  <2>4. r \in Routed'
    <3>1. status'[t] # "unused"
      BY <1>1, <1>4 DEF Routed, SoundMessages, Grows
    <3>2. m.originator = issued[t].by
      BY <1>4, <2>1 DEF Routed
    <3> QED
      BY <1>2, <2>1, <2>3, <3>1, <3>2 DEF Routed, SoundMessages
  <2>5. issued[t].to = a
    BY <1>4, <2>1 DEF OtherEnd
  <2>6. Intact(t)' => Intact(t) /\ issued[t].by # a
    <3>1. ASSUME Intact(t)' PROVE Intact(t) /\ issued[t].by # a
      <4>1. status[t] = "waiting" /\ t \notin Pending(a) /\ t \notin dropped
        BY <1>2, <1>5, <3>1 DEF Intact
      <4> QED
        BY <1>5, <4>1 DEF Intact, Inv, PendingInv, PendingIffWaiting
    <3> QED
      BY <3>1
  <2>7. OtherEnd(r)'
    BY <1>2, <2>1, <2>5, <2>6 DEF OtherEnd
  <2>8. NextFlush(a)' = epoch /\ NextVisit(a) = epoch
    <3>1. a \in Nat
      BY <1>5, TimeTypes
    <3> QED
      BY <1>2, <3>1 DEF NextFlush, NextVisit, Visited
  <2>9. LeavesBy(r)' = HandledBy(t) /\ ArrivesBy(m) = HandledBy(t)
    BY <1>2, <2>1 DEF LeavesBy, ArrivesBy, HandledBy
  <2>10. r \in Leaving(a)'
    BY <1>4, <2>1, <2>4, <2>6, <2>7, <2>8, <2>9 DEF Leaving
  <2>11. outqueue[a] \in Seq(Leaving(a)')
    BY <1>5, <1>6, <1>7, PromptMonotone, SeqMonotone DEF PromptInv
  <2>12. Push(outqueue[a], r, OutqueueLimit) \in Seq(Leaving(a)')
    BY <2>10, <2>11, PushType, LimitAssumption
  <2> QED
    BY <2>2, <2>12
<1>10. \A c \in inhabitants : outqueue'[c] = outqueue[c] \/ outqueue'[c] \in Seq(Leaving(c)')
  <2>1. CASE HandleReply
    BY <2>1 DEF HandleReply
  <2>2. \A c \in inhabitants : c \in Address
    BY TimeTypes
  <2> QED
    BY <1>9, <2>1, <2>2
<1>11. ASSUME NEW c \in inhabitants', NEW u \in Pending(c)'
       PROVE  c \in inhabitants /\ u \in Pending(c) /\ callbacks'[c][u] = callbacks[c][u]
  <2>1. c \in Address /\ c \in inhabitants /\ u \in Tag
    BY <1>2, TimeTypes DEF Pending
  <2> QED
    BY <1>5, <2>1 DEF Pending
<1>12. \A c \in inhabitants : c \in Address
  BY TimeTypes
<1>13. \A u \in Tag : status'[u] = "failure" => status[u] = "failure"
  BY <1>5
<1> QED
  BY <1>2, <1>5, <1>6, <1>7, <1>8, <1>10, <1>11, <1>12, <1>13, PromptStays

\* A record is overdue only if a message of its call was discarded: else the
\* answer was in the inqueue that the node has just drained.
LEMMA PromptLate ==
    ASSUME Inv, DeliveryInv, TimeInv, PromptInv, NEW t \in Tag, Scanning(t)
    PROVE  t \in dropped
<1> SUFFICES ASSUME t \notin dropped PROVE FALSE
  OBVIOUS
<1>1. /\ turn # NoTurn /\ phase = "tick" /\ inqueue[turn] = <<>>
      /\ t \in Pending(turn) /\ appEpoch[turn] >= callbacks[turn][t].nextSend
  BY DEF Scanning, Overdue
<1>2. turn \in inhabitants /\ turn \in Address
  BY <1>1, TimeTypes
<1> PICK a \in Address : a = turn
  BY <1>2
<1>3. /\ status[t] = "waiting" /\ issued[t].by = a /\ issued[t].at \in Nat /\ epoch \in Nat
      /\ callbacks[a][t].nextSend \in Nat /\ a \in Nat
  BY <1>1, TimeTypes
<1>4. issued[t].at + 1 <= epoch
  <2>1. appEpoch[a] = epoch
    BY <1>2 DEF TimeInv, Clock
  <2>2. callbacks[a][t].nextSend > issued[t].at
    BY <1>1, <1>2 DEF PromptInv, Fresh
  <2> QED
    BY <1>1, <1>3, <2>1, <2>2
<1>5. Intact(t)
  BY <1>3 DEF Intact
<1>6. PICK c \in inhabitants : Carried(c, t)
  BY <1>3 DEF DeliveryInv, NothingLost
<1>7. /\ c \in Address /\ c \in Nat
      /\ outqueue[c] \in Seq(Leaving(c)) /\ inqueue[c] \in Seq(Arriving(c))
  BY TimeTypes DEF PromptInv
<1>8. /\ NextVisit(c) = (IF c < a \/ (c = a /\ phase = "flush") THEN epoch + 1 ELSE epoch)
      /\ NextFlush(c) = (IF c < a THEN epoch + 1 ELSE epoch)
  BY <1>1 DEF NextVisit, NextFlush, Visited
<1>9. ASSUME NEW m \in Routed, m.tag = t, OtherEnd(m)
      PROVE  /\ m.type = "request" => m.destination = issued[t].to
             /\ m.type = "reply" => /\ m.originator = issued[t].to /\ m.destination = a
                                    /\ issued[t].to # a
             /\ m.type \in {"request", "reply"}
             /\ LeavesBy(m) = (IF m.type = "request" THEN issued[t].at ELSE HandledBy(t))
             /\ ArrivesBy(m) = (IF m.type = "request" THEN HandledBy(t) ELSE issued[t].at + 1)
  BY <1>3, <1>5, <1>9 DEF OtherEnd, Routed, SoundMessages, Message, LeavesBy, ArrivesBy
<1>10. /\ HandledBy(t) = (IF issued[t].to > a THEN issued[t].at ELSE issued[t].at + 1)
       /\ issued[t].to \in Nat
  <2>1. issued[t].to \in Address
    BY DEF Inv, TypeInv, TypeOK
  <2> QED
    BY <1>3, <2>1, TimeTypes DEF HandledBy
<1>11. CASE Carries(inqueue[c], t)
  <2>1. PICK m \in Arriving(c) : m.tag = t
    BY <1>7, <1>11 DEF Carries
  <2>2. /\ m \in Routed /\ m.destination = c /\ OtherEnd(m) /\ NextVisit(c) <= ArrivesBy(m)
    BY <1>5, <2>1 DEF Arriving, RoutedTo
  <2>3. c # a
    BY <1>1, <1>11 DEF Carries
  <2>4. m.type = "request" /\ issued[t].to = c /\ NextVisit(c) <= HandledBy(t)
    BY <1>9, <2>1, <2>2, <2>3
  <2> QED
    BY <1>3, <1>4, <1>7, <1>8, <1>10, <2>3, <2>4
<1>12. CASE Carries(outqueue[c], t)
  <2>1. PICK m \in Leaving(c) : m.tag = t
    BY <1>7, <1>12 DEF Carries
  <2>2. /\ m \in Routed /\ m.originator = c /\ OtherEnd(m) /\ NextFlush(c) <= LeavesBy(m)
    BY <1>5, <2>1 DEF Leaving
  <2>3. CASE m.type = "request"
    <3>1. NextFlush(c) <= issued[t].at
      BY <1>9, <2>1, <2>2, <2>3
    <3> QED
      BY <1>3, <1>4, <1>8, <3>1
  <2>4. CASE m.type = "reply"
    <3>1. issued[t].to = c /\ c # a /\ NextFlush(c) <= HandledBy(t)
      BY <1>9, <2>1, <2>2, <2>4
    <3> QED
      BY <1>3, <1>4, <1>7, <1>8, <1>10, <3>1
  <2> QED
    BY <1>9, <2>1, <2>2, <2>3, <2>4
<1> QED
  BY <1>6, <1>11, <1>12, CarriedBy

\* Only a call of which a message was discarded is retried or given up.
LEMMA PromptScan ==
    ASSUME Inv, DeliveryInv, TimeInv, PromptInv, NEW t \in Tag, AttemptRetry(t) \/ GiveUp(t)
    PROVE  PromptInv'
<1>1. /\ turn \in Address /\ turn \in inhabitants /\ t \in Pending(turn) /\ t \in dropped
      /\ phase = "tick" /\ dropped \subseteq dropped'
      /\ UNCHANGED <<epoch, turn, phase, inhabitants, inqueue, executed, issued>>
  <2>1. Scanning(t)
    BY DEF AttemptRetry, GiveUp
  <2>2. t \in dropped
    BY <2>1, PromptLate
  <2>3. turn \in Address /\ turn \in inhabitants /\ t \in Pending(turn) /\ phase = "tick"
    BY <2>1, TimeTypes DEF Scanning, Overdue
  <2> QED
    BY <2>2, <2>3 DEF AttemptRetry, GiveUp
<1> PICK a \in inhabitants : a = turn
  BY <1>1
<1>2. Keeps
  BY <1>1 DEF AttemptRetry, GiveUp, Keeps, Grows, Inv, TypeInv, TypeOK
<1>3. \A c \in Address : NextFlush(c)' = NextFlush(c) /\ NextVisit(c)' = NextVisit(c)
  BY <1>1 DEF NextFlush, NextVisit, Visited
<1>4. \A c \in inhabitants : c \in Address
  BY TimeTypes
<1>5. CASE GiveUp(t)
  <2>1. /\ \A c \in Address, u \in Tag :
              callbacks'[c][u] = IF c = a /\ u = t THEN NoRecord ELSE callbacks[c][u]
        /\ \A u \in Tag : status'[u] = "failure" => status[u] = "failure" \/ u = t
        /\ outqueue' = outqueue
    BY <1>1, <1>5 DEF GiveUp, Inv, TypeInv, TypeOK
  <2>2. \A c \in inhabitants' : \A u \in Pending(c)' :
            c \in inhabitants /\ u \in Pending(c) /\ callbacks'[c][u] = callbacks[c][u]
    BY <1>1, <1>4, <2>1 DEF Pending
  <2> QED
    BY <1>1, <1>2, <1>3, <1>4, <2>1, <2>2, PromptStays
<1>6. CASE AttemptRetry(t)
  <2> PICK m : m = callbacks[a][t].message
    OBVIOUS
  <2> PICK r : r = Retried(callbacks[a][t], appEpoch[a])
    OBVIOUS
  <2>1. /\ callbacks[a][t] \in Record /\ appEpoch[a] \in Nat
        /\ callbacks[a][t].nextSend >= callbacks[a][t].timeSent
    BY <1>1, <1>4 DEF Inv, TypeInv, TypeOK, Ordered, Pending
  <2>2. r.message = m
    BY <2>1, RetriedType
  <2>3. /\ m \in SoundMessages /\ m.tag = t /\ m.type = "request" /\ m.originator = a
        /\ issued[t].by = a /\ m.destination = issued[t].to
    <3>1. m \in SoundMessages /\ issued[t].by = a
      BY <1>1, <1>4, RecordSound
    <3>2. m.tag = t /\ m.type = "request" /\ m.originator = a
      BY <1>1, <1>4 DEF DeliveryInv, RouteInv, Inv, SoundInv, RecordsSound
    <3>3. m.destination = issued[t].to
      BY <1>1 DEF PromptInv, Fresh
    <3> QED
      BY <3>1, <3>2, <3>3
  <2>4. /\ \A c \in Address, u \in Tag :
              callbacks'[c][u] = IF c = a /\ u = t THEN r ELSE callbacks[c][u]
        /\ outqueue'[a] = Push(outqueue[a], m, OutqueueLimit)
        /\ \A c \in Address \ {a} : outqueue'[c] = outqueue[c]
        /\ status' = status
    BY <1>4, <1>6 DEF AttemptRetry, Inv, TypeInv, TypeOK
  <2>5. m \in Leaving(a)'
    <3>1. m \in Routed
      BY <2>3 DEF Routed
    <3>2. m \in Routed'
      BY <1>2, <3>1, RoutedMonotone DEF Keeps
    <3>3. OtherEnd(m)' /\ ~Intact(m.tag)'
      BY <1>1, <2>3 DEF OtherEnd, Intact
    <3> QED
      BY <2>3, <3>2, <3>3 DEF Leaving
  <2>6. outqueue'[a] \in Seq(Leaving(a)')
    <3>1. outqueue[a] \in Seq(Leaving(a)')
      BY <1>2, <1>3, <1>4, PromptMonotone, SeqMonotone DEF PromptInv
    <3>2. Push(outqueue[a], m, OutqueueLimit) \in Seq(Leaving(a)')
      BY <2>5, <3>1, PushType, LimitAssumption
    <3> QED
      BY <2>4, <3>2
  <2>7. Fresh(a, t)'
    <3>1. callbacks'[a][t] = r /\ issued'[t] = issued[t] /\ t \in dropped'
      BY <1>1, <1>4, <2>4
    <3> QED
      BY <2>2, <2>3, <3>1 DEF Fresh
  <2>8. ASSUME NEW c \in inhabitants', NEW u \in Pending(c)'
        PROVE  \/ c \in inhabitants /\ u \in Pending(c) /\ callbacks'[c][u] = callbacks[c][u]
               \/ Fresh(c, u)'
    <3>1. c \in Address /\ c \in inhabitants /\ u \in Tag
      BY <1>1, <1>4 DEF Pending
    <3> QED
      BY <2>4, <2>7, <3>1 DEF Pending
  <2> QED
    BY <1>1, <1>2, <1>3, <1>4, <2>4, <2>6, <2>8, PromptStays
<1> QED
  BY <1>5, <1>6

\* The tick of a node ends with an empty inqueue.
LEMMA PromptEndAppTick ==
    ASSUME Inv, PromptInv, EndAppTick
    PROVE  PromptInv'
<1>1. /\ turn # NoTurn /\ phase = "tick" /\ phase' = "flush"
      /\ inqueue[turn] = <<>>
      /\ UNCHANGED <<epoch, turn, inhabitants, inqueue, outqueue, callbacks,
                     status, executed, issued, dropped>>
  BY DEF EndAppTick, history
<1>2. turn \in inhabitants /\ \A a \in inhabitants : a \in Address
  BY <1>1, TimeTypes
<1>3. Keeps
  BY <1>1 DEF Keeps, Grows
<1>4. \A a \in inhabitants : /\ NextFlush(a)' = NextFlush(a)
                             /\ a # turn => NextVisit(a)' = NextVisit(a)
  BY <1>1 DEF NextFlush, NextVisit, Visited
<1>5. inqueue'[turn] \in Seq(Arriving(turn)')
  <2> DEFINE e == <<>>
  <2>1. \A S : e \in Seq(S)
    OBVIOUS
  <2> HIDE DEF e
  <2> QED
    BY <1>1, <2>1 DEF e
<1> PICK b \in inhabitants : b = turn
  BY <1>2
<1> QED
  BY <1>1, <1>2, <1>3, <1>4, <1>5, PromptStays DEF Pending

\* When the next inhabitant is visited, the last has flushed its outqueue.
LEMMA PromptAdvance ==
    ASSUME Inv, PromptInv, StartTick \/ FlushDone
    PROVE  PromptInv'
<1>1. /\ turn = NoTurn \/ (phase = "flush" /\ outqueue[turn] = <<>>)
      /\ UNCHANGED <<inhabitants, inqueue, outqueue, callbacks, status, executed, issued, dropped>>
      /\ phase' = "tick"
      /\ \/ Later = {} /\ turn' = NoTurn /\ epoch' = epoch + 1
         \/ \E b \in Later : /\ \A c \in Later : b <= c
                             /\ turn' = b /\ epoch' = epoch
  BY DEF StartTick, FlushDone, Advance, history
<1>2. /\ NoTurn = 0 /\ turn \in Nat /\ epoch \in Nat /\ turn \in inhabitants \cup {NoTurn}
      /\ \A a \in inhabitants : a \in Address /\ a \in Nat /\ a > 0
  <2>1. turn \in inhabitants \cup {0} /\ epoch \in Nat
    BY DEF Inv, TypeInv, TypeOK, NoTurn
  <2>2. \A a \in inhabitants : a \in Address /\ a \in Nat /\ a # 0
    BY TimeTypes DEF NoTurn
  <2>3. \A n \in Nat : n # 0 => n > 0
    OBVIOUS
  <2> QED
    BY <2>1, <2>2, <2>3 DEF NoTurn
<1>3. Keeps
  BY <1>1 DEF Keeps, Grows
<1>4. ASSUME NEW a \in inhabitants
      PROVE  NextVisit(a)' = NextVisit(a) /\ (a # turn => NextFlush(a)' = NextFlush(a))
  <2>1. CASE Later = {}
    <3>1. turn' = NoTurn /\ epoch' = epoch + 1 /\ ~(a > turn)
      BY <1>1, <2>1 DEF Later
    <3>2. turn # NoTurn /\ (a < turn \/ a = turn)
      BY <1>2, <3>1
    <3> QED
      BY <1>1, <3>1, <3>2 DEF NextVisit, NextFlush, Visited
  <2>2. CASE Later # {}
    <3>1. PICK b \in Later : /\ \A c \in Later : b <= c
                             /\ turn' = b /\ epoch' = epoch
      BY <1>1, <2>2
    <3>2. b \in inhabitants /\ b > turn
      BY DEF Later
    <3>3. a < b <=> ~(a > turn)
      BY <1>2, <3>1, <3>2 DEF Later
    <3>4. b # NoTurn /\ (a < b <=> a < turn \/ a = turn) /\ a # NoTurn
      BY <1>2, <3>2, <3>3
    <3>5. turn = NoTurn => ~(a < b)
      BY <1>2, <3>3
    <3> QED
      BY <1>1, <1>2, <3>1, <3>4, <3>5 DEF NextVisit, NextFlush, Visited
  <2> QED
    BY <2>1, <2>2
<1>5. ASSUME NEW a \in inhabitants, a = turn PROVE outqueue'[a] \in Seq(Leaving(a)')
  <2> DEFINE e == <<>>
  <2>1. \A S : e \in Seq(S)
    OBVIOUS
  <2>2. outqueue'[a] = e
    BY <1>1, <1>2, <1>5
  <2> HIDE DEF e
  <2> QED
    BY <2>1, <2>2
<1> QED
  BY <1>1, <1>3, <1>4, <1>5, PromptStays DEF Pending

\* The destination of a message is visited before it must have arrived.
LEMMA PromptPassAlong ==
    ASSUME Inv, PromptInv, PassAlong
    PROVE  PromptInv'
<1> PICK a : a = turn
  OBVIOUS
<1> PICK m : m = Head(outqueue[a])
  OBVIOUS
<1> PICK q : q = Tail(outqueue[a])
  OBVIOUS
<1>1. /\ a = turn /\ turn # NoTurn /\ phase = "flush" /\ outqueue[a] # <<>>
      /\ a \in inhabitants /\ a \in Address /\ epoch \in Nat
  <2>1. turn # NoTurn /\ phase = "flush" /\ outqueue[a] # <<>>
    BY DEF PassAlong, Flushing
  <2> QED
    BY <2>1, TimeTypes DEF Inv, TypeInv, TypeOK
<1>2. /\ m \in Leaving(a) /\ q \in Seq(Leaving(a)) /\ outqueue[a] \in Seq(Leaving(a))
  <2>1. outqueue[a] \in Seq(Leaving(a))
    BY <1>1 DEF PromptInv
  <2> QED
    BY <1>1, <2>1, TailType
<1>3. /\ m \in Routed /\ m.originator = a /\ OtherEnd(m)
      /\ Intact(m.tag) => NextFlush(a) <= LeavesBy(m)
  BY <1>2 DEF Leaving
<1>4. /\ m \in Message /\ m.tag \in Tag /\ m.destination \in Address
      /\ m.type \in {"request", "reply"}
  <2>1. m \in Message
    BY <1>3 DEF Routed, SoundMessages
  <2> QED
    BY <2>1 DEF Message
<1> PICK t \in Tag : t = m.tag
  BY <1>4
<1> PICK d \in Address : d = m.destination
  BY <1>4
<1>5. /\ outqueue' = [outqueue EXCEPT ![a] = q]
      /\ \/ inqueue' = inqueue
         \/ inqueue' = [inqueue EXCEPT ![d] = Push(@, m, InqueueLimit)]
      /\ dropped \subseteq dropped'
      /\ UNCHANGED <<epoch, inhabitants, turn, phase, callbacks, status, executed, issued>>
  BY <1>1 DEF PassAlong, Unqueue
<1>6. /\ outqueue'[a] = q /\ \A c \in Address \ {a} : outqueue'[c] = outqueue[c]
      /\ \A c \in Address : \/ inqueue'[c] = inqueue[c]
                            \/ c = d /\ inqueue'[c] = Push(inqueue[d], m, InqueueLimit)
  BY <1>1, <1>5 DEF Inv, TypeInv, TypeOK
<1>7. Keeps
  BY <1>5 DEF Keeps, Grows
<1>8. \A c \in Address : NextFlush(c)' = NextFlush(c) /\ NextVisit(c)' = NextVisit(c)
  BY <1>5 DEF NextFlush, NextVisit, Visited
<1>9. \A c \in Address : Leaving(c) \subseteq Leaving(c)' /\ Arriving(c) \subseteq Arriving(c)'
  BY <1>7, <1>8, PromptMonotone
<1>10. outqueue'[a] \in Seq(Leaving(a)')
  BY <1>1, <1>2, <1>6, <1>9, SeqMonotone
<1>11. m \in Arriving(d)
  <2>1. m \in RoutedTo(d)
    BY <1>3 DEF RoutedTo
  <2>2. ASSUME Intact(t) PROVE NextVisit(d) <= ArrivesBy(m)
    <3>1. /\ issued[t].at \in Nat /\ issued[t].by \in Address /\ issued[t].to \in Address
      BY DEF Inv, TypeInv, TypeOK
    <3> PICK n \in Nat : n = issued[t].at
      BY <3>1
    <3>2. a \in Nat /\ d \in Nat /\ epoch \in Nat /\ n \in Nat
      BY <1>1, TimeTypes
    <3>3. /\ NextVisit(d) = (IF d < a \/ d = a THEN epoch + 1 ELSE epoch)
          /\ NextFlush(a) = epoch
      BY <1>1, <3>2 DEF NextVisit, NextFlush, Visited
    <3>4. HandledBy(t) = (IF issued[t].to > issued[t].by THEN issued[t].at ELSE issued[t].at + 1)
      BY DEF HandledBy
    <3>5. CASE m.type = "request"
      <4>1. /\ d = issued[t].to /\ a = issued[t].by
            /\ epoch <= n /\ ArrivesBy(m) = HandledBy(t)
        BY <1>3, <2>2, <3>3, <3>5 DEF OtherEnd, Routed, LeavesBy, ArrivesBy
      <4>2. HandledBy(t) = (IF d > a THEN n ELSE n + 1)
        BY <3>4, <4>1
      <4>3. CASE d > a
        <5>1. NextVisit(d) = epoch
          BY <3>2, <3>3, <4>3
        <5>2. ArrivesBy(m) = n
          BY <4>1, <4>2, <4>3
        <5> QED
          BY <3>2, <4>1, <5>1, <5>2
      <4>4. CASE ~(d > a)
        <5>1. NextVisit(d) = epoch + 1
          BY <3>2, <3>3, <4>4
        <5>2. ArrivesBy(m) = n + 1
          BY <4>1, <4>2, <4>4
        <5>3. epoch <= n
          BY <4>1
        <5>4. epoch + 1 <= n + 1
          BY <3>2, <5>3
        <5> QED
          BY <4>1, <5>1, <5>2, <5>4
      <4> QED
        BY <4>3, <4>4
    <3>6. CASE m.type = "reply"
      <4>1. /\ a = issued[t].to /\ d = issued[t].by /\ a # d
            /\ epoch <= HandledBy(t) /\ ArrivesBy(m) = n + 1
        BY <1>3, <2>2, <3>3, <3>6 DEF OtherEnd, Routed, LeavesBy, ArrivesBy
      <4>2. HandledBy(t) = (IF a > d THEN n ELSE n + 1)
        BY <3>4, <4>1
      <4>3. CASE a > d
        <5>1. NextVisit(d) = epoch + 1
          BY <3>2, <3>3, <4>3
        <5>2. HandledBy(t) = n
          BY <4>1, <4>2, <4>3
        <5>3. epoch <= n
          BY <4>1, <5>2
        <5>4. epoch + 1 <= n + 1
          BY <3>2, <5>3
        <5> QED
          BY <4>1, <5>1, <5>2, <5>4
      <4>4. CASE ~(a > d)
        <5>1. NextVisit(d) = epoch
          BY <3>2, <3>3, <4>1, <4>4
        <5>2. ArrivesBy(m) = n + 1 /\ HandledBy(t) = n + 1
          BY <4>1, <4>2, <4>4
        <5> QED
          BY <3>2, <4>1, <5>1, <5>2
      <4> QED
        BY <4>3, <4>4
    <3> QED
      BY <1>4, <3>5, <3>6
  <2> QED
    BY <1>3, <2>1, <2>2 DEF Arriving
<1>12. ASSUME NEW c \in inhabitants
       PROVE  inqueue'[c] = inqueue[c] \/ inqueue'[c] \in Seq(Arriving(c)')
  <2>1. CASE c = d /\ inqueue'[c] = Push(inqueue[d], m, InqueueLimit)
    <3>1. inqueue[d] \in Seq(Arriving(d)') /\ m \in Arriving(d)'
      BY <1>9, <1>11, <2>1, SeqMonotone DEF PromptInv
    <3>2. Push(inqueue[d], m, InqueueLimit) \in Seq(Arriving(d)')
      BY <3>1, PushType, LimitAssumption
    <3> QED
      BY <2>1, <3>2
  <2>2. c \in Address
    BY TimeTypes
  <2> QED
    BY <1>6, <2>1, <2>2
<1>13. \A c \in inhabitants : c \in Address
  BY TimeTypes
<1> QED
  BY <1>5, <1>6, <1>7, <1>8, <1>10, <1>12, <1>13, PromptStays DEF Pending

\* A node that joins has empty queues and waits for nothing.
LEMMA PromptReplace ==
    ASSUME Inv, PromptInv, NEW a \in Address \cup {0}, NEW b \in Address \cup {0}, Replace(a, b)
    PROVE  PromptInv'
<1> DEFINE fresh == ({b} \ {0}) \cup {a}
           e == <<>>
<1>1. /\ turn = NoTurn /\ UNCHANGED <<epoch, turn, executed, issued>>
      /\ inhabitants' = (inhabitants \ {a}) \cup ({b} \ {0}) /\ dropped \subseteq dropped'
      /\ \A c \in Address : /\ inqueue'[c] = IF c \in fresh THEN e ELSE inqueue[c]
                            /\ outqueue'[c] = IF c \in fresh THEN e ELSE outqueue[c]
                            /\ c \notin fresh => callbacks'[c] = callbacks[c]
                            /\ \A t \in Tag : c \in fresh => callbacks'[c][t] = NoRecord
      /\ \A t \in Tag : status'[t] = IF a # 0 /\ t \in Pending(a) THEN "abandoned" ELSE status[t]
  BY DEF Replace
<1>2. \A S : e \in Seq(S)
  OBVIOUS
<1>3. \A c \in inhabitants' : c \in Address /\ (c \in inhabitants \/ c \in fresh)
  BY <1>1, TimeTypes
<1> HIDE DEF e, fresh
<1>4. Keeps
  BY <1>1 DEF Keeps, Grows
<1>5. \A c \in Address : NextFlush(c)' = NextFlush(c) /\ NextVisit(c)' = NextVisit(c)
  BY <1>1 DEF NextFlush, NextVisit, Visited
<1>6. \A c \in inhabitants' :
         /\ \/ c \in inhabitants /\ outqueue'[c] = outqueue[c]
            \/ outqueue'[c] \in Seq(Leaving(c)')
         /\ \/ c \in inhabitants /\ inqueue'[c] = inqueue[c]
            \/ inqueue'[c] \in Seq(Arriving(c)')
  BY <1>1, <1>2, <1>3
<1>7. \A c \in inhabitants' : \A t \in Pending(c)' :
         c \in inhabitants /\ t \in Pending(c) /\ callbacks'[c][t] = callbacks[c][t]
  BY <1>1, <1>3 DEF Pending
<1>8. \A t \in Tag : status'[t] = "failure" => status[t] = "failure"
  BY <1>1
<1> QED
  BY <1>3, <1>4, <1>5, <1>6, <1>7, <1>8, PromptStays

LEMMA PromptStep ==
    ASSUME Timeout > 1
    PROVE  Inv /\ DeliveryInv /\ TimeInv /\ PromptInv /\ [Next]_vars /\ [~CutOff]_vars
              => PromptInv'
<1> SUFFICES ASSUME Inv, DeliveryInv, TimeInv, PromptInv, [Next]_vars, [~CutOff]_vars
             PROVE  PromptInv'
  OBVIOUS
<1>1. CASE UNCHANGED vars
  <2>1. Keeps
    BY <1>1 DEF Keeps, Grows, vars, history
  <2>2. \A a \in inhabitants : NextFlush(a)' = NextFlush(a) /\ NextVisit(a)' = NextVisit(a)
    BY <1>1 DEF NextFlush, NextVisit, Visited, vars, program
  <2> QED
    BY <1>1, <2>1, <2>2, PromptStays DEF Pending, vars, program, history
<1>2. CASE ~CutOff
  BY <1>1, <1>2, PromptSend, PromptHandle, PromptScan, PromptEndAppTick, PromptAdvance,
     PromptPassAlong, PromptReplace
  DEF Next, NetworkTick, AppTick, Flush, Finished, CutOff
<1> QED
  BY <1>1, <1>2

\* As long as every flush empties its outqueue, and if the first timeout is
\* longer than a tick, a call is retried or fails only if a message of it was
\* discarded: at a full queue, or with a node that left.
THEOREM NoTimeoutIsSpurious ==
    ASSUME Timeout > 1
    PROVE  Spec /\ [][~CutOff]_vars => []NoSpuriousTimeout
<1>1. ASSUME Inv, PromptInv PROVE NoSpuriousTimeout
  <2>1. ASSUME NEW t \in Tag, NEW a \in Address, t \in Pending(a), callbacks[a][t].retries > 0
        PROVE  t \in dropped
    <3>1. a \in inhabitants
      BY <1>1, <2>1 DEF Inv, PendingInv, AbsentWaitForNothing
    <3> QED
      BY <1>1, <2>1, <3>1 DEF PromptInv, Fresh
  <2> QED
    BY <1>1, <2>1 DEF NoSpuriousTimeout, PromptInv
<1>2. Inv /\ DeliveryInv /\ TimeInv /\ PromptInv /\ [Next]_vars /\ [~CutOff]_vars => PromptInv'
  BY PromptStep
<1> QED
  BY <1>1, <1>2, PromptInit, DeliveryInit, DeliveryStep, TimeInit, TimeStep, Invariance, PTL
  DEF Spec

\* The largest message fits the link as often as the outqueue holds messages.
Unsaturated ==
    \E s \in Nat : /\ \A size \in RequestSize \cup ReplySize : size <= s
                   /\ OutqueueLimit * s <= LinkLimit
Share == CHOOSE s \in Nat : /\ \A size \in RequestSize \cup ReplySize : size <= s
                            /\ OutqueueLimit * s <= LinkLimit

\* What is left in the outqueue fits what is left of the link.
Fits == turn # NoTurn /\ phase = "flush" =>
            transferred + Len(outqueue[turn]) * Share <= LinkLimit

LEMMA ShareFits ==
    ASSUME Unsaturated
    PROVE  /\ Share \in Nat /\ OutqueueLimit * Share <= LinkLimit
           /\ \A m \in Message : m.size <= Share
<1>1. /\ Share \in Nat /\ OutqueueLimit * Share <= LinkLimit
      /\ \A size \in RequestSize \cup ReplySize : size <= Share
  BY DEF Unsaturated, Share
<1> QED
  BY <1>1 DEF Message

LEMMA ProductMonotone ==
    ASSUME NEW n \in Nat, NEW k \in Nat, NEW s \in Nat, n <= k
    PROVE  n * s <= k * s
<1> PICK d \in Nat : k = n + d
  <2>1. k - n \in Nat /\ k = n + (k - n)
    OBVIOUS
  <2> QED
    BY <2>1
<1>1. (n + d) * s = n * s + d * s
  OBVIOUS
<1>2. d * s \in Nat /\ n * s \in Nat
  OBVIOUS
<1> QED
  BY <1>1, <1>2

\* The outqueue is within its limit when the flush begins, and what is passed
\* along takes no more than its share.
LEMMA FitsStep ==
    ASSUME Unsaturated
    PROVE  Inv /\ DeliveryInv /\ Fits /\ [Next]_vars => Fits'
<1> SUFFICES ASSUME Inv, DeliveryInv, Fits, [Next]_vars
             PROVE  Fits'
  OBVIOUS
<1>1. CASE EndAppTick
  <2> PICK a : a = turn
    OBVIOUS
  <2> PICK n : n = Len(outqueue[a])
    OBVIOUS
  <2> PICK s : s = Share
    OBVIOUS
  <2>1. n \in Nat /\ n <= OutqueueLimit
    <3>1. a \in Address
      BY <1>1, TimeTypes DEF EndAppTick
    <3>2. outqueue[a] \in Seq(Routed) /\ Len(outqueue[a]) <= OutqueueLimit
      BY <3>1 DEF DeliveryInv, RouteInv
    <3> QED
      BY <3>2
  <2>2. s \in Nat /\ OutqueueLimit * s <= LinkLimit /\ OutqueueLimit \in Nat /\ LinkLimit \in Nat
    BY ShareFits, LimitAssumption
  <2>3. n * s <= OutqueueLimit * s
    BY <2>1, <2>2, ProductMonotone
  <2>4. 0 + n * s <= LinkLimit
    BY <2>1, <2>2, <2>3
  <2> QED
    BY <1>1, <2>4 DEF EndAppTick, Fits, Share
<1>2. CASE PassAlong
  <2> PICK a : a = turn
    OBVIOUS
  <2> PICK m : m = Head(outqueue[a])
    OBVIOUS
  <2> PICK q : q = Tail(outqueue[a])
    OBVIOUS
  <2> PICK s : s = Share
    OBVIOUS
  <2> PICK n : n = Len(q)
    OBVIOUS
  <2>1. /\ turn # NoTurn /\ phase = "flush" /\ outqueue[a] # <<>> /\ a \in Address
        /\ transferred \in Nat /\ outqueue[a] \in Seq(Message)
        /\ UNCHANGED <<turn, phase>> /\ transferred' = transferred + m.size
        /\ outqueue' = [outqueue EXCEPT ![a] = q]
    BY <1>2, TimeTypes DEF PassAlong, Flushing, Unqueue, Inv, TypeInv, TypeOK
  <2>2. m \in Message /\ Len(outqueue[a]) = n + 1 /\ n \in Nat /\ outqueue'[a] = q
    <3>1. m \in Message /\ Len(outqueue[a]) = n + 1 /\ n \in Nat
      BY <2>1, TailType
    <3> QED
      BY <2>1, <3>1 DEF Inv, TypeInv, TypeOK
  <2>3. m.size \in Nat /\ s \in Nat /\ m.size <= s /\ LinkLimit \in Nat
    BY <2>2, ShareFits, LimitAssumption DEF Message
  <2> PICK size \in Nat : size = m.size
    BY <2>3
  <2>4. transferred + (n + 1) * s <= LinkLimit
    BY <2>1, <2>2 DEF Fits
  <2>5. (n + 1) * s = n * s + s /\ n * s \in Nat
    BY <2>2, <2>3
  <2>6. PICK p \in Nat : p = n * s
    BY <2>5
  <2>7. transferred + (p + s) <= LinkLimit
    BY <2>4, <2>5, <2>6
  <2>8. transferred + size + p <= LinkLimit
    <3>1. transferred \in Nat /\ s \in Nat /\ size \in Nat /\ p \in Nat /\ LinkLimit \in Nat
      BY <2>1, <2>3, <2>6
    <3> QED
      BY <2>3, <2>7, <3>1
  <2> QED
    BY <2>1, <2>2, <2>6, <2>8 DEF Fits, Share
<1>3. CASE phase' = "tick" \/ turn' = NoTurn
  BY <1>3 DEF Fits
<1>4. CASE UNCHANGED <<turn, phase, transferred, outqueue>>
  BY <1>4 DEF Fits
<1>5. CASE StartTick \/ DropOversize \/ Requeue \/ FlushDone
  BY <1>3, <1>5 DEF StartTick, DropOversize, Requeue, FlushDone, Advance
<1>6. ASSUME NEW a \in Address, NEW b \in Address, NEW t \in Tag, NEW size \in RequestSize,
             NEW s \in {"posted", "waiting"}, Send(a, b, t, size, s)
      PROVE  Fits'
  BY <1>3, <1>6 DEF Send
<1>7. CASE HandleReply \/ \E size \in ReplySize : HandleRequest(size)
  BY <1>3, <1>7 DEF HandleReply, HandleRequest
<1>8. ASSUME NEW t \in Tag, AttemptRetry(t) \/ GiveUp(t) PROVE Fits'
  BY <1>3, <1>8 DEF AttemptRetry, GiveUp, Scanning
<1>9. ASSUME NEW a \in Address \cup {0}, NEW b \in Address \cup {0}, Replace(a, b) PROVE Fits'
  BY <1>3, <1>9 DEF Replace
<1>10. CASE UNCHANGED vars
  BY <1>4, <1>10 DEF vars, program
<1> QED
  BY <1>1, <1>2, <1>5, <1>6, <1>7, <1>8, <1>9, <1>10
  DEF Next, NetworkTick, AppTick, Flush, Finished

\* A link that can carry a full outqueue never cuts a flush off.
THEOREM AmpleLinksNeverCutOff ==
    ASSUME Unsaturated
    PROVE  Spec => [][~CutOff]_vars
<1>1. Init => Fits
  BY DEF Init, Fits
<1>2. ASSUME Inv, Fits, CutOff PROVE FALSE
  <2> PICK a : a = turn
    OBVIOUS
  <2> PICK m : m = Head(outqueue[a])
    OBVIOUS
  <2> PICK s : s = Share
    OBVIOUS
  <2> PICK n : n = Len(outqueue[a])
    OBVIOUS
  <2>1. /\ turn # NoTurn /\ phase = "flush" /\ outqueue[a] # <<>> /\ a \in Address
        /\ transferred \in Nat /\ outqueue[a] \in Seq(Message) /\ (Oversize(m) \/ Exceeds(m))
    BY <1>2, TimeTypes DEF CutOff, DropOversize, Requeue, Flushing, Inv, TypeInv, TypeOK
  <2>2. m \in Message /\ n \in Nat /\ n >= 1
    BY <2>1, TailType
  <2>3. m.size \in Nat /\ s \in Nat /\ m.size <= s /\ LinkLimit \in Nat
    BY <1>2, <2>2, ShareFits, LimitAssumption DEF Message
  <2>4. transferred + n * s <= LinkLimit
    BY <1>2, <2>1 DEF Fits
  <2>5. 1 * s <= n * s /\ 1 * s = s /\ n * s \in Nat
    BY <2>2, <2>3, ProductMonotone
  <2>6. transferred + m.size <= LinkLimit /\ m.size <= LinkLimit
    BY <2>1, <2>3, <2>4, <2>5
  <2> QED
    BY <2>1, <2>3, <2>6 DEF Oversize, Exceeds
<1>3. Inv /\ Fits => [~CutOff]_vars
  BY <1>2
<1>4. Inv /\ DeliveryInv /\ Fits /\ [Next]_vars => Fits'
  BY FitsStep
<1> QED
  BY <1>1, <1>3, <1>4, DeliveryInit, DeliveryStep, Invariance, PTL DEF Spec

\* So on such links a call is retried or fails only if a message of it was
\* discarded, whatever is sent, when and by whom.
THEOREM AmpleLinksNeedNoRetry ==
    ASSUME Unsaturated, Timeout > 1
    PROVE  Spec => []NoSpuriousTimeout
<1>1. Spec => [][~CutOff]_vars
  BY AmpleLinksNeverCutOff
<1>2. Spec /\ [][~CutOff]_vars => []NoSpuriousTimeout
  BY NoTimeoutIsSpurious
<1> QED
  BY <1>1, <1>2

=============================================================================
