# A verification of dhtsim

dhtsim simulates a Kademlia distributed hash table: nodes on a simulated network
keep routing tables, look up keys by asking one another, and store values, while an
experiment replaces nodes and measures how lookups fare. This directory holds TLA+
models of the program, the TLC runs that check them on small instances, and theorems
that TLAPS proves for all instances.

## The system

The program is one thread. `main` builds the network and its nodes, lets them run for
100 ticks, and hands them to `ChurnExperiment`. There is no concurrency of threads; what
makes the program hard is that everything a node does is spread over callbacks, which run
ticks later, on a state that has changed meanwhile.

| component | state | operations | interacts with |
|---|---|---|---|
| Network (`network.cpp`) | inhabitants by address, epoch | `add`, `remove`, `tick` (tick each node, flush its outqueue up to the link limit), `passAlongMessage` | calls `tick`, `unqueueOut`, `recv`, `send` of applications |
| BaseApplication (`base.hpp`) | inqueue, outqueue, `callbacks` (tag to sent message), epoch | `send`, `recv`, `tick` (handle the inqueue, retry or fail what is overdue), `handleMessage` | calls the callbacks its caller gave to `send` |
| Keys (`key.hpp`, top of `kademlia.cpp`) | - | prefix length, XOR order, sorting, `getNearest` | used by the routing table and lookups |
| Routing table (`kademlia.cpp`) | buckets of at most k entries, `pings_in_progress` | `observe`, `unobserve`, `updateOrAddToBucket`, `ping` | fed by every incoming message; pings through BaseApplication |
| Lookups (`kademlia.cpp`) | `nodes_being_found`: a `NodeFinder` per target | `findNodes`, `findValue`, `findNodesStep`, finish, fail | starts from the routing table, removes silent nodes from it |
| Storage (`kademlia.cpp`) | `table`: value, last touch, added | `store`, `storeValue`, `runTableMaintenance` | `store` is a lookup followed by STORE messages |
| Refresh (`kademlia.cpp`) | a counter per round | `refreshBuckets`, `refreshSingleBucket` | starts lookups of random keys |
| Churn experiment (`main.cpp`, `experiment.hpp`) | nodes, `waiting` flags, stored keys | `init`, `run`: replace a node, fetch, tick | calls network and nodes between ticks |

`pingonly.hpp` is not compiled. The behaviours that are hard here: answers that come after
a retry or after the call was given up; nodes that leave with messages in their queues,
and addresses that are assigned again; links and queues at their limits; callbacks that
assume a bucket or a finder to be as it was when they were made; calls that join an
operation in progress. `PROJECT.json` lists them as hazards, each at its line.

What makes each component correct:

- network and BaseApplication: a call is answered once or fails, in bounded time; a
  record is kept as long as a call waits and no longer; nothing disappears but at a known
  limit or a departed node; what is queued is delivered once nothing new is sent;
- keys: the bucket index is the number of matching bits, and buckets are ranges of
  distance; the order is total; `getNearest` returns the nearest;
- routing table: buckets stay within k; old contacts are only dropped when they do not
  answer; a silent node is forgotten; one ping per address;
- lookups: each caller gets one answer, every node heard of is asked once, nearest first,
  the lookup ends;
- storage: a value is handed on before it is dropped, dropped when nobody sends it any
  more, and re-stored at the nodes nearest to it;
- refresh: a bucket that is left alone is noticed, and a round of refreshes is reported
  when it is over (that the bucket's range is queried should be on this list too; it is not, see below);
- experiment: a node's flag is set while its fetch goes on, and a replacement starts anew.

## The modules

| module | models |
|---|---|
| `Rpc` | what the messaging layer promises: calls, executions, at most one answer |
| `Transport` | `CentralizedNetwork` and `BaseApplication` together; implements `Rpc` |
| `TransportProofs` | theorems about `Transport` |
| `Keys`, `Nearest` | the key functions; `sortByDistanceTo` and `getNearest` |
| `KeySpace` | the key functions at work: a node, two others and a target, and what keys are as numbers |
| `KeysProofs` | theorems about `Keys`, `Nearest` and `KeySpace` |
| `RoutingTable` | the buckets and pings of one node |
| `RoutingTableProofs` | theorems about `RoutingTable` |
| `Query` | what a lookup promises to its callers |
| `Lookup` | the finders of one node; implements `Query` |
| `LookupProofs` | theorems about `Lookup` |
| `Storage` | the values of all nodes of a network, and their maintenance |
| `StorageProofs` | theorems about `Storage` |
| `Churn` | `ChurnExperiment` on the nodes of `Storage`, with their fetches |
| `ChurnProofs` | theorems about the flags in `Churn`, and that the experiment is a network of `Storage` |
| `Refresh` | the bucket refreshes of one node |
| `RefreshProofs` | theorems about `Refresh` |
| `Arithmetic` | facts the proofs share: least elements, recursion and induction on naturals, quotients and remainders |
| `MCTransport`, `MCKeys`, `MCRoutingTable`, `MCLookup`, `MCChurn`, `MCRefresh` | instances for TLC |

Operators are named after the functions they model where they have one. Definitions
marked `mutant` are not part of the model: each is a plausible mistake in the operator
that follows it, and replacing that operator by it makes a property fail. They show that
the property can fail.

### Transport

The steps are the iterations of the loops of `CentralizedNetwork::tick` and
`BaseApplication::tick`; `turn` and `phase` say where in them the program is. Between two
ticks (`turn = NoTurn`) the experiment may replace a node, and calls may be made; during a
node's `tick` its handlers and callbacks may send. `Address` is numeric because the loop
visits the inhabitants in ascending order, and 0 is both "no turn" and the failure of
`getNewAddress`. Messages have a type, the two addresses, a tag and a size. `randomTag`
draws 64 bits; the model takes a tag not used before. The application above answers every
request at once under the same tag, as `KademliaNode::handleMessage` does (the response to
a STORE included, which has no record and is dropped by its receiver). A message that a
node receives from itself is possible and modelled: a bucket may hold the address of a
departed node that was assigned again to this very node. `die()` and the removal from the
network happen together, so the dead flag is not a variable. A replacement may take the
address 0, and so not join, and the node it replaces may be one that did not: then only a
node joins. A node without an address is never ticked. The ping that `introduce` makes it
send stays in its outqueue until it is replaced, without ever failing, and is left out here.

The overdue records are visited in the order of their random tags, hence in any order.
`status`, `executed`, `issued` and `dropped` are history that only properties read.

### Keys and Nearest

A byte is the set of its one-bits, which makes XOR a symmetric difference. `KEY_LEN` and
`BYTE` are parameters (20 and 8 in the code). `KeySpace` compares the functions with
definitions that read keys as numbers. `std::sort` is one of the orders of the entries in
which none is less than one before it, as `key_distance_cmp` leaves open what
becomes of entries of the same key. `getNearest` works on the buckets as sequences, in which
a node can be listed more than once (below).

### RoutingTable

One node among `Peer`, pairs of key and address; two peers with the same address are nodes
that had it one after the other, and the node's own key may be among them. `Receive`
is a handler: the sender is observed and, for a FIND_NODES response, then all entries it
lists, in order. `PongArrives`, `PingTimesOut` and `RequestTimesOut` are the callbacks of
pings and lookups. `captured` is the callback that travels with the ping request, a copy
of the one that started the ping; `pings_in_progress` has the callbacks that were added
too. As nothing ever calls the added ones, the model keeps them as a set. What
erasing leaves of a bucket is `Keep`, the entries at the remaining places in their order.
For an empty bucket `erase(begin())` is undefined: the model lets the program stop (`corrupted`)
or the bucket stay empty, which is what libstdc++'s vector does when the heap survives it.
This is the only way the model stops, and the reason why its runs do not check deadlock.

### Lookup

One node's finders. What a routing table or a response can list is any set of at most k
nodes, so `getNearest`'s flaw (below) and stale entries are included. Entries are reduced
to keys. A request gets one answer or one failure; that is what `Rpc` promises and
`Transport` implements. An answer after that finds no callback, and only feeds the
routing table. The counter `waiting` is unsigned in the code; `TypeOK` shows that it does
not pass below zero. `Step` and the actions keep the branches in which a finder still
waits for another answer, or is missing; `OneOutstanding` shows that they are never taken.

`Query` is what a caller sees of this: one lookup per target, of the kind of the call that
started it, whose end reaches all calls that joined it. The refinement mapping forgets the
nodes, and takes the last answer of a call for its outcome. `Churn` and `Refresh` are
written in terms of it: a fetch has a finder that ends in some tick, with whatever it finds.

### Storage

A step is the tick of one inhabitant with the flush of its outqueue: the STOREs in its
inqueue are handled (`Received`), then maintenance runs if it is due. As in `Transport`,
`turn` walks through the inhabitants in ascending order, so a STORE to a higher address
arrives in the same epoch and one to a lower address in the next; this is where values could
be lost between holders whose offsets are the same. A value stands for its SHA1 key as well.
Whom maintenance sends a value to is any set of at most `k` addresses, those of
departed nodes and the node's own among them. The tick that `add` gives to a new node has
nothing to do, and is left out. Neither links nor queues are at their limits here: a lost STORE is
one that `Transport` accounts for, and with it a value can be lost in the code.

`stored`, `excused` and `heirs` are history for the properties. A value is excused
when a node that holds it, or has it in its inqueue, is replaced, or when
maintenance finds nobody but the node itself (or nobody who is still there) to
send it to. Everything else must survive.

### Churn

`stage` is the place in the loop of `run`: replace a node if it is time for that, start a
fetch, tick the network, whose inhabitants `VisitNode` visits one by one. `init` is the
same without the first two, for `InitTicks` ticks. A finder is its kind and the callbacks it
has, named after what they do. `nodes[i] = 0` is a node that `add` could not give an
address: it is not ticked, its fetches fail at once, and a later replacement puts another in its
place. The replaced node's finders are gone with it, and with them the callbacks that hold
its index.

### Refresh

A bucket is the set of the times at which its entries were last seen; in a tick it may become
any set of times up to now, which covers all that `RoutingTable` does to it, entries that
come back with an old time included. The counter of a round is named by the epoch of the
round. Of `KademliaNode::tick` only the refresh is left here; what the lookups find is not
modelled, as it only comes back as changes of the buckets. The target of such a lookup is a
random key, which the code means to move into the range of the bucket and does not: a lookup
carries the bucket it was started `for`, but need not ask about it. Nothing in this
module says that a bucket becomes fresh. The callbacks that are counted
are those of the code, although `tick` passes none to be called at the end: `reports` says how
often one would be.

## The runs

| run | instance | shows |
|---|---|---|
| `transport_churn` | addresses 1-3, two founders, two calls or posts, 2 replacements, 9 ticks, ample links | `PendingIffWaiting`, `NothingLost`, `NoSpuriousTimeout`, and that `Transport` implements `Rpc` |
| `transport_saturated` | two nodes, one replaced, inqueue 1, outqueue 2, messages of up to and beyond the link limit, 10 ticks, fairness | `NothingLost`, `BoundedExecution`, `TimelyResolution`; every call ends, and the queues drain |
| `transport_latency` | as churn, without replacements | **violated**: equal latency |
| `keys` | all quadruples of keys of 2 bytes of 2 bits | the key functions are what they are meant to be, `getNearest` is right about what it looks at |
| `keys_all_buckets` | the same | **violated**: `getNearest` looks at all buckets |
| `routing` | five identities at two addresses, two buckets of two places, gossip of one entry, two epochs | bounds, ping tracking, old contacts stay, silent nodes go; only the newcomer of a failed ping is ever listed again or out of order |
| `routing_eviction` | four peers, distinct addresses | **violated**: only the silent node is evicted |
| `routing_joined_pings` | the same | **violated**: added callbacks are called |
| `lookup` | 2 calls of either kind, 2 targets, 3 nodes, k = 2, fairness | one request at a time, one answer per call, exhaustive, ends, and that `Lookup` implements `Query` |
| `lookup_fetch` | the same | **violated**: a set waiting flag means a lookup goes on |
| `churn` | three nodes, one value, k = 1, maintenance period 2, 6 ticks, a replacement every 2 | a value survives its holders' dropping it, is not held for too long, flags and fetches agree |
| `refresh` | two buckets of two, two known nodes at a time, refresh period 2, offsets 0-2, 5 ticks, fairness | a round is reported once, when it is over; a bucket left alone is noticed |

Bounds. Two calls are the fewest that share a link, a queue, a target or a tag mix-up, and
three addresses the fewest for which a freed address can be reused or not. A call in the
runs waits 2 and is retried once after 4 ticks, the parameters with which `KademliaNode` calls
`send` (`kademlia.cpp:173` and `301`); all of its six ticks fit into `MaxTime`. In the
saturated run a message fits the link alone, together with no other, or not at all, so
each branch of the flush is taken. Its one replacement, of either address, takes a sender
or a destination out while calls wait. As `LastCall` bounds when something is sent,
`QueuesDrain` is about what happens after: while a node goes on sending, a large message can be
overtaken for ever (below). Keys of four bits have four buckets, twice `KEY_LEN`,
so some are beyond the loop of `getNearest`. In `routing`, three peers compete for a bucket of
two; two of them share an address, so a timeout removes one, two or no entries of the
bucket; two epochs tell older from newer. In `lookup`, three nodes are enough for one that
is asked at once, one learned of later and one listed again after it was asked; two calls
can join, run in parallel, or follow each other on the same target.

In `churn` node zero, which stays, has an address between those of the others, so that values
are sent up and down; three addresses for three nodes leave one free when `add` has failed,
and let a replacement take the address of its predecessor. Six ticks are three maintenance
periods: a value is stored, handed on, dropped, and handed on again by its new holder, with all
combinations of offsets. One value is enough for what the holders do, as values do not
interact; that fetches of several values do not get mixed up either is proved (`ChurnProofs`).
In `refresh` the node knows two nodes at a time, in one bucket, of which one may be fresh and one not, or
in two, both of which may be stale; the offsets go beyond the refresh period, the second bucket is beyond the loop of
`getNearest`, and the rounds of epochs 2 and 4 overlap if a lookup takes long.

Fairness. `FairSpec` of `Transport` is weak fairness of the network's tick: `main` and the
experiment call it in a loop, and nothing it does can block. There is none on sending or
replacing. `FairSpec` of `Lookup` says that of the requests of a target one is resolved
eventually: `EveryCallEnds` of `Transport`. `FairSpec` of `Refresh` says that of the lookups
of a round one ends eventually: `EveryLookupEnds` of `Lookup`.

## What the checks found

- Latency depends on the addresses (`network.cpp:56`), against `README.md:22`.
- `getNearest` scans 20 of 160 buckets (`kademlia.cpp:129`). The skipped ones hold the
  nodes nearest to oneself: few in a small network, where the first 20 buckets are all there are,
  but the loop bound is bytes where bits are meant.
- A failed ping evicts two entries (`kademlia.cpp:576`): `unobserve` has removed the head
  when `cbFail` erases the first entry. If the bucket is empty by then, as it always is
  for k = 1, that is undefined behaviour.
- A failed ping can list a node twice (`kademlia.cpp:578`): `cbFail` pushes the newcomer
  without looking for its key, and with the time at which it was heard of first. `ListedOnceKept`
  and `SeenOrderKept` say that this is all that goes wrong: what is listed twice or out of order
  is that newcomer, in the last place (without this exception TLC finds a counterexample of
  six states). If meanwhile an entry of the bucket timed out and the newcomer was heard
  of again, it is there already. Its copies take two of the k places until one reaches the
  front and is evicted or its address fails to answer (hoisting erases one copy and pushes
  another), and `getNearest` returns fewer different nodes than it could. Nothing else is misled:
  a lookup drops the copy (`seen`), and maintenance sends the same STORE twice.
- Callbacks added to a ping in progress are never called (`kademlia.cpp:161`).
- A fetch that joins a `findNodes` for the same key never reports (`main.cpp:113`). In the
  experiment this can only happen to a node that fetches the value it is still storing;
  `OnlyFoundersStick` shows that it heals when the node is replaced. Node zero never is.

Seen while reading, and not covered by a run: the comment of `l2c` (`kademlia.cpp:48`)
describes trailing zeros, the function counts the significant bits; a message beyond the link
limit is put behind the others (`network.cpp:71-75`), so that with the queue [small, large] and one small
message more in every tick, each flush delivers one small message and requeues the large one, for ever,
against which its sender has nothing but the timeout; `alpha` is never read,
lookups are sequential (`LookupIsSequential` proves it); the loop of
`refreshSingleBucket` (`kademlia.cpp:641`) never runs, so a stale bucket is refreshed by
looking for a key that need not be near it, although `kademlia.hpp:201-202` says: "This ensures that
buckets whose node range haven't been queried in a long time remain fresh."; a round of a node that knows nobody in the scanned
buckets is reported once per stale bucket (`ReportedWhenDone` says so); a `findValue` does
not look into the node's own table; the condition `added <= last_touch` of maintenance
(`kademlia.cpp:624`) always holds, as `StorageTypeOK` states.

## What is proved

The theorems hold for all values of the constants that satisfy the modules' assumptions.

**Transport.** `TypeCorrect`, `PendingCorrect`, `RetryNeverWraps` and `Refinement`. The
inductive invariant has three parts: the types; that a record belongs to a waiting call of
the node that holds it (`PendingIffWaiting` and what the record says of its sender); and
that every reply in any queue carries the tag of a request that was executed. The last is
what `Refinement` needs: a success is a reply, or the node's own request, taken from the inqueue. It
says something of messages that are in queues, where no property looks, which is why
the properties alone are not inductive. `RetryNeverWraps` is the invariant that
`nextSend` is later than `timeSent` in every record, so that the difference in `retry`
of an unsigned type does not wrap.

Four more results say what the layer does with messages and time.

- `NothingIsLost` adds `RouteInv`: a request in a queue comes from the node that issued its tag
  and a reply goes back to it, an inqueue has only what is addressed to its owner, and an
  outqueue is within its limit. That is why the flush, which requeues what the link cannot
  carry behind the rest, never finds the outqueue full, and why what a replaced node takes with
  it is accounted for.
- `CallsResolveInTime` adds `TimeInv`. The clock of a node is that of the network's last tick
  until it is visited in the present one (`Clock`), and a record is never overdue outside its
  node's own tick, so that each send happens in the tick it is due and the waits add up
  exactly (`Due`). The waits are recursive functions of the number of retries; `WaitValue`
  and its like unfold them, and `PatienceIsLongest` says that all of them together are the
  longest.
- `HandledOncePerSend` adds `CountInv`: executions and copies of a request in all queues
  together are no more than its sends, one and the retries of its record.
- `NoTimeoutIsSpurious` is about the behaviours in which the link limit never cuts a flush off
  (`[][~CutOff]_vars`: neither `Requeue` nor `DropOversize` happens), and assumes a first timeout
  longer than one tick (20 in the code; with 1, TLC finds the invariant violated). `PromptInv`
  adds to the above, for each message of a call of which nothing was discarded, the tick in
  which it leaves its outqueue (`LeavesBy`) and the one in which its destination has taken it from
  its inqueue (`ArrivesBy`). They depend on which end has the higher address. The answer is
  taken in the tick after that of the call at the latest, before the node looks for overdue
  records (`PromptLate`). That no flush is cut off follows from the constants only for links
  that carry a full outqueue (`Unsaturated`): `AmpleLinksNeverCutOff`, and with it
  `AmpleLinksNeedNoRetry`. `MCTransport_churn` satisfies `Unsaturated`. The program's default
  limits (2^15 messages in the outqueue, 2^16 bytes per tick in `main.cpp`) do not: for them it is the
  first theorem that speaks, of runs whose load stays below the limit.

**Keys.** `PrefixInRange`, `DistanceOrder`, `DeeperBucketIsCloser`, for all key and byte
lengths. They rest on the existence of a first differing byte and of a most
significant differing bit, by well-founded minimum (`Arithmetic`). `RoutingTable` assumes of
`BucketOf` and `Lookup` of `Distance` what they state. The four properties of the `keys` run
follow for every key length, where TLC sees keys of four bits:

- `PrefixesMatch` and `DeeperBuckets`. `BitPlace` and `BitsBefore` translate between a bit's place
  in its byte and its place in the key.
- `ComparisonIsDistance`. A number is a recursive function of its bits (`NumberValue` unfolds it).
  `FirstBitDecides` is the induction: of two numbers, the one with a 0 at the first bit that
  differs stays below the other whatever bits follow. `DistancesAreNumbers` adds that
  only one key is at a given distance of another.
- `NearestAreFound`, from `NearestFound`, which holds for any buckets: what `getNearest`
  returns is among the entries it scans, no entry left out is nearer, and if no node is listed
  twice the order is strict and the count that of the nodes. `SortExists` shows that there is
  an order for `std::sort` to produce (the rank of an entry is the number of those before it),
  `FlattenFacts` and `CandidatesFacts` that the loop over the buckets collects all entries
  but the excluded. Their inductions are over sets of naturals (`UptoInduction`), not
  over data.

**RoutingTable.** All seven properties its run checks: `TypeCorrect`, `BucketsAreBounded`,
`PingsAreTracked`, `OldContactsAreKept`, `OrderIsKept`, `NodesAreListedOnce`, `FailuresForget`. The functions of
the code work on a table, so the lemmas are about any well-formed table (`Good`): its
types, each entry in the bucket of its key and not from the future, buckets within `k`, pings
tracked, and, what no property says, that the newcomer inside a ping in flight has a bucket
and is not from the future (`Waits`). Without the last, a ping that fails could file its
newcomer anywhere. `Places` and `KeepFacts` say what erasing leaves of a bucket; `Updates` what an
update does to it: no key lost or listed again, nothing else added, the order kept when the
new entry is the latest. `ObserveAllGood` carries these over a response of any length. The bound
on a bucket survives a failed ping because `InsertNewcomer` is only reached when there is an
entry to erase, and `Append(Tail(...))` is then as long as before. `Blames` says of what a failed
ping does to a bucket that any new disorder or duplicate is due to the entry it placed last;
`OnlyNewcomersDisturb` puts this together with the other steps, which make none. `corrupted` is
the exception of the properties: a program that survives the erasure from an empty
bucket goes on with a well-formed table.

**Lookup.** `TypeCorrect`, `LookupIsSequential` and `CallsAnsweredOnce`. The conjunction of the
three properties is inductive. The lemma `StepInv` is the core: `findNodesStep`, called for
a finder with `waiting = 0` and no open request, re-establishes it, by finishing
(`FinishInv`) or asking (`AskInv`). `Answered` shows that each callback finds its finder so.
`LookupsAreExhaustive` adds to it what a finder remembers (`Gathered`): all that it has
`seen` is what its first call was told of, and all of that but `uncontacted` was asked, each
node once. So a finder that ends because it has nobody left to ask has asked all.
`Refinement` shows that `Lookup` implements `Query`. It rests on the same invariant: the callers
listed by a finder are calls that wait, so that its end is the end of one lookup of `Query`
and answers just its callers (`EndSeen`); a step that does not end a finder leaves the
callers of all as they are.

**Storage.** `ValuesSurvive`, `ValuesExpire` and `ValuesAreHandedOver`, for every period, set of
offsets and addresses. The invariant relates three times: when a node had its last
maintenance (`LastMaintenance`), when what it sent then arrives (`Arrival`: in the same epoch
at a higher address, in the next at a lower one), and when the entries were touched.
`HeirsHold`: whom a node sent a value in its last maintenance, and who is still there, holds
it, touched no earlier than that, or is about to. `HandedOn`: a value that was not touched since
then was sent to somebody else. So a node that finds a value stale sent it to others a period ago, and
theirs cannot be stale yet. `FreshAtMaintenance`, that no entry was stale in a
maintenance of its own lifetime, gives the bound on how long one is held: two epochs of
a period apart enclose a maintenance, whatever the offset (`Arithmetic`).

**Churn.** `FetchesHaveFlags` and `StuckFlags`. The two properties lack where the lookups come
from that a fetch can be joined to without ever being reported: `StoresByFounders` says that a
node has a lookup of nodes only for its own value, and only if it was there from the
beginning. With it each action preserves both (`ReplaceInv`, `FetchInv`, `VisitInv`). The run
has one value, so it cannot show that a node's fetches of several values exclude each other.
`ExperimentIsANetwork` shows that `Churn` implements `StorageSpec`: every step of the
experiment is a tick or a replacement of that network or leaves it alone, which rests on
`Agreement` between the array of nodes and the inhabitants (`TypeCorrect`). What is proved
of values in `Storage` then holds in the experiment (`ValuesSurviveChurn` and its two
companions).

**Refresh.** `TypeCorrect` and `RoundsAreReported` rest on `Ahead` (rounds that are to come have
nothing yet) and `CountsItsOwn` (the open lookups of a round are among those it started): the
counter of a round is the number of its open lookups, however many rounds overlap.
`StaleBucketsAreNoticed` rests on `Served`: a round started a lookup for each bucket that had not
changed for a period by then. It says nothing of what these lookups ask about. `PhaseComes` (`Arithmetic`) gives the one round each period has.

Every safety property and action property of the passing runs, and both refinements of a
promise (`Rpc`, `Query`), are proved. Only model-checked is liveness: `EveryCallEnds` and its like need
`ENABLED` and fairness, of which the prover knows nothing. The violations are counterexamples of TLC.

## Not modelled

Byte formats, logging, the statistics printed per tick, SHA1, the random generator,
`plots.py`, `pingonly.hpp`. A callback that starts a lookup of the target that is just
finishing would append to the list of callbacks being run; no callback of the program
does. The 32-bit address space running full.

## Plan

1. `Transport` with `Rpc`, `Keys` with `Nearest`, `RoutingTable`, `Lookup`: done.
2. `Query`, `Storage`, `Churn`, `Refresh`: done.
3. Proofs: of every module's safety properties, done.
