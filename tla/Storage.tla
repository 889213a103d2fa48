------------------------------ MODULE Storage ------------------------------
(***************************************************************************)
(* The values the nodes of a network hold (kademlia.cpp): store,           *)
(* storeValue, runTableMaintenance and the tick that calls it, at several  *)
(* nodes with maintenance offsets of their own.                            *)
(*                                                                         *)
(* As in Transport, the network visits the inhabitants in ascending order  *)
(* of address, so that a message to a higher address is handled in the     *)
(* epoch it is sent and one to a lower address in the next.  Links are     *)
(* ample and queues never full: what they lose otherwise is lost for       *)
(* Transport to tell.  Whom a node knows is any set of addresses, stale    *)
(* ones and its own (left by a departed node) included.                    *)
(***************************************************************************)
EXTENDS Naturals, FiniteSets

CONSTANTS
    Address,            \* the addresses getNewAddress can return; 0 is its failure
    Zero,               \* the address of node zero, which is never killed
    Founders,           \* the inhabitants main() adds before the first tick
    Value,              \* the values stored, which stand for their keys as well
    NoEntry,            \* no entry for a value in `table'
    k,                  \* Config::k
    maintenance_period, \* Config::maintenance_period
    MaxEpoch            \* bound: the ticks the network performs

ASSUME StorageAssumption ==
    /\ Address \subseteq Nat \ {0} /\ IsFiniteSet(Address)
    /\ Founders \subseteq Address /\ Zero \in Founders
    /\ k \in Nat /\ maintenance_period \in Nat \ {0}
    /\ MaxEpoch \in Nat

VARIABLES
    epoch, inhabitants, turn,   \* as in Transport
    maintenance_offset,         \* of the node at each address
    table,
    inbox,                      \* the values of the STORE messages in each inqueue
    \* history, read by the properties only:
    stored,                     \* the values that reached some node
    excused,                    \* the values that may be lost, see Survives
    heirs                       \* who got each value from a node's last maintenance

storage == <<epoch, inhabitants, turn, maintenance_offset, table, inbox,
             stored, excused, heirs>>

NoTurn == 0

TableEntry == [last_touch : Nat, added : Nat]

ASSUME NoEntryAssumption == NoEntry \notin TableEntry

\* What getNearest can return.
Nearest == {S \in SUBSET Address : Cardinality(S) <= k}

-----------------------------------------------------------------------------
(* The tick of node n *)

storeValueKeeping(entry) ==                                        \* mutant
    IF entry = NoEntry THEN [last_touch |-> epoch, added |-> epoch] ELSE entry
\* A value that is held already is only touched.
storeValue(entry) ==
    IF entry = NoEntry THEN [last_touch |-> epoch, added |-> epoch]
    ELSE [entry EXCEPT !.last_touch = epoch]

\* The table when all STOREs in the inqueue are handled, in whatever order.
Received(n) ==
    [v \in Value |-> IF v \in inbox[n] THEN storeValue(table[n][v]) ELSE table[n][v]]

MaintenanceDue(n) == epoch % maintenance_period = maintenance_offset[n]

SeenBeforeInbox(n) == table[n]                                     \* mutant
\* Maintenance runs after the messages of this tick.
Seen(n) == Received(n)

StaleLate(entry) == epoch > maintenance_period + entry.last_touch  \* mutant
Stale(entry) == epoch >= maintenance_period + entry.last_touch

\* What runTableMaintenance erases, and what it sends on.
Erased(n) ==
    {v \in Value : MaintenanceDue(n) /\ Seen(n)[v] # NoEntry /\ Stale(Seen(n)[v])}
Restored(n) ==
    {v \in Value \ Erased(n) : /\ MaintenanceDue(n)
                               /\ Seen(n)[v] # NoEntry
                               /\ Seen(n)[v].added <= Seen(n)[v].last_touch}

Later == {b \in inhabitants : b > turn}
Upcoming == {b \in Later : \A c \in Later : b <= c}

\* The values of the STOREs `sent' that are for node b.
For(b, sent) == {v \in Value : <<v, b>> \in sent}

\* KademliaNode::tick of the next inhabitant and the flush of its outqueue.
\* Maintenance sends each value it keeps to the nodes `nearest' lists for it,
\* and the callbacks of `store' that were called send the STOREs `stores'.
Tick(n, nearest, stores) ==
    LET sent == stores \cup UNION {{v} \X nearest[v] : v \in Restored(n)}
    IN  /\ epoch < MaxEpoch /\ n \in Upcoming
        /\ table' = [table EXCEPT ![n] =
              [v \in Value |-> IF v \in Erased(n) THEN NoEntry ELSE Received(n)[v]]]
        /\ inbox' = [b \in Address |-> (IF b = n THEN {} ELSE inbox[b]) \cup
                                       (IF b \in inhabitants THEN For(b, sent) ELSE {})]
        /\ IF \E b \in Later : b > n
           THEN turn' = n /\ UNCHANGED epoch
           ELSE turn' = NoTurn /\ epoch' = epoch + 1
        /\ stored' = stored \cup UNION {For(b, sent) : b \in inhabitants}
        /\ excused' = excused \cup {v \in Restored(n) : nearest[v] \cap inhabitants \subseteq {n}}
        /\ heirs' = [heirs EXCEPT ![n] = IF MaintenanceDue(n)
              THEN [v \in Value |-> IF v \in Restored(n) THEN nearest[v] \cap inhabitants ELSE {}]
              ELSE @]
        /\ UNCHANGED <<inhabitants, maintenance_offset>>

-----------------------------------------------------------------------------
Empty == [v \in Value |-> NoEntry]

StorageInit ==
    /\ epoch = 0 /\ inhabitants = Founders /\ turn = NoTurn
    /\ maintenance_offset \in
          {f \in [Address -> 0..(maintenance_period - 1)] : \A a \in Address \ Founders : f[a] = 0}
    /\ table = [a \in Address |-> Empty]
    /\ inbox = [a \in Address |-> {}]
    /\ stored = {} /\ excused = {}
    /\ heirs = [a \in Address |-> [v \in Value |-> {}]]

ReplacedKeepingOld(a, b) == inhabitants \cup ({b} \ {0})            \* mutant
\* remove() of the one and add() of the other.
Replaced(a, b) == (inhabitants \ {a}) \cup ({b} \ {0})

\* die(), remove() and add() between two ticks: the node at `a' takes its
\* table and inqueue with it, and the one that takes its place starts with
\* neither, at an offset of its own.  An address 0 is that of a node the
\* network did not take in; the tick add() calls finds nothing to do.
Replace(a, b, offset) ==
    LET fresh == {a, b} \cap Address
        lost == {v \in Value : a \in Address /\ (table[a][v] # NoEntry \/ v \in inbox[a])}
    IN  /\ turn = NoTurn
        /\ a \in (inhabitants \cup {0}) \ {Zero}
        /\ b \in (Address \cup {0}) \ (inhabitants \ {a})
        /\ inhabitants' = Replaced(a, b)
        /\ maintenance_offset' = [c \in Address |-> IF c = b THEN offset
                                                    ELSE IF c = a THEN 0
                                                    ELSE maintenance_offset[c]]
        /\ table' = [c \in Address |-> IF c \in fresh THEN Empty ELSE table[c]]
        /\ inbox' = [c \in Address |-> IF c \in fresh THEN {} ELSE inbox[c]]
        /\ excused' = excused \cup lost
        /\ heirs' = [c \in Address |-> [v \in Value |->
                        IF c \in fresh THEN {} ELSE heirs[c][v] \ {a}]]
        /\ UNCHANGED <<epoch, turn, stored>>

StorageNext ==
    \/ \E n \in Address, nearest \in [Value -> Nearest], stores \in SUBSET (Value \X Address) :
          Tick(n, nearest, stores)
    \/ \E a, b \in Address \cup {0}, offset \in 0..(maintenance_period - 1) : Replace(a, b, offset)

StorageSpec == StorageInit /\ [][StorageNext]_storage

-----------------------------------------------------------------------------
(* Properties *)

\* Every variable has its type, and no entry is from the future or was touched
\* before it was added, so that maintenance sends on all it does not erase.
StorageTypeOK ==
    /\ epoch \in Nat /\ turn \in inhabitants \cup {NoTurn}
    /\ inhabitants \subseteq Address /\ Zero \in inhabitants
    /\ maintenance_offset \in [Address -> 0..(maintenance_period - 1)]
    /\ table \in [Address -> [Value -> TableEntry \cup {NoEntry}]]
    /\ \A n \in inhabitants, v \in Value : table[n][v] # NoEntry =>
          table[n][v].added <= table[n][v].last_touch /\ table[n][v].last_touch <= epoch
    /\ inbox \in [Address -> SUBSET Value]
    /\ stored \subseteq Value /\ excused \subseteq Value
    /\ heirs \in [Address -> [Value -> SUBSET Address]]

\* kademlia.hpp: nodes do not "hold values that they shouldn't be holding onto
\* for too long".  A value nobody sends any more is gone within two periods.
NotHeldTooLong ==
    \A n \in inhabitants, v \in Value :
        table[n][v] # NoEntry => epoch < table[n][v].last_touch + 2 * maintenance_period

Alive(v) == \E n \in inhabitants : table[n][v] # NoEntry \/ v \in inbox[n]

\* A value that reached a node stays in the network, whatever the offsets and
\* addresses of its holders, although each of them drops it one period after
\* the last STORE: unless a node that held it left, or a holder had nobody but
\* itself to send it to.
Survives == \A v \in stored \ excused : Alive(v)

\* When a node drops a value, every node it had sent it to one period earlier,
\* if that is still there, holds it: it was touched after the node that drops
\* the value, or in the same epoch and then is visited later.
Handover ==
    [][\A n \in inhabitants, v \in Value :
          /\ table[n][v] # NoEntry /\ table'[n][v] = NoEntry
          /\ <<epoch, turn>>' # <<epoch, turn>>
          => \A h \in heirs[n][v] : table[h][v] # NoEntry]_storage
=============================================================================
