--------------------------- MODULE StorageProofs ---------------------------
(***************************************************************************)
(* Proofs about Storage, for any number of nodes and values, any addresses *)
(* and offsets, and whatever the nodes know of each other.                 *)
(*                                                                         *)
(* A value survives because a node that drops it has sent it, one period   *)
(* earlier, to nodes that still have it.  The inductive invariant says so  *)
(* of every moment in between, in terms of the epochs in which a node had  *)
(* or will have its next tick and had its last maintenance.                *)
(***************************************************************************)
EXTENDS Storage, FiniteSetTheorems, Arithmetic

\* The epoch in which node a is visited next.
NextTick(a) == IF a > turn THEN epoch ELSE epoch + 1

\* A node at that place in the epochs had its last maintenance in epoch m.
LastMaintenance(n, m) ==
    /\ m < NextTick(n) /\ NextTick(n) <= m + maintenance_period
    /\ m % maintenance_period = maintenance_offset[n]

\* The epoch in which node h handles what node n sends it in epoch m.
Arrival(n, h, m) == IF h > n THEN m ELSE m + 1

\* Node h has the value, touched at `since' or later, or will when it is
\* visited next.
Holds(h, v, since) ==
    \/ table[h][v] # NoEntry /\ table[h][v].last_touch >= since
    \/ v \in inbox[h] /\ NextTick(h) = since

\* The nodes that got a value in a node's last maintenance still have it.
HeirsHold ==
    \A n \in inhabitants, v \in Value, m \in Nat :
        LastMaintenance(n, m) =>
            \A h \in heirs[n][v] : h \in inhabitants /\ Holds(h, v, Arrival(n, h, m))

\* A value that was not touched since then was sent to somebody else.
HandedOn ==
    \A n \in inhabitants, v \in Value, m \in Nat :
        /\ LastMaintenance(n, m)
        /\ table[n][v] # NoEntry /\ table[n][v].last_touch <= m
        => v \in excused \/ \E h \in heirs[n][v] : h # n

\* No maintenance was run, in the past of an entry, for which it was stale.
FreshAtMaintenance ==
    \A n \in inhabitants, v \in Value, m \in Nat :
        /\ m < NextTick(n) /\ m % maintenance_period = maintenance_offset[n]
        /\ table[n][v] # NoEntry
        => m < table[n][v].last_touch + maintenance_period

StorageInv ==
    StorageTypeOK /\ HeirsHold /\ HandedOn /\ FreshAtMaintenance /\ Survives

LEMMA StorageFacts ==
    /\ maintenance_period \in Nat \ {0} /\ Address \subseteq Nat \ {0}
    /\ Founders \subseteq Address /\ Zero \in Founders /\ NoTurn = 0
BY StorageAssumption DEF NoTurn

LEMMA EntryFacts ==
    /\ \A entry \in TableEntry : entry # NoEntry /\ entry.last_touch \in Nat /\ entry.added \in Nat
    /\ \A entry \in TableEntry \cup {NoEntry} :
          entry # NoEntry => entry \in TableEntry
BY NoEntryAssumption DEF TableEntry

-----------------------------------------------------------------------------
(* The tick of a node *)

\* storeValue adds an entry or touches the one there is.
LEMMA storeValueEffect ==
    ASSUME epoch \in Nat, NEW entry \in TableEntry \cup {NoEntry},
           entry # NoEntry => entry.added <= entry.last_touch /\ entry.last_touch <= epoch
    PROVE  /\ storeValue(entry) \in TableEntry /\ storeValue(entry) # NoEntry
           /\ storeValue(entry).last_touch = epoch
           /\ storeValue(entry).added <= epoch
<1>1. CASE entry = NoEntry
  BY <1>1, EntryFacts DEF storeValue, TableEntry
<1>2. CASE entry # NoEntry
  <2>1. entry \in TableEntry /\ entry.added \in Nat /\ entry.last_touch \in Nat
    BY <1>2, EntryFacts
  <2>2. storeValue(entry) = [entry EXCEPT !.last_touch = epoch]
    BY <1>2 DEF storeValue
  <2>3. /\ storeValue(entry) \in TableEntry
        /\ storeValue(entry).last_touch = epoch /\ storeValue(entry).added = entry.added
    BY <2>1, <2>2 DEF TableEntry
  <2> QED
    BY <1>2, <2>1, <2>3, EntryFacts
<1> QED
  BY <1>1, <1>2

\* Every inhabitant but the one that is visited keeps its place in time.
LEMMA TickTimes ==
    ASSUME StorageTypeOK, NEW n \in Address, NEW nearest \in [Value -> Nearest],
           NEW stores \in SUBSET (Value \X Address), Tick(n, nearest, stores)
    PROVE  /\ n \in inhabitants /\ epoch \in Nat /\ n \in Nat
           /\ NextTick(n) = epoch /\ NextTick(n)' = NextTick(n) + 1
           /\ \A h \in inhabitants :
                 /\ h # n => NextTick(h)' = NextTick(h)
                 /\ h > n => NextTick(h) = epoch
                 /\ h < n => NextTick(h) = epoch + 1
           /\ epoch' \in Nat /\ epoch <= epoch' /\ turn' \in inhabitants \cup {NoTurn}
           /\ UNCHANGED <<inhabitants, maintenance_offset>>
<1>1. /\ n \in inhabitants /\ n > turn /\ \A c \in inhabitants : c > turn => n <= c
      /\ \/ turn' = n /\ epoch' = epoch
         \/ turn' = NoTurn /\ epoch' = epoch + 1 /\ \A b \in inhabitants : b > turn => ~(b > n)
      /\ UNCHANGED <<inhabitants, maintenance_offset>>
  BY DEF Tick, Upcoming, Later
<1>2. /\ epoch \in Nat /\ turn \in Nat /\ n \in Nat
      /\ inhabitants \subseteq Nat \ {0}
  BY <1>1, StorageFacts DEF StorageTypeOK
<1>3. NextTick(n) = epoch /\ NextTick(n)' = NextTick(n) + 1
  BY <1>1, <1>2, StorageFacts DEF NextTick
<1>4. ASSUME NEW h \in inhabitants
      PROVE  /\ h # n => NextTick(h)' = NextTick(h)
             /\ h > n => NextTick(h) = epoch
             /\ h < n => NextTick(h) = epoch + 1
  <2>1. h \in Nat /\ h # 0 /\ (h > turn => n <= h)
    BY <1>1, <1>2
  <2>2. h > n => NextTick(h) = epoch
    BY <1>1, <1>2, <2>1 DEF NextTick
  <2>3. h < n => NextTick(h) = epoch + 1
    BY <1>1, <1>2, <2>1 DEF NextTick
  <2>4. h # n => NextTick(h)' = NextTick(h)
    <3>1. CASE turn' = n /\ epoch' = epoch
      BY <1>1, <1>2, <2>1, <3>1 DEF NextTick
    <3>2. CASE turn' = NoTurn /\ epoch' = epoch + 1 /\ \A b \in inhabitants : b > turn => ~(b > n)
      BY <1>1, <1>2, <2>1, <3>2, StorageFacts DEF NextTick
    <3> QED
      BY <1>1, <3>1, <3>2
  <2> QED
    BY <2>2, <2>3, <2>4
<1> QED
  BY <1>1, <1>2, <1>3, <1>4

\* What a tick does to the tables: that of the node visited is touched where a
\* STORE came, and erased where maintenance finds it stale.
LEMMA TickTables ==
    ASSUME StorageTypeOK, NEW n \in Address, NEW nearest \in [Value -> Nearest],
           NEW stores \in SUBSET (Value \X Address), Tick(n, nearest, stores)
    PROVE  /\ \A h \in Address \ {n} : table'[h] = table[h] /\ inbox[h] \subseteq inbox'[h]
           /\ \A v \in Value :
                 /\ v \in inbox[n] => /\ table'[n][v] # NoEntry
                                      /\ table'[n][v].last_touch = epoch
                 /\ v \notin inbox[n] /\ table'[n][v] # NoEntry =>
                       /\ table'[n][v] = table[n][v]
                       /\ MaintenanceDue(n) => epoch < table[n][v].last_touch + maintenance_period
                 /\ v \notin inbox[n] /\ table[n][v] # NoEntry /\ table'[n][v] = NoEntry =>
                       MaintenanceDue(n) /\ epoch >= maintenance_period + table[n][v].last_touch
                 /\ table'[n][v] \in TableEntry \cup {NoEntry}
                 /\ table'[n][v] # NoEntry => /\ table'[n][v].added <= table'[n][v].last_touch
                                              /\ table'[n][v].last_touch <= epoch
           /\ table' \in [Address -> [Value -> TableEntry \cup {NoEntry}]]
<1>1. /\ epoch \in Nat /\ n \in inhabitants
      /\ table \in [Address -> [Value -> TableEntry \cup {NoEntry}]]
      /\ \A v \in Value : table[n][v] # NoEntry =>
            table[n][v].added <= table[n][v].last_touch /\ table[n][v].last_touch <= epoch
  BY DEF StorageTypeOK, Tick, Upcoming, Later
<1>2. table' = [table EXCEPT ![n] =
                   [v \in Value |-> IF v \in Erased(n) THEN NoEntry ELSE Received(n)[v]]]
  BY DEF Tick
<1>3. \A h \in Address \ {n} : table'[h] = table[h] /\ inbox[h] \subseteq inbox'[h]
  BY <1>1, <1>2 DEF Tick
<1>4. \A v \in Value : table'[n][v] = IF v \in Erased(n) THEN NoEntry ELSE Received(n)[v]
  BY <1>1, <1>2
<1>5. ASSUME NEW v \in Value
      PROVE  /\ v \in inbox[n] => /\ table'[n][v] # NoEntry
                                  /\ table'[n][v].last_touch = epoch
             /\ v \notin inbox[n] /\ table'[n][v] # NoEntry =>
                   /\ table'[n][v] = table[n][v]
                   /\ MaintenanceDue(n) => epoch < table[n][v].last_touch + maintenance_period
             /\ v \notin inbox[n] /\ table[n][v] # NoEntry /\ table'[n][v] = NoEntry =>
                   MaintenanceDue(n) /\ epoch >= maintenance_period + table[n][v].last_touch
             /\ table'[n][v] \in TableEntry \cup {NoEntry}
             /\ table'[n][v] # NoEntry => /\ table'[n][v].added <= table'[n][v].last_touch
                                          /\ table'[n][v].last_touch <= epoch
  <2> DEFINE old == table[n][v]
             seen == Received(n)[v]
  <2>1. /\ old \in TableEntry \cup {NoEntry}
        /\ old # NoEntry => old.added <= old.last_touch /\ old.last_touch <= epoch
    BY <1>1
  <2>2. seen = IF v \in inbox[n] THEN storeValue(old) ELSE old
    BY DEF Received
  <2>3. table'[n][v] = IF v \in Erased(n) THEN NoEntry ELSE seen
    BY <1>4
  <2>4. v \in Erased(n) <=> MaintenanceDue(n) /\ seen # NoEntry
                            /\ epoch >= maintenance_period + seen.last_touch
    BY DEF Erased, Seen, Stale
  <2>5. CASE v \in inbox[n]
    <3>1. /\ seen \in TableEntry /\ seen # NoEntry /\ seen.last_touch = epoch
          /\ seen.added <= epoch
      BY <1>1, <2>1, <2>2, <2>5, storeValueEffect
    <3> HIDE DEF seen, old
    <3>2. v \notin Erased(n)
      BY <1>1, <2>4, <3>1, StorageFacts
    <3> QED
      BY <1>1, <2>3, <2>5, <3>1, <3>2
  <2>6. CASE v \notin inbox[n]
    <3>1. seen = old
      BY <2>2, <2>6
    <3>2. old # NoEntry => old.last_touch \in Nat
      BY <2>1, EntryFacts
    <3> HIDE DEF seen
    <3>3. table'[n][v] # NoEntry =>
             /\ table'[n][v] = old
             /\ MaintenanceDue(n) => epoch < old.last_touch + maintenance_period
      BY <1>1, <2>3, <2>4, <3>1, <3>2, StorageFacts
    <3>4. old # NoEntry /\ table'[n][v] = NoEntry =>
             MaintenanceDue(n) /\ epoch >= maintenance_period + old.last_touch
      BY <2>3, <2>4, <3>1
    <3> QED
      BY <2>1, <2>3, <2>6, <3>1, <3>3, <3>4
  <2> QED
    BY <2>5, <2>6
<1>6. table' \in [Address -> [Value -> TableEntry \cup {NoEntry}]]
  <2>1. table'[n] \in [Value -> TableEntry \cup {NoEntry}]
    BY <1>1, <1>2, <1>5
  <2> QED
    BY <1>1, <1>2, <2>1
<1> QED
  BY <1>3, <1>5, <1>6

\* What a tick sends: maintenance hands each value that it keeps to the nodes
\* nearest to it, and nothing that is stored gets lost.
LEMMA TickSends ==
    ASSUME StorageTypeOK, NEW n \in Address, NEW nearest \in [Value -> Nearest],
           NEW stores \in SUBSET (Value \X Address), Tick(n, nearest, stores)
    PROVE  /\ inbox' \in [Address -> SUBSET Value]
           /\ heirs' \in [Address -> [Value -> SUBSET Address]]
           /\ \A h \in Address \ {n} : heirs'[h] = heirs[h]
           /\ ~MaintenanceDue(n) => heirs'[n] = heirs[n]
           /\ MaintenanceDue(n) => \A v \in Value :
                 /\ heirs'[n][v] \subseteq inhabitants
                 /\ \A h \in heirs'[n][v] : v \in inbox'[h]
                 /\ table'[n][v] # NoEntry => v \in excused' \/ \E h \in heirs'[n][v] : h # n
           /\ excused \subseteq excused' /\ excused' \subseteq Value
           /\ stored' \subseteq Value
           /\ \A v \in stored' : v \in stored \/ \E h \in inhabitants : v \in inbox'[h]
<1> DEFINE sent == stores \cup UNION {{v} \X nearest[v] : v \in Restored(n)}
<1>1. /\ inhabitants \subseteq Address /\ inbox \in [Address -> SUBSET Value]
      /\ heirs \in [Address -> [Value -> SUBSET Address]]
      /\ stored \subseteq Value /\ excused \subseteq Value
  BY DEF StorageTypeOK
<1>2. Restored(n) \subseteq Value /\ \A v \in Value : nearest[v] \subseteq Address
  BY DEF Restored, Nearest
<1>3. \A v \in Restored(n) : \A h \in nearest[v] : <<v, h>> \in sent
  OBVIOUS
<1>4. /\ inbox' = [b \in Address |-> (IF b = n THEN {} ELSE inbox[b]) \cup
                                     (IF b \in inhabitants THEN For(b, sent) ELSE {})]
      /\ stored' = stored \cup UNION {For(b, sent) : b \in inhabitants}
      /\ excused' = excused \cup {v \in Restored(n) : nearest[v] \cap inhabitants \subseteq {n}}
      /\ heirs' = [heirs EXCEPT ![n] = IF MaintenanceDue(n)
            THEN [v \in Value |-> IF v \in Restored(n) THEN nearest[v] \cap inhabitants ELSE {}]
            ELSE heirs[n]]
  BY DEF Tick
<1> HIDE DEF sent
<1>5. \A b : For(b, sent) \subseteq Value /\ \A v \in Value : <<v, b>> \in sent <=> v \in For(b, sent)
  BY DEF For
<1>6. inbox' \in [Address -> SUBSET Value] /\ heirs' \in [Address -> [Value -> SUBSET Address]]
  BY <1>1, <1>2, <1>4, <1>5
<1>7. /\ \A h \in Address \ {n} : heirs'[h] = heirs[h]
      /\ ~MaintenanceDue(n) => heirs'[n] = heirs[n]
  BY <1>1, <1>4
<1>8. ASSUME MaintenanceDue(n), NEW v \in Value
      PROVE  /\ heirs'[n][v] \subseteq inhabitants
             /\ \A h \in heirs'[n][v] : v \in inbox'[h]
             /\ table'[n][v] # NoEntry => v \in excused' \/ \E h \in heirs'[n][v] : h # n
  <2>1. heirs'[n][v] = IF v \in Restored(n) THEN nearest[v] \cap inhabitants ELSE {}
    BY <1>1, <1>4, <1>8
  <2>2. \A h \in heirs'[n][v] : v \in inbox'[h]
    BY <1>1, <1>2, <1>3, <1>4, <1>5, <2>1
  <2>3. ASSUME table'[n][v] # NoEntry
        PROVE  v \in Restored(n)
    <3>1. table'[n][v] = IF v \in Erased(n) THEN NoEntry ELSE Received(n)[v]
      BY DEF Tick, StorageTypeOK
    <3>2. v \notin Erased(n) /\ table'[n][v] = Received(n)[v]
      BY <2>3, <3>1
    <3>3. table'[n][v].added <= table'[n][v].last_touch
      BY <2>3, TickTables
    <3> QED
      BY <1>8, <2>3, <3>2, <3>3 DEF Restored, Seen
  <2> QED
    BY <1>4, <2>1, <2>2, <2>3
<1>9. \A v \in stored' : v \in stored \/ \E h \in inhabitants : v \in inbox'[h]
  BY <1>1, <1>4, <1>5
<1>10. excused \subseteq excused' /\ excused' \subseteq Value /\ stored' \subseteq Value
  BY <1>1, <1>2, <1>4, <1>5
<1> QED
  BY <1>6, <1>7, <1>8, <1>9, <1>10

-----------------------------------------------------------------------------
(* The invariant *)

LEMMA InitStorage == StorageInit => StorageInv
<1> SUFFICES ASSUME StorageInit PROVE StorageInv
  OBVIOUS
<1>1. \A a \in Address, v \in Value : table[a][v] = NoEntry /\ heirs[a][v] = {}
  BY DEF StorageInit, Empty
<1>2. StorageTypeOK
  BY <1>1, StorageFacts DEF StorageInit, StorageTypeOK, Empty
<1>3. HeirsHold /\ HandedOn /\ FreshAtMaintenance
  BY <1>1, <1>2 DEF HeirsHold, HandedOn, FreshAtMaintenance, StorageTypeOK
<1>4. Survives
  BY DEF Survives, StorageInit
<1> QED
  BY <1>2, <1>3, <1>4 DEF StorageInv

LEMMA TickTypes ==
    ASSUME StorageInv, NEW n \in Address, NEW nearest \in [Value -> Nearest],
           NEW stores \in SUBSET (Value \X Address), Tick(n, nearest, stores)
    PROVE  StorageTypeOK'
<1>1. StorageTypeOK
  BY DEF StorageInv
<1>2. /\ epoch \in Nat /\ epoch' \in Nat /\ epoch <= epoch' /\ turn' \in inhabitants' \cup {NoTurn}
      /\ inhabitants' \subseteq Address /\ Zero \in inhabitants'
      /\ maintenance_offset' \in [Address -> 0..(maintenance_period - 1)]
      /\ inhabitants' = inhabitants
  BY <1>1, TickTimes DEF StorageTypeOK
<1>3. ASSUME NEW h \in inhabitants', NEW v \in Value, table'[h][v] # NoEntry
      PROVE  table'[h][v].added <= table'[h][v].last_touch /\ table'[h][v].last_touch <= epoch'
  <2>1. table'[h][v] \in TableEntry
    BY <1>1, <1>2, <1>3, TickTables, EntryFacts
  <2>2. table'[h][v].added <= table'[h][v].last_touch /\ table'[h][v].last_touch <= epoch
    <3>1. CASE h = n
      BY <1>1, <1>3, <3>1, TickTables
    <3>2. CASE h # n
      BY <1>1, <1>2, <1>3, <3>2, TickTables DEF StorageTypeOK
    <3> QED
      BY <3>1, <3>2
  <2> QED
    BY <1>2, <2>1, <2>2, EntryFacts
<1> QED
  BY <1>1, <1>2, <1>3, TickTables, TickSends DEF StorageTypeOK

\* A node that is visited keeps what others rely on it to have: it cannot find
\* a value stale that they sent it in their last maintenance.
LEMMA TickHolds ==
    ASSUME StorageInv, NEW n \in Address, NEW nearest \in [Value -> Nearest],
           NEW stores \in SUBSET (Value \X Address), Tick(n, nearest, stores),
           NEW c \in inhabitants, NEW h \in inhabitants, NEW v \in Value, NEW m \in Nat,
           Holds(h, v, Arrival(c, h, m)), m < NextTick(c),
           (NextTick(c) <= m + maintenance_period)'
    PROVE  Holds(h, v, Arrival(c, h, m))'
<1> DEFINE since == Arrival(c, h, m)
<1>1. /\ StorageTypeOK /\ c \in Nat /\ h \in Nat /\ since \in Nat
      /\ maintenance_period \in Nat \ {0} /\ h \in Address
  BY StorageFacts DEF StorageInv, StorageTypeOK, Arrival
<1>2. CASE h # n
  <2>1. table'[h] = table[h] /\ inbox[h] \subseteq inbox'[h] /\ NextTick(h)' = NextTick(h)
    BY <1>1, <1>2, TickTables, TickTimes
  <2> QED
    BY <2>1 DEF Holds, Arrival
<1>3. CASE h = n
  <2>1. /\ NextTick(n) = epoch /\ NextTick(n)' = epoch + 1 /\ epoch \in Nat
        /\ c # n => NextTick(c)' = NextTick(c)
        /\ c > n => NextTick(c) = epoch
        /\ c < n => NextTick(c) = epoch + 1
    BY <1>1, TickTimes
  <2>2. since = IF n > c THEN m ELSE m + 1
    BY <1>3 DEF Arrival
  <2>3. /\ since <= epoch
        /\ epoch < since + maintenance_period
    BY <1>1, <1>3, <2>1, <2>2
  <2>4. CASE v \in inbox[n]
    <3>1. table'[n][v] # NoEntry /\ table'[n][v].last_touch = epoch
      BY <1>1, <2>4, TickTables
    <3> QED
      BY <1>3, <2>3, <3>1 DEF Holds, Arrival
  <2>5. CASE v \notin inbox[n]
    <3>1. /\ table[n][v] # NoEntry /\ table[n][v].last_touch >= since
          /\ table[n][v].last_touch \in Nat
      BY <1>1, <1>3, <2>5, EntryFacts DEF Holds, StorageTypeOK
    <3>2. ~(epoch >= maintenance_period + table[n][v].last_touch)
      BY <1>1, <2>1, <2>3, <3>1
    <3>3. table'[n][v] = table[n][v]
      BY <1>1, <2>5, <3>1, <3>2, TickTables
    <3> QED
      BY <1>3, <3>1, <3>3 DEF Holds, Arrival
  <2> QED
    BY <2>4, <2>5
<1> QED
  BY <1>2, <1>3

\* Of the node that is visited, the last maintenance is this one or the same
\* as before; of the others it is the same.
LEMMA TickMaintenance ==
    ASSUME StorageTypeOK, NEW n \in Address, NEW nearest \in [Value -> Nearest],
           NEW stores \in SUBSET (Value \X Address), Tick(n, nearest, stores),
           NEW c \in inhabitants, NEW m \in Nat, LastMaintenance(c, m)'
    PROVE  IF c = n /\ MaintenanceDue(n) THEN m = epoch
                                         ELSE LastMaintenance(c, m)
<1>1. /\ NextTick(n) = epoch /\ NextTick(n)' = epoch + 1 /\ epoch \in Nat
      /\ c # n => NextTick(c)' = NextTick(c)
      /\ maintenance_offset' = maintenance_offset /\ maintenance_period \in Nat \ {0}
  BY TickTimes, StorageFacts
<1>2. /\ (m < NextTick(c))' /\ (NextTick(c) <= m + maintenance_period)'
      /\ m % maintenance_period = maintenance_offset[c]
  BY <1>1 DEF LastMaintenance
<1>3. CASE c # n
  BY <1>1, <1>2, <1>3 DEF LastMaintenance
<1>4. CASE c = n
  <2>1. m <= epoch /\ epoch < m + maintenance_period
    BY <1>1, <1>2, <1>4
  <2>2. CASE MaintenanceDue(n)
    <3>1. m % maintenance_period = epoch % maintenance_period
      BY <1>2, <1>4, <2>2 DEF MaintenanceDue
    <3>2. m = epoch
      BY <1>1, <2>1, <3>1, SamePhase
    <3> QED
      BY <1>4, <2>2, <3>2
  <2>3. CASE ~MaintenanceDue(n)
    <3>1. m # epoch
      BY <1>2, <1>4, <2>3 DEF MaintenanceDue
    <3>2. m < epoch /\ epoch <= m + maintenance_period
      BY <1>1, <2>1, <3>1
    <3> QED
      BY <1>1, <1>2, <1>4, <2>3, <3>2 DEF LastMaintenance
  <2> QED
    BY <2>2, <2>3
<1> QED
  BY <1>3, <1>4

LEMMA TickHeirsHold ==
    ASSUME StorageInv, NEW n \in Address, NEW nearest \in [Value -> Nearest],
           NEW stores \in SUBSET (Value \X Address), Tick(n, nearest, stores)
    PROVE  HeirsHold'
<1>1. /\ StorageTypeOK /\ inhabitants' = inhabitants /\ inhabitants \subseteq Address
      /\ NextTick(n) = epoch /\ NextTick(n)' = epoch + 1 /\ epoch \in Nat /\ n \in Nat
      /\ inhabitants \subseteq Nat
  BY TickTimes, StorageFacts DEF StorageInv, StorageTypeOK
<1> SUFFICES ASSUME NEW c \in inhabitants, NEW v \in Value, NEW m \in Nat,
                    LastMaintenance(c, m)', NEW h \in heirs'[c][v]
             PROVE  h \in inhabitants /\ Holds(h, v, Arrival(c, h, m))'
  BY <1>1 DEF HeirsHold
<1>2. CASE c = n /\ MaintenanceDue(n)
  <2>1. m = epoch
    BY <1>1, <1>2, TickMaintenance
  <2>2. h \in inhabitants /\ v \in inbox'[h]
    BY <1>1, <1>2, TickSends
  <2>3. /\ h # n => NextTick(h)' = NextTick(h)
        /\ h > n => NextTick(h) = epoch
        /\ h < n => NextTick(h) = epoch + 1
    BY <1>1, <2>2, TickTimes
  <2>4. NextTick(h)' = IF h > n THEN m ELSE m + 1
    BY <1>1, <2>1, <2>2, <2>3
  <2> QED
    BY <1>2, <2>2, <2>4 DEF Holds, Arrival
<1>3. CASE ~(c = n /\ MaintenanceDue(n))
  <2>1. LastMaintenance(c, m)
    BY <1>1, <1>3, TickMaintenance
  <2>2. heirs'[c] = heirs[c]
    BY <1>1, <1>3, TickSends
  <2>3. h \in inhabitants /\ Holds(h, v, Arrival(c, h, m))
    BY <2>1, <2>2 DEF StorageInv, HeirsHold
  <2>4. m < NextTick(c) /\ (NextTick(c) <= m + maintenance_period)'
    BY <2>1 DEF LastMaintenance
  <2> QED
    BY <2>3, <2>4, TickHolds
<1> QED
  BY <1>2, <1>3

LEMMA TickHandedOn ==
    ASSUME StorageInv, NEW n \in Address, NEW nearest \in [Value -> Nearest],
           NEW stores \in SUBSET (Value \X Address), Tick(n, nearest, stores)
    PROVE  HandedOn'
<1>1. /\ StorageTypeOK /\ inhabitants' = inhabitants /\ inhabitants \subseteq Address
      /\ NextTick(n) = epoch /\ epoch \in Nat /\ excused \subseteq excused'
  BY TickTimes, TickSends DEF StorageInv, StorageTypeOK
<1> SUFFICES ASSUME NEW c \in inhabitants, NEW v \in Value, NEW m \in Nat,
                    LastMaintenance(c, m)', table'[c][v] # NoEntry,
                    table'[c][v].last_touch <= m
             PROVE  v \in excused' \/ \E h \in heirs'[c][v] : h # c
  BY <1>1 DEF HandedOn
<1>2. CASE c = n /\ MaintenanceDue(n)
  BY <1>1, <1>2, TickSends
<1>3. CASE ~(c = n /\ MaintenanceDue(n))
  <2>1. LastMaintenance(c, m)
    BY <1>1, <1>3, TickMaintenance
  <2>2. heirs'[c] = heirs[c]
    BY <1>1, <1>3, TickSends
  <2>3. table'[c][v] = table[c][v]
    <3>1. CASE c # n
      BY <1>1, <3>1, TickTables
    <3>2. CASE c = n
      <4>1. m < epoch
        BY <1>1, <2>1, <3>2 DEF LastMaintenance
      <4>2. v \notin inbox[n]
        BY <1>1, <3>2, <4>1, TickTables
      <4> QED
        BY <1>1, <3>2, <4>2, TickTables
    <3> QED
      BY <3>1, <3>2
  <2> QED
    BY <1>1, <2>1, <2>2, <2>3 DEF StorageInv, HandedOn
<1> QED
  BY <1>2, <1>3

LEMMA TickFresh ==
    ASSUME StorageInv, NEW n \in Address, NEW nearest \in [Value -> Nearest],
           NEW stores \in SUBSET (Value \X Address), Tick(n, nearest, stores)
    PROVE  FreshAtMaintenance'
<1>1. /\ StorageTypeOK /\ inhabitants' = inhabitants /\ inhabitants \subseteq Address
      /\ maintenance_offset' = maintenance_offset /\ maintenance_period \in Nat \ {0}
      /\ NextTick(n) = epoch /\ NextTick(n)' = epoch + 1 /\ epoch \in Nat
  BY TickTimes, StorageFacts DEF StorageInv, StorageTypeOK
<1> SUFFICES ASSUME NEW c \in inhabitants, NEW v \in Value, NEW m \in Nat,
                    (m < NextTick(c))', m % maintenance_period = maintenance_offset[c],
                    table'[c][v] # NoEntry
             PROVE  m < table'[c][v].last_touch + maintenance_period
  BY <1>1 DEF FreshAtMaintenance
<1>2. CASE c # n
  <2>1. table'[c] = table[c] /\ NextTick(c)' = NextTick(c)
    BY <1>1, <1>2, TickTables, TickTimes
  <2> QED
    BY <2>1 DEF StorageInv, FreshAtMaintenance
<1>3. CASE c = n
  <2>1. m <= epoch
    BY <1>1, <1>3
  <2>2. CASE v \in inbox[n]
    BY <1>1, <1>3, <2>1, <2>2, TickTables
  <2>3. CASE v \notin inbox[n]
    <3>1. /\ table'[n][v] = table[n][v]
          /\ MaintenanceDue(n) => epoch < table[n][v].last_touch + maintenance_period
      BY <1>1, <1>3, <2>3, TickTables
    <3>2. CASE m = epoch
      BY <1>3, <3>1, <3>2 DEF MaintenanceDue
    <3>3. CASE m < epoch
      BY <1>1, <1>3, <3>1, <3>3 DEF StorageInv, FreshAtMaintenance
    <3> QED
      BY <1>1, <2>1, <3>2, <3>3
  <2> QED
    BY <2>2, <2>3
<1> QED
  BY <1>2, <1>3

\* What a node drops, it sent on one period ago: all that got it then have it
\* in their tables by now.
LEMMA DroppedLate ==
    ASSUME StorageInv, NEW n \in Address, NEW nearest \in [Value -> Nearest],
           NEW stores \in SUBSET (Value \X Address), Tick(n, nearest, stores),
           NEW v \in Value, table[n][v] # NoEntry, table'[n][v] = NoEntry
    PROVE  /\ \A h \in heirs[n][v] : h \in inhabitants /\ table[h][v] # NoEntry
           /\ v \in excused \/ \E h \in heirs[n][v] : h # n
<1>1. /\ StorageTypeOK /\ n \in inhabitants /\ n \in Nat /\ inhabitants \subseteq Nat
      /\ NextTick(n) = epoch /\ epoch \in Nat /\ maintenance_period \in Nat \ {0}
      /\ maintenance_offset[n] \in Nat
  BY TickTimes, StorageFacts DEF StorageInv, StorageTypeOK
<1>2. /\ v \notin inbox[n] /\ MaintenanceDue(n)
      /\ epoch >= maintenance_period + table[n][v].last_touch
      /\ table[n][v].last_touch \in Nat
  BY <1>1, TickTables, EntryFacts DEF StorageTypeOK
<1> DEFINE m == epoch - maintenance_period
<1>3. /\ m \in Nat /\ m + maintenance_period = epoch /\ m < epoch
      /\ table[n][v].last_touch <= m
  BY <1>1, <1>2
<1>4. LastMaintenance(n, m)
  <2>1. m % maintenance_period = epoch % maintenance_period
    BY <1>1, <1>2, PeriodEarlier
  <2> QED
    BY <1>1, <1>2, <1>3, <2>1 DEF LastMaintenance, MaintenanceDue
<1> HIDE DEF m
<1>5. ASSUME NEW h \in heirs[n][v]
      PROVE  h \in inhabitants /\ table[h][v] # NoEntry
  <2>1. h \in inhabitants /\ Holds(h, v, Arrival(n, h, m))
    BY <1>1, <1>3, <1>4 DEF StorageInv, HeirsHold
  <2>2. /\ h > n => NextTick(h) = epoch
        /\ h < n => NextTick(h) = epoch + 1
    BY <1>1, <2>1, TickTimes
  <2>3. h # n => NextTick(h) # Arrival(n, h, m)
    BY <1>1, <1>3, <2>1, <2>2 DEF Arrival
  <2> QED
    BY <1>2, <2>1, <2>3 DEF Holds
<1> QED
  BY <1>1, <1>3, <1>4, <1>5 DEF StorageInv, HandedOn

LEMMA TickSurvives ==
    ASSUME StorageInv, NEW n \in Address, NEW nearest \in [Value -> Nearest],
           NEW stores \in SUBSET (Value \X Address), Tick(n, nearest, stores)
    PROVE  Survives'
<1>1. /\ StorageTypeOK /\ inhabitants' = inhabitants /\ inhabitants \subseteq Address
      /\ excused \subseteq excused'
  BY TickTimes, TickSends DEF StorageInv, StorageTypeOK
<1> SUFFICES ASSUME NEW v \in stored', v \notin excused'
             PROVE  Alive(v)'
  BY DEF Survives
<1>2. CASE \E h \in inhabitants : v \in inbox'[h]
  BY <1>1, <1>2 DEF Alive
<1>3. CASE v \in stored
  <2>1. v \in Value /\ v \notin excused /\ Alive(v)
    BY <1>1, <1>3 DEF StorageInv, Survives, StorageTypeOK
  <2>2. PICK h \in inhabitants : table[h][v] # NoEntry \/ v \in inbox[h]
    BY <2>1 DEF Alive
  <2>3. \A c \in inhabitants \ {n} : table'[c] = table[c] /\ inbox[c] \subseteq inbox'[c]
    BY <1>1, TickTables
  <2>4. CASE h # n
    BY <1>1, <2>2, <2>3, <2>4 DEF Alive
  <2>5. CASE h = n /\ table'[n][v] # NoEntry
    BY <1>1, <2>2, <2>5 DEF Alive
  <2>6. CASE h = n /\ table'[n][v] = NoEntry
    <3>1. v \notin inbox[n] /\ table[n][v] # NoEntry
      BY <1>1, <2>1, <2>2, <2>6, TickTables
    <3>2. PICK c \in heirs[n][v] : c # n /\ c \in inhabitants /\ table[c][v] # NoEntry
      BY <2>1, <2>6, <3>1, DroppedLate
    <3> QED
      BY <1>1, <2>3, <3>2 DEF Alive
  <2> QED
    BY <2>4, <2>5, <2>6
<1> QED
  BY <1>1, <1>2, <1>3, TickSends

LEMMA StorageTickInv ==
    ASSUME StorageInv, NEW n \in Address, NEW nearest \in [Value -> Nearest],
           NEW stores \in SUBSET (Value \X Address), Tick(n, nearest, stores)
    PROVE  StorageInv'
BY TickTypes, TickHeirsHold, TickHandedOn, TickFresh, TickSurvives DEF StorageInv

\* A node that is replaced takes its values with it, and nothing else changes
\* for the others.
LEMMA ReplaceEffect ==
    ASSUME StorageTypeOK, NEW a \in Address \cup {0}, NEW b \in Address \cup {0},
           NEW offset \in 0..(maintenance_period - 1), Replace(a, b, offset)
    PROVE  /\ turn = NoTurn /\ \A c \in Address : NextTick(c) = epoch /\ NextTick(c)' = epoch
           /\ UNCHANGED <<epoch, turn, stored>>
           /\ inhabitants' \subseteq Address /\ inhabitants' \subseteq (inhabitants \ {a}) \cup {b}
           /\ inhabitants \ {a} \subseteq inhabitants' /\ Zero \in inhabitants'
           /\ excused \subseteq excused' /\ excused' \subseteq Value
           /\ \A c \in inhabitants \ {a} :
                 /\ c # b /\ table'[c] = table[c] /\ inbox'[c] = inbox[c]
                 /\ maintenance_offset'[c] = maintenance_offset[c]
                 /\ \A v \in Value : heirs'[c][v] = heirs[c][v] \ {a}
           /\ b # 0 => \A v \in Value : table'[b][v] = NoEntry /\ heirs'[b][v] = {}
           /\ a \in inhabitants => \A v \in Value :
                 table[a][v] # NoEntry \/ v \in inbox[a] => v \in excused'
<1>1. /\ turn = NoTurn /\ a \in (inhabitants \cup {0}) \ {Zero}
      /\ b \in (Address \cup {0}) \ (inhabitants \ {a})
      /\ inhabitants' = (inhabitants \ {a}) \cup ({b} \ {0})
      /\ UNCHANGED <<epoch, turn, stored>>
  BY DEF Replace, Replaced
<1>2. /\ inhabitants \subseteq Address /\ Zero \in inhabitants /\ Address \subseteq Nat \ {0}
      /\ epoch \in Nat /\ excused \subseteq Value
  BY StorageFacts DEF StorageTypeOK
<1>3. \A c \in Address : NextTick(c) = epoch /\ NextTick(c)' = epoch
  BY <1>1, <1>2, StorageFacts DEF NextTick
<1>4. /\ excused \subseteq excused' /\ excused' \subseteq Value
      /\ a \in inhabitants => \A v \in Value :
            table[a][v] # NoEntry \/ v \in inbox[a] => v \in excused'
  BY <1>2 DEF Replace
<1>5. ASSUME NEW c \in inhabitants \ {a}
      PROVE  /\ c # b /\ table'[c] = table[c] /\ inbox'[c] = inbox[c]
             /\ maintenance_offset'[c] = maintenance_offset[c]
             /\ \A v \in Value : heirs'[c][v] = heirs[c][v] \ {a}
  <2>1. c \in Address /\ c # a /\ c # b
    BY <1>1, <1>2
  <2> QED
    BY <2>1 DEF Replace
<1>6. ASSUME b # 0
      PROVE  \A v \in Value : table'[b][v] = NoEntry /\ heirs'[b][v] = {}
  <2>1. b \in Address
    BY <1>6
  <2> QED
    BY <2>1 DEF Replace, Empty
<1> QED
  BY <1>1, <1>2, <1>3, <1>4, <1>5, <1>6

LEMMA ReplaceTypes ==
    ASSUME StorageTypeOK, NEW a \in Address \cup {0}, NEW b \in Address \cup {0},
           NEW offset \in 0..(maintenance_period - 1), Replace(a, b, offset)
    PROVE  StorageTypeOK'
<1>1. table' \in [Address -> [Value -> TableEntry \cup {NoEntry}]]
  BY DEF Replace, Empty, StorageTypeOK
<1>2. /\ maintenance_offset' \in [Address -> 0..(maintenance_period - 1)]
      /\ inbox' \in [Address -> SUBSET Value]
      /\ heirs' \in [Address -> [Value -> SUBSET Address]]
  BY StorageFacts DEF Replace, StorageTypeOK
<1>3. ASSUME NEW c \in inhabitants', NEW v \in Value, table'[c][v] # NoEntry
      PROVE  table'[c][v].added <= table'[c][v].last_touch /\ table'[c][v].last_touch <= epoch
  <2>1. c \in inhabitants \ {a}
    <3>1. c \in inhabitants' => c # 0
      BY ReplaceEffect, StorageFacts
    <3> QED
      BY <1>3, <3>1, ReplaceEffect
  <2>2. table'[c] = table[c]
    BY <2>1, ReplaceEffect
  <2> QED
    BY <1>3, <2>1, <2>2 DEF StorageTypeOK
<1>4. /\ UNCHANGED <<epoch, turn, stored>> /\ turn = NoTurn
      /\ inhabitants' \subseteq Address /\ Zero \in inhabitants' /\ excused' \subseteq Value
  BY ReplaceEffect
<1> QED
  BY <1>1, <1>2, <1>3, <1>4 DEF StorageTypeOK

LEMMA StorageReplaceInv ==
    ASSUME StorageInv, NEW a \in Address \cup {0}, NEW b \in Address \cup {0},
           NEW offset \in 0..(maintenance_period - 1), Replace(a, b, offset)
    PROVE  StorageInv'
<1>1. StorageTypeOK /\ StorageTypeOK' /\ inhabitants \subseteq Address
  BY ReplaceTypes DEF StorageInv, StorageTypeOK
<1>2. /\ \A c \in Address : NextTick(c) = epoch /\ NextTick(c)' = epoch
      /\ UNCHANGED <<epoch, turn, stored>>
      /\ inhabitants' \subseteq Address /\ inhabitants' \subseteq (inhabitants \ {a}) \cup {b}
      /\ inhabitants \ {a} \subseteq inhabitants'
      /\ excused \subseteq excused'
      /\ \A c \in inhabitants \ {a} :
            /\ c # b /\ table'[c] = table[c] /\ inbox'[c] = inbox[c]
            /\ maintenance_offset'[c] = maintenance_offset[c]
            /\ \A v \in Value : heirs'[c][v] = heirs[c][v] \ {a}
      /\ b # 0 => \A v \in Value : table'[b][v] = NoEntry /\ heirs'[b][v] = {}
      /\ a \in inhabitants => \A v \in Value :
            table[a][v] # NoEntry \/ v \in inbox[a] => v \in excused'
      /\ \A c \in inhabitants' : c # 0
  BY <1>1, ReplaceEffect, StorageFacts
<1>3. ASSUME NEW c \in inhabitants', NEW v \in Value,
             heirs'[c][v] # {} \/ table'[c][v] # NoEntry
      PROVE  c \in inhabitants \ {a}
  BY <1>2, <1>3
<1>4. ASSUME NEW c \in inhabitants \ {a}, NEW m \in Nat, LastMaintenance(c, m)'
      PROVE  LastMaintenance(c, m)
  BY <1>1, <1>2, <1>4 DEF LastMaintenance
<1>5. HeirsHold'
  <2> SUFFICES ASSUME NEW c \in inhabitants', NEW v \in Value, NEW m \in Nat,
                      LastMaintenance(c, m)', NEW h \in heirs'[c][v]
               PROVE  h \in inhabitants' /\ Holds(h, v, Arrival(c, h, m))'
    BY DEF HeirsHold
  <2>1. c \in inhabitants \ {a} /\ LastMaintenance(c, m)
    BY <1>3, <1>4
  <2>2. h \in heirs[c][v] /\ h # a
    BY <1>2, <2>1
  <2>3. h \in inhabitants /\ Holds(h, v, Arrival(c, h, m))
    BY <2>1, <2>2 DEF StorageInv, HeirsHold
  <2>4. table'[h] = table[h] /\ inbox'[h] = inbox[h] /\ NextTick(h)' = NextTick(h)
    BY <1>1, <1>2, <2>2, <2>3
  <2> QED
    BY <1>2, <2>2, <2>3, <2>4 DEF Holds, Arrival
<1>6. HandedOn'
  <2> SUFFICES ASSUME NEW c \in inhabitants', NEW v \in Value, NEW m \in Nat,
                      LastMaintenance(c, m)', table'[c][v] # NoEntry,
                      table'[c][v].last_touch <= m
               PROVE  v \in excused' \/ \E h \in heirs'[c][v] : h # c
    BY DEF HandedOn
  <2>1. c \in inhabitants \ {a} /\ LastMaintenance(c, m) /\ table'[c] = table[c]
    BY <1>2, <1>3, <1>4
  <2>2. CASE v \in excused
    BY <1>2, <2>2
  <2>3. CASE \E h \in heirs[c][v] : h # c
    <3>1. PICK h \in heirs[c][v] : h # c
      BY <2>3
    <3>2. CASE h # a
      BY <1>2, <2>1, <3>1, <3>2
    <3>3. CASE h = a
      <4>1. h \in inhabitants /\ Holds(h, v, Arrival(c, h, m))
        BY <2>1, <3>1 DEF StorageInv, HeirsHold
      <4> QED
        BY <1>2, <3>3, <4>1 DEF Holds
    <3> QED
      BY <3>2, <3>3
  <2> QED
    BY <2>1, <2>2, <2>3 DEF StorageInv, HandedOn
<1>7. FreshAtMaintenance'
  <2> SUFFICES ASSUME NEW c \in inhabitants', NEW v \in Value, NEW m \in Nat,
                      (m < NextTick(c))', m % maintenance_period = maintenance_offset'[c],
                      table'[c][v] # NoEntry
               PROVE  m < table'[c][v].last_touch + maintenance_period
    BY DEF FreshAtMaintenance
  <2>1. /\ c \in inhabitants \ {a} /\ table'[c] = table[c]
        /\ maintenance_offset'[c] = maintenance_offset[c] /\ NextTick(c)' = NextTick(c)
    BY <1>1, <1>2, <1>3
  <2> QED
    BY <2>1 DEF StorageInv, FreshAtMaintenance
<1>8. Survives'
  <2> SUFFICES ASSUME NEW v \in stored, v \notin excused'
               PROVE  Alive(v)'
    BY <1>2 DEF Survives
  <2>1. Alive(v) /\ v \in Value
    BY <1>1, <1>2 DEF StorageInv, Survives, StorageTypeOK
  <2>2. PICK h \in inhabitants : table[h][v] # NoEntry \/ v \in inbox[h]
    BY <2>1 DEF Alive
  <2>3. h # a
    BY <1>2, <2>1, <2>2
  <2> QED
    BY <1>2, <2>2, <2>3 DEF Alive
<1> QED
  BY <1>1, <1>5, <1>6, <1>7, <1>8 DEF StorageInv

LEMMA StorageNextInv == StorageInv /\ [StorageNext]_storage => StorageInv'
<1> SUFFICES ASSUME StorageInv, [StorageNext]_storage PROVE StorageInv'
  OBVIOUS
<1>1. CASE UNCHANGED storage
  <2>1. StorageTypeOK' /\ Survives'
    BY <1>1 DEF storage, StorageInv, StorageTypeOK, Survives, Alive
  <2>2. HeirsHold'
    BY <1>1 DEF storage, StorageInv, HeirsHold, LastMaintenance, NextTick, Holds, Arrival
  <2>3. HandedOn'
    BY <1>1 DEF storage, StorageInv, HandedOn, LastMaintenance, NextTick
  <2>4. FreshAtMaintenance'
    BY <1>1 DEF storage, StorageInv, FreshAtMaintenance, NextTick
  <2> QED
    BY <2>1, <2>2, <2>3, <2>4 DEF StorageInv
<1> QED
  BY <1>1, StorageTickInv, StorageReplaceInv DEF StorageNext

LEMMA StorageInvHolds == StorageSpec => []StorageInv
  BY InitStorage, StorageNextInv, PTL DEF StorageSpec

-----------------------------------------------------------------------------
(* What follows from the invariant *)

\* Every variable has its type, and no entry is newer than now.
THEOREM StorageTypes == StorageSpec => []StorageTypeOK
<1>1. StorageInv => StorageTypeOK
  BY DEF StorageInv
<1> QED
  BY <1>1, StorageInvHolds, PTL

\* A value that reached a node stays in the network, wherever in their periods
\* its holders are and in whatever order they are visited.
THEOREM ValuesSurvive == StorageSpec => []Survives
<1>1. StorageInv => Survives
  BY DEF StorageInv
<1> QED
  BY <1>1, StorageInvHolds, PTL

\* Of the epochs of a period one has a maintenance of the node: an entry that
\* was not touched for two periods has been stale in one.
LEMMA HeldShortly == StorageInv => NotHeldTooLong
<1> SUFFICES ASSUME StorageInv, NEW n \in inhabitants, NEW v \in Value, table[n][v] # NoEntry
             PROVE  epoch < table[n][v].last_touch + 2 * maintenance_period
  BY DEF NotHeldTooLong
<1>1. /\ n \in Address /\ epoch \in Nat /\ maintenance_period \in Nat \ {0}
      /\ maintenance_offset[n] \in 0..(maintenance_period - 1)
      /\ table[n][v].last_touch \in Nat /\ NextTick(n) \in Nat /\ epoch <= NextTick(n)
  BY StorageFacts, EntryFacts DEF StorageInv, StorageTypeOK, NextTick
<1> DEFINE first == NextTick(n) - maintenance_period
<1>2. CASE NextTick(n) < maintenance_period
  BY <1>1, <1>2
<1>3. CASE NextTick(n) >= maintenance_period
  <2>1. first \in Nat /\ first + maintenance_period = NextTick(n)
    BY <1>1, <1>3
  <2> HIDE DEF first
  <2>2. PICK m \in Nat : /\ first <= m /\ m < first + maintenance_period
                         /\ m % maintenance_period = maintenance_offset[n]
    BY <1>1, <2>1, PhaseComes
  <2>3. m < table[n][v].last_touch + maintenance_period
    BY <2>1, <2>2 DEF StorageInv, FreshAtMaintenance
  <2> QED
    BY <1>1, <2>1, <2>2, <2>3
<1> QED
  BY <1>1, <1>2, <1>3

\* Whatever the offset of a node, it holds no value for two periods without
\* hearing of it again.
THEOREM ValuesExpire == StorageSpec => []NotHeldTooLong
  BY HeldShortly, StorageInvHolds, PTL

\* A node that drops a value drops it when all it handed it to have it.
LEMMA HandoverStep ==
    ASSUME StorageInv, [StorageNext]_storage
    PROVE  [\A n \in inhabitants, v \in Value :
              /\ table[n][v] # NoEntry /\ table'[n][v] = NoEntry
              /\ <<epoch, turn>>' # <<epoch, turn>>
              => \A h \in heirs[n][v] : table[h][v] # NoEntry]_storage
<1>1. CASE UNCHANGED storage
  BY <1>1
<1>2. ASSUME NEW a \in Address \cup {0}, NEW b \in Address \cup {0},
             NEW offset \in 0..(maintenance_period - 1), Replace(a, b, offset)
      PROVE  <<epoch, turn>>' = <<epoch, turn>>
  BY <1>2 DEF Replace
<1>3. ASSUME NEW n \in Address, NEW nearest \in [Value -> Nearest],
             NEW stores \in SUBSET (Value \X Address), Tick(n, nearest, stores),
             NEW c \in inhabitants, NEW v \in Value,
             table[c][v] # NoEntry, table'[c][v] = NoEntry
      PROVE  \A h \in heirs[c][v] : table[h][v] # NoEntry
  <2>1. StorageTypeOK /\ c \in Address
    BY DEF StorageInv, StorageTypeOK
  <2>2. c = n
    BY <1>3, <2>1, TickTables
  <2> QED
    BY <1>3, <2>2, DroppedLate
<1> QED
  BY <1>1, <1>2, <1>3 DEF StorageNext

THEOREM ValuesAreHandedOver == StorageSpec => Handover
  BY HandoverStep, StorageInvHolds, PTL DEF StorageSpec, Handover
=============================================================================
