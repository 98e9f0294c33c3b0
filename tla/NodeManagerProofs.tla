------------------------- MODULE NodeManagerProofs -------------------------
(***************************************************************************)
(* Proofs about the node manager: whatever the calls, the processes and    *)
(* the cluster start do, and in whatever order, the map of the nodes stays *)
(* consistent with the processes.                                          *)
(***************************************************************************)
EXTENDS NodeManager, FiniteSetTheorems, SequenceTheorems, TLAPS

(***************************************************************************)
(* Facts about the operators.                                              *)
(***************************************************************************)
LEMMA Bounds ==
    /\ MaxNodes \in Nat \ {0} /\ BatchSize \in Nat \ {0} /\ MaxStarts \in Nat \ {0}
    /\ MaxCalls \in Nat \ {0}
<1> QED
  BY NodeManagerAssumption

LEMMA IDs == IsFiniteSet(ID) /\ Cardinality(ID) = MaxNodes /\ ID \subseteq Nat
<1>1. 0 \in Int /\ MaxNodes - 1 \in Int
  BY Bounds
<1>2. /\ IsFiniteSet(0 .. MaxNodes - 1)
      /\ Cardinality(0 .. MaxNodes - 1) = IF 0 > MaxNodes - 1 THEN 0 ELSE MaxNodes - 1 - 0 + 1
  BY <1>1, FS_Interval
<1> QED
  BY <1>2, Bounds DEF ID

\* len(m.nodes) is at most the number of IDs.
LEMMA CountType ==
    ASSUME NEW map
    PROVE  IsFiniteSet(Managed(map)) /\ NodeCount(map) \in Nat /\ NodeCount(map) <= MaxNodes
<1>1. Managed(map) \in SUBSET ID
  BY DEF Managed
<1> QED
  BY <1>1, IDs, FS_Subset, FS_CardinalityType DEF NodeCount

\* len(m.nodes) when an entry is added to the map or taken out of it.
LEMMA CountOfEdited ==
    ASSUME NEW map \in [ID -> Nat], NEW id \in ID, NEW h \in Nat, h # NoEntry
    PROVE  /\ Managed([map EXCEPT ![id] = h]) = Managed(map) \cup {id}
           /\ NodeCount([map EXCEPT ![id] = NoEntry]) < MaxNodes
           /\ NodeCount([map EXCEPT ![id] = h]) = NodeCount([map EXCEPT ![id] = NoEntry]) + 1
           /\ NodeCount(map) <= NodeCount([map EXCEPT ![id] = h])
           /\ map[id] # NoEntry => NodeCount([map EXCEPT ![id] = h]) = NodeCount(map)
           /\ map[id] = NoEntry => [map EXCEPT ![id] = NoEntry] = map
<1> DEFINE without == [map EXCEPT ![id] = NoEntry]
           with == [map EXCEPT ![id] = h]
<1>1. /\ Managed(without) = Managed(map) \ {id}
      /\ Managed(with) = Managed(map) \cup {id}
      /\ Managed(with) = Managed(without) \cup {id}
  BY DEF Managed, NoEntry
<1>2. id \in Managed(map) <=> map[id] # NoEntry
  BY DEF Managed
<1>3. /\ IsFiniteSet(Managed(without)) /\ NodeCount(without) \in Nat
      /\ IsFiniteSet(Managed(map)) /\ NodeCount(map) \in Nat
      /\ NodeCount(with) \in Nat /\ NodeCount(with) <= MaxNodes
  BY CountType
<1>4. NodeCount(with) = NodeCount(without) + 1
  <2>1. id \notin Managed(without)
    BY <1>1
  <2> QED
    BY <1>1, <1>3, <2>1, FS_AddElement DEF NodeCount
<1>5. NodeCount(with) = IF id \in Managed(map) THEN NodeCount(map) ELSE NodeCount(map) + 1
  BY <1>1, <1>3, FS_AddElement DEF NodeCount
<1>6. map[id] = NoEntry => without = map
  OBVIOUS
<1> HIDE DEF without, with
<1>7. /\ NodeCount(without) < MaxNodes
      /\ NodeCount(map) <= NodeCount(with)
      /\ map[id] # NoEntry => NodeCount(with) = NodeCount(map)
  BY <1>2, <1>3, <1>4, <1>5, Bounds
<1> QED
  BY <1>1, <1>4, <1>6, <1>7 DEF without, with

(***************************************************************************)
(* The entries and the map.                                                *)
(***************************************************************************)
Tables ==
    /\ entry \in Seq(Entry)
    /\ nodes \in [ID -> 0 .. Len(entry)]
    /\ totalNodes \in 0 .. MaxNodes

LEMMA Indices ==
    ASSUME Tables
    PROVE  /\ Len(entry) \in Nat /\ DOMAIN entry = 1 .. Len(entry)
           /\ \A h \in DOMAIN entry : h \in Nat /\ h # NoEntry /\ entry[h] \in Entry
           /\ \A id \in ID : nodes[id] \in Nat /\ nodes[id] <= Len(entry)
           /\ \A id \in Managed(nodes) : id \in ID /\ nodes[id] \in DOMAIN entry
           /\ \A id \in ID : nodes[id] # NoEntry => id \in Managed(nodes)
           /\ nodes \in [ID -> Nat]
<1>1. Len(entry) \in Nat /\ DOMAIN entry = 1 .. Len(entry) /\ entry \in [1 .. Len(entry) -> Entry]
  BY LenProperties DEF Tables
<1>2. \A h \in DOMAIN entry : h \in Nat /\ h # NoEntry /\ entry[h] \in Entry
  BY <1>1 DEF NoEntry
<1>3. \A id \in ID : nodes[id] \in 0 .. Len(entry)
  BY DEF Tables
<1>4. \A id \in ID : nodes[id] \in Nat /\ nodes[id] <= Len(entry)
  BY <1>1, <1>3
<1>5. \A id \in Managed(nodes) : id \in ID /\ nodes[id] \in DOMAIN entry
  BY <1>1, <1>4 DEF Managed, NoEntry
<1>6. nodes \in [ID -> Nat]
  BY <1>4 DEF Tables
<1> QED
  BY <1>1, <1>2, <1>4, <1>5, <1>6 DEF Managed

Consistent(e) ==
    /\ e.process = "none" <=> e.status = "starting"
    /\ e.process = "reaped" <=> e.status \in {"stopped", "error"}

\* What becomes of one entry, its ID, port and target kept, does not disturb the map.
LEMMA ChangeKeeps ==
    ASSUME Tables, MapInv, NEW h \in DOMAIN entry, NEW e \in Entry,
           entry' = [entry EXCEPT ![h] = e], nodes' = nodes, totalNodes' = totalNodes,
           e.id = entry[h].id, e.port = entry[h].port, e.target = entry[h].target,
           Consistent(e)
    PROVE  Tables' /\ MapInv' /\ Len(entry') = Len(entry)
<1>1. h \in 1 .. Len(entry) /\ DOMAIN entry = 1 .. Len(entry)
  BY Indices
<1>2. /\ entry' \in Seq(Entry) /\ Len(entry') = Len(entry)
      /\ \A k \in 1 .. Len(entry) : entry'[k] = IF k = h THEN e ELSE entry[k]
  BY <1>1, ExceptSeq DEF Tables
<1>3. DOMAIN entry' = DOMAIN entry
  BY <1>1, <1>2, LenProperties
<1>4. Tables'
  BY <1>2 DEF Tables
<1>5. \A k \in DOMAIN entry : /\ entry'[k].id = entry[k].id
                             /\ entry'[k].port = entry[k].port
                             /\ entry'[k].target = entry[k].target
  BY <1>1, <1>2
<1>6. StatusFollowsProcess'
  BY <1>1, <1>2, <1>3 DEF MapInv, StatusFollowsProcess, Consistent
<1>7. \A id \in Managed(nodes) : nodes[id] \in DOMAIN entry
  BY Indices
<1>8. Managed(nodes') = Managed(nodes) /\ NodeCount(nodes') = NodeCount(nodes)
  OBVIOUS
<1>9. MapIsById' /\ PortsAreCounted'
  BY <1>5, <1>7, <1>8 DEF MapInv, MapIsById, PortsAreCounted
<1>10. TotalIsOfCluster'
  <2> SUFFICES ASSUME NEW id \in Managed(nodes), entry[nodes[id]].target > 0,
                      totalNodes # entry[nodes[id]].target
               PROVE  \E k \in nodes[id] + 1 .. Len(entry) : entry'[k].target # entry[nodes[id]].target
    BY <1>2, <1>5, <1>7, <1>8 DEF TotalIsOfCluster
  <2>1. PICK k \in nodes[id] + 1 .. Len(entry) : entry[k].target # entry[nodes[id]].target
    BY DEF MapInv, TotalIsOfCluster
  <2>2. nodes[id] \in Nat /\ Len(entry) \in Nat
    BY Indices DEF Managed
  <2>3. k \in DOMAIN entry
    BY <1>1, <2>2
  <2> QED
    BY <1>5, <2>1, <2>3
<1>11. SharedPortIsRestarted'
  <2> SUFFICES ASSUME NEW i \in Managed(nodes), NEW j \in Managed(nodes), i # j,
                      entry[nodes[i]].port = entry[nodes[j]].port
               PROVE  \E k \in DOMAIN entry : entry'[k].id \in {i, j} /\ k \notin {nodes[i], nodes[j]}
    BY <1>3, <1>5, <1>7, <1>8 DEF SharedPortIsRestarted
  <2>1. PICK k \in DOMAIN entry : entry[k].id \in {i, j} /\ k \notin {nodes[i], nodes[j]}
    BY DEF MapInv, SharedPortIsRestarted
  <2> QED
    BY <1>5, <2>1
<1> QED
  BY <1>2, <1>4, <1>6, <1>9, <1>10, <1>11 DEF MapInv

\* startNodeWithTotal: a new entry takes its place in the map.
LEMMA StartKeeps ==
    ASSUME Tables, MapInv, NEW id \in ID, NEW target \in 0 .. MaxNodes,
           startNodeWithTotal(id, target)
    PROVE  /\ Tables' /\ MapInv' /\ Len(entry') = Len(entry) + 1
           /\ DOMAIN entry \subseteq DOMAIN entry'
<1> DEFINE e == [id |-> id, port |-> PortOf(id), target |-> target, status |-> "starting",
                 process |-> "none", cancelled |-> FALSE]
           last == Len(entry) + 1
           without == [nodes EXCEPT ![id] = NoEntry]
<1>0. /\ entry' = Append(entry, e) /\ nodes' = [nodes EXCEPT ![id] = last]
      /\ totalNodes' = NewTotal(id, target)
  BY DEF startNodeWithTotal
<1>n. /\ Len(entry) \in Nat /\ DOMAIN entry = 1 .. Len(entry)
      /\ last \in Nat /\ last # NoEntry /\ last \notin DOMAIN entry
  <2>1. Len(entry) \in Nat /\ DOMAIN entry = 1 .. Len(entry)
    BY Indices
  <2> QED
    BY <2>1 DEF NoEntry
<1>m. /\ nodes \in [ID -> Nat]
      /\ \A i \in Managed(nodes) : i \in ID /\ nodes[i] \in DOMAIN entry
      /\ \A i \in ID : nodes[i] # NoEntry => i \in Managed(nodes)
  BY Indices
<1>c. /\ Managed(nodes') = Managed(nodes) \cup {id}
      /\ NodeCount(without) \in Nat /\ NodeCount(without) < MaxNodes
      /\ NodeCount(nodes) \in Nat
      /\ NodeCount(nodes') \in Nat /\ NodeCount(nodes') <= MaxNodes
      /\ NodeCount(nodes') = NodeCount(without) + 1
      /\ NodeCount(nodes) <= NodeCount(nodes')
      /\ nodes[id] # NoEntry => NodeCount(nodes') = NodeCount(nodes)
      /\ nodes[id] = NoEntry => without = nodes
  <2>1. /\ NodeCount(without) \in Nat /\ NodeCount(nodes) \in Nat
        /\ NodeCount(nodes') \in Nat /\ NodeCount(nodes') <= MaxNodes
    BY CountType
  <2> HIDE DEF last
  <2>2. /\ Managed([nodes EXCEPT ![id] = last]) = Managed(nodes) \cup {id}
        /\ NodeCount(without) < MaxNodes
        /\ NodeCount([nodes EXCEPT ![id] = last]) = NodeCount(without) + 1
        /\ NodeCount(nodes) <= NodeCount([nodes EXCEPT ![id] = last])
        /\ nodes[id] # NoEntry => NodeCount([nodes EXCEPT ![id] = last]) = NodeCount(nodes)
        /\ nodes[id] = NoEntry => without = nodes
    BY <1>n, <1>m, CountOfEdited
  <2>3. nodes' = [nodes EXCEPT ![id] = last]
    BY <1>0
  <2> QED
    BY <2>1, <2>2, <2>3
<1> HIDE DEF without
\* The port is another node's number of entries, or the one that the node had.
<1>p. /\ PortOf(id) \in ID
      /\ \/ /\ nodes[id] # NoEntry /\ PortOf(id) = entry[nodes[id]].port
         \/ PortOf(id) = NodeCount(without)
  <2>1. CASE StatusOf(id) = "stopping"
    <3>1. nodes[id] # NoEntry /\ entry[nodes[id]] \in Entry
      BY <2>1, <1>m, Indices DEF StatusOf
    <3> QED
      BY <2>1, <3>1 DEF PortOf, Entry
  <2>2. CASE StatusOf(id) # "stopping"
    <3>1. PortOf(id) = NodeCount(without)
      BY <2>2 DEF PortOf, without
    <3> QED
      BY <1>c, <3>1, Bounds DEF ID
  <2> QED
    BY <2>1, <2>2
<1>e. /\ e \in Entry /\ e.id = id /\ e.port = PortOf(id) /\ e.target = target
      /\ Consistent(e)
  BY <1>p DEF Entry, Consistent
<1> HIDE DEF e
<1>1. /\ entry' \in Seq(Entry) /\ Len(entry') = last
      /\ \A k \in DOMAIN entry : entry'[k] = entry[k]
      /\ entry'[last] = e
  BY <1>0, <1>n, <1>e, AppendProperties DEF Tables
<1>2. DOMAIN entry' = DOMAIN entry \cup {last}
  <2>1. DOMAIN entry' = 1 .. last
    BY <1>1, LenProperties
  <2> QED
    BY <1>n, <2>1
<1>3. /\ nodes'[id] = last
      /\ \A i \in ID : i # id => nodes'[i] = nodes[i]
  BY <1>0, <1>m
<1>4. nodes' \in [ID -> 0 .. Len(entry')]
  <2>1. \A i \in ID : nodes[i] \in 0 .. last
    BY <1>n, Indices
  <2>2. last \in 0 .. last
    BY <1>n
  <2> HIDE DEF last
  <2> QED
    BY <1>0, <1>1, <1>m, <2>1, <2>2
<1>5. totalNodes' \in 0 .. MaxNodes
  <2>1. NodeCount([nodes EXCEPT ![id] = 1]) \in 0 .. MaxNodes
    BY CountType, Bounds
  <2> QED
    BY <1>0, <2>1 DEF NewTotal
<1>6. Tables'
  BY <1>1, <1>4, <1>5 DEF Tables
<1> HIDE DEF last
<1>7. StatusFollowsProcess'
  BY <1>1, <1>2, <1>e DEF MapInv, StatusFollowsProcess, Consistent
\* What the map holds for the other IDs.
<1>8. ASSUME NEW i \in Managed(nodes'), i # id
      PROVE  /\ i \in Managed(nodes) /\ i \in ID /\ nodes'[i] = nodes[i] /\ nodes[i] \in DOMAIN entry
             /\ entry'[nodes'[i]] = entry[nodes[i]]
  BY <1>1, <1>3, <1>8, <1>c, <1>m
<1>9. MapIsById'
  <2> SUFFICES ASSUME NEW i \in Managed(nodes') PROVE entry'[nodes'[i]].id = i
    BY DEF MapIsById
  <2>1. CASE i = id
    BY <2>1, <1>1, <1>3, <1>e
  <2>2. CASE i # id
    BY <2>2, <1>8 DEF MapInv, MapIsById
  <2> QED
    BY <2>1, <2>2
<1>10. TotalIsOfCluster'
  <2> SUFFICES ASSUME NEW i \in Managed(nodes'), entry'[nodes'[i]].target > 0,
                      totalNodes' # entry'[nodes'[i]].target
               PROVE  \E k \in nodes'[i] + 1 .. Len(entry') : entry'[k].target # entry'[nodes'[i]].target
    BY DEF TotalIsOfCluster
  <2>1. target > 0 => totalNodes' = target
    BY <1>0 DEF NewTotal
  <2>2. i # id
    BY <2>1, <1>1, <1>3, <1>e
  <2>3. entry[nodes[i]].target > 0 /\ nodes[i] \in Nat /\ nodes[i] + 1 <= last
    <3>1. nodes[i] \in DOMAIN entry
      BY <2>2, <1>8
    <3>2. nodes[i] \in Nat /\ nodes[i] + 1 <= last
      BY <3>1, <1>n DEF last
    <3> QED
      BY <2>2, <3>2, <1>8
  \* A new entry with another target is the later one; one with the same sets the total.
  <2>4. entry'[last].target # entry'[nodes'[i]].target
    BY <2>1, <2>2, <2>3, <1>1, <1>8, <1>e
  <2>5. last \in nodes'[i] + 1 .. Len(entry')
    BY <2>2, <2>3, <1>1, <1>8, <1>n
  <2> QED
    BY <2>4, <2>5
<1>11. PortsAreCounted'
  <2> SUFFICES ASSUME NEW i \in Managed(nodes') PROVE entry'[nodes'[i]].port < NodeCount(nodes')
    BY DEF PortsAreCounted
  <2>1. CASE i = id
    <3>1. entry'[nodes'[i]].port = PortOf(id)
      BY <2>1, <1>1, <1>3, <1>e
    <3>2. CASE nodes[id] # NoEntry /\ PortOf(id) = entry[nodes[id]].port
      BY <3>1, <3>2, <1>c, <1>m DEF MapInv, PortsAreCounted
    <3>3. CASE PortOf(id) = NodeCount(without)
      BY <3>1, <3>3, <1>c
    <3> QED
      BY <3>2, <3>3, <1>p
  <2>2. CASE i # id
    <3>1. entry[nodes[i]].port < NodeCount(nodes) /\ entry'[nodes'[i]].port = entry[nodes[i]].port
      BY <2>2, <1>8 DEF MapInv, PortsAreCounted
    <3>2. entry[nodes[i]].port \in Nat
      <4>1. entry[nodes[i]] \in Entry
        BY <2>2, <1>8, Indices
      <4> QED
        BY <4>1, IDs DEF Entry
    <3> QED
      BY <3>1, <3>2, <1>c
  <2> QED
    BY <2>1, <2>2
<1>12. SharedPortIsRestarted'
  \* The port of the new entry: of a node that had no entry it is beyond all others.
  <2>1. ASSUME NEW j \in Managed(nodes'), j # id, entry'[nodes'[j]].port = PortOf(id)
        PROVE  /\ nodes[id] \in DOMAIN entry' /\ entry'[nodes[id]].id = id
               /\ nodes[id] \notin {last, nodes'[j]}
    <3>1. nodes[id] # NoEntry
      <4> SUFFICES ASSUME nodes[id] = NoEntry PROVE FALSE
        OBVIOUS
      <4>1. PortOf(id) = NodeCount(nodes)
        BY <1>c, <1>p
      <4>2. entry[nodes[j]].port < NodeCount(nodes) /\ entry[nodes[j]].port = PortOf(id)
        BY <2>1, <1>8 DEF MapInv, PortsAreCounted
      <4> QED
        BY <4>1, <4>2, <1>c
    <3>2. nodes[id] \in DOMAIN entry /\ entry[nodes[id]].id = id
      BY <3>1, <1>m DEF MapInv, MapIsById
    <3>3. nodes'[j] = nodes[j] /\ entry[nodes[j]].id = j
      BY <2>1, <1>8 DEF MapInv, MapIsById
    <3> QED
      BY <2>1, <3>2, <3>3, <1>1, <1>2, <1>n
  <2> SUFFICES ASSUME NEW i \in Managed(nodes'), NEW j \in Managed(nodes'), i # j,
                      entry'[nodes'[i]].port = entry'[nodes'[j]].port
               PROVE  \E k \in DOMAIN entry' :
                         entry'[k].id \in {i, j} /\ k \notin {nodes'[i], nodes'[j]}
    BY DEF SharedPortIsRestarted
  <2>2. entry'[nodes'[id]].port = PortOf(id)
    BY <1>1, <1>3, <1>e
  <2>3. CASE i = id
    BY <2>1, <2>2, <2>3, <1>3
  <2>4. CASE j = id
    BY <2>1, <2>2, <2>4, <1>3
  <2>5. CASE i # id /\ j # id
    <3>1. PICK k \in DOMAIN entry : entry[k].id \in {i, j} /\ k \notin {nodes[i], nodes[j]}
      BY <2>5, <1>8 DEF MapInv, SharedPortIsRestarted
    <3> QED
      BY <2>5, <3>1, <1>1, <1>2, <1>8
  <2> QED
    BY <2>3, <2>4, <2>5
<1> QED
  BY <1>1, <1>2, <1>6, <1>7, <1>9, <1>10, <1>11, <1>12 DEF MapInv, last

\* ClearNodes: an empty map is consistent.
LEMMA ClearKeeps ==
    ASSUME Tables, MapInv, entry' = entry, nodes' = [id \in ID |-> NoEntry],
           totalNodes' \in 0 .. MaxNodes
    PROVE  Tables' /\ MapInv'
<1>1. Managed(nodes') = {}
  BY DEF Managed
<1>2. NoEntry \in 0 .. Len(entry)
  BY Indices DEF NoEntry
<1>3. Tables'
  BY <1>2 DEF Tables
<1>4. StatusFollowsProcess'
  BY DEF MapInv, StatusFollowsProcess
<1> QED
  BY <1>1, <1>3, <1>4
  DEF MapInv, MapIsById, TotalIsOfCluster, PortsAreCounted, SharedPortIsRestarted

(***************************************************************************)
(* The cluster start and the entries that are reserved for it.             *)
(***************************************************************************)
ClusterRecord ==
    [phase : {"free", "stop", "wait", "clear", "bootstrap", "await", "batch"},
     todo : SUBSET ID, next : 0 .. MaxNodes, count : 0 .. MaxNodes]

Room(c) == IF c.phase \in {"await", "batch"}
           THEN Cardinality(c.todo) + c.count - c.next ELSE c.count

LEMMA RecordFields ==
    ASSUME NEW c \in ClusterRecord
    PROVE  /\ c.todo \in SUBSET ID /\ c.next \in Nat /\ c.count \in Nat /\ c.count <= MaxNodes
           /\ IsFiniteSet(c.todo) /\ Cardinality(c.todo) \in Nat
           /\ c.next <= c.count => Room(c) \in Nat
<1>1. c.todo \in SUBSET ID /\ c.next \in 0 .. MaxNodes /\ c.count \in 0 .. MaxNodes
  BY DEF ClusterRecord
<1>2. c.next \in Nat /\ c.count \in Nat /\ c.count <= MaxNodes
  BY <1>1, Bounds
<1>3. IsFiniteSet(c.todo) /\ Cardinality(c.todo) \in Nat
  BY <1>1, IDs, FS_Subset, FS_CardinalityType
<1>4. c.next <= c.count => Room(c) \in Nat
  BY <1>2, <1>3 DEF Room
<1> QED
  BY <1>1, <1>2, <1>3, <1>4

\* A batch has at most the nodes that are still missing.
LEMMA BatchFits ==
    ASSUME NEW next \in Nat, cluster.count \in Nat, next <= cluster.count
    PROVE  /\ Batch(next) \in SUBSET ID /\ Cardinality(Batch(next)) \in Nat
           /\ next + Cardinality(Batch(next)) <= cluster.count
<1> DEFINE top == cluster.count - 1
<1>1. next \in Int /\ top \in Int /\ (IF next > top THEN 0 ELSE top - next + 1) = cluster.count - next
  OBVIOUS
<1>2. Batch(next) \in SUBSET (next .. top) /\ Batch(next) \in SUBSET ID
  <2>1. \A id \in Batch(next) : id \in ID /\ id \in Nat /\ next <= id /\ id < cluster.count
    BY IDs DEF Batch
  <2> QED
    BY <2>1
<1> HIDE DEF top
<1>3. IsFiniteSet(next .. top) /\ Cardinality(next .. top) = cluster.count - next
  BY <1>1, FS_Interval
<1>4. IsFiniteSet(Batch(next)) /\ Cardinality(Batch(next)) <= cluster.count - next
  BY <1>2, <1>3, FS_Subset
<1>5. Cardinality(Batch(next)) \in Nat
  BY <1>4, FS_CardinalityType
<1> QED
  BY <1>2, <1>4, <1>5

\* The parts of the invariant after a step make up the whole.
LEMMA Whole ==
    ASSUME Tables', MapInv', RoomIsReserved', cluster' \in ClusterRecord,
           clusterStatus' \in {"idle", "starting", "running"}, cancelling' \subseteq DOMAIN entry',
           stopList' \subseteq ID, restarts' \subseteq DOMAIN entry', calls' \in 0 .. MaxCalls
    PROVE  Invariant'
<1>1. Len(entry') \in Nat
  BY LenProperties DEF Tables
<1>2. Room(cluster') \in Nat /\ Len(entry') + Room(cluster') <= MaxStarts
  <2>1. cluster'.next <= cluster'.count
    BY DEF RoomIsReserved
  <2>2. Room(cluster') \in Nat
    BY <2>1, RecordFields
  <2>3. Len(entry') + Room(cluster') <= MaxStarts
    BY DEF RoomIsReserved, Reserved, Room
  <2> QED
    BY <2>2, <2>3
<1>3. Len(entry') <= MaxStarts
  <2>1. \A a, b, c \in Nat : a + b <= c => a <= c
    OBVIOUS
  <2> QED
    BY <1>1, <1>2, <2>1, Bounds
<1> QED
  BY <1>3 DEF Invariant, TypeOK, Tables, ClusterRecord

LEMMA Parts ==
    ASSUME Invariant
    PROVE  /\ Tables /\ MapInv /\ RoomIsReserved /\ cluster \in ClusterRecord
           /\ clusterStatus \in {"idle", "starting", "running"} /\ cancelling \subseteq DOMAIN entry
           /\ stopList \subseteq ID /\ restarts \subseteq DOMAIN entry /\ calls \in 0 .. MaxCalls
           /\ cluster.next \in Nat /\ cluster.count \in Nat /\ cluster.next <= cluster.count
           /\ cluster.count <= MaxNodes
<1>1. /\ Tables /\ MapInv /\ RoomIsReserved /\ cluster \in ClusterRecord
      /\ clusterStatus \in {"idle", "starting", "running"} /\ cancelling \subseteq DOMAIN entry
      /\ stopList \subseteq ID /\ restarts \subseteq DOMAIN entry /\ calls \in 0 .. MaxCalls
  BY DEF Invariant, TypeOK, Tables, ClusterRecord
<1> QED
  BY <1>1, RecordFields DEF RoomIsReserved

\* A step that creates no entry and is none of the cluster start.
LEMMA RoomKept ==
    ASSUME RoomIsReserved, cluster' = cluster, Len(entry') = Len(entry)
    PROVE  RoomIsReserved'
<1> QED
  BY DEF RoomIsReserved, Reserved

(***************************************************************************)
(* The steps.                                                              *)
(***************************************************************************)
\* The goroutine that watches a process, and the process itself.
LEMMA ProcessStep ==
    ASSUME Invariant, NEW h \in DOMAIN entry,
           LaunchProcess(h) \/ ProcessExits(h) \/ ReapProcess(h) \/ CancelContext(h)
    PROVE  Invariant'
<1>1. /\ entry[h] \in Entry /\ entry \in Seq(Entry) /\ DOMAIN entry = 1 .. Len(entry)
      /\ Consistent(entry[h])
  BY Parts, Indices DEF Tables, MapInv, StatusFollowsProcess, Consistent
<1>2. PICK e \in Entry :
         /\ entry' = [entry EXCEPT ![h] = e]
         /\ e.id = entry[h].id /\ e.port = entry[h].port /\ e.target = entry[h].target
         /\ Consistent(e)
  <2>1. CASE LaunchProcess(h)
    <3>1. CASE entry' = [entry EXCEPT ![h].process = "alive", ![h].status = "running"]
      <4> DEFINE e == [entry[h] EXCEPT !.process = "alive", !.status = "running"]
      <4>1. entry' = [entry EXCEPT ![h] = e]
        BY <1>1, <3>1
      <4>2. e \in Entry /\ Consistent(e) /\ e.id = entry[h].id /\ e.port = entry[h].port
            /\ e.target = entry[h].target
        BY <1>1 DEF Entry, Consistent
      <4> QED
        BY <4>1, <4>2
    <3>2. CASE entry' = [entry EXCEPT ![h].process = "reaped", ![h].status = "error",
                                      ![h].cancelled = TRUE]
      <4> DEFINE e == [entry[h] EXCEPT !.process = "reaped", !.status = "error", !.cancelled = TRUE]
      <4>1. entry' = [entry EXCEPT ![h] = e]
        BY <1>1, <3>2
      <4>2. e \in Entry /\ Consistent(e) /\ e.id = entry[h].id /\ e.port = entry[h].port
            /\ e.target = entry[h].target
        BY <1>1 DEF Entry, Consistent
      <4> QED
        BY <4>1, <4>2
    <3> QED
      BY <2>1, <3>1, <3>2 DEF LaunchProcess
  <2>2. CASE ProcessExits(h)
    <3>1. PICK outcome \in {"succeeded", "failed"} : entry' = [entry EXCEPT ![h].process = outcome]
      BY <2>2 DEF ProcessExits
    <3> DEFINE e == [entry[h] EXCEPT !.process = outcome]
    <3>2. entry' = [entry EXCEPT ![h] = e]
      BY <1>1, <3>1
    <3>3. entry[h].process = "alive"
      BY <2>2 DEF ProcessExits
    <3>4. e \in Entry /\ Consistent(e) /\ e.id = entry[h].id /\ e.port = entry[h].port
          /\ e.target = entry[h].target
      BY <1>1, <3>3 DEF Entry, Consistent
    <3> QED
      BY <3>2, <3>4
  <2>3. CASE ReapProcess(h)
    <3>1. PICK final \in {"error", "stopped"} :
             entry' = [entry EXCEPT ![h].process = "reaped", ![h].cancelled = TRUE, ![h].status = final]
      BY <2>3 DEF ReapProcess
    <3> DEFINE e == [entry[h] EXCEPT !.process = "reaped", !.cancelled = TRUE, !.status = final]
    <3>2. entry' = [entry EXCEPT ![h] = e]
      BY <1>1, <3>1
    <3>3. e \in Entry /\ Consistent(e) /\ e.id = entry[h].id /\ e.port = entry[h].port
          /\ e.target = entry[h].target
      BY <1>1 DEF Entry, Consistent
    <3> QED
      BY <3>2, <3>3
  <2>4. CASE CancelContext(h)
    <3> DEFINE e == [entry[h] EXCEPT !.cancelled = TRUE]
    <3>1. entry' = [entry EXCEPT ![h] = e]
      BY <1>1, <2>4 DEF CancelContext
    <3>2. e \in Entry /\ Consistent(e) /\ e.id = entry[h].id /\ e.port = entry[h].port
          /\ e.target = entry[h].target
      BY <1>1 DEF Entry, Consistent
    <3> QED
      BY <3>1, <3>2
  <2> QED
    BY <2>1, <2>2, <2>3, <2>4
<1>3. /\ UNCHANGED <<nodes, totalNodes, clusterStatus, cluster, stopList, restarts, calls>>
      /\ cancelling' \subseteq cancelling
  BY DEF LaunchProcess, ProcessExits, ReapProcess, CancelContext
<1>4. Tables' /\ MapInv' /\ Len(entry') = Len(entry)
  BY <1>2, <1>3, Parts, ChangeKeeps
<1>5. DOMAIN entry' = DOMAIN entry
  BY <1>2
<1>6. RoomIsReserved'
  BY <1>3, <1>4, Parts, RoomKept
<1> QED
  BY <1>3, <1>4, <1>5, <1>6, Parts, Whole

\* MarkStopping, wherever it is called.
LEMMA MarkKeeps ==
    ASSUME Invariant, NEW id \in ID, MarkStopping(id), nodes' = nodes, totalNodes' = totalNodes
    PROVE  /\ Tables' /\ MapInv' /\ Len(entry') = Len(entry) /\ DOMAIN entry' = DOMAIN entry
           /\ cancelling' \subseteq DOMAIN entry
           /\ StatusOf(id) = "running" => nodes[id] \in DOMAIN entry
<1>p. Tables /\ MapInv /\ cancelling \subseteq DOMAIN entry
  BY Parts
<1>1. CASE StatusOf(id) = "running"
  <2> DEFINE h == nodes[id]
  <2>1. h \in DOMAIN entry /\ entry[h].status = "running"
    BY <1>1, <1>p, Indices DEF StatusOf
  <2>2. entry[h] \in Entry /\ Consistent(entry[h])
    BY <1>p, <2>1, Indices DEF MapInv, StatusFollowsProcess, Consistent
  <2> DEFINE e == [entry[h] EXCEPT !.status = "stopping"]
  <2>3. e \in Entry /\ Consistent(e) /\ e.id = entry[h].id /\ e.port = entry[h].port
        /\ e.target = entry[h].target
    BY <2>1, <2>2 DEF Entry, Consistent
  <2>4. entry' = [entry EXCEPT ![h] = e] /\ cancelling' = cancelling \cup {h}
    BY <1>1 DEF MarkStopping
  <2> HIDE DEF e, h
  <2>5. Tables' /\ MapInv' /\ Len(entry') = Len(entry) /\ DOMAIN entry' = DOMAIN entry
    BY <1>p, <2>1, <2>3, <2>4, ChangeKeeps
  <2> QED
    BY <1>p, <2>1, <2>4, <2>5 DEF h
<1>2. CASE StatusOf(id) # "running"
  <2>1. entry' = entry /\ cancelling' = cancelling
    BY <1>2 DEF MarkStopping
  <2>2. Tables' /\ MapInv'
    BY <1>p, <2>1 DEF Tables, MapInv, StatusFollowsProcess, MapIsById, TotalIsOfCluster,
                      PortsAreCounted, SharedPortIsRestarted
  <2> QED
    BY <1>2, <1>p, <2>1, <2>2
<1> QED
  BY <1>1, <1>2

\* A step that touches neither the entries nor the map.
LEMMA MapKept ==
    ASSUME Tables, MapInv, entry' = entry, nodes' = nodes, totalNodes' = totalNodes
    PROVE  Tables' /\ MapInv'
<1> QED
  BY DEF Tables, MapInv, StatusFollowsProcess, MapIsById, TotalIsOfCluster, PortsAreCounted,
         SharedPortIsRestarted

\* A node that is started besides a cluster leaves the room that the cluster needs.
LEMMA RoomLeft ==
    ASSUME Invariant, MayStart, cluster' = cluster, Len(entry') = Len(entry) + 1
    PROVE  RoomIsReserved'
<1>1. Len(entry) \in Nat /\ Room(cluster) \in Nat
  BY Parts, Indices, RecordFields
<1>2. Reserved = Room(cluster) /\ Reserved' = Reserved
  BY DEF Reserved, Room
<1>3. Len(entry) + Room(cluster) < MaxStarts
  BY <1>2 DEF MayStart
<1>4. Len(entry') + Room(cluster) <= MaxStarts
  BY <1>1, <1>3, Bounds
<1> QED
  BY <1>2, <1>4, Parts DEF RoomIsReserved

LEMMA CallsKept ==
    ASSUME calls \in 0 .. MaxCalls, Called
    PROVE  calls' \in 0 .. MaxCalls
<1> QED
  BY Bounds DEF Called

\* The calls that start a node.
LEMMA StartStep ==
    ASSUME Invariant,
           \/ \E id \in ID : StartNode(id)
           \/ \E h \in DOMAIN entry : RestartStarts(h)
    PROVE  Invariant'
<1>p. /\ Tables /\ MapInv /\ RoomIsReserved /\ cluster \in ClusterRecord
      /\ clusterStatus \in {"idle", "starting", "running"} /\ cancelling \subseteq DOMAIN entry
      /\ stopList \subseteq ID /\ restarts \subseteq DOMAIN entry /\ calls \in 0 .. MaxCalls
  BY Parts
<1>1. /\ UNCHANGED <<clusterStatus, cluster, cancelling, stopList>>
      /\ restarts' \subseteq restarts /\ calls' \in 0 .. MaxCalls
  BY <1>p, CallsKept DEF StartNode, RestartStarts
<1>2. CASE \E id \in ID : MayStart /\ startNodeWithTotal(id, 0)
  <2>1. 0 \in 0 .. MaxNodes
    BY Bounds
  <2>2. /\ Tables' /\ MapInv' /\ Len(entry') = Len(entry) + 1
        /\ DOMAIN entry \subseteq DOMAIN entry'
    BY <1>2, <1>p, <2>1, StartKeeps
  <2>3. RoomIsReserved'
    BY <1>1, <1>2, <2>2, RoomLeft
  <2> QED
    BY <1>1, <1>p, <2>2, <2>3, Whole
<1>3. CASE entry' = entry /\ nodes' = nodes /\ totalNodes' = totalNodes
  <2>1. Tables' /\ MapInv'
    BY <1>3, <1>p, MapKept
  <2>2. RoomIsReserved'
    BY <1>1, <1>3, <1>p, RoomKept
  <2> QED
    BY <1>1, <1>3, <1>p, <2>1, <2>2, Whole
<1>4. \A h \in DOMAIN entry : entry[h].id \in ID
  BY <1>p, Indices DEF Entry
<1> QED
  BY <1>2, <1>3, <1>4 DEF StartNode, RestartStarts

\* The calls that stop nodes.
LEMMA StopStep ==
    ASSUME Invariant, NEW id \in ID, StopNode(id) \/ RestartStops(id) \/ StopNext(id)
    PROVE  Invariant'
<1>p. /\ Tables /\ MapInv /\ RoomIsReserved /\ cluster \in ClusterRecord
      /\ clusterStatus \in {"idle", "starting", "running"}
      /\ stopList \subseteq ID /\ restarts \subseteq DOMAIN entry /\ calls \in 0 .. MaxCalls
  BY Parts
<1>1. /\ MarkStopping(id) /\ UNCHANGED <<nodes, totalNodes, clusterStatus, cluster>>
      /\ stopList' \subseteq stopList /\ calls' \in 0 .. MaxCalls
      /\ restarts' = restarts \/ (StatusOf(id) = "running" /\ restarts' = {nodes[id]})
  BY <1>p, CallsKept DEF StopNode, RestartStops, StopNext
<1>2. /\ Tables' /\ MapInv' /\ Len(entry') = Len(entry) /\ DOMAIN entry' = DOMAIN entry
      /\ cancelling' \subseteq DOMAIN entry
      /\ StatusOf(id) = "running" => nodes[id] \in DOMAIN entry
  BY <1>1, MarkKeeps
<1>3. RoomIsReserved'
  BY <1>1, <1>2, <1>p, RoomKept
<1> QED
  BY <1>1, <1>2, <1>3, <1>p, Whole

\* The calls that begin to stop all nodes, or to start a cluster.
LEMMA ClusterCall ==
    ASSUME Invariant, StopCluster \/ \E count \in 1 .. MaxNodes : StartCluster(count)
    PROVE  Invariant'
<1>p. /\ Tables /\ MapInv /\ RoomIsReserved /\ cluster \in ClusterRecord
      /\ clusterStatus \in {"idle", "starting", "running"} /\ cancelling \subseteq DOMAIN entry
      /\ stopList \subseteq ID /\ restarts \subseteq DOMAIN entry /\ calls \in 0 .. MaxCalls
  BY Parts
<1>1. /\ UNCHANGED <<entry, nodes, totalNodes, clusterStatus, cancelling, restarts>>
      /\ calls' \in 0 .. MaxCalls
  BY <1>p, CallsKept DEF StopCluster, StartCluster
<1>2. Tables' /\ MapInv'
  BY <1>1, <1>p, MapKept
<1>3. stopList' \subseteq ID
  BY <1>p DEF StopCluster, StartCluster, Managed
<1>4. cluster' \in ClusterRecord /\ RoomIsReserved'
  <2>1. CASE StopCluster
    <3>1. cluster' = cluster
      BY <2>1 DEF StopCluster
    <3> QED
      BY <1>1, <1>p, <3>1, RoomKept
  <2>2. ASSUME NEW count \in 1 .. MaxNodes, StartCluster(count)
        PROVE  cluster' \in ClusterRecord /\ RoomIsReserved'
    <3>1. /\ cluster' = [phase |-> "stop", todo |-> Managed(nodes), next |-> 0, count |-> count]
          /\ Len(entry) + count <= MaxStarts
      BY <2>2 DEF StartCluster
    <3>2. Managed(nodes) \in SUBSET ID /\ count \in 0 .. MaxNodes /\ 0 \in 0 .. MaxNodes
          /\ count > 0 /\ 0 <= count
      BY Bounds DEF Managed
    <3>3. Reserved' = count
      BY <3>1 DEF Reserved
    <3> QED
      BY <1>1, <3>1, <3>2, <3>3 DEF ClusterRecord, RoomIsReserved
  <2> QED
    BY <2>1, <2>2
<1> QED
  BY <1>1, <1>2, <1>3, <1>4, <1>p, Whole

\* The cluster start moves on to a phase, with what it has to do in it.
LEMMA ClusterMoves ==
    ASSUME cluster \in ClusterRecord, Tables, Tables', RoomIsReserved, cluster.phase # "free",
           NEW phase \in {"stop", "wait", "clear", "bootstrap", "await", "batch"},
           NEW todo \in SUBSET ID, NEW next \in Nat, Cluster(phase, todo, next),
           next <= cluster.count, phase = "await" => todo = {} /\ next = 1,
           Len(entry') + (IF phase \in {"await", "batch"}
                          THEN Cardinality(todo) + cluster.count - next ELSE cluster.count) <= MaxStarts
    PROVE  cluster' \in ClusterRecord /\ RoomIsReserved'
<1>1. /\ cluster'.phase = phase /\ cluster'.todo = todo /\ cluster'.next = next
      /\ cluster'.count = cluster.count
  BY DEF Cluster, ClusterRecord
<1>2. next \in 0 .. MaxNodes
  BY RecordFields, Bounds
<1>3. cluster' \in ClusterRecord
  BY <1>2 DEF Cluster, ClusterRecord
<1>4. Reserved' = IF phase \in {"await", "batch"}
                  THEN Cardinality(todo) + cluster.count - next ELSE cluster.count
  BY <1>1 DEF Reserved
<1> QED
  BY <1>1, <1>3, <1>4 DEF RoomIsReserved

LEMMA ClusterEnds ==
    ASSUME Invariant, cluster' = NoCluster, Len(entry') = Len(entry)
    PROVE  cluster' \in ClusterRecord /\ RoomIsReserved'
<1>1. Len(entry) <= MaxStarts /\ Len(entry) \in Nat
  BY Parts, Indices DEF Invariant, TypeOK
<1>2. Reserved' = 0
  BY DEF Reserved, NoCluster
<1>3. 0 \in 0 .. MaxNodes
  BY Bounds
<1> QED
  BY <1>1, <1>2, <1>3 DEF RoomIsReserved, ClusterRecord, NoCluster

LEMMA ClusterStepKeeps ==
    ASSUME Invariant, ClusterStep
    PROVE  Invariant'
<1>p. /\ Tables /\ MapInv /\ RoomIsReserved /\ cluster \in ClusterRecord
      /\ clusterStatus \in {"idle", "starting", "running"} /\ cancelling \subseteq DOMAIN entry
      /\ stopList \subseteq ID /\ restarts \subseteq DOMAIN entry /\ calls \in 0 .. MaxCalls
  BY Parts
<1>n. /\ cluster.next \in Nat /\ cluster.count \in Nat /\ cluster.next <= cluster.count
      /\ cluster.count <= MaxNodes /\ Len(entry) \in Nat
      /\ cluster.todo \in SUBSET ID /\ IsFiniteSet(cluster.todo) /\ Cardinality(cluster.todo) \in Nat
  BY <1>p, Parts, RecordFields, Indices
<1>r. /\ cluster.phase \in {"await", "batch"} =>
            Len(entry) + (Cardinality(cluster.todo) + cluster.count - cluster.next) <= MaxStarts
      /\ cluster.phase \notin {"await", "batch"} => Len(entry) + cluster.count <= MaxStarts
      /\ cluster.phase # "free" => cluster.count > 0
      /\ cluster.phase = "await" => cluster.todo = {} /\ cluster.next = 1
  BY <1>p DEF RoomIsReserved, Reserved
<1>e. Cardinality({}) = 0 /\ {} \in SUBSET ID /\ 0 \in Nat /\ 0 <= cluster.count
  BY <1>n, FS_EmptySet
<1>u. UNCHANGED <<stopList, restarts, calls>> /\ clusterStatus' \in {"idle", "starting", "running"}
  BY <1>p DEF ClusterStep, ClusterStops, StartOfBatch, ClusterStopped, waitForAllStopped, ClearNodes,
              StartBootstrap, waitForNodeRunning, NextBatch, ClusterStarted
\* It is enough that the entries, the map and the record of the cluster start fit.
<1>w. ASSUME Tables', MapInv', DOMAIN entry \subseteq DOMAIN entry', cancelling' \subseteq DOMAIN entry',
             cluster' \in ClusterRecord, RoomIsReserved'
      PROVE  Invariant'
  BY <1>w, <1>p, <1>u, Whole
<1>1. ASSUME NEW id \in ID, ClusterStops(id) PROVE Invariant'
  <2>1. /\ MarkStopping(id) /\ nodes' = nodes /\ totalNodes' = totalNodes
        /\ cluster.phase = "stop" /\ Cluster("stop", cluster.todo \ {id}, 0)
    BY <1>1 DEF ClusterStops
  <2>2. /\ Tables' /\ MapInv' /\ Len(entry') = Len(entry) /\ DOMAIN entry' = DOMAIN entry
        /\ cancelling' \subseteq DOMAIN entry
    BY <2>1, MarkKeeps
  <2>3. cluster.todo \ {id} \in SUBSET ID
    BY <1>n
  <2>4. cluster' \in ClusterRecord /\ RoomIsReserved'
    BY <1>p, <1>r, <1>e, <2>1, <2>2, <2>3, ClusterMoves
  <2> QED
    BY <1>w, <2>2, <2>4
<1>2. CASE ClusterStopped \/ waitForAllStopped
  <2>1. PICK phase \in {"wait", "clear"} :
           /\ cluster.phase \in {"stop", "wait"} /\ Cluster(phase, {}, 0)
           /\ UNCHANGED <<entry, nodes, totalNodes, cancelling>>
    BY <1>2 DEF ClusterStopped, waitForAllStopped
  <2>2. Tables' /\ MapInv'
    BY <1>p, <2>1, MapKept
  <2>3. cluster' \in ClusterRecord /\ RoomIsReserved'
    BY <1>p, <1>r, <1>e, <2>1, <2>2, ClusterMoves
  <2> QED
    BY <1>w, <1>p, <2>1, <2>2, <2>3
<1>3. CASE ClearNodes
  <2>1. /\ cluster.phase = "clear" /\ nodes' = [id \in ID |-> NoEntry]
        /\ totalNodes' = cluster.count /\ Cluster("bootstrap", {}, 0)
        /\ entry' = entry /\ cancelling' = cancelling
    BY <1>3 DEF ClearNodes
  <2>2. totalNodes' \in 0 .. MaxNodes
    BY <1>n, <2>1, Bounds
  <2>3. Tables' /\ MapInv'
    BY <1>p, <2>1, <2>2, ClearKeeps
  <2>4. cluster' \in ClusterRecord /\ RoomIsReserved'
    BY <1>p, <1>r, <1>e, <2>1, <2>3, ClusterMoves
  <2> QED
    BY <1>w, <1>p, <2>1, <2>3, <2>4
<1>4. CASE StartBootstrap
  <2>1. cluster.phase = "bootstrap" /\ cancelling' = cancelling
    BY <1>4 DEF StartBootstrap
  <2>2. CASE startNodeWithTotal(bootstrapID, cluster.count) /\ Cluster("await", {}, 1)
    <3>1. bootstrapID \in ID /\ cluster.count \in 0 .. MaxNodes
      BY <1>n, Bounds DEF bootstrapID, ID
    <3>2. /\ Tables' /\ MapInv' /\ Len(entry') = Len(entry) + 1
          /\ DOMAIN entry \subseteq DOMAIN entry'
      BY <1>p, <2>2, <3>1, StartKeeps
    <3>3. 1 \in Nat /\ 1 <= cluster.count /\ Len(entry') + (0 + cluster.count - 1) <= MaxStarts
      BY <1>n, <1>r, <2>1, <3>2, Bounds
    <3>4. cluster' \in ClusterRecord /\ RoomIsReserved'
      BY <1>p, <1>e, <2>1, <2>2, <3>2, <3>3, ClusterMoves
    <3> QED
      BY <1>w, <1>p, <2>1, <3>2, <3>4
  <2>3. CASE cluster' = NoCluster /\ entry' = entry /\ nodes' = nodes /\ totalNodes' = totalNodes
    <3>1. Tables' /\ MapInv'
      BY <1>p, <2>3, MapKept
    <3>2. cluster' \in ClusterRecord /\ RoomIsReserved'
      BY <2>3, ClusterEnds
    <3> QED
      BY <1>w, <1>p, <2>1, <2>3, <3>1, <3>2
  <2> QED
    BY <1>4, <2>2, <2>3 DEF StartBootstrap
<1>5. CASE waitForNodeRunning \/ NextBatch
  <2>1. /\ cluster.phase \in {"await", "batch"} /\ cluster.todo = {}
        /\ Cluster("batch", Batch(cluster.next), cluster.next + Cardinality(Batch(cluster.next)))
        /\ UNCHANGED <<entry, nodes, totalNodes, cancelling>>
    BY <1>5, <1>r DEF waitForNodeRunning, NextBatch
  <2>2. Tables' /\ MapInv'
    BY <1>p, <2>1, MapKept
  <2> DEFINE batch == Batch(cluster.next)
             next == cluster.next + Cardinality(batch)
  <2>3. batch \in SUBSET ID /\ Cardinality(batch) \in Nat /\ next <= cluster.count
    BY <1>n, BatchFits
  <2>4. next \in Nat /\ Len(entry') + (Cardinality(batch) + cluster.count - next) <= MaxStarts
    <3>1. Len(entry) + (cluster.count - cluster.next) <= MaxStarts
      BY <1>n, <1>r, <1>e, <2>1
    <3> HIDE DEF batch
    <3>2. next \in Nat /\ Cardinality(batch) + cluster.count - next = cluster.count - cluster.next
      BY <1>n, <2>3
    <3> QED
      BY <2>1, <3>1, <3>2
  <2>5. Cluster("batch", batch, next)
    BY <2>1
  <2> HIDE DEF batch, next
  <2>6. cluster' \in ClusterRecord /\ RoomIsReserved'
    BY <1>p, <2>1, <2>2, <2>3, <2>4, <2>5, ClusterMoves
  <2> QED
    BY <1>w, <1>p, <2>1, <2>2, <2>6
<1>6. ASSUME NEW id \in ID, StartOfBatch(id) PROVE Invariant'
  <2>1. /\ cluster.phase = "batch" /\ id \in cluster.todo /\ cancelling' = cancelling
        /\ Cluster("batch", cluster.todo \ {id}, cluster.next)
    BY <1>6 DEF StartOfBatch
  <2> DEFINE todo == cluster.todo \ {id}
  <2>2. todo \in SUBSET ID /\ Cardinality(todo) = Cardinality(cluster.todo) - 1
    BY <1>n, <2>1, FS_RemoveElement
  <2>3. /\ Tables' /\ MapInv' /\ Len(entry') \in {Len(entry), Len(entry) + 1}
        /\ DOMAIN entry \subseteq DOMAIN entry'
    <3>1. cluster.count \in 0 .. MaxNodes
      BY <1>n, Bounds
    <3>2. CASE startNodeWithTotal(id, cluster.count)
      BY <1>p, <3>1, <3>2, StartKeeps
    <3>3. CASE entry' = entry /\ nodes' = nodes /\ totalNodes' = totalNodes
      BY <1>p, <3>3, MapKept
    <3> QED
      BY <1>6, <3>2, <3>3 DEF StartOfBatch
  <2>4. Cluster("batch", todo, cluster.next)
    BY <2>1
  <2> HIDE DEF todo
  <2>5. Len(entry') + (Cardinality(todo) + cluster.count - cluster.next) <= MaxStarts
    BY <1>n, <1>r, <2>1, <2>2, <2>3, Bounds
  <2>6. cluster' \in ClusterRecord /\ RoomIsReserved'
    BY <1>n, <1>p, <2>1, <2>2, <2>3, <2>4, <2>5, ClusterMoves
  <2> QED
    BY <1>w, <1>p, <2>1, <2>3, <2>6
<1>7. CASE ClusterStarted
  <2>1. cluster' = NoCluster /\ UNCHANGED <<entry, nodes, totalNodes, cancelling>>
    BY <1>7 DEF ClusterStarted
  <2>2. Tables' /\ MapInv'
    BY <1>p, <2>1, MapKept
  <2>3. cluster' \in ClusterRecord /\ RoomIsReserved'
    BY <2>1, ClusterEnds
  <2> QED
    BY <1>w, <1>p, <2>1, <2>2, <2>3
<1> QED
  BY <1>1, <1>2, <1>3, <1>4, <1>5, <1>6, <1>7 DEF ClusterStep

(***************************************************************************)
(* The invariant.                                                          *)
(***************************************************************************)
LEMMA InitInvariant == Init => Invariant
<1> SUFFICES ASSUME Init PROVE Invariant
  OBVIOUS
<1>1. /\ entry = <<>> /\ nodes = [id \in ID |-> NoEntry] /\ totalNodes = 0 /\ cluster = NoCluster
      /\ clusterStatus = "idle" /\ cancelling = {} /\ stopList = {} /\ restarts = {} /\ calls = 0
  BY DEF Init
<1>2. entry \in Seq(Entry) /\ Len(entry) = 0 /\ DOMAIN entry = {}
  <2>1. <<>> \in Seq(Entry) /\ Len(<<>>) = 0
    BY EmptySeq
  <2>2. DOMAIN <<>> = 1 .. 0
    BY <2>1, LenProperties
  <2> QED
    BY <1>1, <2>1, <2>2
<1>3. Managed(nodes) = {}
  BY <1>1 DEF Managed
<1>4. NoCluster \in ClusterRecord
  BY Bounds DEF NoCluster, ClusterRecord
<1>5. TypeOK
  BY <1>1, <1>2, <1>4, Bounds DEF TypeOK, NoEntry, ClusterRecord
<1>6. MapInv
  BY <1>2, <1>3 DEF MapInv, StatusFollowsProcess, MapIsById, TotalIsOfCluster, PortsAreCounted,
                    SharedPortIsRestarted
<1>7. RoomIsReserved
  BY <1>1, <1>2, Bounds DEF RoomIsReserved, Reserved, NoCluster
<1> QED
  BY <1>5, <1>6, <1>7 DEF Invariant

LEMMA NextInvariant == Invariant /\ [Next]_vars => Invariant'
<1> SUFFICES ASSUME Invariant, [Next]_vars PROVE Invariant'
  OBVIOUS
<1>1. CASE UNCHANGED vars
  <2>1. /\ UNCHANGED <<entry, nodes, totalNodes, clusterStatus, cluster, cancelling, stopList>>
        /\ UNCHANGED <<restarts, calls>>
    BY <1>1 DEF vars
  <2>2. Tables' /\ MapInv'
    BY <2>1, Parts, MapKept
  <2>3. RoomIsReserved'
    BY <2>1, Parts, RoomKept
  <2> QED
    BY <2>1, <2>2, <2>3, Parts, Whole
<1>2. CASE Next
  BY <1>2, StartStep, StopStep, ProcessStep, ClusterCall, ClusterStepKeeps DEF Next
<1> QED
  BY <1>1, <1>2

\* The map of the nodes, their statuses, ports and processes and the cluster start
\* that is under way stay consistent, however calls, goroutines and processes
\* interleave.
THEOREM InvariantHolds == Spec => []Invariant
<1> QED
  BY InitInvariant, NextInvariant, PTL DEF Spec

\* Every variable keeps its type: in particular a cluster start never creates more
\* entries than it announced, and no port is beyond the number of IDs.
THEOREM TypeCorrect == Spec => []TypeOK
<1>1. Invariant => TypeOK
  BY DEF Invariant
<1> QED
  BY <1>1, InvariantHolds, PTL

\* A node shown as stopped or failed has no process any more.
THEOREM StoppedNodesAreDead == Spec => []StoppedIsDead
<1>1. Invariant => StoppedIsDead
  BY DEF Invariant, MapInv, StatusFollowsProcess, StoppedIsDead
<1> QED
  BY <1>1, InvariantHolds, PTL

\* Two nodes of the map share a port only when one of them was started before.
THEOREM SharedPortsAreOfRestarts == Spec => []SharedPortIsRestarted
<1>1. Invariant => SharedPortIsRestarted
  BY DEF Invariant, MapInv
<1> QED
  BY <1>1, InvariantHolds, PTL

\* The map loses an entry whose process has not ended only when the node is stopping
\* or a cluster start has given up waiting: startNodeWithTotal refuses the others.
THEOREM ReplacedNodesAreStopping == Spec => OnlyStoppingIsReplaced
<1> DEFINE Lost(h) == nodes[entry[h].id] = h /\ nodes'[entry[h].id] # h /\ entry[h].process # "reaped"
<1>1. ASSUME Invariant, NEW id \in ID, NEW target, startNodeWithTotal(id, target),
             NEW h \in DOMAIN entry, Lost(h)
      PROVE  entry[h].status = "stopping"
  <2>1. entry[h] \in Entry /\ h # NoEntry /\ Consistent(entry[h])
    BY <1>1, Parts, Indices DEF MapInv, StatusFollowsProcess, Consistent
  <2>2. entry[h].id = id
    BY <1>1, <2>1, Parts DEF startNodeWithTotal, Tables, Entry
  <2>3. StatusOf(id) = entry[h].status
    BY <1>1, <2>1, <2>2 DEF StatusOf
  <2>4. entry[h].status \notin {"running", "starting"}
    BY <1>1, <2>3 DEF startNodeWithTotal, CanStart
  <2> QED
    BY <1>1, <2>1, <2>4 DEF Entry, Consistent
<1>2. ASSUME Invariant, Next, NEW h \in DOMAIN entry, Lost(h)
      PROVE  entry[h].status = "stopping" \/ cluster.phase = "clear"
  <2>1. nodes' # nodes
    BY <1>2
  <2>2. \/ \E id \in ID : \E target : startNodeWithTotal(id, target)
        \/ ClearNodes
    <3>1. \A k \in DOMAIN entry : entry[k].id \in ID
      BY <1>2, Parts, Indices DEF Entry
    <3>2. bootstrapID \in ID
      BY Bounds DEF bootstrapID, ID
    <3> QED
      BY <1>2, <2>1, <3>1, <3>2
      DEF Next, ClusterStep, StartNode, StopNode, RestartStops, StopNext, LaunchProcess, ProcessExits,
          ReapProcess, CancelContext, RestartStarts, StopCluster, StartCluster, ClusterStops,
          StartOfBatch, ClusterStopped, waitForAllStopped, StartBootstrap, waitForNodeRunning,
          NextBatch, ClusterStarted
  <2> QED
    BY <1>1, <1>2, <2>2 DEF ClearNodes
<1>3. Invariant /\ [Next]_vars =>
          [\A h \in DOMAIN entry : Lost(h) => (entry[h].status = "stopping" \/ cluster.phase = "clear")]_vars
  BY <1>2
<1> QED
  BY <1>3, InvariantHolds, PTL DEF Spec, OnlyStoppingIsReplaced

\* A process that a cluster start launches is told that cluster's node count, unless
\* something else was started, or the cluster given up, in between.
THEOREM ClusterSizeIsTold == Spec => ToldClusterSize
<1> DEFINE Told(h) == \/ totalNodes = entry[h].target
                      \/ nodes[entry[h].id] # h
                      \/ \E k \in h + 1 .. Len(entry) : entry[k].target # entry[h].target
           Launched(h) == entry[h].process = "none" /\ entry'[h].process = "alive" /\ entry[h].target > 0
<1>1. ASSUME Invariant, NEW h \in DOMAIN entry, entry[h].target > 0 PROVE Told(h)
  <2> SUFFICES ASSUME nodes[entry[h].id] = h PROVE Told(h)
    OBVIOUS
  <2>1. entry[h] \in Entry /\ h # NoEntry
    BY <1>1, Parts, Indices
  <2>2. entry[h].id \in Managed(nodes)
    BY <2>1 DEF Managed, Entry
  <2> QED
    BY <1>1, <2>2, Parts DEF MapInv, TotalIsOfCluster
<1>2. Invariant /\ [Next]_vars => [\A h \in DOMAIN entry : Launched(h) => Told(h)]_vars
  BY <1>1
<1> QED
  BY <1>2, InvariantHolds, PTL DEF Spec, ToldClusterSize

\* A step leaves a pending stop pending, or carries it out.
LEMMA StopStaysUnderWay ==
    ASSUME Invariant, StopIsUnderWay, [Next]_vars
    PROVE  StopIsUnderWay'
<1>t. /\ Tables /\ StatusFollowsProcess /\ DOMAIN entry = 1 .. Len(entry) /\ Len(entry) \in Nat
      /\ entry \in Seq(Entry) /\ entry \in [1 .. Len(entry) -> Entry]
  BY Parts, Indices, LenProperties DEF MapInv, Tables
<1>o. \A h \in DOMAIN entry : entry[h].status = "stopping" => entry[h].cancelled \/ h \in cancelling
  BY DEF StopIsUnderWay
\* It is enough to look at the entry that the step changes.
<1>c. ASSUME NEW h \in DOMAIN entry, NEW e, entry' = [entry EXCEPT ![h] = e],
             cancelling \ {h} \subseteq cancelling',
             e.status = "stopping" => e.cancelled \/ h \in cancelling'
      PROVE  StopIsUnderWay'
  <2>1. DOMAIN entry' = DOMAIN entry /\ \A k \in DOMAIN entry : entry'[k] = IF k = h THEN e ELSE entry[k]
    BY <1>t, <1>c
  <2> QED
    BY <1>c, <1>o, <2>1 DEF StopIsUnderWay
<1>s. ASSUME NEW id, NEW target, startNodeWithTotal(id, target), cancelling' = cancelling
      PROVE  StopIsUnderWay'
  <2> DEFINE e == [id |-> id, port |-> PortOf(id), target |-> target, status |-> "starting",
                   process |-> "none", cancelled |-> FALSE]
  <2>1. entry' = Append(entry, e) /\ e.status = "starting"
    BY <1>s DEF startNodeWithTotal
  <2> HIDE DEF e
  <2>2. /\ DOMAIN entry' = 1 .. Len(entry) + 1 /\ entry'[Len(entry) + 1] = e
        /\ \A k \in 1 .. Len(entry) : entry'[k] = entry[k]
    BY <1>t, <2>1
  <2>3. \A k \in DOMAIN entry' : k = Len(entry) + 1 \/ k \in DOMAIN entry
    BY <1>t, <2>2
  <2> QED
    BY <1>t, <1>s, <1>o, <2>1, <2>2, <2>3 DEF StopIsUnderWay
<1>k. ASSUME entry' = entry, cancelling' = cancelling PROVE StopIsUnderWay'
  BY <1>k DEF StopIsUnderWay
<1>m. ASSUME NEW id \in ID, MarkStopping(id) PROVE StopIsUnderWay'
  <2>1. CASE StatusOf(id) = "running"
    <3> DEFINE e == [entry[nodes[id]] EXCEPT !.status = "stopping"]
    <3>1. nodes[id] \in DOMAIN entry
      BY <1>t, <2>1, Indices DEF StatusOf
    <3>2. entry' = [entry EXCEPT ![nodes[id]] = e] /\ cancelling' = cancelling \cup {nodes[id]}
      BY <1>m, <2>1 DEF MarkStopping
    <3> HIDE DEF e
    <3> QED
      BY <1>c, <3>1, <3>2
  <2>2. CASE StatusOf(id) # "running"
    BY <1>k, <1>m, <2>2 DEF MarkStopping
  <2> QED
    BY <2>1, <2>2
<1>1. CASE UNCHANGED vars
  BY <1>1, <1>k DEF vars
<1>2. ASSUME NEW id \in ID, StartNode(id) PROVE StopIsUnderWay'
  BY <1>2, <1>s DEF StartNode
<1>3. ASSUME NEW id \in ID, StopNode(id) \/ RestartStops(id) \/ StopNext(id) PROVE StopIsUnderWay'
  BY <1>3, <1>m DEF StopNode, RestartStops, StopNext
<1>4. ASSUME NEW h \in DOMAIN entry, LaunchProcess(h) PROVE StopIsUnderWay'
  <2>1. CASE entry' = [entry EXCEPT ![h].process = "alive", ![h].status = "running"]
    <3> DEFINE e == [entry[h] EXCEPT !.process = "alive", !.status = "running"]
    <3>1. entry' = [entry EXCEPT ![h] = e] /\ e.status = "running"
      BY <1>t, <2>1 DEF Entry
    <3> HIDE DEF e
    <3> QED
      BY <1>4, <1>c, <3>1 DEF LaunchProcess
  <2>2. CASE entry' = [entry EXCEPT ![h].process = "reaped", ![h].status = "error", ![h].cancelled = TRUE]
    <3> DEFINE e == [entry[h] EXCEPT !.process = "reaped", !.status = "error", !.cancelled = TRUE]
    <3>1. entry' = [entry EXCEPT ![h] = e] /\ e.status = "error"
      BY <1>t, <2>2 DEF Entry
    <3> HIDE DEF e
    <3> QED
      BY <1>4, <1>c, <3>1 DEF LaunchProcess
  <2> QED
    BY <1>4, <2>1, <2>2 DEF LaunchProcess
<1>5. ASSUME NEW h \in DOMAIN entry, ProcessExits(h) PROVE StopIsUnderWay'
  <2>1. PICK outcome : entry' = [entry EXCEPT ![h].process = outcome]
    BY <1>5 DEF ProcessExits
  <2> DEFINE e == [entry[h] EXCEPT !.process = outcome]
  <2>2. entry' = [entry EXCEPT ![h] = e] /\ e.status = entry[h].status /\ e.cancelled = entry[h].cancelled
    BY <1>t, <2>1 DEF Entry
  <2> HIDE DEF e
  <2>3. cancelling' = cancelling
    BY <1>5 DEF ProcessExits
  <2>4. e.status = "stopping" => e.cancelled \/ h \in cancelling'
    BY Zenon, <1>o, <2>2, <2>3
  <2> QED
    BY <1>c, <2>2, <2>3, <2>4
<1>6. ASSUME NEW h \in DOMAIN entry, ReapProcess(h) PROVE StopIsUnderWay'
  <2>1. PICK final \in {"error", "stopped"} :
           entry' = [entry EXCEPT ![h].process = "reaped", ![h].cancelled = TRUE, ![h].status = final]
    BY <1>6 DEF ReapProcess
  <2> DEFINE e == [entry[h] EXCEPT !.process = "reaped", !.cancelled = TRUE, !.status = final]
  <2>2. entry' = [entry EXCEPT ![h] = e] /\ e.status = final
    BY <1>t, <2>1 DEF Entry
  <2> HIDE DEF e
  <2> QED
    BY <1>6, <1>c, <2>2 DEF ReapProcess
<1>7. ASSUME NEW h \in DOMAIN entry, CancelContext(h) PROVE StopIsUnderWay'
  <2> DEFINE e == [entry[h] EXCEPT !.cancelled = TRUE]
  <2>1. entry' = [entry EXCEPT ![h] = e] /\ e.cancelled
    BY <1>t, <1>7 DEF CancelContext, Entry
  <2> HIDE DEF e
  <2> QED
    BY <1>7, <1>c, <2>1 DEF CancelContext
<1>8. ASSUME NEW h \in DOMAIN entry, RestartStarts(h) PROVE StopIsUnderWay'
  BY <1>8, <1>s, <1>k DEF RestartStarts
<1>9. CASE StopCluster \/ \E count \in 1 .. MaxNodes : StartCluster(count)
  BY <1>9, <1>k DEF StopCluster, StartCluster
<1>10. CASE ClusterStep
  <2>1. ASSUME NEW id \in ID, ClusterStops(id) PROVE StopIsUnderWay'
    BY <2>1, <1>m DEF ClusterStops
  <2>2. ASSUME NEW id \in ID, StartOfBatch(id) PROVE StopIsUnderWay'
    BY <2>2, <1>s, <1>k DEF StartOfBatch
  <2>3. CASE StartBootstrap
    BY <2>3, <1>s, <1>k DEF StartBootstrap
  <2>4. CASE ClusterStopped \/ waitForAllStopped \/ ClearNodes \/ waitForNodeRunning \/ NextBatch
             \/ ClusterStarted
    BY <2>4, <1>k DEF ClusterStopped, waitForAllStopped, ClearNodes, waitForNodeRunning, NextBatch,
                      ClusterStarted
  <2> QED
    BY <1>10, <2>1, <2>2, <2>3, <2>4 DEF ClusterStep
<1> QED
  BY <1>1, <1>2, <1>3, <1>4, <1>5, <1>6, <1>7, <1>8, <1>9, <1>10 DEF Next

\* A stop is never lost: whatever happens between the two steps of StopNode, the
\* context of a node that is marked as stopping is cancelled or about to be.
THEOREM StopsAreNotLost == Spec => []StopIsUnderWay
<1>1. Init => StopIsUnderWay
  BY DEF Init, StopIsUnderWay
<1> QED
  BY <1>1, InvariantHolds, StopStaysUnderWay, PTL DEF Spec
=============================================================================
