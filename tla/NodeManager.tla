---------------------------- MODULE NodeManager ----------------------------
(***************************************************************************)
(* The supervisor's node manager (pkg/supervisor/manager.go) and the calls *)
(* of the supervisor's API that drive it (pkg/supervisor/server.go).       *)
(*                                                                         *)
(* The map m.nodes has one entry per node ID, but an entry that is removed *)
(* or replaced lives on in the goroutine that watches its process.  So the *)
(* entries are numbered: entry[h] is the h-th ManagedNode ever created and *)
(* nodes[id] the one that the map holds.  A port is its offset to basePort.*)
(*                                                                         *)
(* m.mu makes every operation on the map atomic; between operations, and   *)
(* in the goroutines, everything interleaves.  RemoveNode and SetTotalNodes*)
(* have no caller.  Output, events to the dashboards and the primary flag  *)
(* decide nothing here and are left out.                                   *)
(***************************************************************************)
EXTENDS Naturals, FiniteSets, Sequences

CONSTANTS
    MaxNodes,    \* the node IDs are "node0" .. "node<MaxNodes-1>"
    BatchSize,   \* nodes that a cluster start creates at a time
    Fragile,     \* the nodes whose process may not start, or may end by itself
    MaxStarts,   \* bound: entries ever created
    MaxCalls     \* bound: calls of the API

ASSUME NodeManagerAssumption ==
    /\ {MaxNodes, BatchSize, MaxStarts, MaxCalls} \subseteq Nat \ {0}
    /\ Fragile \subseteq Nat

ID == 0 .. MaxNodes - 1
NoEntry == 0
bootstrapID == 0

VARIABLES
    entry,         \* the entries ever created
    nodes,         \* [id]: the index of its entry, or NoEntry
    totalNodes,    \* m.totalNodes
    clusterStatus, \* m.clusterStatus
    cluster,       \* the cluster start that holds clusterMu: its phase, the IDs still to
                   \* handle in this phase, the first ID of the next batch, its node count
    cancelling,    \* entries that StopNode has marked but whose context is not yet cancelled
    stopList,      \* IDs that a handleStopCluster call has still to stop
    restarts,      \* entries whose handleRestartNode sleeps between stop and start
    calls          \* the calls so far, for the bound

vars == <<entry, nodes, totalNodes, clusterStatus, cluster, cancelling, stopList, restarts,
          calls>>

Entry == [id : ID, port : ID,
          target : 0 .. MaxNodes,    \* the node count of its cluster, 0 for a single start
          status : {"starting", "running", "stopping", "stopped", "error"},
          process : {"none", "alive", "succeeded", "failed", "reaped"},
          cancelled : BOOLEAN]       \* its context is cancelled

TypeOK ==
    /\ entry \in Seq(Entry) /\ Len(entry) <= MaxStarts
    /\ nodes \in [ID -> 0 .. Len(entry)]
    /\ totalNodes \in 0 .. MaxNodes
    /\ clusterStatus \in {"idle", "starting", "running"}
    /\ cluster \in [phase : {"free", "stop", "wait", "clear", "bootstrap", "await", "batch"},
                    todo : SUBSET ID, next : 0 .. MaxNodes, count : 0 .. MaxNodes]
    /\ cancelling \subseteq DOMAIN entry
    /\ stopList \subseteq ID
    /\ restarts \subseteq DOMAIN entry
    /\ calls \in 0 .. MaxCalls

NoCluster == [phase |-> "free", todo |-> {}, next |-> 0, count |-> 0]

Init ==
    /\ entry = <<>>
    /\ nodes = [id \in ID |-> NoEntry]
    /\ totalNodes = 0
    /\ clusterStatus = "idle"
    /\ cluster = NoCluster
    /\ cancelling = {}
    /\ stopList = {}
    /\ restarts = {}
    /\ calls = 0

Managed(map) == {id \in ID : map[id] # NoEntry}
StatusOf(id) == IF nodes[id] = NoEntry THEN "absent" ELSE entry[nodes[id]].status
NodeCount(map) == Cardinality(Managed(map))

(***************************************************************************)
(* Starting a node: startNodeWithTotal and its goroutine startNodeProcess. *)
(***************************************************************************)
\* Mutant of CanStart: only a running node is refused.
CanStartStarting(id) == StatusOf(id) # "running"

\* A node that is running or starting is refused.
CanStart(id) == StatusOf(id) \notin {"running", "starting"}

\* Mutant of PortOf: the number of entries ever created.
PortOfEver(id) == Len(entry)

\* Mutant of PortOf: the index of the last entry.
PortOfLast(id) == IF NodeCount(nodes) = 0 THEN 0 ELSE NodeCount(nodes) - 1

\* The port is the number of other entries.  A stopped or failed node loses its
\* entry first; only one that is still stopping keeps its port.
PortOf(id) ==
    IF StatusOf(id) = "stopping" THEN entry[nodes[id]].port ELSE NodeCount([nodes EXCEPT ![id] = NoEntry])

\* Mutant of NewTotal: the count of the entries, whatever the caller's target.
NewTotalCount(id, target) == NodeCount([nodes EXCEPT ![id] = 1])

NewTotal(id, target) == IF target > 0 THEN target ELSE NodeCount([nodes EXCEPT ![id] = 1])

startNodeWithTotal(id, target) ==
    /\ CanStart(id)
    /\ entry' = Append(entry, [id |-> id, port |-> PortOf(id), target |-> target,
                               status |-> "starting", process |-> "none",
                               cancelled |-> FALSE])
    /\ nodes' = [nodes EXCEPT ![id] = Len(entry) + 1]
    /\ totalNodes' = NewTotal(id, target)

\* startNodeProcess: here m.totalNodes is read, without the lock, for the argument
\* -total-nodes of the process.
LaunchProcess(h) ==
    /\ entry[h].process = "none"
    /\ \/ entry' = [entry EXCEPT ![h].process = "alive", ![h].status = "running"]
       \/ entry[h].id \in Fragile
          /\ entry' = [entry EXCEPT ![h].process = "reaped", ![h].status = "error",
                                    ![h].cancelled = TRUE]
    /\ UNCHANGED <<nodes, totalNodes, clusterStatus, cluster, cancelling, stopList, restarts, calls>>

\* A process ends by itself, or is killed because its context is cancelled.
ProcessExits(h) ==
    /\ entry[h].process = "alive" /\ (entry[h].cancelled \/ entry[h].id \in Fragile)
    /\ \E outcome \in IF entry[h].cancelled THEN {"failed"} ELSE {"succeeded", "failed"} :
          entry' = [entry EXCEPT ![h].process = outcome]
    /\ UNCHANGED <<nodes, totalNodes, clusterStatus, cluster, cancelling, stopList, restarts, calls>>

\* After cmd.Wait; the deferred cancel follows.
ReapProcess(h) ==
    /\ entry[h].process \in {"succeeded", "failed"}
    /\ entry' = [entry EXCEPT ![h].process = "reaped", ![h].cancelled = TRUE,
                              ![h].status = IF entry[h].process = "failed" /\ ~entry[h].cancelled
                                            THEN "error" ELSE "stopped"]
    /\ UNCHANGED <<nodes, totalNodes, clusterStatus, cluster, cancelling, stopList, restarts, calls>>

(***************************************************************************)
(* Stopping nodes.  StopNode marks the entry under its lock and cancels    *)
(* the context later; a node that is not running is an error.              *)
(***************************************************************************)
\* Mutant of MarkStopping: the node counts as stopped at once.
MarkStoppingDone(id) ==
    IF StatusOf(id) = "running"
    THEN /\ entry' = [entry EXCEPT ![nodes[id]].status = "stopped"]
         /\ cancelling' = cancelling \cup {nodes[id]}
    ELSE UNCHANGED <<entry, cancelling>>

MarkStopping(id) ==
    IF StatusOf(id) = "running"
    THEN /\ entry' = [entry EXCEPT ![nodes[id]].status = "stopping"]
         /\ cancelling' = cancelling \cup {nodes[id]}
    ELSE UNCHANGED <<entry, cancelling>>

\* Mutant of CancelContext: the context is never cancelled.
CancelContextNot(h) ==
    /\ h \in cancelling
    /\ cancelling' = cancelling \ {h}
    /\ UNCHANGED <<entry, nodes, totalNodes, clusterStatus, cluster, stopList, restarts, calls>>

CancelContext(h) ==
    /\ h \in cancelling
    /\ cancelling' = cancelling \ {h}
    /\ entry' = [entry EXCEPT ![h].cancelled = TRUE]
    /\ UNCHANGED <<nodes, totalNodes, clusterStatus, cluster, stopList, restarts, calls>>

(***************************************************************************)
(* Calls of the supervisor's API.                                          *)
(***************************************************************************)
Called == calls < MaxCalls /\ calls' = calls + 1

\* The entries that the cluster start under way will still create.
Reserved == IF cluster.phase \in {"await", "batch"}
            THEN Cardinality(cluster.todo) + cluster.count - cluster.next ELSE cluster.count

\* The bound leaves room for a node that is started besides a cluster.
MayStart == Len(entry) + Reserved < MaxStarts

StartNode(id) ==
    /\ MayStart /\ startNodeWithTotal(id, 0)
    /\ Called
    /\ UNCHANGED <<clusterStatus, cluster, cancelling, stopList, restarts>>

StopNode(id) ==
    /\ StatusOf(id) = "running" /\ MarkStopping(id)
    /\ Called
    /\ UNCHANGED <<nodes, totalNodes, clusterStatus, cluster, stopList, restarts>>

\* handleRestartNode of a running node, one such call at a time: stop it, sleep for a
\* second ...
RestartStops(id) ==
    /\ StatusOf(id) = "running" /\ restarts = {} /\ MarkStopping(id)
    /\ restarts' = {nodes[id]}
    /\ Called
    /\ UNCHANGED <<nodes, totalNodes, clusterStatus, cluster, stopList>>

\* ... and start it in whatever state it is then.  (On a node that was not running
\* the handler is StartNode.)
RestartStarts(h) ==
    /\ MayStart /\ h \in restarts /\ h \notin cancelling
    /\ restarts' = restarts \ {h}
    /\ \/ startNodeWithTotal(entry[h].id, 0)
       \/ ~CanStart(entry[h].id) /\ UNCHANGED <<entry, nodes, totalNodes>>
    /\ UNCHANGED <<clusterStatus, cluster, cancelling, stopList, calls>>

\* handleStopCluster: StopAllNodes lists the IDs, then stops them one by one.
StopCluster ==
    /\ stopList = {} /\ stopList' = Managed(nodes)
    /\ Called
    /\ UNCHANGED <<entry, nodes, totalNodes, clusterStatus, cluster, cancelling, restarts>>

StopNext(id) ==
    /\ id \in stopList /\ MarkStopping(id)
    /\ stopList' = stopList \ {id}
    /\ UNCHANGED <<nodes, totalNodes, clusterStatus, cluster, restarts, calls>>

(***************************************************************************)
(* StartCluster and startClusterAsync, which hold clusterMu throughout.  A *)
(* second StartCluster fails on TryLock.                                   *)
(***************************************************************************)
Cluster(phase, todo, next) == cluster' = [cluster EXCEPT !.phase = phase, !.todo = todo, !.next = next]

StartCluster(count) ==
    /\ cluster.phase = "free" /\ Len(entry) + count <= MaxStarts
    /\ cluster' = [phase |-> "stop", todo |-> Managed(nodes), next |-> 0, count |-> count]
    /\ Called
    /\ UNCHANGED <<entry, nodes, totalNodes, clusterStatus, cancelling, stopList, restarts>>

\* StopAllNodes.
ClusterStops(id) ==
    /\ cluster.phase = "stop" /\ id \in cluster.todo
    /\ MarkStopping(id)
    /\ Cluster("stop", cluster.todo \ {id}, 0)
    /\ UNCHANGED <<nodes, totalNodes, clusterStatus, stopList, restarts, calls>>

ClusterStopped ==
    /\ cluster.phase = "stop" /\ cluster.todo = {} /\ Cluster("wait", {}, 0)
    /\ UNCHANGED <<entry, nodes, totalNodes, clusterStatus, cancelling, stopList, restarts, calls>>

AllStopped == \A id \in ID : StatusOf(id) \in {"absent", "stopped", "error"}

\* Mutant of DeadlinePassed: there is no deadline.
DeadlinePassedNever == FALSE

\* The deadline of a wait may pass at any time.
DeadlinePassed == TRUE

\* waitForAllStopped returns when all have stopped, or after three seconds.
waitForAllStopped ==
    /\ cluster.phase = "wait"
    /\ AllStopped \/ DeadlinePassed
    /\ Cluster("clear", {}, 0)
    /\ UNCHANGED <<entry, nodes, totalNodes, clusterStatus, cancelling, stopList, restarts, calls>>

ClearNodes ==
    /\ cluster.phase = "clear"
    /\ nodes' = [id \in ID |-> NoEntry]
    /\ totalNodes' = cluster.count
    /\ clusterStatus' = "starting"
    /\ Cluster("bootstrap", {}, 0)
    /\ UNCHANGED <<entry, cancelling, stopList, restarts, calls>>

\* If somebody else has started node0 by now the cluster start ends here.
StartBootstrap ==
    /\ cluster.phase = "bootstrap"
    /\ \/ startNodeWithTotal(bootstrapID, cluster.count) /\ Cluster("await", {}, 1)
       \/ ~CanStart(bootstrapID) /\ cluster' = NoCluster /\ UNCHANGED <<entry, nodes, totalNodes>>
    /\ UNCHANGED <<clusterStatus, cancelling, stopList, restarts, calls>>

\* The IDs of the batch that begins at next.
Batch(next) == {id \in ID : next <= id /\ id < cluster.count /\ id < next + BatchSize}

\* waitForNodeRunning returns when node0 runs or after five seconds; either way the
\* first batch follows.
waitForNodeRunning ==
    /\ cluster.phase = "await"
    /\ StatusOf(bootstrapID) = "running" \/ DeadlinePassed
    /\ Cluster("batch", Batch(1), 1 + Cardinality(Batch(1)))
    /\ UNCHANGED <<entry, nodes, totalNodes, clusterStatus, cancelling, stopList, restarts, calls>>

\* The nodes of a batch are started concurrently; errors are only printed.
StartOfBatch(id) ==
    /\ cluster.phase = "batch" /\ id \in cluster.todo
    /\ \/ startNodeWithTotal(id, cluster.count)
       \/ ~CanStart(id) /\ UNCHANGED <<entry, nodes, totalNodes>>
    /\ Cluster("batch", cluster.todo \ {id}, cluster.next)
    /\ UNCHANGED <<clusterStatus, cancelling, stopList, restarts, calls>>

NextBatch ==
    /\ cluster.phase = "batch" /\ cluster.todo = {} /\ cluster.next < cluster.count
    /\ Cluster("batch", Batch(cluster.next), cluster.next + Cardinality(Batch(cluster.next)))
    /\ UNCHANGED <<entry, nodes, totalNodes, clusterStatus, cancelling, stopList, restarts, calls>>

ClusterStarted ==
    /\ cluster.phase = "batch" /\ cluster.todo = {} /\ cluster.next >= cluster.count
    /\ clusterStatus' = "running"
    /\ cluster' = NoCluster
    /\ UNCHANGED <<entry, nodes, totalNodes, cancelling, stopList, restarts, calls>>

ClusterStep ==
    \/ \E id \in ID : ClusterStops(id) \/ StartOfBatch(id)
    \/ ClusterStopped \/ waitForAllStopped \/ ClearNodes \/ StartBootstrap
    \/ waitForNodeRunning \/ NextBatch \/ ClusterStarted

Next ==
    \/ \E id \in ID : StartNode(id) \/ StopNode(id) \/ RestartStops(id) \/ StopNext(id)
    \/ \E h \in DOMAIN entry :
          LaunchProcess(h) \/ ProcessExits(h) \/ ReapProcess(h) \/ CancelContext(h) \/ RestartStarts(h)
    \/ StopCluster
    \/ \E count \in 1 .. MaxNodes : StartCluster(count)
    \/ ClusterStep

Spec == Init /\ [][Next]_vars

\* Goroutines and HTTP handlers run, and a process whose context is cancelled is
\* killed.  Nothing makes a user act, or a healthy process end.
Fairness ==
    /\ \A h \in 1 .. MaxStarts :
          /\ WF_vars(h \in DOMAIN entry /\ (LaunchProcess(h) \/ ReapProcess(h)))
          /\ WF_vars(h \in DOMAIN entry /\ CancelContext(h))
          /\ WF_vars(h \in DOMAIN entry /\ entry[h].cancelled /\ ProcessExits(h))
    /\ WF_vars(ClusterStep)

FairSpec == Spec /\ Fairness

-----------------------------------------------------------------------------
(***************************************************************************)
(* Properties.                                                             *)
(***************************************************************************)
\* A node that the manager shows as stopped or failed has no process any more: only
\* such a node loses its entry when it is started again.
StoppedIsDead ==
    \A h \in DOMAIN entry : entry[h].status \in {"stopped", "error"} => entry[h].process = "reaped"

\* The manager loses sight of a process only when the process is being stopped or
\* when a cluster start gives up waiting for it: of the processes with one ID that
\* have not ended, all but the newest are stopping or were dropped with the map.
OnlyStoppingIsReplaced ==
    [][\A h \in DOMAIN entry :
         (nodes[entry[h].id] = h /\ nodes'[entry[h].id] # h /\ entry[h].process # "reaped")
             => (entry[h].status = "stopping" \/ cluster.phase = "clear")]_vars

\* startNodeWithTotal passes on the node count of a cluster start: a process of the
\* cluster is told that count, unless a single node was started, or the cluster
\* given up, after it was created and before its goroutine read m.totalNodes.
ToldClusterSize ==
    [][\A h \in DOMAIN entry :
         (entry[h].process = "none" /\ entry'[h].process = "alive" /\ entry[h].target > 0)
             => \/ totalNodes = entry[h].target
                \/ nodes[entry[h].id] # h
                \/ \E k \in h + 1 .. Len(entry) : entry[k].target # entry[h].target]_vars

\* Ports are counted out, not looked up.  As long as no node is started a second time
\* they are distinct; a node that was started again may have the port of another.
SharedPortIsRestarted ==
    \A i, j \in Managed(nodes) :
        i # j /\ entry[nodes[i]].port = entry[nodes[j]].port
            => \E h \in DOMAIN entry : entry[h].id \in {i, j} /\ h \notin {nodes[i], nodes[j]}

\* A stop is never lost between the two steps of StopNode: the process of a node that
\* is marked as stopping is being killed, or the caller has still to cancel its context.
StopIsUnderWay ==
    \A h \in DOMAIN entry : entry[h].status = "stopping" => entry[h].cancelled \/ h \in cancelling

\* StopNode takes effect: a node that is marked as stopping stops.
StopTakesEffect ==
    \A h \in 1 .. MaxStarts :
        (h \in DOMAIN entry /\ entry[h].status = "stopping")
            ~> (h \in DOMAIN entry /\ entry[h].status \in {"stopped", "error"})

\* A cluster start comes to its end and releases clusterMu, whatever happens to the
\* nodes meanwhile: also when a node that was starting is never stopped.
ClusterStartEnds == (cluster.phase # "free") ~> (cluster.phase = "free")

-----------------------------------------------------------------------------
(***************************************************************************)
(* What the properties rest on: an invariant that every action keeps.      *)
(***************************************************************************)
\* The status that the manager shows follows what became of the process: nothing is
\* started while the node is starting, nothing is left when it has stopped or failed.
StatusFollowsProcess ==
    \A h \in DOMAIN entry :
        /\ entry[h].process = "none" <=> entry[h].status = "starting"
        /\ entry[h].process = "reaped" <=> entry[h].status \in {"stopped", "error"}

\* The map holds an entry under the ID that the entry was created for.
MapIsById == \A id \in Managed(nodes) : entry[nodes[id]].id = id

\* m.totalNodes is the node count of the cluster that an entry of the map was started
\* for, or something else was started after it.
TotalIsOfCluster ==
    \A id \in Managed(nodes) :
        entry[nodes[id]].target > 0 =>
            \/ totalNodes = entry[nodes[id]].target
            \/ \E k \in nodes[id] + 1 .. Len(entry) : entry[k].target # entry[nodes[id]].target

\* Ports are counted out: every port in the map is below the number of entries.
PortsAreCounted == \A id \in Managed(nodes) : entry[nodes[id]].port < NodeCount(nodes)

\* A cluster start creates at most the entries that are reserved for it.
RoomIsReserved ==
    /\ Len(entry) + Reserved <= MaxStarts
    /\ cluster.phase = "free" => cluster = NoCluster
    /\ cluster.phase # "free" => cluster.count > 0
    /\ cluster.phase = "await" => cluster.todo = {} /\ cluster.next = 1
    /\ cluster.next <= cluster.count

MapInv ==
    /\ StatusFollowsProcess /\ MapIsById /\ TotalIsOfCluster /\ PortsAreCounted
    /\ SharedPortIsRestarted

Invariant == TypeOK /\ MapInv /\ RoomIsReserved
=============================================================================
