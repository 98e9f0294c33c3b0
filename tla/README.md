# A TLA+ model of DTVN

DTVN is a network of validators that agree by PBFT on the state of tickets. A
client asks any validator to validate a ticket; the primary proposes the
request, all validators vote, execute it on their ticket state machines, store
the result and replicate it. A supervisor starts and stops validators and the
simulator, and shows them on dashboards. This directory models the code that
makes those decisions, checks it with TLC on small instances and proves its
main properties with TLAPS for networks of any size.

## The system and its parts

| Part | Code | Interacts with | Here |
| --- | --- | --- | --- |
| Consensus node | `pkg/consensus/pbft.go`, `messages.go` | network, validation call, ticket state machine | `PBFT` |
| Network host and router | `pkg/network/host.go`, `router.go` | carries all messages | the network of `PBFT` and `Tickets` |
| Validation call | `cmd/validator/main.go` (`ValidateTicket`) | consensus node | inside `PBFT` and `Tickets` |
| Vector clocks | `pkg/state/vectorclock.go` | ticket state machine | `VectorClock` |
| Ticket state machine | `pkg/state/machine.go` | executed requests, state updates, API | `Tickets` |
| Replication, state sync, persistence, seeding, restart | `cmd/validator/main.go`, `pkg/storage/store.go` | ticket state machine, BoltDB | `Tickets` |
| Gossip engine | `pkg/gossip/engine.go` | publishes state updates | inside `Tickets` |
| Supervisor node manager | `pkg/supervisor/manager.go`, `server.go` | starts and stops validators | `NodeManager` |
| Simulator controller | `pkg/supervisor/simulator.go` | child process, dashboards | `Simulation` |
| Supervisor WebSocket hub | `pkg/supervisor/server.go` | controller, dashboards | `Dashboard` |

A validator is one process with several goroutines. PBFT handlers run under
one mutex, the ticket state machine under another, and database writes outside
both. `PROJECT.json` lists every part with its status, maps every definition
to its lines, and names the hazards at the lines where they bite.

The layers are tied together by two abstract specifications:

    PBFT  --first view-->  DecisionLog  <--uses--  Tickets  --implements-->  TicketLedger

- `DecisionLog` is what consensus promises: one request per sequence number,
  and nodes that execute only what the log holds. `FirstViewLog` states that
  `PBFT` implements it in view 0, and `Tickets` is composed with it: its
  proposals and executions are `Choose` and `Apply` steps of the log.
- `TicketLedger` is what the validators promise: tickets are validated after
  consensus chose them, consumed where they are validated, and everything else
  that a node comes to show is a state its ticket has really been in.

No decision log spans a view change (finding 1), so `Tickets` speaks of the
validators as long as view 0 lasts.

## Modules

| File | Content |
| --- | --- |
| `PBFT.tla` | the consensus layer, its network and the calls that drive it; properties; inductive invariant |
| `DecisionLog.tla`, `FirstViewLog.tla` | the promise of consensus, and `PBFT` seen as that log |
| `VectorClock.tla` | vector clocks as operators |
| `Tickets.tla` | the tickets of all validators; properties; inductive invariants |
| `TicketLedger.tla` | the promise of the validators |
| `NodeManager.tla` | the supervisor's node manager and the API calls that drive it; inductive invariant |
| `Simulation.tla`, `Dashboard.tla` | the simulator controller with its inductive invariant; the WebSocket hub composed with it |
| `MC*.tla`, `MC*_*.cfg` | instances for TLC |
| `PBFTLemmas.tla` | lemmas on quorums, messages and logs; type correctness; the kinds of steps of `PBFT` |
| `PBFTProofs.tla` | the consensus invariant, the theorems that follow from it, and that `PBFT` implements `DecisionLog` in its first view |
| `PBFTOutcomeProofs.tla` | what executions lead to: checkpoints, answers to callers, executions of the backups |
| `TicketsLemmas.tla` | lemmas on vector clocks, merging and the common parts of the actions |
| `TicketsTypeProofs.tla` | type correctness of `Tickets` |
| `TicketsProofs.tla` | copies never get older, history, refinement of the ledger |
| `NodeManagerProofs.tla` | the invariant of the node manager and its theorems |
| `DashboardProofs.tla` | the invariant of the simulator controller, under the hub, and its theorems |

### PBFT

The variables carry the names of the fields of `PBFTNode`: `view`, `sequence`,
`state`, `isPrimary`, `requestLog`, `prepareLog`, `commitLog`, `viewChangeLog`,
`checkpoints`, `checkpointVotes`, `lastStable` (`lastStableCheckpoint`),
`callbacks` (`requestCallbacks`) and `pending` (`hasPendingClientRequest`). A
vote log is the set of its voters, because the code only ever counts them.
`sent` and `seen` are the network; `waiting`, `submitting` and `forwards` are
API calls in progress; `result` and `executed` record what a callback was told
and what was executed, for the properties.

| Action | Code |
| --- | --- |
| `ProposeRequest`, `ProposeFails` | `ProposeRequest` up to its unlock; its own `handlePrePrepare` is a later delivery |
| `handlePrePrepare`, `HandlePrepare`, `HandleCommit` | the handlers with `moveToCommitPhase` and `executeRequest` (`finish`) |
| `RejectPrePrepare` | the view check of a proposal that comes too early |
| `HandleClientRequest` | `HandleNetworkMessage`, case CLIENT_REQUEST |
| `initiateViewChange`, `HandleViewChange`, `failPendingCallbacks` | view timer and view change; the callbacks fail after the unlock |
| `HandleCheckpoint` | with `garbageCollect` |
| `SubmitToPrimary`, `ProposeSubmitted`, `ForwardRequest`, `EndWait` | `ValidateTicket` of the validator node |

What is abstracted:

- A digest is the request it digests. The digest of a checkpoint is that of
  its sequence number, so checkpoint votes for one sequence always match.
- The network holds every message that was broadcast; a receiver takes any of
  them, in any order, or never. A lost message, a full queue and a closed
  connection are all a message that is never taken. `Peers` says who can hear
  whom. A PRE-PREPARE and a copy of a CLIENT_REQUEST are taken at most once.
  Votes may be taken again: a node repeats its COMMIT for every PREPARE that
  arrives after the quorum, and the logs are keyed by voter.
- A handler registered with the consensus node succeeds or fails (`HandlerResults`).
- Time is nondeterminism: the view timer may fire whenever its condition holds
  and a waiting call may give up at any moment.
- Nodes do not restart and all of them follow the code.

### Tickets

`currentState` and `vectorClock` are the fields of the state machine of each
node. A copy of a ticket has what decisions depend on: state, timestamp in
seconds and vector clock. `disk` is the BoltDB bucket of tickets, `saves` the
writes under way outside the mutex, `replicating` the state replicator that
runs after an execution, `net` the messages on their way. `chosen` and
`applied` are the variables of `DecisionLog`; `todo` is what a node's consensus
layer may still execute; `happened` is history, for the ledger.

| Action | Code |
| --- | --- |
| `ProposeRequest` | a validation call that reaches the primary, as `Choose` of the log |
| `Execute` (`ExecuteValidate`, `ExecuteAgain`) | the handler that consensus calls, with `ValidateTicket` of the state machine, its handlers, the publisher and `disseminateMessage`, as `Apply` of the log |
| `Replicate` | the state replicator, which reads the ticket anew |
| `ConsumeTicket`, `DisputeTicket`, `SeedTickets` | the operations of the API |
| `ReadForSave`, `SaveTicket` | the two halves of `persistTicket` |
| `ReceiveUpdate` | the STATE_UPDATE handler: `MergeState`, `persistTicket` |
| `SendSync`, `ReceiveSync` | `handleStateSyncRequest`, `handleStateSyncResponse` with `SyncTicket` |
| `Crash`, `Boot`, `Load` | end of a process; `NewValidatorNode`; the rest of `Start` with `loadTicketsFromStore` |

Every operation of the state machine saves inside its mutex and is one action;
its save may fail (`FailingDisk`), and then the transition stays while the
error is returned. The publisher's gossip message carries no vector clock and
reaches min(fanout, peers) random peers; the replicator's message carries the
clock and goes to all peers. Messages are delivered in any order, or lost with
the receiver's crash. The network handlers are active before the database is
loaded. Timestamps are whole seconds, as in the code: two transitions may have
the same one.

### NodeManager

An entry of the manager's map lives on in the goroutine of its process after it
is removed or replaced, so `entry` holds every `ManagedNode` ever created and
`nodes` the index of the one in the map. `cluster` is the asynchronous cluster
start that holds `clusterMu`: its phase, the IDs still to handle and the next
batch. `cancelling`, `stopList` and `restarts` are API calls between two of
their steps. The actions follow `startNodeWithTotal`, `startNodeProcess`
(`LaunchProcess`, `ProcessExits`, `ReapProcess`), `StopNode` (`MarkStopping`,
`CancelContext`), `handleRestartNode`, `StopAllNodes` and the phases of
`startClusterAsync`. The deadlines of the two waits may pass at any moment.

### Simulation and Dashboard

`Simulation` is the simulator controller: `Start`, the goroutine of a run with
its process, the scanners of the two output streams with their half-second
deduplication, the final status and `Stop`. What a goroutine holds is indexed
by the run, and what is kept is tagged with it, so that a late goroutine of an
earlier run can be told apart. `Dashboard` adds the hub: the bounded channel
`wsBroadcast` (its length), the pump that writes to one client after the other,
the goroutine of each connection with its greeting and pongs, and the stop of
the server. A write has a beginning and an end, so that two writers can meet;
where the WebSocket library panics on that, the model stops (`Panicked`).

## Runs

Deadlock is not checked: a network with nothing left to deliver, and a
supervisor that nobody calls, are at rest.

| Run | Instance | Shows |
| --- | --- | --- |
| `pbft_one_view` | 4 nodes, one of them with a single link, 1 request, handlers succeed or fail, no timeouts, fair | certificates in the first view, backups execute once, every proposal is executed by each node that can hear a quorum |
| `pbft_view_change` | 4 nodes, one down, 1 request, views 0 and 1, a checkpoint at every sequence | types, votes match proposals, executions are backed by quorums, success is only reported after an execution, a stable checkpoint was executed by 2f+1 nodes |
| `pbft_retry` | 2 nodes (quorum 1), 2 requests, forwarding, views 0 and 1, checkpoints | proposals are unique, agreement in the first view, nothing goes back, the first view implements `DecisionLog` |
| `pbft_stale_votes` | 4 nodes, one down, 2 requests, views 0 and 1 | finding 1 |
| `pbft_failed_callback` | 4 nodes, one down, 1 request, views 0 and 1 | finding 2 |
| `pbft_collected` | 4 nodes, one that is heard by nobody, a checkpoint at every sequence | finding 3 |
| `tickets_network` | 2 nodes, seeded or not, 1 ticket, 1 request, a primary whose saves may fail and which may crash and restart, 1 use, times 0 and 1 | types, only decided tickets are validated, copies never get older, the validators implement `TicketLedger` |
| `tickets_used` | 2 nodes, 1 ticket, 1 request, 1 use, times 0 and 1 | finding 4 |
| `tickets_missed` | 2 nodes, 1 ticket, 1 request, a crash and restart, fair | finding 5 |
| `manager_calls` | 3 node IDs, batches of 1, 4 starts, 2 calls, one node that may fail, fair | a stopped node is dead, ports are shared only after a restart, processes of a cluster are told its size, only stopping processes are lost sight of, no stop is lost and all take effect, cluster starts end |
| `dashboard_events` | 1 connection, 2 simulator runs, 1 line each, a channel of length 1, 1 ping, fair | one simulator at a time, runs do not mix, a cancelled run ends, the channel drains, dead clients leave |
| `dashboard_writers` | 1 connection, 1 simulator run | finding 6 |

### Bounds

Every bound caps a counter in the guards of the actions that raise it, or the
number of outstanding calls.

- `PBFT`: `MaxView`, `MaxSequence`, `MaxForwards`. Four nodes are the least with
  f = 1, and a node that is down leaves exactly a quorum, so every vote matters.
  One view change and one sequence number are enough for old votes to meet a
  new proposal at the same number. With two nodes the quorum is 1; this is
  where a node follows the view change of a single other one, and where two
  requests, retries, view changes and checkpoints fit into one run.
- `Tickets`: `MaxSequence`, `MaxTime`, `MaxCrashes`, `MaxSaves`, `MaxUses`. No
  action relates two tickets, so one is enough for the behaviour of tickets;
  two nodes are enough for concurrent clocks, stale messages and state sync,
  and two seconds for timestamps that differ or agree. Larger networks are the
  business of the proofs: all properties of `tickets_network` are theorems. The
  instance in which the backup crashes instead (2,123,050 states) passes too.
- `NodeManager`: `MaxStarts`, `MaxCalls`. Two calls beside the goroutines they
  leave behind are enough for a stop, a restart, a second cluster start or a
  single start to meet a cluster start in each of its phases.
  The same instance with three calls (682,044 states, 13 minutes) passes too.
  The inductive invariant was also checked with batches of 2, 5 starts and 3
  calls (4,223,864 states).
- `Simulation`, `Dashboard`: `MaxRuns`, `MaxLines`, `MaxPings`; the capacities
  `maxOutputLines` and `QueueSize` are 1, so that both limits are met. Two runs
  are enough for a late goroutine to meet a later run.
  The invariant of the controller was also checked with 2 lines for each run
  and room for 2 (197,762 states).

### Fairness

Safety is checked without fairness. The liveness runs assume weak fairness of
what the Go scheduler, the network and the operating system do, and nothing of
users, clients, timers, crashes or healthy processes:

- `pbft_one_view`: a node that has a message it has not stored yet eventually
  handles such a message. The stream goroutines and the message loop justify
  this while the connections of `Peers` stay open and the queue does not
  overflow. No repetition of a vote is assumed.
- `tickets_missed`: connections deliver what they accept, the goroutines of a
  running process run, its anti-entropy ticker asks every peer again and again,
  and a process that was started completes its start. The counterexample respects
  all of these: with them the update still does not arrive.
- `manager_calls`: goroutines and HTTP handlers run, and a process whose context
  is cancelled is killed (`exec.CommandContext`).
- `dashboard_events`: the goroutines run, a process whose context is cancelled
  is killed, and a write of the pump ends at its deadline of five seconds.

### Findings

1. `CommitAfterPrepareQuorum` fails. Votes are stored and counted by sequence
   number alone and are kept over a view change, while a new primary counts
   its proposals from its own number. PREPAREs for one request in view 0 make
   a node vote COMMIT for another request in view 1. What the code does
   guarantee is `QuorumBacked`: 2f+1 voters at the sequence, of this view or
   earlier ones.
2. `FailedIsNotExecuted` fails. A view change reports every pending callback as
   failed, while the request is executed by the other nodes, before or after.
3. `CollectedIsExecuted` fails. Checkpoint votes of the others delete a request
   that a slow node has accepted and not executed.
4. `ConsumedIsFinal` fails. Each node increments its own counter when it
   executes a request, so the VALIDATED copies of two nodes are concurrent.
   `MergeState` decides by timestamp, whatever the states are: a ticket that a
   node has consumed is VALIDATED there again when the copy of a node that
   executed a second later arrives. What the code does guarantee is
   `NeverOlder`.
5. `MissedUpdatesArrive` fails. `handleStateSyncResponse` skips every ticket
   that the node has. A node that was down while a ticket was validated loads it
   as ISSUED and stays there.
6. `SingleWriter` fails. The goroutine of a connection greets and answers pings
   while the pump may be writing to the same connection.

## Proofs

The proofs hold for every value of the constants that satisfies the named
assumptions.

| Module | Theorem | Statement |
| --- | --- | --- |
| `PBFTLemmas` | `TypeCorrect` | `Spec => []TypeOK` |
| `PBFTProofs` | `ConsensusCorrect` | `Spec => []ConsensusInv` |
| | `ProposalsAreUnique` | `Spec => []ProposalUnique` |
| | `VotesAreForProposals` | `Spec => []VotesMatchProposal` |
| | `ExecutionsAreBacked` | `Spec => []QuorumBacked` |
| | `FirstViewCertified` | `Spec => []FirstViewCertificate` |
| | `FirstViewAgrees` | `Spec => []FirstViewAgreement` |
| | `FirstViewImplementsLog` | `Spec => FirstViewIsALog` |
| `PBFTOutcomeProofs` | `BackupsExecuteOnce` | `Spec => []BackupExecutesOnce` |
| | `StableCheckpointsAreExecuted` | `Spec => []StableIsExecuted` |
| | `SuccessesAreExecuted` | `Spec => []SuccessIsExecuted` |
| | `NothingGoesBack` | `Spec => NeverBack` |
| `TicketsTypeProofs` | `TypeCorrect` | `Spec => []TypeInv` |
| | `TypesAreKept` | `Spec => []TypeOK` |
| `TicketsProofs` | `CopiesAreNeverOlder` | `Spec => NeverOlder` |
| | `HistoryCorrect` | `Spec => []HistoryInv` |
| | `ValidationNeedsConsensus` | `Spec => []OnlyDecidedIsValidated` |
| | `ValidatorsImplementLedger` | `Spec => LedgerRefined` |
| `NodeManagerProofs` | `InvariantHolds` | `Spec => []Invariant` |
| | `TypeCorrect` | `Spec => []TypeOK` |
| | `StoppedNodesAreDead` | `Spec => []StoppedIsDead` |
| | `SharedPortsAreOfRestarts` | `Spec => []SharedPortIsRestarted` |
| | `StopsAreNotLost` | `Spec => []StopIsUnderWay` |
| | `ReplacedNodesAreStopping` | `Spec => OnlyStoppingIsReplaced` |
| | `ClusterSizeIsTold` | `Spec => ToldClusterSize` |
| `DashboardProofs` | `RunsAreSeparate` | `Spec => []DashboardInv` |
| | `TypeCorrect` | `Spec => []TypeOK` |
| | `OneProcessAtATime` | `Spec => []OneSimulator` |
| | `OutputIsOfThisRun` | `Spec => []KeptIsOfThisRun` |

### Consensus

`NodeAssumption` and `ConstantAssumption` say that there is a validator for each
of the IDs node0 to node(N-1), that the checkpoint interval is positive and that
the bounds are natural numbers; nothing is assumed of the connections but that a
node is not its own peer. No theorem needs N = 3f+1, an honest majority or
fairness.

`QuorumBacked` is not inductive: whether an execution is backed depends on what
the logs hold, and what they hold depends on what was sent. `ConsensusInv` adds

- `PrimaryOfView`, that a node takes itself for the primary exactly if its view
  says so, and `ProposalSource`, that a proposal comes from the primary of its
  view, which has used up its sequence number: together they make proposals
  unique;
- `LoggedIsProposed` and `LoggedIsCast`, that requests and votes in the logs
  were sent, in views not ahead of the node's;
- `CommitIsPrepared`, that a COMMIT was sent after 2f+1 PREPAREs.

A step is treated once per kind: the three phase handlers share `PhaseStep`,
which rests on `FinishEffect` (what `finish` does to the logs, the messages and
the executions); proposals, client calls and view changes have a lemma each;
all others change nothing the invariant speaks of (`QuietStep`). In view 0
every vote is for the only proposal of its sequence, which turns `QuorumBacked`
into the first-view theorems.

The refinement of the decision log uses the same invariant. A proposal made in
view 0 is a `Choose`, possible because `ProposalSource` leaves the new number
unused; an execution in view 0 is an `Apply`, because `LoggedIsProposed` puts
the logged request into the log of decisions; every other step, and every
step in a later view, is a stutter.

What an execution leads to has an invariant for each outcome, on top of
`ConsensusInv`. `PhaseOutcome` says once what a phase handler may do besides
voting: execute the request it holds, or hold it.

- `StableIsExecuted` needs `CheckpointIsExecuted`, that every checkpoint vote,
  in the network or counted by a node, comes from a node that has executed the
  sequence: a quorum of counted votes is then a quorum of executors.
- `SuccessIsExecuted` and the answers in `NeverBack` need `CallbackIsOpen`, that
  a registered callback has no answer yet and is registered at one node only.
- `BackupExecutesOnce` needs `AcceptedIsSeen`, that in the first view a backup
  holds and executes only proposals it has dealt with. A proposal that arrives
  for a sequence that it has executed would be, by `ProposalUnique`, the
  one it has dealt with, and that one is not taken twice.

### Tickets

`TicketsAssumption` says that nodes and tickets are finite sets, that the
bounds are natural numbers and that `None` is no state, ticket or copy.

- `TypeInv` adds to the types that the sequence counter is at most the number of
  decisions (or `ProposeRequest` could exceed its bound) and that the state
  replicator has a ticket to read.
- `NeverOlder` needs `ClockCoversCopies`, that a node's clock is beyond the
  clocks of its copies: only then is the clock of an own transition, the
  incremented one, strictly later than the copy it replaces. Every operation
  that takes over a copy merges its clock, also `loadTicketsFromStore`, whose
  merge of all records is an upper bound (`MergeAllIsUpperBound`; that the
  greatest counter exists follows from the well-foundedness of the strict
  subset order on finite sets).
- `OnlyDecidedIsValidated` is about memory and disk, yet a state comes to them
  from messages and pending saves. `HistoryInv` says that every copy, wherever
  it is, has a state its ticket was moved to (`OnlyRealStates`), and that moves
  to VALIDATED or CONSUMED follow a decision (`MovedIsDecided`).
- `LedgerRefined` follows step by step: transitions are `Validate`, `Consume`
  or `Dispute`, seeding is `Issue`, proposals are `Decide`; merges, syncs, loads
  and crashes are `Learn`, because of `OnlyRealStates`.

### Supervisor

`NodeManagerAssumption`, `SimulationAssumption` and `DashboardAssumption` say
that the bounds and capacities are natural numbers, positive but for
`MaxPings`, and that fragile nodes are numbers and progress lines are lines.

- `Invariant` of `NodeManager` is about the map and the entries.
  `StatusFollowsProcess` says which processes a status can have, and gives
  `StoppedIsDead` and, with the guard of `startNodeWithTotal`,
  `OnlyStoppingIsReplaced`. `MapIsById` says that an entry is in the map under its
  own ID. `TotalIsOfCluster` follows m.totalNodes to the moment that a process
  reads it. `PortsAreCounted` says that all ports in the map are below the number
  of entries: a node without an entry gets a port beyond all others, so a shared
  port belongs to a node that had an entry before. `RoomIsReserved`, that a
  cluster start and what it has still to create fit under `MaxStarts`, is needed
  for the bounds only.
- The steps are of three kinds: `ChangeKeeps` is for what becomes of one entry,
  `StartKeeps` for a new one, `ClearKeeps` for the empty map.
- `StopIsUnderWay`, the safety part of `StopTakesEffect`, is inductive together
  with `Invariant`.
- `SimInvariant` says that only the latest run has a goroutine before its final
  status, and that the status is "running" as long as it has (`OnlyLatestRuns`).
  A process and unread lines belong to such a goroutine. This gives
  `OneSimulator`, and `KeptIsOfThisRun` because lines come from scanners alone. The
  hub only takes events from the channel, so its steps keep the invariant.

### Only model-checked

The liveness properties `ProposalExecuted`, `StopTakesEffect`,
`ClusterStartEnds`, `CancelledRunEnds`, `QueueDrains` and `DeadClientsLeave`:
fairness and ENABLED are beyond the prover. Every invariant and action property
of a passing run is a theorem. Induction over data and RECURSIVE operators are
out of the prover's reach too; no module here uses a RECURSIVE operator.

## Not modelled

- Restart of a consensus node, and liveness over view changes. View, sequence
  and logs are in memory only: a primary that restarts numbers its proposals
  from 1 again. `Tickets` resets the counter that state sync compares, and takes
  its decisions from a log that numbers them correctly. Progress over view
  changes needs views without a bound.
- The ticket layer after a view change: there is no decision log to build it on.
- The notification that a forwarded validation call waits for. It changes no
  ticket. Merged updates raise none, so such a call may end in its deadline.
- `IssueTicket`, the transition history, the consensus and checkpoint buckets of
  the database, `ReceiveMessage` of the gossip engine with its cache, Bloom
  filter, hop limit and digests, `RemoveNode`, `SetTotalNodes` and
  `QuorumChecker`: nothing in the program calls or reads them outside tests.
- The node's REST API holds no state and calls the operations modelled here; its
  WebSocket hub is a loop over a bounded channel without the supervisor's
  dropping and deadlines.
- The proxy and the static file server of the supervisor forward bytes. Output
  buffers and the primary flag of the node manager decide nothing.
- The simulator is a load driver whose faults are random and timed.
- Discovery, signatures, metrics, protocol buffers and the commands are library
  calls, generated code, counters nobody reads back, or flag parsing.
