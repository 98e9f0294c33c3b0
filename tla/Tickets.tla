------------------------------ MODULE Tickets ------------------------------
(***************************************************************************)
(* The tickets of the validators: the state machine (pkg/state/machine.go) *)
(* on every node, and the wiring of cmd/validator/main.go around it: the   *)
(* handler that consensus calls, the state replicator, gossip, state sync, *)
(* BoltDB, seeding, crashes and restarts, and the API's operations.        *)
(*                                                                         *)
(* Consensus is used through its promise, the module DecisionLog.  The     *)
(* primary is the one of view 0.  Requests are VALIDATE requests, the only *)
(* ones the program makes, and are represented by their ticket.            *)
(*                                                                         *)
(* Every operation of the state machine holds its mutex, saves inside it   *)
(* (the persistence handler) and is one action.  persistTicket is not: it  *)
(* reads the ticket and writes the record later, in two further actions.   *)
(* The state PENDING is never assigned; owner, data and metadata of a      *)
(* ticket decide nothing and are left out.                                 *)
(***************************************************************************)
EXTENDS FiniteSets, VectorClock

CONSTANTS
    Primary,      \* the primary of view 0
    Ticket,
    None,         \* no entry in a map
    Crashable,    \* the nodes that may crash
    FailingDisk,  \* the nodes whose SaveTicket may fail
    Fanout,       \* peers that a gossip message goes to
    MaxSequence,  \* bound: requests that are proposed
    MaxTime,      \* bound: seconds that pass
    MaxCrashes,   \* bound: crashes
    MaxSaves,     \* bound: SaveTicket calls under way at a node
    MaxUses       \* bound: calls of ConsumeTicket, DisputeTicket and SeedTickets

State == {"ISSUED", "VALIDATED", "CONSUMED", "DISPUTED"}
Sequence == 1 .. MaxSequence

\* A ticket as a node holds it: its state, its timestamp and its vector clock.
Copy == [state : State, ts : 0 .. MaxTime, vc : Clock]

ASSUME TicketsAssumption ==
    /\ IsFiniteSet(Node) /\ IsFiniteSet(Ticket)
    /\ Primary \in Node /\ Crashable \subseteq Node /\ FailingDisk \subseteq Node
    /\ None \notin State /\ None \notin Ticket /\ None \notin Copy
    /\ {Fanout, MaxSequence, MaxTime, MaxCrashes, MaxSaves, MaxUses} \subseteq Nat

VARIABLES
    process,       \* [node]: "down", "booting" (before loadTicketsFromStore) or "up"
    currentState,  \* [node][ticket]: the copy in memory, or None
    vectorClock,   \* [node]: the clock of the state machine
    disk,          \* [node][ticket]: the record in BoltDB, or None
    saves,         \* [node]: SaveTicket calls under way outside the mutex
    chosen,        \* the decision log, see DecisionLog
    applied,       \* [node]: the decisions it has executed, see DecisionLog
    todo,          \* [node]: the decisions its PBFT layer may still execute
    sequence,      \* the primary's PBFT sequence counter; it is 0 elsewhere
    replicating,   \* [node]: the ticket whose state replicator runs next, or None
    net,           \* the messages on their way
    now,           \* the time in seconds
    crashes, uses, \* counters for the bounds
    happened       \* history: pairs <<ticket, state>> of every transition

storeVars == <<currentState, vectorClock, disk, saves, happened>>
logVars == <<chosen, applied, todo, sequence, replicating>>
vars == <<process, storeVars, logVars, net, now, crashes, uses>>

\* A SaveTicket call: persistTicket before it has read the ticket (copy = None)
\* or any caller that has its record ready.
Save == [ticket : Ticket, copy : Copy \cup {None}]

Update == [type : {"update"}, to : Node, ticket : Ticket, copy : Copy]
Sync == [type : {"sync"}, to : Node, seq : 0 .. MaxSequence,
         states : [Ticket -> State \cup {None}]]

TypeOK ==
    /\ process \in [Node -> {"down", "booting", "up"}]
    /\ currentState \in [Node -> [Ticket -> Copy \cup {None}]]
    /\ vectorClock \in [Node -> Clock]
    /\ disk \in [Node -> [Ticket -> Copy \cup {None}]]
    /\ saves \in [Node -> SUBSET Save]
    /\ chosen \in SUBSET (Sequence \X Ticket)
    /\ applied \in [Node -> SUBSET (Sequence \X Ticket)]
    /\ todo \in [Node -> SUBSET (Sequence \X Ticket)]
    /\ sequence \in 0 .. MaxSequence
    /\ replicating \in [Node -> Ticket \cup {None}]
    /\ net \in SUBSET (Update \cup Sync)
    /\ now \in 0 .. MaxTime
    /\ crashes \in 0 .. MaxCrashes
    /\ uses \in 0 .. MaxUses
    /\ happened \in SUBSET (Ticket \X State)

Consensus == INSTANCE DecisionLog WITH Request <- Ticket

\* Mutant of Issued: the ticket is created in the state that nothing leaves.
IssuedPending(ts, vc) == [state |-> "PENDING", ts |-> ts, vc |-> vc]

\* A ticket that SeedTickets creates.
Issued(ts, vc) == [state |-> "ISSUED", ts |-> ts, vc |-> vc]

\* Every validator has started, on an empty database or on one that was seeded.
Init ==
    /\ \E seeded \in SUBSET Node :
          /\ currentState = [n \in Node |-> [t \in Ticket |->
                 IF n \in seeded THEN Issued(0, NewVectorClock) ELSE None]]
          /\ disk = currentState
          /\ happened = IF seeded = {} THEN {} ELSE {<<t, "ISSUED">> : t \in Ticket}
    /\ process = [n \in Node |-> "up"]
    /\ vectorClock = [n \in Node |-> NewVectorClock]
    /\ saves = [n \in Node |-> {}]
    /\ Consensus!Init
    /\ todo = [n \in Node |-> {}]
    /\ sequence = 0
    /\ replicating = [n \in Node |-> None]
    /\ net = {}
    /\ now = 0
    /\ crashes = 0
    /\ uses = 0

(***************************************************************************)
(* Helpers.                                                                *)
(***************************************************************************)
Running(n) == process[n] = "up"
Alive(n) == process[n] # "down"
SaveResults(n) == IF n \in FailingDisk THEN {TRUE, FALSE} ELSE {TRUE}
StateOf(copy) == IF copy = None THEN None ELSE copy.state

\* The peers a message can be handed to: a stream to a dead process fails.
Reachable(n) == {p \in Node \ {n} : Alive(p)}

\* Broadcast of the state replicator: the ticket with its vector clock.
ReplicatedUpdates(n, t) ==
    {[type |-> "update", to |-> p, ticket |-> t, copy |-> currentState[n][t]] :
        p \in Reachable(n)}

\* The peers of one gossip round: min(Fanout, peers) of them at random.
GossipTargets(n) ==
    {P \in SUBSET Reachable(n) :
        Cardinality(P) = IF Fanout < Cardinality(Reachable(n))
                         THEN Fanout ELSE Cardinality(Reachable(n))}

\* The publisher's message has no vector clock.
GossipUpdates(P, t, copy) ==
    {[type |-> "update", to |-> p, ticket |-> t, copy |-> [copy EXCEPT !.vc = NewVectorClock]] :
        p \in P}

\* disseminateMessage: one round of gossip.
disseminateMessage(n, t, copy) ==
    \E P \in GossipTargets(n) : net' = net \cup GossipUpdates(P, t, copy)

\* time.Now().Unix(): seconds may have passed since an operation last asked.
ReadTime == now' \in now .. MaxTime

\* The call of persistTicket that follows an operation on ticket t.
PersistTicket(t) == [ticket |-> t, copy |-> None]

\* The bound on the SaveTicket calls of a node has room for k more.
CanSave(n, k) == Cardinality(saves[n]) + k <= MaxSaves

(***************************************************************************)
(* The common body of ValidateTicket, ConsumeTicket and DisputeTicket: the *)
(* transition, the handlers (notifier, then SaveTicket) and, when they     *)
(* succeed, the publisher.  A handler error comes after the transition.    *)
(***************************************************************************)
\* Mutant of NextClock: the node's own counter stays.
NextClockSame(n) == vectorClock[n]

\* The clock of a transition.
NextClock(n) == Increment(vectorClock[n], n)

Transition(n, t, s, saved) ==
    LET copy == [state |-> s, ts |-> now', vc |-> NextClock(n)]
    IN /\ ReadTime
       /\ currentState' = [currentState EXCEPT ![n][t] = copy]
       /\ vectorClock' = [vectorClock EXCEPT ![n] = NextClock(n)]
       /\ disk' = IF saved THEN [disk EXCEPT ![n][t] = copy] ELSE disk
       /\ IF saved THEN disseminateMessage(n, t, copy) ELSE UNCHANGED net
       /\ happened' = happened \cup {<<t, s>>}

(***************************************************************************)
(* What consensus calls: the handler, then the state replicator.           *)
(***************************************************************************)
\* VALIDATE of an ISSUED ticket.  When the save fails the request stays in the
\* PBFT log although the ticket is VALIDATED.
ExecuteValidate(n, d) ==
    LET t == d[2]
    IN /\ StateOf(currentState[n][t]) = "ISSUED"
       /\ \E saved \in SaveResults(n) :
             /\ Transition(n, t, "VALIDATED", saved)
             /\ \/ /\ saved
                   /\ Consensus!Apply(n, d[1], t)
                   /\ todo' = [todo EXCEPT ![n] = @ \ {d}]
                   /\ saves' = [saves EXCEPT ![n] = @ \cup {PersistTicket(t)}]
                   /\ replicating' = [replicating EXCEPT ![n] = t]
                \/ ~saved /\ UNCHANGED <<chosen, applied, todo, saves, replicating>>

\* "already validated" and "already consumed" are not errors to the handler.
ExecuteAgain(n, d) ==
    LET t == d[2]
    IN /\ StateOf(currentState[n][t]) \in {"VALIDATED", "CONSUMED"}
       /\ Consensus!Apply(n, d[1], t)
       /\ todo' = [todo EXCEPT ![n] = @ \ {d}]
       /\ saves' = [saves EXCEPT ![n] = @ \cup {PersistTicket(t)}]
       /\ replicating' = [replicating EXCEPT ![n] = t]
       /\ UNCHANGED <<currentState, vectorClock, disk, happened, net, now>>

\* A ticket that is unknown or disputed is an error: nothing changes and the
\* request stays in the log.
Execute(n, d) ==
    /\ Running(n) /\ d \in todo[n] /\ replicating[n] = None /\ CanSave(n, 1)
    /\ ExecuteValidate(n, d) \/ ExecuteAgain(n, d)
    /\ UNCHANGED <<process, sequence, crashes, uses>>

\* The state replicator reads the ticket anew and sends it to all peers.
Replicate(n) ==
    /\ Running(n) /\ replicating[n] # None
    /\ net' = net \cup ReplicatedUpdates(n, replicating[n])
    /\ replicating' = [replicating EXCEPT ![n] = None]
    /\ UNCHANGED <<process, storeVars, chosen, applied, todo, sequence, now,
                   crashes, uses>>

(***************************************************************************)
(* API operations on the node's own state machine.                         *)
(***************************************************************************)
\* Mutant of ConsumeTicket: a ticket in any state is consumed.
ConsumeTicketAny(n, t) ==
    /\ Running(n) /\ uses < MaxUses
    /\ currentState[n][t] # None
    /\ \E saved \in SaveResults(n) : Transition(n, t, "CONSUMED", saved)
    /\ uses' = uses + 1
    /\ UNCHANGED <<process, saves, logVars, crashes>>

ConsumeTicket(n, t) ==
    /\ Running(n) /\ uses < MaxUses
    /\ StateOf(currentState[n][t]) = "VALIDATED"
    /\ \E saved \in SaveResults(n) : Transition(n, t, "CONSUMED", saved)
    /\ uses' = uses + 1
    /\ UNCHANGED <<process, saves, logVars, crashes>>

\* There is no condition on the state of the ticket.
DisputeTicket(n, t) ==
    /\ Running(n) /\ uses < MaxUses
    /\ currentState[n][t] # None
    /\ \E saved \in SaveResults(n) : Transition(n, t, "DISPUTED", saved)
    /\ uses' = uses + 1
    /\ UNCHANGED <<process, saves, logVars, crashes>>

\* SeedTickets: in memory only the missing tickets are issued, but a record is
\* written for every ticket.
SeedTickets(n) ==
    /\ Running(n) /\ uses < MaxUses /\ CanSave(n, Cardinality(Ticket))
    /\ ReadTime
    /\ currentState' = [currentState EXCEPT ![n] = [t \in Ticket |->
           IF @[t] = None THEN Issued(now', vectorClock[n]) ELSE @[t]]]
    /\ saves' = [saves EXCEPT ![n] = @ \cup
           {[ticket |-> t, copy |-> Issued(now', NewVectorClock)] : t \in Ticket}]
    /\ happened' = happened \cup {<<t, "ISSUED">> : t \in Ticket}
    /\ uses' = uses + 1
    /\ UNCHANGED <<process, vectorClock, disk, logVars, net, crashes>>

\* persistTicket reads the ticket (GetTicket) ...
ReadForSave(n, w) ==
    /\ Alive(n) /\ w \in saves[n] /\ w.copy = None
    /\ saves' = [saves EXCEPT ![n] = (@ \ {w}) \cup
           {[ticket |-> w.ticket, copy |-> currentState[n][w.ticket]]}]
    /\ UNCHANGED <<process, currentState, vectorClock, disk, happened, logVars, net,
                   now, crashes, uses>>

\* ... and writes what it read; an error is only logged.
SaveTicket(n, w) ==
    /\ Alive(n) /\ w \in saves[n] /\ w.copy # None
    /\ saves' = [saves EXCEPT ![n] = @ \ {w}]
    /\ \E saved \in SaveResults(n) :
          disk' = IF saved THEN [disk EXCEPT ![n][w.ticket] = w.copy] ELSE disk
    /\ UNCHANGED <<process, currentState, vectorClock, happened, logVars, net,
                   now, crashes, uses>>

(***************************************************************************)
(* What arrives from other nodes.  The handlers are active as soon as the  *)
(* process is, also before loadTicketsFromStore.                           *)
(***************************************************************************)
\* MergeState on one ticket: the causally newer copy, or the one with the later
\* timestamp when neither is newer; the local copy when nothing decides.
MergeTicket(local, remote) ==
    IF local = None \/ Compare(local.vc, remote.vc) = "Before" THEN remote
    ELSE IF Compare(local.vc, remote.vc) = "Concurrent" /\ remote.ts > local.ts THEN remote
    ELSE local

\* The end of MergeState.
MergeClock(n, vc) == vectorClock' = [vectorClock EXCEPT ![n] = Merge(@, vc)]

\* The STATE_UPDATE handler: MergeState, then persistTicket.  No handler of the
\* state machine runs, so nobody is notified.
ReceiveUpdate(n, m) ==
    LET merged == MergeTicket(currentState[n][m.ticket], m.copy)
    IN /\ Alive(n) /\ m \in net /\ m.to = n /\ m.type = "update" /\ CanSave(n, 1)
       /\ net' = net \ {m}
       /\ currentState' = [currentState EXCEPT ![n][m.ticket] = merged]
       /\ MergeClock(n, m.copy.vc)
       /\ saves' = [saves EXCEPT ![n] = @ \cup {PersistTicket(m.ticket)}]
       /\ UNCHANGED <<process, disk, happened, logVars, now, crashes, uses>>

\* GetSequence: only ProposeRequest advances the counter.
GetSequence(n) == IF n = Primary THEN sequence ELSE 0

\* Anti-entropy and new connections: p asks n, and n answers with every ticket
\* that is not ISSUED.  The request carries nothing that the answer uses.  Left
\* out are answers that p would not use (with sequence 0, or when p has all the
\* tickets) and, as a bound, a second answer while one is on its way to p.
SendSync(n, p) ==
    LET states == [t \in Ticket |-> IF StateOf(currentState[n][t]) = "ISSUED"
                                    THEN None ELSE StateOf(currentState[n][t])]
    IN /\ Alive(n) /\ p \in Reachable(n) /\ GetSequence(n) > 0
       /\ \E t \in Ticket : currentState[p][t] = None
       /\ ~\E m \in net : m.type = "sync" /\ m.to = p
       /\ net' = net \cup {[type |-> "sync", to |-> p, seq |-> GetSequence(n), states |-> states]}
       /\ UNCHANGED <<process, storeVars, logVars, now, crashes, uses>>

\* Mutant of Missing: every state of the responder is taken for VALIDATED.
MissingAnyState(n, m) ==
    {t \in Ticket : m.states[t] # None /\ currentState[n][t] = None}

\* The tickets of an answer that the node takes over: VALIDATED there, unknown here.
Missing(n, m) ==
    {t \in Ticket : m.states[t] = "VALIDATED" /\ currentState[n][t] = None}

\* The copy that SyncTicket creates: with the node's own time and clock.
SyncTicket(n) == [state |-> "VALIDATED", ts |-> now', vc |-> vectorClock[n]]

\* handleStateSyncResponse: SyncTicket and persistTicket for each missing ticket,
\* if the responder's sequence counter is ahead.  SyncTicket runs the handlers of
\* the state machine, so it saves the ticket too.
ReceiveSync(n, m) ==
    LET T == IF m.seq > GetSequence(n) THEN Missing(n, m) ELSE {}
        take(map) == [t \in Ticket |-> IF t \in T THEN SyncTicket(n) ELSE map[t]]
    IN /\ Alive(n) /\ m \in net /\ m.to = n /\ m.type = "sync" /\ CanSave(n, Cardinality(T))
       /\ net' = net \ {m}
       /\ IF T = {} THEN UNCHANGED now ELSE ReadTime
       /\ currentState' = [currentState EXCEPT ![n] = take(@)]
       /\ \E saved \in SaveResults(n) :
             /\ disk' = IF saved THEN [disk EXCEPT ![n] = take(@)] ELSE disk
             /\ saves' = IF saved THEN [saves EXCEPT ![n] = @ \cup {PersistTicket(t) : t \in T}]
                         ELSE saves
       /\ UNCHANGED <<process, vectorClock, happened, logVars, crashes, uses>>

(***************************************************************************)
(* A validation call reaches the primary.  The caller checks that its node *)
(* does not show the ticket as VALIDATED, but a forwarded or repeated      *)
(* request arrives later and is not checked again; so there is no guard.   *)
(* Everybody who is there takes part in deciding the request.              *)
(***************************************************************************)
ProposeRequest(t) ==
    LET d == <<Cardinality(chosen) + 1, t>>
    IN /\ Running(Primary) /\ d[1] <= MaxSequence
       /\ Consensus!Choose(d[1], t)
       /\ sequence' = sequence + 1
       /\ todo' = [n \in Node |-> IF Alive(n) THEN todo[n] \cup {d} ELSE todo[n]]
       /\ UNCHANGED <<process, storeVars, replicating, net, now, crashes, uses>>

(***************************************************************************)
(* Crashes and restarts.                                                   *)
(***************************************************************************)
\* The process dies or is stopped: only the database remains.  Messages to it are lost.
Crash(n) ==
    /\ Alive(n) /\ n \in Crashable /\ crashes < MaxCrashes
    /\ process' = [process EXCEPT ![n] = "down"]
    /\ currentState' = [currentState EXCEPT ![n] = [t \in Ticket |-> None]]
    /\ vectorClock' = [vectorClock EXCEPT ![n] = NewVectorClock]
    /\ saves' = [saves EXCEPT ![n] = {}]
    /\ todo' = [todo EXCEPT ![n] = {}]
    /\ replicating' = [replicating EXCEPT ![n] = None]
    /\ sequence' = IF n = Primary THEN 0 ELSE sequence
    /\ net' = {m \in net : m.to # n}
    /\ crashes' = crashes + 1
    /\ UNCHANGED <<disk, happened, chosen, applied, now, uses>>

\* NewValidatorNode: the network handlers work, Start still waits for peers.
Boot(n) ==
    /\ process[n] = "down"
    /\ process' = [process EXCEPT ![n] = "booting"]
    /\ UNCHANGED <<storeVars, logVars, net, now, crashes, uses>>

\* loadTicketsFromStore: MergeState with the record of the database.
MergeStored(n, t) ==
    IF disk[n][t] = None THEN currentState[n][t] ELSE MergeTicket(currentState[n][t], disk[n][t])

\* The rest of Start.
Load(n) ==
    /\ process[n] = "booting"
    /\ process' = [process EXCEPT ![n] = "up"]
    /\ currentState' = [currentState EXCEPT ![n] = [t \in Ticket |-> MergeStored(n, t)]]
    /\ vectorClock' = [vectorClock EXCEPT ![n] =
           MergeAll(@, {disk[n][t].vc : t \in {u \in Ticket : disk[n][u] # None}})]
    /\ UNCHANGED <<disk, saves, happened, logVars, net, now, crashes, uses>>

Next ==
    \/ \E t \in Ticket : ProposeRequest(t)
    \/ \E n \in Node :
          \/ \E d \in todo[n] : Execute(n, d)
          \/ Replicate(n)
          \/ SeedTickets(n)
          \/ \E w \in saves[n] : ReadForSave(n, w) \/ SaveTicket(n, w)
          \/ \E m \in net : ReceiveUpdate(n, m) \/ ReceiveSync(n, m)
          \/ \E p \in Node : SendSync(n, p)
          \/ \E t \in Ticket :
                ConsumeTicket(n, t) \/ DisputeTicket(n, t)
          \/ Crash(n) \/ Boot(n) \/ Load(n)

Spec == Init /\ [][Next]_vars

\* Connections deliver what they accept, the goroutines of a running process run,
\* its anti-entropy ticker asks every peer again and again, and a process that was
\* started completes its start.  Nothing makes a user act or a process crash or
\* start.
Fairness ==
    \A n \in Node :
        /\ WF_vars(\E d \in todo[n] : Execute(n, d))
        /\ WF_vars(Replicate(n))
        /\ WF_vars(\E m \in net : ReceiveUpdate(n, m))
        /\ WF_vars(\E m \in net : ReceiveSync(n, m))
        /\ \A p \in Node : WF_vars(SendSync(n, p))
        /\ WF_vars(\E w \in saves[n] : ReadForSave(n, w) \/ SaveTicket(n, w))
        /\ WF_vars(Load(n))

FairSpec == Spec /\ Fairness

-----------------------------------------------------------------------------
(***************************************************************************)
(* Properties.                                                             *)
(***************************************************************************)
DecidedTickets == {d[2] : d \in chosen}

\* README: "Validation requires PBFT consensus".  No node shows a ticket as
\* VALIDATED or CONSUMED, and no database holds it so, unless consensus chose it:
\* whatever merging, state sync, seeding, persistence and restarts did to it.
OnlyDecidedIsValidated ==
    \A n \in Node, t \in Ticket :
        {StateOf(currentState[n][t]), StateOf(disk[n][t])} \cap {"VALIDATED", "CONSUMED"} # {}
            => t \in DecidedTickets

\* The parts of the inductive invariants of the proofs.  The sequence counter is at
\* most the length of the log, and the state replicator has a ticket to send.
SequenceCounted == IsFiniteSet(chosen) /\ sequence <= Cardinality(chosen)

ReplicatesKnown ==
    \A n \in Node : replicating[n] # None => currentState[n][replicating[n]] # None

TypeInv == TypeOK /\ SequenceCounted /\ ReplicatesKnown

HasHappened(t, s) == s # None => <<t, s>> \in happened

\* Every copy, in memory, in a database, on its way to one or in a message, has a
\* state that its ticket was moved to.
OnlyRealStates ==
    /\ \A n \in Node, t \in Ticket :
          HasHappened(t, StateOf(currentState[n][t])) /\ HasHappened(t, StateOf(disk[n][t]))
    /\ \A n \in Node : \A w \in saves[n] : HasHappened(w.ticket, StateOf(w.copy))
    /\ \A m \in net : m.type = "update" => HasHappened(m.ticket, StateOf(m.copy))
    /\ \A m \in net : m.type = "sync" => \A t \in Ticket : HasHappened(t, m.states[t])

\* A ticket was moved to VALIDATED or CONSUMED only after consensus chose it, and
\* what is left to execute was chosen.
MovedIsDecided ==
    /\ \A t \in Ticket, s \in {"VALIDATED", "CONSUMED"} :
          <<t, s>> \in happened => t \in DecidedTickets
    /\ \A n \in Node : todo[n] \subseteq chosen

HistoryInv == OnlyRealStates /\ MovedIsDecided

\* A node's clock is beyond the clocks of all the copies it holds.
ClockCoversCopies ==
    \A n \in Node, t \in Ticket :
        currentState[n][t] # None => LessOrEqual(currentState[n][t].vc, vectorClock[n])

\* A copy that is causally newer, or concurrent with a later timestamp.
IsNewer(new, old) ==
    \/ Compare(old.vc, new.vc) = "Before"
    \/ Compare(old.vc, new.vc) = "Concurrent" /\ new.ts > old.ts

\* A running process replaces its copy of a ticket by a newer one only.
CopiesGetNewer ==
    \A n \in Node, t \in Ticket :
        process'[n] # "down" /\ currentState[n][t] # None
            /\ currentState'[n][t] # currentState[n][t] =>
                  IsNewer(currentState'[n][t], currentState[n][t])

\* While a process runs, its copy of a ticket is only replaced by a causally newer
\* one, or by a concurrent one with a later timestamp: own transitions are newer
\* than everything the node has merged, and loading the database undoes nothing.
NeverOlder == [][CopiesGetNewer]_vars

\* The validators implement the ticket ledger: clocks, disks, messages and crashes
\* only ever bring back states that a ticket was legitimately moved to.
Ledger == INSTANCE TicketLedger WITH
              decided <- DecidedTickets,
              shown <- [n \in Node |-> [t \in Ticket |-> StateOf(currentState[n][t])]]

LedgerRefined == Ledger!Spec

\* README, Ticket Lifecycle: "Tickets follow a strict state machine", in which
\* CONSUMED is final: a running node never shows a used ticket as VALIDATED again.
ConsumedIsFinal ==
    [][\A n \in Node, t \in Ticket :
         StateOf(currentState[n][t]) = "CONSUMED" => StateOf(currentState'[n][t]) # "VALIDATED"]_vars

\* README, Message Flow: "Anti-entropy (every 5s) ensures eventual consistency for
\* any missed updates": a node that runs learns what the primary shows as VALIDATED.
MissedUpdatesArrive ==
    \A n \in Node, t \in Ticket :
        (StateOf(currentState[Primary][t]) = "VALIDATED" /\ Running(n))
            ~> (\/ StateOf(currentState[n][t]) \notin {"ISSUED", None}
                \/ StateOf(currentState[Primary][t]) # "VALIDATED"
                \/ ~Running(n))
=============================================================================
