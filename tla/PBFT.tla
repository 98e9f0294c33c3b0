-------------------------------- MODULE PBFT --------------------------------
(***************************************************************************)
(* The consensus layer, pkg/consensus/pbft.go: one PBFTNode per validator, *)
(* the three-phase protocol, view changes, checkpoints and the callbacks   *)
(* that tell a waiting API call how its request ended.                     *)
(*                                                                         *)
(* Every handler runs under the node's mutex, so it is one action.         *)
(* ProposeRequest and the two ways of changing view release the mutex in   *)
(* the middle; they are two actions each, and so is the API call on the    *)
(* primary, which registers its callback before it proposes.               *)
(*                                                                         *)
(* The network is p2pHost.Broadcast: one stream, and one goroutine at the  *)
(* receiver, per message and peer.  Messages arrive in any order, or never *)
(* (sent holds all of them; one that is lost is never delivered).  The     *)
(* receiver's bounded messageQueue only delays or drops messages and is    *)
(* part of the network here.  A PRE-PREPARE and each copy of a             *)
(* CLIENT_REQUEST reach a node at most once; votes are stored in maps      *)
(* keyed by the voter, and a COMMIT is really sent again for every PREPARE *)
(* that arrives after the quorum, so a vote may be handled repeatedly.     *)
(***************************************************************************)
EXTENDS Naturals, FiniteSets

CONSTANTS
    Node,               \* the validators
    nodeAt,             \* nodeAt[i] is the validator whose ID is "node<i>"
    Request,            \* client requests, each with its own RequestID
    None,               \* no entry in a map
    CheckpointInterval, \* checkpointInterval, 10 in the code
    Peers,              \* Peers[n]: the peers n can have a connection to
    HandlerResults,     \* may the registered handlers succeed, fail, or both
    MaxView,            \* bound: no node times out in a view this high
    MaxSequence,        \* bound: no node proposes beyond this sequence
    MaxForwards         \* bound: CLIENT_REQUEST broadcasts per request

N == Cardinality(Node)

\* NewPBFTNode: f := (cfg.TotalNodes - 1) / 3
f == (N - 1) \div 3

\* checkQuorum: at least 2f+1 votes (and 2f+1 >= 1).
Quorum == 2 * f + 1

View == 0 .. MaxView
Sequence == 1 .. MaxSequence
Phase == {"IDLE", "PREPARE", "COMMIT", "COMMITTED"}

ASSUME NodeAssumption ==
    /\ IsFiniteSet(Node) /\ Node # {}
    /\ nodeAt \in [0 .. N - 1 -> Node]
    /\ \A i, j \in 0 .. N - 1 : nodeAt[i] = nodeAt[j] => i = j

ASSUME ConstantAssumption ==
    /\ None \notin Request
    /\ CheckpointInterval \in Nat \ {0}
    /\ Peers \in [Node -> SUBSET Node]
    /\ \A n \in Node : n \notin Peers[n]
    /\ HandlerResults \subseteq BOOLEAN
    /\ MaxView \in Nat /\ MaxSequence \in Nat /\ MaxForwards \in Nat

\* GetPrimary: "node%d" of view % totalNodes.
Primary(v) == nodeAt[v % N]

(***************************************************************************)
(* Messages.  A digest is the hash of the request's identifying fields and *)
(* is represented by the request itself.                                   *)
(***************************************************************************)
PhaseMessage ==
    [type : {"PRE_PREPARE", "PREPARE", "COMMIT"},
     view : View, seq : Sequence, req : Request, node : Node]

ViewChangeMessage == [type : {"VIEW_CHANGE"}, view : View, node : Node]

CheckpointMessage == [type : {"CHECKPOINT"}, seq : Sequence, node : Node]

ClientMessage ==
    [type : {"CLIENT_REQUEST"}, req : Request, copy : 1 .. MaxForwards, node : Node]

Message ==
    PhaseMessage \cup ViewChangeMessage \cup CheckpointMessage \cup ClientMessage

PhaseMsg(type, v, s, req, n) ==
    [type |-> type, view |-> v, seq |-> s, req |-> req, node |-> n]

VARIABLES
    view, sequence, state, isPrimary,
    pending,          \* hasPendingClientRequest
    requestLog,       \* [node][sequence]: the request, or None
    prepareLog,       \* [node][sequence]: the nodes whose PREPARE is stored
    commitLog,        \* [node][sequence]: the nodes whose COMMIT is stored
    viewChangeLog,    \* [node][view]: the nodes whose vote is stored
    checkpoints,      \* [node]: sequences of the node's own checkpoints
    checkpointVotes,  \* [node][sequence]: the nodes whose vote is stored
    lastStable,       \* lastStableCheckpoint
    callbacks,        \* [node]: requests with a registered callback
    failing,          \* nodes between a view change and failPendingCallbacks
    submitting,       \* [node]: requests between RegisterCallback and ProposeRequest
    waiting,          \* [node]: requests a non-primary's API call waits for
    forwards,         \* [request]: CLIENT_REQUEST broadcasts so far
    result,           \* [request]: what its callback was told
    sent,             \* the network: every message ever broadcast
    seen,             \* [node]: the proposals and client requests it has dealt with
    executed          \* history, [node]: what executeRequest ran, and in which view

viewVars == <<view, isPrimary, viewChangeLog, failing>>
logVars == <<requestLog, prepareLog, commitLog>>
checkpointVars == <<checkpoints, checkpointVotes, lastStable>>
apiVars == <<submitting, waiting, forwards>>
clientVars == <<callbacks, result, apiVars>>
vars == <<viewVars, sequence, state, pending, logVars, checkpointVars,
          clientVars, sent, seen, executed>>

Execution == [seq : Sequence, view : View, req : Request, ok : BOOLEAN]

TypeOK ==
    /\ view \in [Node -> View]
    /\ sequence \in [Node -> 0 .. MaxSequence]
    /\ state \in [Node -> Phase]
    /\ isPrimary \in [Node -> BOOLEAN]
    /\ pending \in [Node -> BOOLEAN]
    /\ requestLog \in [Node -> [Sequence -> Request \cup {None}]]
    /\ prepareLog \in [Node -> [Sequence -> SUBSET Node]]
    /\ commitLog \in [Node -> [Sequence -> SUBSET Node]]
    /\ viewChangeLog \in [Node -> [View -> SUBSET Node]]
    /\ checkpoints \in [Node -> SUBSET Sequence]
    /\ checkpointVotes \in [Node -> [Sequence -> SUBSET Node]]
    /\ lastStable \in [Node -> 0 .. MaxSequence]
    /\ callbacks \in [Node -> SUBSET Request]
    /\ failing \in SUBSET Node
    /\ submitting \in [Node -> SUBSET Request]
    /\ waiting \in [Node -> SUBSET Request]
    /\ forwards \in [Request -> 0 .. MaxForwards]
    /\ result \in [Request -> {"none", "ok", "failed"}]
    /\ sent \in SUBSET Message
    /\ seen \in [Node -> SUBSET Message]
    /\ executed \in [Node -> SUBSET Execution]

\* NewPBFTNode on every validator; node0 is started with -primary.
Init ==
    /\ view = [n \in Node |-> 0]
    /\ sequence = [n \in Node |-> 0]
    /\ state = [n \in Node |-> "IDLE"]
    /\ isPrimary = [n \in Node |-> n = Primary(0)]
    /\ pending = [n \in Node |-> FALSE]
    /\ requestLog = [n \in Node |-> [s \in Sequence |-> None]]
    /\ prepareLog = [n \in Node |-> [s \in Sequence |-> {}]]
    /\ commitLog = [n \in Node |-> [s \in Sequence |-> {}]]
    /\ viewChangeLog = [n \in Node |-> [v \in View |-> {}]]
    /\ checkpoints = [n \in Node |-> {}]
    /\ checkpointVotes = [n \in Node |-> [s \in Sequence |-> {}]]
    /\ lastStable = [n \in Node |-> 0]
    /\ callbacks = [n \in Node |-> {}]
    /\ failing = {}
    /\ submitting = [n \in Node |-> {}]
    /\ waiting = [n \in Node |-> {}]
    /\ forwards = [r \in Request |-> 0]
    /\ result = [r \in Request |-> "none"]
    /\ sent = {}
    /\ seen = [n \in Node |-> {}]
    /\ executed = [n \in Node |-> {}]

(***************************************************************************)
(* Helpers.                                                                *)
(***************************************************************************)
IsQuorum(votes) == Cardinality(votes) >= Quorum

\* The messages that can still reach node n, its own PRE-PREPARE included.
Incoming(n) ==
    {m \in sent \ seen[n] : n \in Peers[m.node] \/ (m.node = n /\ m.type = "PRE_PREPARE")}

Broadcast(messages) == sent' = sent \cup messages

\* The message is used up: no other copy of it is on its way to node n.
Consume(n, m) == seen' = [seen EXCEPT ![n] = @ \cup {m}]

\* The entries of a log up to a key are deleted; absent is the empty entry.
DropUpTo(log, key, absent) ==
    [k \in DOMAIN log |-> IF k <= key THEN absent ELSE log[k]]

\* Connections come and go: what GetPeerCount() may answer.
PeerCount(n) == 0 .. Cardinality(Peers[n])

\* ProposeRequest's peer check; main.go makes the same one before it.
EnoughPeers(peers) == N = 1 \/ peers + 1 >= Quorum

\* Mutant of invokeCallback: the callback is not deleted.
invokeCallbackKeeps(n, req, ok) ==
    /\ UNCHANGED callbacks
    /\ result' = IF req \in callbacks[n]
                 THEN [result EXCEPT ![req] = IF ok THEN "ok" ELSE "failed"]
                 ELSE result

\* invokeCallback: call and forget the callback of req, if n has one.
invokeCallback(n, req, ok) ==
    /\ callbacks' = [callbacks EXCEPT ![n] = @ \ {req}]
    /\ result' = IF req \in callbacks[n]
                 THEN [result EXCEPT ![req] = IF ok THEN "ok" ELSE "failed"]
                 ELSE result

\* createCheckpoint: keep the checkpoint and count the node's own vote for it.
createCheckpoint(n, s) ==
    /\ checkpoints' = [checkpoints EXCEPT ![n] = @ \cup {s}]
    /\ checkpointVotes' = [checkpointVotes EXCEPT ![n][s] = @ \cup {n}]

\* Mutant of dropExecuted: the executed request stays in the log.
dropExecutedNever(n, s, req, ok) == requestLog' = [requestLog EXCEPT ![n][s] = req]

\* The executed request leaves the log; a request whose handler fails stays.
dropExecuted(n, s, req, ok) ==
    requestLog' = [requestLog EXCEPT ![n][s] = IF ok THEN None ELSE req]

(***************************************************************************)
(* executeRequest, called by a handler that broadcasts the messages out.   *)
(* A failing handler leaves the request in the log and the node COMMITTED. *)
(***************************************************************************)
executeRequest(n, s, req, out) ==
    \E ok \in HandlerResults :
      LET atInterval == ok /\ s % CheckpointInterval = 0
          ckpt == [type |-> "CHECKPOINT", seq |-> s, node |-> n]
      IN /\ state' = [state EXCEPT ![n] = IF ok THEN "IDLE" ELSE "COMMITTED"]
         /\ pending' = [pending EXCEPT ![n] = @ /\ ~ok]
         /\ dropExecuted(n, s, req, ok)
         /\ invokeCallback(n, req, ok)
         /\ IF atInterval THEN createCheckpoint(n, s)
                          ELSE UNCHANGED <<checkpoints, checkpointVotes>>
         /\ Broadcast(out \cup IF atInterval THEN {ckpt} ELSE {})
         /\ executed' = [executed EXCEPT ![n] = @ \cup
                {[seq |-> s, view |-> view[n], req |-> req, ok |-> ok]}]

\* The handler ends without executing: the request and the phase it leaves.
holdRequest(n, s, req, phase, out) ==
    /\ requestLog' = [requestLog EXCEPT ![n][s] = req]
    /\ state' = [state EXCEPT ![n] = phase]
    /\ Broadcast(out)
    /\ UNCHANGED <<pending, callbacks, result, checkpoints, checkpointVotes, executed>>

(***************************************************************************)
(* The common end of the three handlers.  moves: the handler runs          *)
(* moveToCommitPhase, which votes with the digest it was called with.      *)
(***************************************************************************)
finish(n, m, req, prepares, commits, moves, executes, phase, own) ==
    LET commit == PhaseMsg("COMMIT", view[n], m.seq, m.req, n)
        out == own \cup IF moves THEN {commit} ELSE {}
    IN /\ prepareLog' = [prepareLog EXCEPT ![n][m.seq] = prepares]
       /\ commitLog' = [commitLog EXCEPT ![n][m.seq] = commits]
       /\ IF executes
          THEN executeRequest(n, m.seq, req, out)
          ELSE holdRequest(n, m.seq, req, IF moves THEN "COMMIT" ELSE phase, out)
       /\ UNCHANGED <<viewVars, sequence, lastStable, apiVars>>

\* Mutant of handlePrePrepare: votes that arrived early are not counted.
handlePrePrepareNoRecheck(n, m) ==
    /\ m.type = "PRE_PREPARE"
    /\ m.view = view[n]
    /\ Consume(n, m)
    /\ finish(n, m, m.req, prepareLog[n][m.seq] \cup {n}, commitLog[n][m.seq], FALSE, FALSE,
              "PREPARE", {PhaseMsg("PREPARE", m.view, m.seq, m.req, n)})

\* Mutant of handlePrePrepare: a prepare quorum is taken for a commit quorum.
handlePrePrepareSkipsCommit(n, m) ==
    LET prepares == prepareLog[n][m.seq] \cup {n}
        moves == IsQuorum(prepares)
        commits == commitLog[n][m.seq] \cup IF moves THEN {n} ELSE {}
    IN /\ m.type = "PRE_PREPARE"
       /\ m.view = view[n]
       /\ Consume(n, m)
       /\ finish(n, m, m.req, prepares, commits, moves, moves \/ IsQuorum(commits),
                 "PREPARE", {PhaseMsg("PREPARE", m.view, m.seq, m.req, n)})

\* handlePrePrepare, from the network or as the second half of ProposeRequest.
handlePrePrepare(n, m) ==
    LET prepares == prepareLog[n][m.seq] \cup {n}
        moves == IsQuorum(prepares)
        commits == commitLog[n][m.seq] \cup IF moves THEN {n} ELSE {}
    IN /\ m.type = "PRE_PREPARE"
       /\ m.view = view[n]
       /\ Consume(n, m)
       /\ finish(n, m, m.req, prepares, commits, moves, IsQuorum(commits),
                 "PREPARE", {PhaseMsg("PREPARE", m.view, m.seq, m.req, n)})

\* Mutant of HandlePrepare: the view of the vote is not checked.
HandlePrepareAnyView(n, m) ==
    LET prepares == prepareLog[n][m.seq] \cup {m.node}
        moves == IsQuorum(prepares) /\ requestLog[n][m.seq] # None
        commits == commitLog[n][m.seq] \cup IF moves THEN {n} ELSE {}
    IN /\ m.type = "PREPARE"
       /\ finish(n, m, requestLog[n][m.seq], prepares, commits, moves,
                 moves /\ IsQuorum(commits), state[n], {})
       /\ UNCHANGED seen

HandlePrepare(n, m) ==
    LET prepares == prepareLog[n][m.seq] \cup {m.node}
        moves == IsQuorum(prepares) /\ requestLog[n][m.seq] # None
        commits == commitLog[n][m.seq] \cup IF moves THEN {n} ELSE {}
    IN /\ m.type = "PREPARE"
       /\ m.view = view[n]
       /\ finish(n, m, requestLog[n][m.seq], prepares, commits, moves,
                 moves /\ IsQuorum(commits), state[n], {})
       /\ UNCHANGED seen

\* Mutant of HandleCommit: executes one vote short of the quorum.
HandleCommitEarly(n, m) ==
    LET commits == commitLog[n][m.seq] \cup {m.node}
        executes == Cardinality(commits) >= 2 * f /\ requestLog[n][m.seq] # None
    IN /\ m.type = "COMMIT"
       /\ m.view = view[n]
       /\ finish(n, m, requestLog[n][m.seq], prepareLog[n][m.seq], commits,
                 FALSE, executes, state[n], {})
       /\ UNCHANGED seen

HandleCommit(n, m) ==
    LET commits == commitLog[n][m.seq] \cup {m.node}
        executes == IsQuorum(commits) /\ requestLog[n][m.seq] # None
    IN /\ m.type = "COMMIT"
       /\ m.view = view[n]
       /\ finish(n, m, requestLog[n][m.seq], prepareLog[n][m.seq], commits,
                 FALSE, executes, state[n], {})
       /\ UNCHANGED seen

\* "view mismatch": a proposal for a view still to come is dropped for good.
\* (Dropping any other message of another view leaves no trace.)
RejectPrePrepare(n, m) ==
    /\ m.type = "PRE_PREPARE"
    /\ m.view > view[n]
    /\ Consume(n, m)
    /\ UNCHANGED <<viewVars, sequence, state, pending, logVars, checkpointVars,
                   clientVars, sent, executed>>

\* Mutant of ProposeRequest: the sequence number is not used up.
ProposeRequestSameSequence(n, req) ==
    LET s == sequence[n] + 1
    IN /\ isPrimary[n]
       /\ \E peers \in PeerCount(n) : EnoughPeers(peers)
       /\ s <= MaxSequence
       /\ requestLog' = [requestLog EXCEPT ![n][s] = req]
       /\ Broadcast({PhaseMsg("PRE_PREPARE", view[n], s, req, n)})
       /\ UNCHANGED <<viewVars, sequence, state, pending, prepareLog, commitLog,
                      checkpointVars, result, waiting, forwards, executed>>

(***************************************************************************)
(* ProposeRequest up to the unlock.  The PRE-PREPARE goes to the peers and *)
(* to the node's own call of handlePrePrepare, which locks again later.    *)
(***************************************************************************)
ProposeRequest(n, req) ==
    LET s == sequence[n] + 1
    IN /\ isPrimary[n]
       /\ \E peers \in PeerCount(n) : EnoughPeers(peers)
       /\ s <= MaxSequence
       /\ sequence' = [sequence EXCEPT ![n] = s]
       /\ requestLog' = [requestLog EXCEPT ![n][s] = req]
       /\ Broadcast({PhaseMsg("PRE_PREPARE", view[n], s, req, n)})
       /\ UNCHANGED <<viewVars, state, pending, prepareLog, commitLog,
                      checkpointVars, result, waiting, forwards, executed>>

\* ProposeRequest returns an error: not the primary (any more), or too few peers.
ProposeFails(n) ==
    /\ ~isPrimary[n] \/ \E peers \in PeerCount(n) : ~EnoughPeers(peers)
    /\ UNCHANGED <<viewVars, sequence, state, pending, logVars, checkpointVars,
                   result, waiting, forwards, sent, executed>>

\* HandleNetworkMessage, case CLIENT_REQUEST.  The primary proposes again for
\* every copy it receives; the others arm their timer (NotifyPendingRequest).
\* A node may stop being the primary between the test and ProposeRequest.
HandleClientRequest(n, m) ==
    /\ m.type = "CLIENT_REQUEST"
    /\ Consume(n, m)
    /\ UNCHANGED <<callbacks, submitting>>
    /\ \/ /\ ~isPrimary[n]
          /\ pending' = [pending EXCEPT ![n] = TRUE]
          /\ UNCHANGED <<viewVars, sequence, state, logVars, checkpointVars,
                         result, waiting, forwards, sent, executed>>
       \/ ProposeRequest(n, m.req)
       \/ ProposeFails(n)

(***************************************************************************)
(* View changes.  Both forms leave the request, prepare and commit logs as *)
(* they are, and fail the callbacks only after releasing the mutex.        *)
(***************************************************************************)
\* Mutant of enterView: the primary role moves on, the view does not.
enterViewKeepsView(n, v) ==
    /\ isPrimary' = [isPrimary EXCEPT ![n] = (n = Primary(v))]
    /\ state' = [state EXCEPT ![n] = "IDLE"]
    /\ pending' = [pending EXCEPT ![n] = FALSE]
    /\ failing' = failing \cup {n}
    /\ UNCHANGED view

\* Mutant of enterView: the view is incremented twice.
enterViewTwice(n, v) ==
    /\ view' = [view EXCEPT ![n] = v + 1]
    /\ isPrimary' = [isPrimary EXCEPT ![n] = (n = Primary(v + 1))]
    /\ state' = [state EXCEPT ![n] = "IDLE"]
    /\ pending' = [pending EXCEPT ![n] = FALSE]
    /\ failing' = failing \cup {n}

enterView(n, v) ==
    /\ view' = [view EXCEPT ![n] = v]
    /\ isPrimary' = [isPrimary EXCEPT ![n] = (n = Primary(v))]
    /\ state' = [state EXCEPT ![n] = "IDLE"]
    /\ pending' = [pending EXCEPT ![n] = FALSE]
    /\ failing' = failing \cup {n}

\* The view timer fires; a node with nothing in progress only restarts it.
initiateViewChange(n) ==
    LET v == view[n] + 1
    IN /\ state[n] # "IDLE" \/ pending[n]
       /\ v <= MaxView
       /\ enterView(n, v)
       /\ viewChangeLog' = [viewChangeLog EXCEPT ![n][v] = @ \cup {n}]
       /\ Broadcast({[type |-> "VIEW_CHANGE", view |-> v, node |-> n]})
       /\ UNCHANGED <<sequence, logVars, checkpointVars, clientVars, seen, executed>>

\* Votes for a view the node has reached are ignored.
HandleViewChange(n, m) ==
    /\ m.type = "VIEW_CHANGE"
    /\ m.view > view[n]
    /\ LET votes == viewChangeLog[n][m.view] \cup {m.node}
       IN \/ /\ ~IsQuorum(votes)
             /\ viewChangeLog' = [viewChangeLog EXCEPT ![n][m.view] = votes]
             /\ UNCHANGED <<view, isPrimary, failing, state, pending>>
          \/ /\ IsQuorum(votes)
             /\ enterView(n, m.view)
             /\ viewChangeLog' = [viewChangeLog EXCEPT ![n] = DropUpTo(@, m.view, {})]
    /\ UNCHANGED <<sequence, logVars, checkpointVars, clientVars, sent, seen, executed>>

\* Mutant of failPendingCallbacks: the callbacks are told success.
failPendingCallbacksOk(n) ==
    /\ n \in failing
    /\ failing' = failing \ {n}
    /\ result' = [r \in Request |-> IF r \in callbacks[n] THEN "ok" ELSE result[r]]
    /\ callbacks' = [callbacks EXCEPT ![n] = {}]
    /\ UNCHANGED <<view, isPrimary, viewChangeLog, sequence, state, pending, logVars,
                   checkpointVars, apiVars, sent, seen, executed>>

failPendingCallbacks(n) ==
    /\ n \in failing
    /\ failing' = failing \ {n}
    /\ result' = [r \in Request |-> IF r \in callbacks[n] THEN "failed" ELSE result[r]]
    /\ callbacks' = [callbacks EXCEPT ![n] = {}]
    /\ UNCHANGED <<view, isPrimary, viewChangeLog, sequence, state, pending, logVars,
                   checkpointVars, apiVars, sent, seen, executed>>

(***************************************************************************)
(* Checkpoints.  The digest a checkpoint carries is the hash of its        *)
(* sequence number, so the votes for a sequence always agree.              *)
(***************************************************************************)
garbageCollect(n, upTo) ==
    /\ requestLog' = [requestLog EXCEPT ![n] = DropUpTo(@, upTo, None)]
    /\ prepareLog' = [prepareLog EXCEPT ![n] = DropUpTo(@, upTo, {})]
    /\ commitLog' = [commitLog EXCEPT ![n] = DropUpTo(@, upTo, {})]
    /\ checkpoints' = [checkpoints EXCEPT ![n] = {s \in @ : s >= upTo}]

\* Mutant of isStable: one vote short of the quorum.
isStableEarly(votes) == Cardinality(votes) >= 2 * f

\* 2f+1 matching checkpoints (those of one sequence always match).
isStable(votes) == IsQuorum(votes)

\* Votes at or below the last stable checkpoint are ignored.
HandleCheckpoint(n, m) ==
    /\ m.type = "CHECKPOINT"
    /\ m.seq > lastStable[n]
    /\ LET votes == checkpointVotes[n][m.seq] \cup {m.node}
       IN \/ /\ ~isStable(votes)
             /\ checkpointVotes' = [checkpointVotes EXCEPT ![n][m.seq] = votes]
             /\ UNCHANGED <<checkpoints, lastStable, logVars>>
          \/ /\ isStable(votes)
             /\ lastStable' = [lastStable EXCEPT ![n] = m.seq]
             /\ garbageCollect(n, m.seq)
             /\ checkpointVotes' = [checkpointVotes EXCEPT ![n] = DropUpTo(@, m.seq, {})]
    /\ UNCHANGED <<viewVars, sequence, state, pending, clientVars, sent, seen, executed>>

(***************************************************************************)
(* The API calls of cmd/validator that drive the node (ValidateTicket).    *)
(***************************************************************************)
\* The request has not been handed to any node yet.
Fresh(r) ==
    /\ forwards[r] = 0 /\ result[r] = "none"
    /\ \A n \in Node : r \notin callbacks[n]

\* On the primary, with enough peers: register the callback ...
SubmitToPrimary(n, r) ==
    /\ isPrimary[n] /\ Fresh(r)
    /\ \E peers \in PeerCount(n) : EnoughPeers(peers)
    /\ callbacks' = [callbacks EXCEPT ![n] = @ \cup {r}]
    /\ submitting' = [submitting EXCEPT ![n] = @ \cup {r}]
    /\ UNCHANGED <<viewVars, sequence, state, pending, logVars, checkpointVars, result,
                   waiting, forwards, sent, seen, executed>>

\* ... and propose.  When that fails the callback stays registered.
ProposeSubmitted(n, r) ==
    /\ r \in submitting[n]
    /\ submitting' = [submitting EXCEPT ![n] = @ \ {r}]
    /\ ProposeRequest(n, r) \/ ProposeFails(n)
    /\ UNCHANGED <<callbacks, seen>>

\* Elsewhere: broadcast a CLIENT_REQUEST, arm the own timer, wait; the
\* broadcast is repeated while the call waits.
ForwardRequest(n, r) ==
    /\ \/ ~isPrimary[n] /\ Fresh(r) /\ pending' = [pending EXCEPT ![n] = TRUE]
       \/ r \in waiting[n] /\ UNCHANGED pending
    /\ Peers[n] # {}
    /\ forwards[r] < MaxForwards
    /\ forwards' = [forwards EXCEPT ![r] = @ + 1]
    /\ waiting' = [waiting EXCEPT ![n] = @ \cup {r}]
    /\ Broadcast({[type |-> "CLIENT_REQUEST", req |-> r, copy |-> forwards'[r], node |-> n]})
    /\ UNCHANGED <<viewVars, sequence, state, logVars, checkpointVars,
                   callbacks, result, submitting, seen, executed>>

\* The wait ends: the ticket is validated here, by the node's own execution or by
\* the state update of a node that executed (ClearPendingRequest), or the deadline
\* passes and the pending flag stays as it is.
EndWait(n, r) ==
    /\ r \in waiting[n]
    /\ waiting' = [waiting EXCEPT ![n] = @ \ {r}]
    /\ \/ /\ \E k \in Node : \E e \in executed[k] : e.req = r /\ e.ok
          /\ pending' = [pending EXCEPT ![n] = FALSE]
       \/ UNCHANGED pending
    /\ UNCHANGED <<viewVars, sequence, state, logVars, checkpointVars, callbacks,
                   result, submitting, forwards, sent, seen, executed>>

Deliver(n, m) ==
    \/ handlePrePrepare(n, m)
    \/ HandlePrepare(n, m)
    \/ HandleCommit(n, m)
    \/ RejectPrePrepare(n, m)
    \/ HandleClientRequest(n, m)
    \/ HandleViewChange(n, m)
    \/ HandleCheckpoint(n, m)

Next ==
    \E n \in Node :
        \/ \E m \in Incoming(n) : Deliver(n, m)
        \/ initiateViewChange(n)
        \/ failPendingCallbacks(n)
        \/ \E r \in Request :
              \/ SubmitToPrimary(n, r)
              \/ ProposeSubmitted(n, r)
              \/ ForwardRequest(n, r)
              \/ EndWait(n, r)

Spec == Init /\ [][Next]_vars

\* The node has the vote already: only a repetition of it can still arrive.
Stored(n, m) ==
    \/ m.type = "PREPARE" /\ m.node \in prepareLog[n][m.seq]
    \/ m.type = "COMMIT" /\ m.node \in commitLog[n][m.seq]
    \/ m.type = "VIEW_CHANGE" /\ m.node \in viewChangeLog[n][m.view]
    \/ m.type = "CHECKPOINT" /\ m.node \in checkpointVotes[n][m.seq]

\* Connections deliver what they accept and the handlers' goroutines run: a node
\* that has something new to handle eventually handles it.  Nothing is delivered
\* a second time for sure.
Fairness ==
    \A n \in Node : WF_vars(\E m \in Incoming(n) : ~Stored(n, m) /\ Deliver(n, m))

FairSpec == Spec /\ Fairness

-----------------------------------------------------------------------------
(***************************************************************************)
(* Properties.                                                             *)
(***************************************************************************)
PhaseMessages == {m \in sent : m.type \in {"PRE_PREPARE", "PREPARE", "COMMIT"}}
Proposals == {m \in sent : m.type = "PRE_PREPARE"}
Commits == {m \in sent : m.type = "COMMIT"}

\* The nodes with a vote among msgs at sequence s, in view v or earlier, for any
\* request.
Voters(msgs, type, v, s) ==
    {n \in Node : \E m \in msgs : m.type = type /\ m.view <= v /\ m.seq = s /\ m.node = n}

\* The nodes that voted for this very request in this very view.
VotersFor(msgs, type, v, s, req) ==
    {n \in Node : PhaseMsg(type, v, s, req, n) \in msgs}

\* No two different requests are proposed for the same view and sequence:
\* only node<view % n> believes to be the primary of a view, and ProposeRequest
\* takes a new sequence number every time, also over view changes.
ProposalUnique ==
    \A p, q \in Proposals : p.view = q.view /\ p.seq = q.seq => p = q

\* A vote is only cast for what was proposed: every PREPARE and COMMIT of a view
\* carries the digest of the view's proposal for that sequence, whatever
\* leftovers of earlier views the voter's logs hold.
VotesMatchProposal ==
    \A m \in PhaseMessages :
        PhaseMsg("PRE_PREPARE", m.view, m.seq, m.req, Primary(m.view)) \in sent

\* executeRequest only runs a request that the primary of this or an earlier
\* view proposed for this sequence, and only once 2f+1 nodes have sent a PREPARE
\* and 2f+1 nodes a COMMIT for the sequence, in this or an earlier view.
\* (checkQuorum counts votes of any view and digest: across views this is all.)
QuorumBacked ==
    \A n \in Node : \A e \in executed[n] :
        /\ \E v \in 0 .. e.view :
              PhaseMsg("PRE_PREPARE", v, e.seq, e.req, Primary(v)) \in sent
        /\ IsQuorum(Voters(sent, "PREPARE", e.view, e.seq))
        /\ IsQuorum(Voters(sent, "COMMIT", e.view, e.seq))

\* In the first view an execution has the full PBFT certificate: 2f+1 nodes
\* sent COMMIT for this request, each after 2f+1 PREPAREs for it.
FirstViewCertificate ==
    \A n \in Node : \A e \in executed[n] :
        e.view = 0 => /\ IsQuorum(VotersFor(sent, "COMMIT", 0, e.seq, e.req))
                      /\ IsQuorum(VotersFor(sent, "PREPARE", 0, e.seq, e.req))

\* Nodes that execute a sequence in the first view execute the same request.
FirstViewAgreement ==
    \A n, k \in Node : \A e \in executed[n], d \in executed[k] :
        e.view = 0 /\ d.view = 0 /\ e.seq = d.seq => e.req = d.req

\* In the first view a backup that has executed a sequence never holds a request
\* for it again, so late or repeated votes cannot make it execute twice.
BackupExecutesOnce ==
    \A n \in Node \ {Primary(0)} : \A e \in executed[n] :
        e.ok /\ e.view = 0 /\ view[n] = 0 => requestLog[n][e.seq] = None

\* The nodes that executed sequence s.
Executors(s) == {k \in Node : \E e \in executed[k] : e.seq = s /\ e.ok}

\* A checkpoint becomes stable, and the logs below it are collected, only after
\* 2f+1 nodes have executed its sequence.
StableIsExecuted ==
    \A n \in Node : lastStable[n] > 0 =>
        IsQuorum(Executors(lastStable[n]))

\* The callback of a request reports success only after the request was executed.
SuccessIsExecuted ==
    \A r \in Request : result[r] = "ok" =>
        \E n \in Node : \E e \in executed[n] : e.req = r /\ e.ok

\* What a node has moved past it never returns to: views and stable checkpoints
\* only grow, and a callback that was answered keeps its answer.
NeverBack ==
    [][/\ \A n \in Node : view'[n] >= view[n] /\ lastStable'[n] >= lastStable[n]
       /\ \A r \in Request : result[r] # "none" => result'[r] = result[r]]_vars

\* Without timeouts every proposal is executed by every node that hears from all
\* the others, in whatever order the messages arrive (checkpoints excepted).
ProposalExecuted ==
    \A s \in Sequence, r \in Request, n \in Node :
        (PhaseMsg("PRE_PREPARE", 0, s, r, Primary(0)) \in sent /\ Cardinality(Peers[n]) + 1 >= Quorum)
            ~> (\E e \in executed[n] : e.seq = s /\ e.req = r)

\* README, Message Flow: "Prepare (replicas validate and vote; wait for 2f+1)":
\* a node votes COMMIT for a request only after 2f+1 nodes voted PREPARE for it.
CommitAfterPrepareQuorum ==
    \A m \in Commits : IsQuorum(VotersFor(sent, "PREPARE", m.view, m.seq, m.req))

\* pbft.go, HandleViewChange: "Fail pending callbacks outside the lock -- old view
\* consensus won't complete": a request reported as failed is not executed.
FailedIsNotExecuted ==
    \A r \in Request : result[r] = "failed" =>
        \A n \in Node : \A e \in executed[n] : e.req # r

\* README, Message Flow: "Execute (all nodes apply the state change locally)": a
\* proposal that a node accepted leaves its log by being executed there.
CollectedIsExecuted ==
    \A n \in Node : \A p \in seen[n] :
        p.type = "PRE_PREPARE" /\ requestLog[n][p.seq] = None => n \in Executors(p.seq)

-----------------------------------------------------------------------------
(***************************************************************************)
(* The parts of the inductive invariant behind these properties.           *)
(***************************************************************************)
\* Whether a node takes itself for the primary follows from its view alone.
PrimaryOfView == \A n \in Node : isPrimary[n] <=> n = Primary(view[n])

\* A proposal comes from the primary of its view, which has been in that view
\* and has used up its sequence number.
ProposalSource ==
    \A p \in Proposals :
        /\ p.node = Primary(p.view)
        /\ p.view <= view[p.node]
        /\ p.seq <= sequence[p.node]

\* Every request in a log was proposed for its sequence, in a view not ahead of
\* the node's.
LoggedIsProposed ==
    \A n \in Node, s \in Sequence : requestLog[n][s] # None =>
        \E v \in 0 .. view[n] :
            PhaseMsg("PRE_PREPARE", v, s, requestLog[n][s], Primary(v)) \in sent

\* Every vote in a log was cast, in a view not ahead of the node's.
LoggedIsCast ==
    \A n \in Node, s \in Sequence :
        /\ prepareLog[n][s] \subseteq Voters(sent, "PREPARE", view[n], s)
        /\ commitLog[n][s] \subseteq Voters(sent, "COMMIT", view[n], s)

\* Who votes COMMIT has seen 2f+1 PREPAREs for the sequence.
CommitIsPrepared ==
    \A m \in Commits : IsQuorum(Voters(sent, "PREPARE", m.view, m.seq))

\* A checkpoint vote, sent or stored, comes from a node that executed it.
CheckpointIsExecuted ==
    /\ \A m \in sent : m.type = "CHECKPOINT" => m.node \in Executors(m.seq)
    /\ \A n \in Node, s \in Sequence : checkpointVotes[n][s] \subseteq Executors(s)

\* A registered callback has not been answered, and only one node holds it.
CallbackIsOpen ==
    \A n, k \in Node : \A r \in callbacks[n] :
        result[r] = "none" /\ (r \in callbacks[k] => k = n)

ConsensusInv ==
    /\ PrimaryOfView /\ ProposalSource /\ ProposalUnique /\ VotesMatchProposal
    /\ LoggedIsProposed /\ LoggedIsCast /\ CommitIsPrepared /\ QuorumBacked

\* In the first view a backup only holds and only executes proposals of the primary
\* that it has dealt with: none of them can arrive a second time.
AcceptedIsSeen ==
    \A n \in Node \ {Primary(0)} :
        /\ \A s \in Sequence : view[n] = 0 /\ requestLog[n][s] # None =>
              PhaseMsg("PRE_PREPARE", 0, s, requestLog[n][s], Primary(0)) \in seen[n]
        /\ \A e \in executed[n] : e.view = 0 =>
              PhaseMsg("PRE_PREPARE", 0, e.seq, e.req, Primary(0)) \in seen[n]

BackupInv == AcceptedIsSeen /\ BackupExecutesOnce

CheckpointInv == CheckpointIsExecuted /\ StableIsExecuted

CallbackInv == CallbackIsOpen /\ SuccessIsExecuted
=============================================================================
