----------------------------- MODULE PBFTLemmas -----------------------------
(***************************************************************************)
(* Facts about the quorums, messages, logs and handlers of PBFT, for every *)
(* set of nodes, connection graph and bound; its type correctness; and what*)
(* ProposeRequest and the quiet steps do to the consensus invariant.       *)
(***************************************************************************)
EXTENDS PBFT, FiniteSetTheorems, TLAPS

\* The size of the network, its quorum and the primary of a view make sense.
LEMMA Arithmetic ==
    /\ N \in Nat \ {0} /\ f \in Nat /\ Quorum \in Nat \ {0}
    /\ \A v \in View : v \in Nat /\ Primary(v) \in Node
    /\ \A s \in Sequence : s \in Nat \ {0}
<1>1. N \in Nat \ {0}
  BY NodeAssumption, FS_CardinalityType, FS_EmptySet DEF N
<1>2. f \in Nat /\ Quorum \in Nat \ {0}
  BY <1>1, SMT DEF f, Quorum
<1>3. \A v \in Nat : v % N \in 0 .. N - 1
  BY <1>1, SMT
<1>4. \A v \in View : v \in Nat /\ Primary(v) \in Node
  BY <1>3, NodeAssumption, ConstantAssumption DEF View, Primary
<1> QED
  BY <1>1, <1>2, <1>4, ConstantAssumption DEF Sequence

\* Views and positions in the sequence are numbers that can be compared.
LEMMA NodeNumbers ==
    ASSUME TypeOK, NEW n \in Node
    PROVE  /\ view[n] \in View /\ view[n] \in Nat /\ view[n] <= MaxView /\ view[n] <= view[n]
           /\ sequence[n] \in Nat /\ sequence[n] <= MaxSequence
           /\ lastStable[n] \in Nat
<1>1. view[n] \in View /\ sequence[n] \in 0 .. MaxSequence /\ lastStable[n] \in 0 .. MaxSequence
  BY DEF TypeOK
<1> QED
  BY <1>1, ConstantAssumption DEF View

\* More votes do not undo a quorum.
LEMMA QuorumGrows ==
    ASSUME NEW S, NEW T \in SUBSET Node, S \subseteq T, IsQuorum(S)
    PROVE  IsQuorum(T)
<1>1. IsFiniteSet(T)
  BY NodeAssumption, FS_Subset
<1>2. IsFiniteSet(S) /\ Cardinality(S) <= Cardinality(T)
  BY <1>1, FS_Subset
<1>3. Cardinality(S) \in Nat /\ Cardinality(T) \in Nat
  BY <1>1, <1>2, FS_CardinalityType
<1> QED
  BY <1>2, <1>3, Arithmetic DEF IsQuorum

\* A message is identified by its fields.
LEMMA MessageShape ==
    ASSUME TypeOK, NEW m \in sent
    PROVE  /\ m.type \in {"PRE_PREPARE", "PREPARE", "COMMIT"} =>
                /\ m \in PhaseMessage
                /\ m = PhaseMsg(m.type, m.view, m.seq, m.req, m.node)
           /\ m.type = "VIEW_CHANGE" => m \in ViewChangeMessage
           /\ m.type = "CHECKPOINT" => m \in CheckpointMessage
           /\ m.type = "CLIENT_REQUEST" => m \in ClientMessage
           /\ m.node \in Node
<1>1. m \in Message
  BY DEF TypeOK
<1>2. CASE m \in PhaseMessage
  BY <1>2 DEF PhaseMessage, PhaseMsg
<1>3. CASE m \in ViewChangeMessage
  BY <1>3 DEF ViewChangeMessage
<1>4. CASE m \in CheckpointMessage
  BY <1>4 DEF CheckpointMessage
<1>5. CASE m \in ClientMessage
  BY <1>5 DEF ClientMessage
<1> QED
  BY <1>1, <1>2, <1>3, <1>4, <1>5 DEF Message

\* The fields of a three-phase message.
LEMMA VoteFields ==
    ASSUME TypeOK, NEW m \in sent, m.type \in {"PRE_PREPARE", "PREPARE", "COMMIT"}
    PROVE  /\ m.view \in View /\ m.view \in Nat /\ m.view <= m.view
           /\ m.seq \in Sequence /\ m.req \in Request /\ m.node \in Node
<1>1. m.view \in View /\ m.seq \in Sequence /\ m.req \in Request /\ m.node \in Node
  BY MessageShape DEF PhaseMessage
<1> QED
  BY <1>1, Arithmetic

\* The messages a node makes up are messages.
LEMMA PhaseMsgType ==
    ASSUME NEW type \in {"PRE_PREPARE", "PREPARE", "COMMIT"}, NEW v \in View,
           NEW s \in Sequence, NEW req \in Request, NEW n \in Node
    PROVE  /\ PhaseMsg(type, v, s, req, n) \in PhaseMessage
           /\ PhaseMsg(type, v, s, req, n) \in Message
BY DEF PhaseMsg, PhaseMessage, Message

\* One of the three phase handlers handles m: what it stores, whether it moves to
\* the commit phase and executes, and with which request.
Handled(n, m, req, prepares, commits, moves, executes, phase, own) ==
    /\ finish(n, m, req, prepares, commits, moves, executes, phase, own)
    /\ m \in PhaseMessages /\ m \in PhaseMessage /\ m.view = view[n]
    /\ \/ /\ m.type = "PRE_PREPARE" /\ req = m.req /\ Consume(n, m)
          /\ own = {PhaseMsg("PREPARE", m.view, m.seq, m.req, n)}
       \/ /\ m.type # "PRE_PREPARE" /\ req = requestLog[n][m.seq] /\ UNCHANGED seen
          /\ own = {}
    /\ \A k \in prepares \ prepareLog[n][m.seq] :
           PhaseMsg("PREPARE", m.view, m.seq, m.req, k) \in sent \cup own
    /\ \A k \in commits \ commitLog[n][m.seq] :
           \/ PhaseMsg("COMMIT", m.view, m.seq, m.req, k) \in sent
           \/ moves /\ k = n
    /\ moves => IsQuorum(prepares)
    /\ executes => IsQuorum(commits) /\ req \in Request

\* The step is a run of one of the three phase handlers.
PhaseStepOf(n, m) ==
    \E req \in Request \cup {None}, prepares \in SUBSET Node, commits \in SUBSET Node,
       moves \in BOOLEAN, executes \in BOOLEAN, phase \in Phase, own \in SUBSET Message :
          Handled(n, m, req, prepares, commits, moves, executes, phase, own)

\* handlePrePrepare, HandlePrepare and HandleCommit end alike (finish); they differ
\* in what they store, in the request they go on with and in what they require.
LEMMA PhaseCases ==
    ASSUME TypeOK, NEW n \in Node, NEW m \in Incoming(n),
           handlePrePrepare(n, m) \/ HandlePrepare(n, m) \/ HandleCommit(n, m)
    PROVE  PhaseStepOf(n, m)
<1>1. m \in PhaseMessages /\ m \in PhaseMessage /\ m.view = view[n]
  BY MessageShape DEF Incoming, PhaseMessages, handlePrePrepare, HandlePrepare, HandleCommit
<1>2. /\ m.seq \in Sequence /\ m.req \in Request /\ m.node \in Node /\ m \in sent
      /\ m = PhaseMsg(m.type, m.view, m.seq, m.req, m.node)
      /\ PhaseMsg("PREPARE", m.view, m.seq, m.req, n) \in Message
  BY <1>1, MessageShape, PhaseMsgType DEF PhaseMessage, PhaseMessages
<1>3. /\ prepareLog[n][m.seq] \in SUBSET Node /\ commitLog[n][m.seq] \in SUBSET Node
      /\ requestLog[n][m.seq] \in Request \cup {None} /\ state[n] \in Phase
      /\ "PREPARE" \in Phase
  BY <1>2 DEF TypeOK, Phase
<1>4. CASE handlePrePrepare(n, m)
  <2> DEFINE prepares == prepareLog[n][m.seq] \cup {n}
             moves == IsQuorum(prepares)
             commits == commitLog[n][m.seq] \cup IF moves THEN {n} ELSE {}
             executes == IsQuorum(commits)
             own == {PhaseMsg("PREPARE", m.view, m.seq, m.req, n)}
  <2>1. /\ m.type = "PRE_PREPARE" /\ Consume(n, m)
        /\ finish(n, m, m.req, prepares, commits, moves, executes, "PREPARE", own)
    BY <1>4 DEF handlePrePrepare
  <2>2. moves \in BOOLEAN /\ executes \in BOOLEAN
    BY DEF IsQuorum
  <2>3. /\ prepares \in SUBSET Node /\ commits \in SUBSET Node /\ own \in SUBSET Message
        /\ \A k \in prepares \ prepareLog[n][m.seq] :
              PhaseMsg("PREPARE", m.view, m.seq, m.req, k) \in sent \cup own
        /\ \A k \in commits \ commitLog[n][m.seq] : moves /\ k = n
        /\ moves => IsQuorum(prepares)
        /\ executes => IsQuorum(commits)
    BY <1>2, <1>3
  <2> HIDE DEF prepares, moves, commits, executes
  <2>4. Handled(n, m, m.req, prepares, commits, moves, executes, "PREPARE", own)
    BY <1>1, <1>2, <2>1, <2>3 DEF Handled
  <2> HIDE DEF own
  <2> QED
    BY <1>2, <1>3, <2>2, <2>3, <2>4 DEF PhaseStepOf
<1>5. CASE HandlePrepare(n, m)
  <2> DEFINE prepares == prepareLog[n][m.seq] \cup {m.node}
             moves == IsQuorum(prepares) /\ requestLog[n][m.seq] # None
             commits == commitLog[n][m.seq] \cup IF moves THEN {n} ELSE {}
             executes == moves /\ IsQuorum(commits)
             own == {}
             req == requestLog[n][m.seq]
  <2>1. /\ m.type = "PREPARE" /\ UNCHANGED seen
        /\ finish(n, m, req, prepares, commits, moves, executes, state[n], own)
    BY <1>5 DEF HandlePrepare
  <2>2. moves \in BOOLEAN /\ executes \in BOOLEAN
    BY DEF IsQuorum
  <2>3. /\ prepares \in SUBSET Node /\ commits \in SUBSET Node
        /\ own \in SUBSET Message /\ own = {} /\ req \in Request \cup {None}
        /\ \A k \in prepares \ prepareLog[n][m.seq] :
              PhaseMsg("PREPARE", m.view, m.seq, m.req, k) \in sent
        /\ \A k \in commits \ commitLog[n][m.seq] : moves /\ k = n
        /\ moves => IsQuorum(prepares)
        /\ executes => IsQuorum(commits) /\ req \in Request
    BY <1>2, <1>3, <2>1
  <2> HIDE DEF prepares, moves, commits, executes, own
  <2>4. Handled(n, m, req, prepares, commits, moves, executes, state[n], own)
    BY <1>1, <2>1, <2>3 DEF Handled
  <2> HIDE DEF req
  <2> QED
    BY <1>3, <2>2, <2>3, <2>4 DEF PhaseStepOf
<1>6. CASE HandleCommit(n, m)
  <2> DEFINE prepares == prepareLog[n][m.seq]
             moves == FALSE
             commits == commitLog[n][m.seq] \cup {m.node}
             executes == IsQuorum(commits) /\ requestLog[n][m.seq] # None
             own == {}
             req == requestLog[n][m.seq]
  <2>1. /\ m.type = "COMMIT" /\ UNCHANGED seen
        /\ finish(n, m, req, prepares, commits, moves, executes, state[n], own)
    BY Zenon, <1>6 DEF HandleCommit
  <2>2. moves \in BOOLEAN /\ executes \in BOOLEAN
    BY DEF IsQuorum
  <2>3. /\ prepares \in SUBSET Node /\ commits \in SUBSET Node
        /\ own \in SUBSET Message /\ own = {} /\ req \in Request \cup {None}
        /\ prepares = prepareLog[n][m.seq] /\ ~moves
        /\ \A k \in commits \ commitLog[n][m.seq] :
              PhaseMsg("COMMIT", m.view, m.seq, m.req, k) \in sent
        /\ executes => IsQuorum(commits) /\ req \in Request
    BY <1>2, <1>3, <2>1
  <2> HIDE DEF prepares, moves, commits, executes, own
  <2>4. Handled(n, m, req, prepares, commits, moves, executes, state[n], own)
    BY <1>1, <2>1, <2>3 DEF Handled
  <2> HIDE DEF req
  <2> QED
    BY <1>3, <2>2, <2>3, <2>4 DEF PhaseStepOf
<1> QED
  BY <1>4, <1>5, <1>6

\* Deleting the lower entries of a log leaves a log.
LEMMA DropUpToType ==
    ASSUME NEW D, NEW R, NEW log \in [D -> R], NEW key, NEW absent \in R
    PROVE  DropUpTo(log, key, absent) \in [D -> R]
BY DEF DropUpTo

\* An entry is left as it was or is deleted.
LEMMA DropUpToEntry ==
    ASSUME NEW D, NEW R, NEW log \in [D -> R], NEW key, NEW absent, NEW k \in D
    PROVE  DropUpTo(log, key, absent)[k] \in {log[k], absent}
BY DEF DropUpTo

\* The common end of the three handlers keeps every variable in its type.
LEMMA FinishType ==
    ASSUME TypeOK,
           NEW n \in Node, NEW m \in PhaseMessage, NEW req \in Request \cup {None},
           NEW prepares \in SUBSET Node, NEW commits \in SUBSET Node,
           NEW moves \in BOOLEAN, NEW executes \in BOOLEAN, NEW phase \in Phase,
           NEW own \in SUBSET Message,
           executes => req \in Request,
           finish(n, m, req, prepares, commits, moves, executes, phase, own),
           seen' \in [Node -> SUBSET Message]
    PROVE  TypeOK'
<1> DEFINE out == own \cup IF moves THEN {PhaseMsg("COMMIT", view[n], m.seq, m.req, n)} ELSE {}
<1>m. m.seq \in Sequence /\ m.req \in Request /\ m.view \in View
  BY DEF PhaseMessage
<1>1. out \in SUBSET Message
  <2>1. PhaseMsg("COMMIT", view[n], m.seq, m.req, n) \in Message
    BY <1>m, NodeNumbers, PhaseMsgType
  <2> QED
    BY <2>1
<1>2. /\ prepareLog' \in [Node -> [Sequence -> SUBSET Node]]
      /\ commitLog' \in [Node -> [Sequence -> SUBSET Node]]
  BY <1>m DEF finish, TypeOK
<1>3. CASE executes
  <2>1. PICK ok \in HandlerResults :
          LET atInterval == ok /\ m.seq % CheckpointInterval = 0
              ckpt == [type |-> "CHECKPOINT", seq |-> m.seq, node |-> n]
          IN /\ state' = [state EXCEPT ![n] = IF ok THEN "IDLE" ELSE "COMMITTED"]
             /\ pending' = [pending EXCEPT ![n] = @ /\ ~ok]
             /\ requestLog' = [requestLog EXCEPT ![n][m.seq] = IF ok THEN None ELSE req]
             /\ invokeCallback(n, req, ok)
             /\ IF atInterval THEN createCheckpoint(n, m.seq)
                              ELSE UNCHANGED <<checkpoints, checkpointVotes>>
             /\ Broadcast(out \cup IF atInterval THEN {ckpt} ELSE {})
             /\ executed' = [executed EXCEPT ![n] = @ \cup
                    {[seq |-> m.seq, view |-> view[n], req |-> req, ok |-> ok]}]
    BY <1>3 DEF finish, executeRequest, dropExecuted
  <2>a. ok \in BOOLEAN
    BY ConstantAssumption
  <2>2. /\ state' \in [Node -> Phase]
        /\ requestLog' \in [Node -> [Sequence -> Request \cup {None}]]
    BY <2>1, <1>m DEF TypeOK, Phase
  <2>3. pending' \in [Node -> BOOLEAN]
    BY <2>1, <2>a DEF TypeOK
  <2>4. callbacks' \in [Node -> SUBSET Request] /\ result' \in [Request -> {"none", "ok", "failed"}]
    BY <2>1, <1>3 DEF TypeOK, invokeCallback
  <2>5. /\ checkpoints' \in [Node -> SUBSET Sequence]
        /\ checkpointVotes' \in [Node -> [Sequence -> SUBSET Node]]
    <3>1. createCheckpoint(n, m.seq) \/ UNCHANGED <<checkpoints, checkpointVotes>>
      BY <2>1
    <3>2. CASE createCheckpoint(n, m.seq)
      <4>1. checkpoints' \in [Node -> SUBSET Sequence]
        BY <3>2, <1>m DEF TypeOK, createCheckpoint
      <4>2. checkpointVotes' \in [Node -> [Sequence -> SUBSET Node]]
        BY <3>2, <1>m DEF TypeOK, createCheckpoint
      <4> QED
        BY <4>1, <4>2
    <3>3. CASE UNCHANGED <<checkpoints, checkpointVotes>>
      BY <3>3 DEF TypeOK
    <3> QED
      BY <3>1, <3>2, <3>3
  <2>6. [type |-> "CHECKPOINT", seq |-> m.seq, node |-> n] \in Message
    BY <1>m DEF Message, CheckpointMessage
  <2>7. sent' \in SUBSET Message
    BY <2>1, <2>6, <1>1 DEF TypeOK, Broadcast
  <2>8. [seq |-> m.seq, view |-> view[n], req |-> req, ok |-> ok] \in Execution
    BY <1>m, <1>3, <2>a DEF Execution, TypeOK
  <2>9. executed' \in [Node -> SUBSET Execution]
    BY <2>1, <2>8 DEF TypeOK
  <2> QED
    BY <1>2, <2>2, <2>3, <2>4, <2>5, <2>7, <2>9 DEF TypeOK, finish, viewVars, apiVars
<1>4. CASE ~executes
  <2>1. holdRequest(n, m.seq, req, IF moves THEN "COMMIT" ELSE phase, out)
    BY <1>4 DEF finish
  <2>2. /\ state' \in [Node -> Phase]
        /\ requestLog' \in [Node -> [Sequence -> Request \cup {None}]]
        /\ sent' \in SUBSET Message
    BY <2>1, <1>m, <1>1 DEF TypeOK, Phase, holdRequest, Broadcast
  <2> QED
    BY <1>2, <2>1, <2>2 DEF TypeOK, finish, viewVars, apiVars, holdRequest
<1> QED
  BY <1>3, <1>4

\* ProposeRequest; its callers take care of the rest.
LEMMA ProposeType ==
    ASSUME TypeOK, NEW n \in Node, NEW req \in Request, ProposeRequest(n, req),
           seen' \in [Node -> SUBSET Message], callbacks' \in [Node -> SUBSET Request],
           submitting' \in [Node -> SUBSET Request]
    PROVE  TypeOK'
<1>1. sequence[n] + 1 \in Sequence
  BY ConstantAssumption DEF ProposeRequest, TypeOK, Sequence
<1>2. sequence' \in [Node -> 0 .. MaxSequence]
  BY <1>1 DEF ProposeRequest, TypeOK, Sequence
<1>3. requestLog' \in [Node -> [Sequence -> Request \cup {None}]]
  BY <1>1 DEF ProposeRequest, TypeOK
<1>4. sent' \in SUBSET Message
  <2>1. PhaseMsg("PRE_PREPARE", view[n], sequence[n] + 1, req, n) \in Message
    BY <1>1, NodeNumbers, PhaseMsgType
  <2> QED
    BY <2>1 DEF ProposeRequest, TypeOK, Broadcast
<1> QED
  BY <1>2, <1>3, <1>4 DEF ProposeRequest, TypeOK, viewVars, checkpointVars

\* HandleNetworkMessage and the handlers it calls.
LEMMA DeliverType ==
    ASSUME TypeOK, NEW n \in Node, NEW m \in Incoming(n), Deliver(n, m)
    PROVE  TypeOK'
<1>1. m \in sent /\ m \in Message
  BY DEF Incoming, TypeOK
<1>2. Consume(n, m) => seen' \in [Node -> SUBSET Message]
  BY <1>1 DEF Consume, TypeOK
<1>3. CASE handlePrePrepare(n, m) \/ HandlePrepare(n, m) \/ HandleCommit(n, m)
  <2>1. PICK req \in Request \cup {None}, prepares \in SUBSET Node, commits \in SUBSET Node,
             moves \in BOOLEAN, executes \in BOOLEAN, phase \in Phase, own \in SUBSET Message :
                Handled(n, m, req, prepares, commits, moves, executes, phase, own)
    BY <1>3, PhaseCases DEF PhaseStepOf
  <2>2. seen' \in [Node -> SUBSET Message]
    BY <1>2, <2>1 DEF Handled, TypeOK
  <2>3. /\ m \in PhaseMessage
        /\ executes => req \in Request
        /\ finish(n, m, req, prepares, commits, moves, executes, phase, own)
    BY <2>1 DEF Handled
  <2> QED
    BY <2>2, <2>3, FinishType
<1>4. CASE RejectPrePrepare(n, m)
  BY <1>2, <1>4 DEF RejectPrePrepare, TypeOK, viewVars, logVars, checkpointVars, clientVars, apiVars
<1>5. CASE HandleClientRequest(n, m)
  <2>1. /\ seen' \in [Node -> SUBSET Message] /\ callbacks' \in [Node -> SUBSET Request]
        /\ submitting' \in [Node -> SUBSET Request]
    BY <1>2, <1>5 DEF HandleClientRequest, TypeOK
  <2>2. m.req \in Request
    BY <1>1, <1>5, MessageShape DEF HandleClientRequest, ClientMessage
  <2>3. CASE ProposeRequest(n, m.req)
    BY <2>1, <2>2, <2>3, ProposeType
  <2>4. CASE ProposeFails(n)
    BY <2>1, <2>4 DEF ProposeFails, TypeOK, viewVars, logVars, checkpointVars
  <2>5. CASE /\ pending' = [pending EXCEPT ![n] = TRUE]
             /\ UNCHANGED <<viewVars, sequence, state, logVars, checkpointVars,
                            result, waiting, forwards, sent, executed>>
    BY <2>1, <2>5 DEF TypeOK, viewVars, logVars, checkpointVars
  <2> QED
    BY <1>5, <2>3, <2>4, <2>5 DEF HandleClientRequest
<1>6. CASE HandleViewChange(n, m)
  <2>1. m.view \in View /\ m.node \in Node
    BY <1>1, <1>6, MessageShape DEF HandleViewChange, ViewChangeMessage
  <2>2. /\ view' \in [Node -> View] /\ isPrimary' \in [Node -> BOOLEAN]
        /\ state' \in [Node -> Phase] /\ pending' \in [Node -> BOOLEAN]
        /\ failing' \in SUBSET Node
    BY Zenon, <1>6, <2>1 DEF HandleViewChange, enterView, TypeOK, Phase
  <2>3. DropUpTo(viewChangeLog[n], m.view, {}) \in [View -> SUBSET Node]
    BY Zenon, DropUpToType DEF TypeOK
  <2>4. viewChangeLog' \in [Node -> [View -> SUBSET Node]]
    <3>1. CASE viewChangeLog' = [viewChangeLog EXCEPT ![n][m.view] =
                                    viewChangeLog[n][m.view] \cup {m.node}]
      BY <3>1, <2>1 DEF TypeOK
    <3>2. CASE viewChangeLog' = [viewChangeLog EXCEPT ![n] = DropUpTo(@, m.view, {})]
      BY <3>2, <2>3 DEF TypeOK
    <3> QED
      BY <1>6, <3>1, <3>2 DEF HandleViewChange
  <2> QED
    BY <1>6, <2>2, <2>4 DEF HandleViewChange, TypeOK, logVars, checkpointVars, clientVars, apiVars
<1>7. CASE HandleCheckpoint(n, m)
  <2>1. m.seq \in Sequence /\ m.node \in Node
    BY <1>1, <1>7, MessageShape DEF HandleCheckpoint, CheckpointMessage
  <2> DEFINE votes == checkpointVotes[n][m.seq] \cup {m.node}
  <2>2. CASE /\ checkpointVotes' = [checkpointVotes EXCEPT ![n][m.seq] = votes]
             /\ UNCHANGED <<checkpoints, lastStable, logVars>>
    <3>1. checkpointVotes \in [Node -> [Sequence -> SUBSET Node]]
      BY DEF TypeOK
    <3>2. checkpointVotes' \in [Node -> [Sequence -> SUBSET Node]]
      BY <2>1, <2>2, <3>1
    <3> QED
      BY <1>7, <2>2, <3>2 DEF HandleCheckpoint, TypeOK, viewVars, clientVars, apiVars, logVars
  <2>3. CASE /\ lastStable' = [lastStable EXCEPT ![n] = m.seq]
             /\ garbageCollect(n, m.seq)
             /\ checkpointVotes' = [checkpointVotes EXCEPT ![n] = DropUpTo(@, m.seq, {})]
    <3>1. /\ DropUpTo(requestLog[n], m.seq, None) \in [Sequence -> Request \cup {None}]
          /\ DropUpTo(prepareLog[n], m.seq, {}) \in [Sequence -> SUBSET Node]
          /\ DropUpTo(commitLog[n], m.seq, {}) \in [Sequence -> SUBSET Node]
          /\ DropUpTo(checkpointVotes[n], m.seq, {}) \in [Sequence -> SUBSET Node]
      BY Zenon, DropUpToType DEF TypeOK
    <3>2. m.seq \in 0 .. MaxSequence
      BY <2>1 DEF Sequence
    <3> QED
      BY Zenon, <1>7, <2>3, <3>1, <3>2
      DEF HandleCheckpoint, garbageCollect, TypeOK, viewVars, clientVars, apiVars
  <2> QED
    BY <1>7, <2>2, <2>3 DEF HandleCheckpoint
<1> QED
  BY <1>3, <1>4, <1>5, <1>6, <1>7 DEF Deliver

\* Timeouts, API calls and the rest of Next.
LEMMA NextType == TypeOK /\ [Next]_vars => TypeOK'
<1> SUFFICES ASSUME TypeOK, [Next]_vars PROVE TypeOK'
  OBVIOUS
<1>1. CASE UNCHANGED vars
  BY <1>1 DEF TypeOK, vars, viewVars, logVars, checkpointVars, clientVars, apiVars
<1>2. ASSUME NEW n \in Node, NEW m \in Incoming(n), Deliver(n, m) PROVE TypeOK'
  BY <1>2, DeliverType
<1>3. ASSUME NEW n \in Node, initiateViewChange(n) PROVE TypeOK'
  <2>v. view[n] \in 0 .. MaxView /\ view[n] + 1 <= MaxView
    BY <1>3 DEF initiateViewChange, TypeOK, View
  <2>1. view[n] + 1 \in View
    BY <2>v DEF View
  <2>t. /\ view \in [Node -> View] /\ isPrimary \in [Node -> BOOLEAN]
        /\ state \in [Node -> Phase] /\ pending \in [Node -> BOOLEAN]
        /\ failing \in SUBSET Node /\ viewChangeLog \in [Node -> [View -> SUBSET Node]]
    BY DEF TypeOK
  <2>e. enterView(n, view[n] + 1)
    BY <1>3 DEF initiateViewChange
  <2>2. /\ view' \in [Node -> View] /\ isPrimary' \in [Node -> BOOLEAN]
        /\ state' \in [Node -> Phase] /\ pending' \in [Node -> BOOLEAN]
        /\ failing' \in SUBSET Node
    BY Zenon, <2>e, <2>1, <2>t DEF enterView, Phase
  <2>3. viewChangeLog' \in [Node -> [View -> SUBSET Node]]
    BY <1>3, <2>1, <2>t DEF initiateViewChange
  <2>4. sent' \in SUBSET Message
    <3>1. [type |-> "VIEW_CHANGE", view |-> view[n] + 1, node |-> n] \in Message
      BY <2>1 DEF Message, ViewChangeMessage
    <3>2. sent \in SUBSET Message
      BY DEF TypeOK
    <3> QED
      BY <1>3, <3>1, <3>2 DEF initiateViewChange, Broadcast
  <2> QED
    BY <1>3, <2>2, <2>3, <2>4 DEF initiateViewChange, TypeOK, logVars, checkpointVars, clientVars, apiVars
<1>4. ASSUME NEW n \in Node, failPendingCallbacks(n) PROVE TypeOK'
  BY <1>4 DEF failPendingCallbacks, TypeOK, logVars, checkpointVars, apiVars
<1>5. ASSUME NEW n \in Node, NEW r \in Request, SubmitToPrimary(n, r) PROVE TypeOK'
  BY <1>5 DEF SubmitToPrimary, TypeOK, viewVars, logVars, checkpointVars
<1>8. ASSUME NEW n \in Node, NEW r \in Request, ProposeSubmitted(n, r) PROVE TypeOK'
  <2>1. /\ seen' \in [Node -> SUBSET Message] /\ callbacks' \in [Node -> SUBSET Request]
        /\ submitting' \in [Node -> SUBSET Request]
    BY <1>8 DEF ProposeSubmitted, TypeOK
  <2>2. CASE ProposeRequest(n, r)
    BY <2>1, <2>2, ProposeType
  <2>3. CASE ProposeFails(n)
    BY <2>1, <2>3 DEF ProposeFails, TypeOK, viewVars, logVars, checkpointVars
  <2> QED
    BY <1>8, <2>2, <2>3 DEF ProposeSubmitted
<1>6. ASSUME NEW n \in Node, NEW r \in Request, ForwardRequest(n, r) PROVE TypeOK'
  <2>t. forwards \in [Request -> 0 .. MaxForwards] /\ sent \in SUBSET Message
    BY DEF TypeOK
  <2>1. forwards[r] + 1 \in 1 .. MaxForwards
    BY <2>t, <1>6, ConstantAssumption DEF ForwardRequest
  <2>f. forwards' = [forwards EXCEPT ![r] = @ + 1]
    BY <1>6 DEF ForwardRequest
  <2>2. forwards' \in [Request -> 0 .. MaxForwards] /\ forwards'[r] \in 1 .. MaxForwards
    BY <2>t, <2>f, <2>1
  <2>3. [type |-> "CLIENT_REQUEST", req |-> r, copy |-> forwards'[r], node |-> n] \in Message
    BY <2>2 DEF Message, ClientMessage
  <2>4. sent' \in SUBSET Message
    BY <2>t, <1>6, <2>3 DEF ForwardRequest, Broadcast
  <2>5. pending' \in [Node -> BOOLEAN] /\ waiting' \in [Node -> SUBSET Request]
    BY Zenon, <1>6 DEF ForwardRequest, TypeOK
  <2> QED
    BY Zenon, <1>6, <2>2, <2>4, <2>5 DEF ForwardRequest, TypeOK, viewVars, logVars, checkpointVars
<1>7. ASSUME NEW n \in Node, NEW r \in Request, EndWait(n, r) PROVE TypeOK'
  BY Zenon, <1>7 DEF EndWait, TypeOK, viewVars, logVars, checkpointVars
<1> QED
  BY <1>1, <1>2, <1>3, <1>4, <1>5, <1>6, <1>7, <1>8 DEF Next

\* NewPBFTNode leaves every variable in its type.
LEMMA InitType == Init => TypeOK
<1> SUFFICES ASSUME Init PROVE TypeOK
  OBVIOUS
<1>1. 0 \in View /\ 0 \in 0 .. MaxSequence /\ 0 \in 0 .. MaxForwards
  BY ConstantAssumption DEF View
<1> QED
  BY <1>1 DEF Init, TypeOK, Phase

\* Every reachable state of the consensus layer is well typed.
THEOREM TypeCorrect == Spec => []TypeOK
<1> QED
  BY InitType, NextType, PTL DEF Spec

\* Neither further messages nor a later view take a voter away.
LEMMA VotersGrow ==
    ASSUME TypeOK, NEW type \in {"PREPARE", "COMMIT"}, NEW v \in View, NEW w \in View,
           v <= w, NEW s, NEW more, sent \subseteq more
    PROVE  /\ Voters(sent, type, v, s) \subseteq Voters(more, type, w, s)
           /\ Voters(more, type, w, s) \in SUBSET Node
<1>1. \A m \in sent : m.type = type /\ m.view <= v => m.view <= w
  BY MessageShape DEF PhaseMessage, View
<1> QED
  BY <1>1 DEF Voters

\* What an execution rests on is never taken back.
LEMMA ExecutionsStayBacked ==
    ASSUME TypeOK, QuorumBacked, sent \subseteq sent',
           NEW n \in Node, NEW e \in executed[n]
    PROVE  /\ \E v \in 0 .. e.view :
                 PhaseMsg("PRE_PREPARE", v, e.seq, e.req, Primary(v)) \in sent'
           /\ IsQuorum(Voters(sent', "PREPARE", e.view, e.seq))
           /\ IsQuorum(Voters(sent', "COMMIT", e.view, e.seq))
<1>1. e.view \in View /\ e.view <= e.view
  BY Arithmetic DEF TypeOK, Execution
<1>2. /\ IsQuorum(Voters(sent, "PREPARE", e.view, e.seq))
      /\ IsQuorum(Voters(sent, "COMMIT", e.view, e.seq))
  BY DEF QuorumBacked
<1>3. /\ IsQuorum(Voters(sent', "PREPARE", e.view, e.seq))
      /\ IsQuorum(Voters(sent', "COMMIT", e.view, e.seq))
  BY <1>1, <1>2, VotersGrow, QuorumGrows
<1> QED
  BY <1>3 DEF QuorumBacked

\* A step that sends no three-phase message, only deletes log entries and never
\* lowers a view keeps the invariant: timeouts, VIEW-CHANGE and CHECKPOINT
\* messages, client calls.
LEMMA QuietStep ==
    ASSUME TypeOK, TypeOK', ConsensusInv,
           sent \subseteq sent',
           \A m \in sent' \ sent : m.type \notin {"PRE_PREPARE", "PREPARE", "COMMIT"},
           PrimaryOfView', \A n \in Node : view[n] <= view'[n],
           sequence' = sequence, executed' = executed,
           \A n \in Node, s \in Sequence :
               /\ requestLog'[n][s] \in {requestLog[n][s], None}
               /\ prepareLog'[n][s] \subseteq prepareLog[n][s]
               /\ commitLog'[n][s] \subseteq commitLog[n][s]
    PROVE  ConsensusInv'
<1> USE DEF ConsensusInv
<1>1. Proposals' = Proposals /\ PhaseMessages' = PhaseMessages /\ Commits' = Commits
  BY DEF Proposals, PhaseMessages, Commits
<1>2. ProposalSource'
  <2> SUFFICES ASSUME NEW p \in Proposals
               PROVE  p.node = Primary(p.view) /\ p.view <= view'[p.node] /\ p.seq <= sequence'[p.node]
    BY <1>1 DEF ProposalSource
  <2>1. p \in PhaseMessage
    BY MessageShape DEF Proposals
  <2>2. p.view \in Nat /\ p.node \in Node /\ view[p.node] \in Nat /\ view'[p.node] \in Nat
    BY <2>1, Arithmetic DEF PhaseMessage, TypeOK
  <2> QED
    BY <2>2 DEF ProposalSource
<1>3. ProposalUnique'
  BY <1>1 DEF ProposalUnique
<1>4. VotesMatchProposal'
  BY <1>1 DEF VotesMatchProposal
<1>5. LoggedIsProposed'
  <2> SUFFICES ASSUME NEW n \in Node, NEW s \in Sequence, requestLog'[n][s] # None
               PROVE  \E v \in 0 .. view'[n] :
                        PhaseMsg("PRE_PREPARE", v, s, requestLog'[n][s], Primary(v)) \in sent'
    BY DEF LoggedIsProposed
  <2>1. requestLog'[n][s] = requestLog[n][s]
    OBVIOUS
  <2>2. PICK v \in 0 .. view[n] :
          PhaseMsg("PRE_PREPARE", v, s, requestLog[n][s], Primary(v)) \in sent
    BY <2>1 DEF LoggedIsProposed
  <2>3. v \in 0 .. view'[n]
    <3>1. view'[n] \in View /\ view[n] \in Nat /\ view[n] <= view'[n]
      BY NodeNumbers DEF TypeOK
    <3>2. view'[n] \in Nat
      BY <3>1, Arithmetic
    <3> QED
      BY <3>1, <3>2
  <2> QED
    BY <2>1, <2>2, <2>3
<1>6. LoggedIsCast'
  <2> SUFFICES ASSUME NEW n \in Node, NEW s \in Sequence
               PROVE  /\ prepareLog'[n][s] \subseteq Voters(sent', "PREPARE", view'[n], s)
                      /\ commitLog'[n][s] \subseteq Voters(sent', "COMMIT", view'[n], s)
    BY DEF LoggedIsCast
  <2>1. view[n] \in View /\ view'[n] \in View
    BY DEF TypeOK
  <2>2. /\ Voters(sent, "PREPARE", view[n], s) \subseteq Voters(sent', "PREPARE", view'[n], s)
        /\ Voters(sent, "COMMIT", view[n], s) \subseteq Voters(sent', "COMMIT", view'[n], s)
    BY <2>1, VotersGrow
  <2> QED
    BY <2>2 DEF LoggedIsCast
<1>7. CommitIsPrepared'
  <2> SUFFICES ASSUME NEW m \in Commits
               PROVE  IsQuorum(Voters(sent', "PREPARE", m.view, m.seq))
    BY <1>1 DEF CommitIsPrepared
  <2>1. m.view \in View /\ m.view <= m.view
    BY VoteFields DEF Commits
  <2> DEFINE few == Voters(sent, "PREPARE", m.view, m.seq)
             all == Voters(sent', "PREPARE", m.view, m.seq)
  <2>2. IsQuorum(few)
    BY DEF CommitIsPrepared
  <2>3. few \subseteq all /\ all \in SUBSET Node
    BY <2>1, VotersGrow
  <2> HIDE DEF few, all
  <2>4. IsQuorum(all)
    BY <2>2, <2>3, QuorumGrows
  <2> QED
    BY <2>4 DEF all
<1>8. QuorumBacked'
  BY ExecutionsStayBacked DEF QuorumBacked
<1> QED
  BY <1>2, <1>3, <1>4, <1>5, <1>6, <1>7, <1>8

\* What the common end of the three handlers changes, as far as the consensus
\* invariant can see it.
FinishChanges(n, m, req, prepares, commits, moves, executes, own) ==
    /\ view' = view /\ isPrimary' = isPrimary /\ sequence' = sequence
    /\ prepareLog' = [prepareLog EXCEPT ![n][m.seq] = prepares]
    /\ commitLog' = [commitLog EXCEPT ![n][m.seq] = commits]
    /\ sent \cup own \subseteq sent'
    /\ moves => PhaseMsg("COMMIT", view[n], m.seq, m.req, n) \in sent'
    /\ \A x \in sent' \ sent :
          \/ x \in own
          \/ moves /\ x = PhaseMsg("COMMIT", view[n], m.seq, m.req, n)
          \/ x.type = "CHECKPOINT"
    /\ \A k \in Node, s \in Sequence :
          \/ requestLog'[k][s] \in {requestLog[k][s], None}
          \/ k = n /\ s = m.seq /\ requestLog'[k][s] = req
    /\ \A k \in Node : executed[k] \subseteq executed'[k]
    /\ \A k \in Node : \A e \in executed'[k] \ executed[k] :
          executes /\ k = n /\ e.seq = m.seq /\ e.view = view[n] /\ e.req = req

\* The common end of the handlers makes these changes and no others.
LEMMA FinishEffect ==
    ASSUME TypeOK, NEW n \in Node, NEW m, m.seq \in Sequence, NEW req, NEW prepares,
           NEW commits, NEW moves \in BOOLEAN, NEW executes \in BOOLEAN, NEW phase, NEW own,
           finish(n, m, req, prepares, commits, moves, executes, phase, own)
    PROVE  FinishChanges(n, m, req, prepares, commits, moves, executes, own)
<1> USE DEF FinishChanges
<1> DEFINE commit == PhaseMsg("COMMIT", view[n], m.seq, m.req, n)
           out == own \cup IF moves THEN {commit} ELSE {}
<1>1. /\ view' = view /\ isPrimary' = isPrimary /\ sequence' = sequence
      /\ prepareLog' = [prepareLog EXCEPT ![n][m.seq] = prepares]
      /\ commitLog' = [commitLog EXCEPT ![n][m.seq] = commits]
  BY DEF finish, viewVars
<1>2. CASE executes
  <2> DEFINE ckpt == [type |-> "CHECKPOINT", seq |-> m.seq, node |-> n]
  <2>1. PICK ok \in HandlerResults :
          LET atInterval == ok /\ m.seq % CheckpointInterval = 0
          IN /\ requestLog' = [requestLog EXCEPT ![n][m.seq] = IF ok THEN None ELSE req]
             /\ Broadcast(out \cup IF atInterval THEN {ckpt} ELSE {})
             /\ executed' = [executed EXCEPT ![n] = @ \cup
                    {[seq |-> m.seq, view |-> view[n], req |-> req, ok |-> ok]}]
    BY <1>2 DEF finish, executeRequest, dropExecuted
  <2>2. sent \cup out \subseteq sent' /\ sent' \subseteq sent \cup out \cup {ckpt}
    BY <2>1 DEF Broadcast
  <2>3. ckpt.type = "CHECKPOINT"
    OBVIOUS
  <2>4. \A k \in Node, s \in Sequence :
           \/ requestLog'[k][s] \in {requestLog[k][s], None}
           \/ k = n /\ s = m.seq /\ requestLog'[k][s] = req
    BY <2>1 DEF TypeOK
  <2>5. /\ \A k \in Node : executed[k] \subseteq executed'[k]
        /\ \A k \in Node : \A e \in executed'[k] \ executed[k] :
              k = n /\ e.seq = m.seq /\ e.view = view[n] /\ e.req = req
    <3> DEFINE new == [seq |-> m.seq, view |-> view[n], req |-> req, ok |-> ok]
    <3>1. new.seq = m.seq /\ new.view = view[n] /\ new.req = req
      OBVIOUS
    <3>2. /\ executed \in [Node -> SUBSET Execution]
          /\ executed' = [executed EXCEPT ![n] = @ \cup {new}]
      BY <2>1 DEF TypeOK
    <3> HIDE DEF new
    <3> QED
      BY <3>1, <3>2
  <2> HIDE DEF commit, ckpt
  <2> QED
    BY <1>1, <1>2, <2>2, <2>3, <2>4, <2>5 DEF commit
<1>3. CASE ~executes
  <2>1. /\ requestLog' = [requestLog EXCEPT ![n][m.seq] = req]
        /\ sent' = sent \cup out
        /\ executed' = executed
    BY <1>3 DEF finish, holdRequest, Broadcast
  <2>2. \A k \in Node, s \in Sequence :
           \/ requestLog'[k][s] \in {requestLog[k][s], None}
           \/ k = n /\ s = m.seq /\ requestLog'[k][s] = req
    BY <2>1 DEF TypeOK
  <2> HIDE DEF commit
  <2> QED
    BY <1>1, <1>3, <2>1, <2>2 DEF commit
<1> QED
  BY <1>2, <1>3

\* Proposing keeps the invariant: the primary of a view never used the sequence
\* number before, in this view or another.
LEMMA ProposeStep ==
    ASSUME TypeOK, TypeOK', ConsensusInv, NEW n \in Node, NEW r \in Request,
           ProposeRequest(n, r)
    PROVE  ConsensusInv'
<1> USE DEF ConsensusInv
<1> DEFINE s == sequence[n] + 1
           p == PhaseMsg("PRE_PREPARE", view[n], s, r, n)
<1>t. /\ view \in [Node -> View] /\ sequence \in [Node -> 0 .. MaxSequence]
      /\ requestLog \in [Node -> [Sequence -> Request \cup {None}]]
  BY DEF TypeOK
<1>1. /\ isPrimary[n] /\ s \in Sequence
      /\ view' = view /\ isPrimary' = isPrimary
      /\ sequence' = [sequence EXCEPT ![n] = s]
      /\ requestLog' = [requestLog EXCEPT ![n][s] = r]
      /\ prepareLog' = prepareLog /\ commitLog' = commitLog
      /\ sent' = sent \cup {p} /\ executed' = executed
  BY <1>t, ConstantAssumption DEF ProposeRequest, viewVars, Broadcast, Sequence
<1>2. n = Primary(view[n])
  BY <1>1 DEF PrimaryOfView
<1>3. /\ p.type = "PRE_PREPARE" /\ p.view = view[n] /\ p.seq = s /\ p.req = r /\ p.node = n
      /\ p = PhaseMsg("PRE_PREPARE", p.view, p.seq, p.req, Primary(p.view))
  BY <1>2 DEF PhaseMsg
<1>n. view[n] \in Nat /\ view[n] <= view[n] /\ sequence[n] \in Nat /\ s \in Nat /\ s <= s
  <2>1. view[n] \in Nat /\ view[n] <= view[n] /\ sequence[n] \in Nat
    BY NodeNumbers
  <2>2. \A x \in Nat : x + 1 \in Nat /\ x + 1 <= x + 1
    OBVIOUS
  <2> QED
    BY Zenon, <2>1, <2>2
<1> HIDE DEF p
<1>4. PrimaryOfView'
  BY <1>1 DEF PrimaryOfView
<1>5. Proposals' = Proposals \cup {p}
  BY <1>1, <1>3 DEF Proposals
<1>6. \A q \in Proposals : /\ q.node = Primary(q.view) /\ q.node \in Node
                           /\ q.view <= view[q.node]
                           /\ q.seq \in Nat /\ q.seq <= sequence[q.node]
  BY Zenon, MessageShape, Arithmetic DEF ProposalSource, Proposals, PhaseMessage
<1>7. ProposalSource'
  <2> SUFFICES ASSUME NEW q \in Proposals'
               PROVE  q.node = Primary(q.view) /\ q.view <= view[q.node] /\ q.seq <= sequence'[q.node]
    BY <1>1 DEF ProposalSource
  <2>0. \A k \in Node : sequence[k] \in Nat /\ sequence'[k] = IF k = n THEN s ELSE sequence[k]
    BY <1>t, <1>1, ConstantAssumption
  <2>1. CASE q = p
    <3>1. q.node = n /\ q.view = view[n] /\ q.seq = s /\ sequence'[n] = s
      BY <2>0, <2>1, <1>3
    <3> QED
      BY <3>1, <1>2, <1>n
  <2>2. CASE q \in Proposals
    BY <2>0, <2>2, <1>6, <1>n
  <2> QED
    BY <1>5, <2>1, <2>2
<1>8. \A q \in Proposals : ~(q.view = p.view /\ q.seq = p.seq)
  <2> SUFFICES ASSUME NEW q \in Proposals, q.view = p.view, q.seq = p.seq PROVE FALSE
    OBVIOUS
  <2>1. q.node = n /\ q.seq = s
    BY <1>2, <1>3, <1>6
  <2>2. s <= sequence[n]
    BY <1>6, <2>1
  <2> QED
    BY <1>n, <2>2
<1>9. ProposalUnique'
  BY <1>5, <1>8 DEF ProposalUnique
<1>10. VotesMatchProposal'
  BY <1>1, <1>3 DEF VotesMatchProposal, PhaseMessages
<1>11. LoggedIsProposed'
  <2> SUFFICES ASSUME NEW k \in Node, NEW t \in Sequence, requestLog'[k][t] # None
               PROVE  \E v \in 0 .. view[k] :
                        PhaseMsg("PRE_PREPARE", v, t, requestLog'[k][t], Primary(v)) \in sent'
    BY <1>1 DEF LoggedIsProposed
  <2>1. CASE k = n /\ t = s
    <3>1. requestLog'[k][t] = r
      BY <1>t, <2>1, <1>1
    <3> QED
      BY <3>1, <2>1, <1>1, <1>2, <1>n DEF p
  <2>2. CASE ~(k = n /\ t = s)
    <3>1. requestLog'[k][t] = requestLog[k][t]
      BY <1>t, <2>2, <1>1
    <3> QED
      BY <3>1, <1>1 DEF LoggedIsProposed
  <2> QED
    BY <2>1, <2>2
<1>12. LoggedIsCast'
  <2> SUFFICES ASSUME NEW k \in Node, NEW t \in Sequence
               PROVE  /\ prepareLog[k][t] \subseteq Voters(sent', "PREPARE", view[k], t)
                      /\ commitLog[k][t] \subseteq Voters(sent', "COMMIT", view[k], t)
    BY Zenon, <1>1 DEF LoggedIsCast
  <2>1. view[k] \in View /\ view[k] <= view[k]
    BY <1>t, Arithmetic
  <2>2. /\ Voters(sent, "PREPARE", view[k], t) \subseteq Voters(sent', "PREPARE", view[k], t)
        /\ Voters(sent, "COMMIT", view[k], t) \subseteq Voters(sent', "COMMIT", view[k], t)
    BY <2>1, <1>1, VotersGrow
  <2> QED
    BY <2>2 DEF LoggedIsCast
<1>13. CommitIsPrepared'
  <2>1. Commits' = Commits
    BY <1>1, <1>3 DEF Commits
  <2> SUFFICES ASSUME NEW m \in Commits
               PROVE  IsQuorum(Voters(sent', "PREPARE", m.view, m.seq))
    BY <2>1 DEF CommitIsPrepared
  <2>2. m.view \in View /\ m.view <= m.view
    BY VoteFields DEF Commits
  <2> QED
    BY <2>2, <1>1, VotersGrow, QuorumGrows DEF CommitIsPrepared
<1>14. QuorumBacked'
  BY Zenon, <1>1, ExecutionsStayBacked DEF QuorumBacked
<1> QED
  BY <1>4, <1>7, <1>9, <1>10, <1>11, <1>12, <1>13, <1>14
=============================================================================
