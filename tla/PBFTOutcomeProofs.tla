------------------------- MODULE PBFTOutcomeProofs --------------------------
(***************************************************************************)
(* What clients and operators see of PBFT, for every set of nodes,         *)
(* connection graph and bound: stable checkpoints, the answers callbacks   *)
(* are given, what never goes back, and backups that execute once.         *)
(***************************************************************************)
EXTENDS PBFTProofs

\* The step sends no checkpoint vote.
NoCheckpoint == \A x \in sent' \ sent : x.type # "CHECKPOINT"

\* The step runs executeRequest: what it does to the history, the request log, the
\* callbacks and the checkpoint votes.
Executes(n, s, req, ok) ==
    /\ UNCHANGED <<view, lastStable>>
    /\ executed' = [executed EXCEPT ![n] = @ \cup
           {[seq |-> s, view |-> view[n], req |-> req, ok |-> ok]}]
    /\ dropExecuted(n, s, req, ok)
    /\ invokeCallback(n, req, ok)
    /\ \/ UNCHANGED checkpointVotes /\ NoCheckpoint
       \/ /\ ok /\ checkpointVotes' = [checkpointVotes EXCEPT ![n][s] = @ \cup {n}]
          /\ \A x \in sent' \ sent : x.type = "CHECKPOINT" => x.seq = s /\ x.node = n

\* The step neither executes nor concerns a callback or a checkpoint.
NoOutcome ==
    /\ NoCheckpoint
    /\ UNCHANGED <<callbacks, result, checkpointVotes, lastStable, executed>>

\* The step ends with holdRequest: the request is in the log and nothing has come of it.
Holds(n, s, req) ==
    /\ NoOutcome
    /\ requestLog' = [requestLog EXCEPT ![n][s] = req]

\* A phase handler executes its request, or it has no outcome yet.
LEMMA PhaseOutcome ==
    ASSUME TypeOK, NEW n \in Node, NEW m, NEW req \in Request \cup {None},
           NEW prepares \in SUBSET Node, NEW commits \in SUBSET Node, NEW moves \in BOOLEAN,
           NEW executes \in BOOLEAN, NEW phase, NEW own,
           Handled(n, m, req, prepares, commits, moves, executes, phase, own)
    PROVE  \/ req \in Request /\ \E ok \in BOOLEAN : Executes(n, m.seq, req, ok)
           \/ Holds(n, m.seq, req)
<1> DEFINE commit == PhaseMsg("COMMIT", view[n], m.seq, m.req, n)
           out == own \cup IF moves THEN {commit} ELSE {}
<1>1. /\ finish(n, m, req, prepares, commits, moves, executes, phase, own)
      /\ executes => req \in Request
  BY DEF Handled
<1>2. \A x \in out : x.type # "CHECKPOINT"
  BY DEF Handled, PhaseMsg
<1>3. UNCHANGED <<view, lastStable>>
  BY <1>1 DEF finish, viewVars
<1>4. CASE executes
  <2> DEFINE ckpt == [type |-> "CHECKPOINT", seq |-> m.seq, node |-> n]
             atInterval(ok) == ok /\ m.seq % CheckpointInterval = 0
  <2>1. PICK ok \in HandlerResults :
          /\ dropExecuted(n, m.seq, req, ok)
          /\ invokeCallback(n, req, ok)
          /\ IF atInterval(ok) THEN createCheckpoint(n, m.seq)
                               ELSE UNCHANGED <<checkpoints, checkpointVotes>>
          /\ Broadcast(out \cup IF atInterval(ok) THEN {ckpt} ELSE {})
          /\ executed' = [executed EXCEPT ![n] = @ \cup
                 {[seq |-> m.seq, view |-> view[n], req |-> req, ok |-> ok]}]
    BY <1>1, <1>4 DEF finish, executeRequest
  <2>2. ok \in BOOLEAN /\ (atInterval(ok) => ok)
    BY ConstantAssumption
  <2>3. ckpt.type = "CHECKPOINT" /\ ckpt.seq = m.seq /\ ckpt.node = n
    OBVIOUS
  <2> HIDE DEF ckpt, out, atInterval
  <2>4. \/ UNCHANGED checkpointVotes /\ NoCheckpoint
        \/ /\ ok /\ checkpointVotes' = [checkpointVotes EXCEPT ![n][m.seq] = @ \cup {n}]
           /\ \A x \in sent' \ sent : x.type = "CHECKPOINT" => x.seq = m.seq /\ x.node = n
    <3>1. CASE atInterval(ok)
      BY <1>2, <2>1, <2>2, <2>3, <3>1 DEF createCheckpoint, Broadcast
    <3>2. CASE ~atInterval(ok)
      BY <1>2, <2>1, <3>2 DEF NoCheckpoint, Broadcast
    <3> QED
      BY <3>1, <3>2
  <2> QED
    BY <1>1, <1>3, <1>4, <2>1, <2>2, <2>4 DEF Executes
<1>5. CASE ~executes
  <2>1. holdRequest(n, m.seq, req, IF moves THEN "COMMIT" ELSE phase, out)
    BY <1>1, <1>5 DEF finish
  <2> HIDE DEF out
  <2> QED
    BY <1>2, <1>3, <2>1 DEF holdRequest, Holds, NoOutcome, NoCheckpoint, Broadcast
<1> QED
  BY <1>4, <1>5

\* Who executed a sequence has executed it forever.
LEMMA ExecutorsGrow ==
    ASSUME \A k \in Node : executed[k] \subseteq executed'[k], NEW s
    PROVE  Executors(s) \subseteq Executors(s)' /\ Executors(s)' \in SUBSET Node
BY DEF Executors

\* A stable checkpoint keeps the executions it rests on.
LEMMA StableStays ==
    ASSUME \A k \in Node : executed[k] \subseteq executed'[k], StableIsExecuted,
           UNCHANGED lastStable
    PROVE  StableIsExecuted'
<1> DEFINE executors(history, s) == {k \in Node : \E e \in history[k] : e.seq = s /\ e.ok}
<1>1. \A s : executors(executed, s) \subseteq executors(executed', s)
  OBVIOUS
<1>2. \A s : executors(executed', s) \in SUBSET Node
  OBVIOUS
<1>3. /\ StableIsExecuted <=> \A n \in Node : lastStable[n] > 0 =>
            IsQuorum(executors(executed, lastStable[n]))
      /\ StableIsExecuted' <=> \A n \in Node : lastStable'[n] > 0 =>
            IsQuorum(executors(executed', lastStable'[n]))
  BY DEF StableIsExecuted, Executors
<1> HIDE DEF executors
<1>4. \A s : IsQuorum(executors(executed, s)) => IsQuorum(executors(executed', s))
  BY <1>1, <1>2, QuorumGrows
<1> QED
  BY <1>3, <1>4

\* executeRequest keeps the checkpoint invariant: the vote it casts is backed by
\* the execution it records.
LEMMA ExecuteCheckpoint ==
    ASSUME TypeOK, TypeOK', CheckpointInv, NEW n \in Node, NEW s \in Sequence,
           NEW req, NEW ok \in BOOLEAN, Executes(n, s, req, ok)
    PROVE  CheckpointInv'
<1> DEFINE e == [seq |-> s, view |-> view[n], req |-> req, ok |-> ok]
<1>t. /\ executed \in [Node -> SUBSET Execution]
      /\ checkpointVotes \in [Node -> [Sequence -> SUBSET Node]]
  BY DEF TypeOK
<1>e. executed' = [executed EXCEPT ![n] = @ \cup {e}]
  BY DEF Executes
<1>1. \A k \in Node : executed[k] \subseteq executed'[k]
  BY <1>t, <1>e
<1>2. ok => n \in Executors(s)'
  <2>1. e \in executed'[n] /\ e.seq = s /\ e.ok = ok
    BY <1>t, <1>e
  <2> HIDE DEF e
  <2> QED
    BY <2>1 DEF Executors
<1>3. \A t : Executors(t) \subseteq Executors(t)' /\ Executors(t)' \in SUBSET Node
  BY <1>1, ExecutorsGrow
<1>4. \A m \in sent' : m.type = "CHECKPOINT" => m.node \in Executors(m.seq)'
  <2> SUFFICES ASSUME NEW m \in sent', m.type = "CHECKPOINT" PROVE m.node \in Executors(m.seq)'
    OBVIOUS
  <2>1. CASE m \in sent
    BY <1>3, <2>1 DEF CheckpointInv, CheckpointIsExecuted
  <2>2. CASE m \notin sent
    BY <1>2, <2>2 DEF Executes, NoCheckpoint
  <2> QED
    BY <2>1, <2>2
<1>5. \A k \in Node, t \in Sequence : checkpointVotes'[k][t] \subseteq Executors(t)'
  <2> SUFFICES ASSUME NEW k \in Node, NEW t \in Sequence
               PROVE  checkpointVotes'[k][t] \subseteq Executors(t)'
    OBVIOUS
  <2>1. checkpointVotes[k][t] \subseteq Executors(t)'
    BY <1>3 DEF CheckpointInv, CheckpointIsExecuted
  <2>2. \/ checkpointVotes'[k][t] = checkpointVotes[k][t]
        \/ ok /\ k = n /\ t = s /\ checkpointVotes'[k][t] = checkpointVotes[k][t] \cup {n}
    BY <1>t DEF Executes
  <2> QED
    BY <1>2, <2>1, <2>2
<1>6. StableIsExecuted'
  BY <1>1, StableStays DEF CheckpointInv, Executes
<1> QED
  BY <1>4, <1>5, <1>6 DEF CheckpointInv, CheckpointIsExecuted

\* A step without executions and checkpoint votes keeps the checkpoint invariant.
LEMMA QuietCheckpoint ==
    ASSUME CheckpointInv, NoCheckpoint, UNCHANGED <<checkpointVotes, lastStable, executed>>
    PROVE  CheckpointInv'
<1>1. CheckpointIsExecuted'
  BY DEF CheckpointInv, CheckpointIsExecuted, Executors, NoCheckpoint
<1>2. StableIsExecuted'
  BY StableStays DEF CheckpointInv
<1> QED
  BY <1>1, <1>2 DEF CheckpointInv

\* HandleCheckpoint: the votes that make a checkpoint stable come from nodes that
\* executed it.
LEMMA CountCheckpoint ==
    ASSUME TypeOK, CheckpointInv, NEW n \in Node, NEW m \in Incoming(n), HandleCheckpoint(n, m)
    PROVE  CheckpointInv'
<1> DEFINE votes == checkpointVotes[n][m.seq] \cup {m.node}
<1>0. m \in sent /\ m.type = "CHECKPOINT"
  BY DEF HandleCheckpoint, Incoming
<1>1. m.seq \in Sequence /\ m.node \in Node
  BY <1>0, MessageShape DEF CheckpointMessage
<1>2. votes \subseteq Executors(m.seq) /\ Executors(m.seq) \in SUBSET Node
  BY <1>0, <1>1 DEF CheckpointInv, CheckpointIsExecuted, Executors
<1>3. UNCHANGED <<sent, executed>>
  BY DEF HandleCheckpoint
<1>4. \A s : Executors(s)' = Executors(s)
  BY <1>3 DEF Executors
<1>t. /\ checkpointVotes \in [Node -> [Sequence -> SUBSET Node]]
      /\ lastStable \in [Node -> 0 .. MaxSequence]
  BY DEF TypeOK
<1>5. \A s \in Sequence : DropUpTo(checkpointVotes[n], m.seq, {})[s] \in {checkpointVotes[n][s], {}}
  BY Zenon, <1>t, DropUpToEntry
<1>6. \/ /\ checkpointVotes' = [checkpointVotes EXCEPT ![n][m.seq] = votes]
         /\ UNCHANGED lastStable
      \/ /\ checkpointVotes' = [checkpointVotes EXCEPT ![n] = DropUpTo(checkpointVotes[n], m.seq, {})]
         /\ lastStable' = [lastStable EXCEPT ![n] = m.seq]
         /\ IsQuorum(votes)
  BY DEF HandleCheckpoint, isStable
<1> HIDE DEF votes
<1>7. CheckpointIsExecuted'
  <2>1. ASSUME NEW k \in Node, NEW s \in Sequence PROVE checkpointVotes'[k][s] \subseteq Executors(s)
    <3>1. checkpointVotes[k][s] \subseteq Executors(s)
      BY DEF CheckpointInv, CheckpointIsExecuted
    <3>2. \/ checkpointVotes'[k][s] \subseteq checkpointVotes[k][s]
          \/ s = m.seq /\ checkpointVotes'[k][s] = votes
      BY <1>1, <1>t, <1>5, <1>6
    <3> QED
      BY <1>2, <3>1, <3>2
  <2>2. \A x \in sent' : x.type = "CHECKPOINT" => x.node \in Executors(x.seq)'
    BY <1>3, <1>4 DEF CheckpointInv, CheckpointIsExecuted
  <2> QED
    BY <1>4, <2>1, <2>2 DEF CheckpointIsExecuted
<1>8. StableIsExecuted'
  <2>1. IsQuorum(votes) => IsQuorum(Executors(m.seq))
    BY <1>2, QuorumGrows
  <2>2. ASSUME NEW k \in Node, lastStable'[k] > 0
        PROVE  \E s : s = lastStable'[k] /\ IsQuorum(Executors(s))
    <3>1. CASE lastStable'[k] = lastStable[k]
      BY <2>2, <3>1 DEF CheckpointInv, StableIsExecuted
    <3>2. CASE lastStable'[k] = m.seq /\ IsQuorum(votes)
      BY <2>1, <3>2
    <3> QED
      BY <1>t, <1>6, <3>1, <3>2
  <2> DEFINE executors(s) == {k \in Node : \E e \in executed[k] : e.seq = s /\ e.ok}
  <2>3. \A k \in Node : lastStable'[k] > 0 => IsQuorum(executors(lastStable'[k]))
    BY <2>2 DEF Executors
  <2>4. executed' = executed
    BY <1>3
  <2> QED
    BY <2>3, <2>4 DEF StableIsExecuted, Executors
<1> QED
  BY <1>7, <1>8 DEF CheckpointInv

\* No callback that was answered is answered again.
AnswersKept == \A r \in Request : result[r] # "none" => result'[r] = result[r]

\* A step that leaves the callbacks alone and takes back no execution keeps what
\* they were told.
LEMMA QuietCallback ==
    ASSUME CallbackInv, UNCHANGED <<callbacks, result>>,
           \A k \in Node : executed[k] \subseteq executed'[k]
    PROVE  CallbackInv' /\ AnswersKept
<1>1. CallbackIsOpen' /\ AnswersKept
  BY DEF CallbackInv, CallbackIsOpen, AnswersKept
<1>2. SuccessIsExecuted'
  BY DEF CallbackInv, SuccessIsExecuted
<1> QED
  BY <1>1, <1>2 DEF CallbackInv

\* executeRequest answers a callback that was open, with the outcome of the very
\* execution it records.
LEMMA ExecuteCallback ==
    ASSUME TypeOK, CallbackInv, NEW n \in Node, NEW s \in Sequence, NEW req \in Request,
           NEW ok \in BOOLEAN, Executes(n, s, req, ok)
    PROVE  CallbackInv' /\ AnswersKept
<1> DEFINE e == [seq |-> s, view |-> view[n], req |-> req, ok |-> ok]
<1>t. /\ executed \in [Node -> SUBSET Execution] /\ callbacks \in [Node -> SUBSET Request]
      /\ result \in [Request -> {"none", "ok", "failed"}]
  BY DEF TypeOK
<1>e. executed' = [executed EXCEPT ![n] = @ \cup {e}]
  BY DEF Executes
<1>1. \A k \in Node : executed[k] \subseteq executed'[k]
  BY <1>t, <1>e
<1>2. e \in executed'[n] /\ e.req = req /\ e.ok = ok
  BY <1>t, <1>e
<1> HIDE DEF e
<1>3. /\ \A k \in Node : callbacks'[k] = IF k = n THEN callbacks[k] \ {req} ELSE callbacks[k]
      /\ \A r \in Request : r # req \/ req \notin callbacks[n] => result'[r] = result[r]
      /\ req \in callbacks[n] => result'[req] = IF ok THEN "ok" ELSE "failed"
  BY <1>t DEF Executes, invokeCallback
<1>4. \A k, j \in Node : \A r \in callbacks[k] :
         r \in Request /\ result[r] = "none" /\ (r \in callbacks[j] => j = k)
  BY <1>t DEF CallbackInv, CallbackIsOpen
<1>5. CallbackIsOpen'
  <2> SUFFICES ASSUME NEW k \in Node, NEW j \in Node, NEW r \in callbacks'[k]
               PROVE  result'[r] = "none" /\ (r \in callbacks'[j] => j = k)
    BY DEF CallbackIsOpen
  <2>1. r \in callbacks[k] /\ (r \in callbacks'[j] => r \in callbacks[j])
    BY <1>3
  <2>2. r # req \/ req \notin callbacks[n]
    <3> SUFFICES ASSUME r = req, req \in callbacks[n] PROVE FALSE
      OBVIOUS
    <3>1. k = n
      BY <1>4, <2>1
    <3> QED
      BY <1>3, <3>1
  <2> QED
    BY <1>3, <1>4, <2>1, <2>2
<1>6. AnswersKept
  BY <1>3, <1>4 DEF AnswersKept
<1>7. SuccessIsExecuted'
  <2> SUFFICES ASSUME NEW r \in Request, result'[r] = "ok"
               PROVE  \E k \in Node : \E d \in executed'[k] : d.req = r /\ d.ok
    BY DEF SuccessIsExecuted
  <2>1. CASE result[r] = "ok"
    BY <1>1, <2>1 DEF CallbackInv, SuccessIsExecuted
  <2>2. CASE result[r] # "ok"
    <3>1. r = req /\ ok
      BY <1>3, <2>2
    <3> QED
      BY <1>2, <3>1
  <2> QED
    BY <2>1, <2>2
<1> QED
  BY <1>5, <1>6, <1>7 DEF CallbackInv

\* failPendingCallbacks answers the node's open callbacks, and SubmitToPrimary only
\* registers a callback for a request that has none.
LEMMA ClientCallback ==
    ASSUME TypeOK, CallbackInv, NEW n \in Node,
           failPendingCallbacks(n) \/ \E r \in Request : SubmitToPrimary(n, r)
    PROVE  CallbackInv' /\ AnswersKept
<1>t. /\ callbacks \in [Node -> SUBSET Request]
      /\ result \in [Request -> {"none", "ok", "failed"}]
  BY DEF TypeOK
<1>0. \A k, j \in Node : \A r \in callbacks[k] :
         r \in Request /\ result[r] = "none" /\ (r \in callbacks[j] => j = k)
  BY <1>t DEF CallbackInv, CallbackIsOpen
<1>1. CASE failPendingCallbacks(n)
  <2>1. /\ \A k \in Node : callbacks'[k] = IF k = n THEN {} ELSE callbacks[k]
        /\ \A r \in Request : result'[r] = IF r \in callbacks[n] THEN "failed" ELSE result[r]
        /\ executed' = executed
    BY <1>t, <1>1 DEF failPendingCallbacks
  <2>2. CallbackIsOpen'
    <3> SUFFICES ASSUME NEW k \in Node, NEW j \in Node, NEW r \in callbacks'[k]
                 PROVE  result'[r] = "none" /\ (r \in callbacks'[j] => j = k)
      BY DEF CallbackIsOpen
    <3>1. k # n /\ r \in callbacks[k] /\ (r \in callbacks'[j] => r \in callbacks[j])
      BY <2>1
    <3>2. r \in Request /\ result[r] = "none" /\ r \notin callbacks[n]
      BY <1>0, <3>1
    <3> QED
      BY <1>0, <2>1, <3>1, <3>2
  <2>4. AnswersKept
    BY <1>0, <2>1 DEF AnswersKept
  <2>3. SuccessIsExecuted'
    BY <2>1 DEF CallbackInv, SuccessIsExecuted
  <2> QED
    BY <2>2, <2>3, <2>4 DEF CallbackInv
<1>2. ASSUME NEW r \in Request, SubmitToPrimary(n, r) PROVE CallbackInv' /\ AnswersKept
  <2>1. /\ \A k \in Node : callbacks'[k] = IF k = n THEN callbacks[k] \cup {r} ELSE callbacks[k]
        /\ result' = result /\ executed' = executed
        /\ result[r] = "none" /\ \A k \in Node : r \notin callbacks[k]
    BY <1>t, <1>2 DEF SubmitToPrimary, Fresh
  <2>2. CallbackIsOpen'
    <3> SUFFICES ASSUME NEW k \in Node, NEW j \in Node, NEW q \in callbacks'[k]
                 PROVE  result[q] = "none" /\ (q \in callbacks'[j] => j = k)
      BY <2>1 DEF CallbackIsOpen
    <3>1. CASE q = r
      BY <2>1, <3>1
    <3>2. CASE q # r
      <4>1. q \in callbacks[k] /\ (q \in callbacks'[j] => q \in callbacks[j])
        BY <2>1, <3>2
      <4> QED
        BY <1>0, <4>1
    <3> QED
      BY <3>1, <3>2
  <2>4. AnswersKept
    BY <2>1 DEF AnswersKept
  <2>3. SuccessIsExecuted'
    BY <2>1 DEF CallbackInv, SuccessIsExecuted
  <2> QED
    BY <2>2, <2>3, <2>4 DEF CallbackInv
<1> QED
  BY <1>1, <1>2

\* ProposeRequest has no outcome yet.
LEMMA ProposeOutcome ==
    ASSUME NEW n, NEW r, ProposeRequest(n, r), UNCHANGED callbacks
    PROVE  NoOutcome
<1> DEFINE p == PhaseMsg("PRE_PREPARE", view[n], sequence[n] + 1, r, n)
<1>1. sent' = sent \cup {p} /\ p.type = "PRE_PREPARE"
  BY DEF ProposeRequest, Broadcast, PhaseMsg
<1> HIDE DEF p
<1> QED
  BY <1>1 DEF ProposeRequest, checkpointVars, NoOutcome, NoCheckpoint

\* A step that makes no outcome keeps both invariants and every answer.
LEMMA QuietOutcome ==
    ASSUME CheckpointInv, CallbackInv, NoOutcome
    PROVE  CheckpointInv' /\ CallbackInv' /\ AnswersKept
BY QuietCheckpoint, QuietCallback DEF NoOutcome

\* Every step keeps the checkpoint and callback invariants and every answer.
LEMMA NextOutcome ==
    TypeOK /\ CheckpointInv /\ CallbackInv /\ [Next]_vars
        => CheckpointInv' /\ CallbackInv' /\ AnswersKept
<1> DEFINE Goal == CheckpointInv' /\ CallbackInv' /\ AnswersKept
<1> SUFFICES ASSUME TypeOK, CheckpointInv, CallbackInv, [Next]_vars PROVE Goal
  OBVIOUS
<1>t. TypeOK'
  BY NextType
<1>q. NoOutcome => Goal
  BY QuietOutcome
<1> HIDE DEF Goal
<1>1. CASE UNCHANGED vars
  <2>1. NoOutcome
    BY <1>1 DEF vars, checkpointVars, clientVars, NoOutcome, NoCheckpoint
  <2> QED
    BY <1>q, <2>1
<1>2. ASSUME NEW n \in Node, NEW m \in Incoming(n), Deliver(n, m) PROVE Goal
  <2>1. CASE handlePrePrepare(n, m) \/ HandlePrepare(n, m) \/ HandleCommit(n, m)
    <3>1. PICK req \in Request \cup {None}, prepares \in SUBSET Node, commits \in SUBSET Node,
               moves \in BOOLEAN, executes \in BOOLEAN, phase \in Phase, own \in SUBSET Message :
                  Handled(n, m, req, prepares, commits, moves, executes, phase, own)
      BY <2>1, PhaseCases DEF PhaseStepOf
    <3>2. m.seq \in Sequence
      BY <3>1 DEF Handled, PhaseMessage
    <3>3. NoOutcome \/ (req \in Request /\ \E ok \in BOOLEAN : Executes(n, m.seq, req, ok))
      BY <3>1, PhaseOutcome DEF Holds
    <3>4. ASSUME req \in Request, NEW ok \in BOOLEAN, Executes(n, m.seq, req, ok) PROVE Goal
      BY <1>t, <3>2, <3>4, ExecuteCheckpoint, ExecuteCallback DEF Goal
    <3> QED
      BY <1>q, <3>3, <3>4
  <2>2. CASE HandleCheckpoint(n, m)
    <3>1. CheckpointInv'
      BY <2>2, CountCheckpoint
    <3>2. UNCHANGED <<callbacks, result, executed>>
      BY <2>2 DEF HandleCheckpoint, clientVars
    <3>3. CallbackInv' /\ AnswersKept
      BY <3>2, QuietCallback
    <3> QED
      BY <3>1, <3>3 DEF Goal
  <2>3. CASE RejectPrePrepare(n, m) \/ HandleViewChange(n, m)
    <3>1. NoOutcome
      BY <2>3 DEF RejectPrePrepare, HandleViewChange, checkpointVars, clientVars,
                  NoOutcome, NoCheckpoint
    <3> QED
      BY <1>q, <3>1
  <2>4. CASE HandleClientRequest(n, m)
    <3>1. NoOutcome
      <4>1. CASE ProposeRequest(n, m.req)
        BY <2>4, <4>1, ProposeOutcome DEF HandleClientRequest
      <4>2. CASE ~ProposeRequest(n, m.req)
        BY <2>4, <4>2 DEF HandleClientRequest, ProposeFails, checkpointVars, NoOutcome, NoCheckpoint
      <4> QED
        BY <4>1, <4>2
    <3> QED
      BY <1>q, <3>1
  <2> QED
    BY <1>2, <2>1, <2>2, <2>3, <2>4 DEF Deliver
<1>3. ASSUME NEW n \in Node, initiateViewChange(n) PROVE Goal
  <2> DEFINE vote == [type |-> "VIEW_CHANGE", view |-> view[n] + 1, node |-> n]
  <2>1. /\ sent' = sent \cup {vote} /\ vote.type = "VIEW_CHANGE"
        /\ UNCHANGED <<checkpointVars, clientVars, executed>>
    BY <1>3 DEF initiateViewChange, Broadcast
  <2> HIDE DEF vote
  <2>2. NoOutcome
    BY <2>1 DEF checkpointVars, clientVars, NoOutcome, NoCheckpoint
  <2> QED
    BY <1>q, <2>2
<1>4. ASSUME NEW n \in Node, failPendingCallbacks(n) \/ \E r \in Request : SubmitToPrimary(n, r)
      PROVE  Goal
  <2>1. NoCheckpoint /\ UNCHANGED <<checkpointVotes, lastStable, executed>>
    BY <1>4 DEF failPendingCallbacks, SubmitToPrimary, checkpointVars, NoCheckpoint
  <2>2. CheckpointInv'
    BY <2>1, QuietCheckpoint
  <2>3. CallbackInv' /\ AnswersKept
    BY <1>4, ClientCallback
  <2> QED
    BY <2>2, <2>3 DEF Goal
<1>5. ASSUME NEW n \in Node, NEW r \in Request, ProposeSubmitted(n, r) PROVE Goal
  <2>1. CASE ProposeRequest(n, r)
    BY <1>q, <1>5, <2>1, ProposeOutcome DEF ProposeSubmitted
  <2>2. CASE ProposeFails(n)
    <3>1. NoOutcome
      BY <1>5, <2>2 DEF ProposeSubmitted, ProposeFails, checkpointVars, NoOutcome, NoCheckpoint
    <3> QED
      BY <1>q, <3>1
  <2> QED
    BY <1>5, <2>1, <2>2 DEF ProposeSubmitted
<1>6. ASSUME NEW n \in Node, NEW r \in Request, ForwardRequest(n, r) \/ EndWait(n, r) PROVE Goal
  <2> DEFINE msg == [type |-> "CLIENT_REQUEST", req |-> r, copy |-> forwards'[r], node |-> n]
  <2>1. /\ sent' \subseteq sent \cup {msg} /\ msg.type = "CLIENT_REQUEST"
        /\ UNCHANGED <<checkpointVars, callbacks, result, executed>>
    BY <1>6 DEF ForwardRequest, EndWait, Broadcast
  <2> HIDE DEF msg
  <2>2. NoOutcome
    BY <2>1 DEF checkpointVars, NoOutcome, NoCheckpoint
  <2> QED
    BY <1>q, <2>2
<1> QED
  BY <1>1, <1>2, <1>3, <1>4, <1>5, <1>6 DEF Next

\* At the start there are no votes, no callbacks and no executions.
LEMMA InitOutcome == Init => CheckpointInv /\ CallbackInv
<1> SUFFICES ASSUME Init PROVE CheckpointInv /\ CallbackInv
  OBVIOUS
<1>1. CheckpointInv
  BY DEF Init, CheckpointInv, CheckpointIsExecuted, StableIsExecuted
<1>2. CallbackInv
  BY DEF Init, CallbackInv, CallbackIsOpen, SuccessIsExecuted
<1> QED
  BY <1>1, <1>2

\* HandleCheckpoint only declares a checkpoint stable, and garbageCollect only
\* deletes the logs below it, when 2f+1 nodes have executed its sequence.
THEOREM StableCheckpointsAreExecuted == Spec => []StableIsExecuted
<1>1. CheckpointInv => StableIsExecuted
  BY DEF CheckpointInv
<1> QED
  BY <1>1, TypeCorrect, InitOutcome, NextOutcome, PTL DEF Spec

\* invokeCallback reports success only for a request that was executed.
THEOREM SuccessesAreExecuted == Spec => []SuccessIsExecuted
<1>1. CallbackInv => SuccessIsExecuted
  BY DEF CallbackInv
<1> QED
  BY <1>1, TypeCorrect, InitOutcome, NextOutcome, PTL DEF Spec

\* No step lowers the view or the stable checkpoint of a node.
LEMMA NumbersGrow ==
    ASSUME TypeOK, TypeOK', [Next]_vars, NEW n \in Node
    PROVE  view'[n] >= view[n] /\ lastStable'[n] >= lastStable[n]
<1>t. /\ view \in [Node -> View] /\ lastStable \in [Node -> 0 .. MaxSequence]
      /\ view[n] \in Nat /\ lastStable[n] \in Nat
  BY NodeNumbers DEF TypeOK
<1>1. \/ view' = view
      \/ \E k \in Node, v \in View : v > view[k] /\ view' = [view EXCEPT ![k] = v]
  <2>1. ASSUME NEW k \in Node, initiateViewChange(k)
        PROVE  \E v \in View : v > view[k] /\ view' = [view EXCEPT ![k] = v]
    <3>1. view[k] + 1 <= MaxView /\ view' = [view EXCEPT ![k] = view[k] + 1]
      BY <2>1 DEF initiateViewChange, enterView
    <3>2. view[k] + 1 \in View /\ view[k] + 1 > view[k]
      BY <3>1, NodeNumbers, ConstantAssumption DEF View
    <3> QED
      BY <3>1, <3>2
  <2>2. ASSUME NEW k \in Node, NEW m \in Incoming(k), HandleViewChange(k, m), view' # view
        PROVE  \E v \in View : v > view[k] /\ view' = [view EXCEPT ![k] = v]
    <3>1. m.view > view[k] /\ view' = [view EXCEPT ![k] = m.view]
      BY <2>2 DEF HandleViewChange, enterView
    <3>2. m.view \in View
      BY <2>2, MessageShape DEF HandleViewChange, ViewChangeMessage, Incoming
    <3> QED
      BY <3>1, <3>2
  <2>3. ASSUME NEW k \in Node, NEW m \in Incoming(k), Deliver(k, m), ~HandleViewChange(k, m)
        PROVE  view' = view
    BY <2>3 DEF Deliver, handlePrePrepare, HandlePrepare, HandleCommit, finish, RejectPrePrepare,
                HandleClientRequest, ProposeRequest, ProposeFails, HandleCheckpoint, viewVars
  <2>4. ASSUME NEW k \in Node,
               \/ failPendingCallbacks(k)
               \/ \E r \in Request : \/ SubmitToPrimary(k, r) \/ ProposeSubmitted(k, r)
                                     \/ ForwardRequest(k, r) \/ EndWait(k, r)
        PROVE  view' = view
    BY <2>4 DEF failPendingCallbacks, SubmitToPrimary, ProposeSubmitted, ProposeRequest,
                ProposeFails, ForwardRequest, EndWait, viewVars
  <2>5. CASE UNCHANGED vars
    BY <2>5 DEF vars, viewVars
  <2> QED
    BY <2>1, <2>2, <2>3, <2>4, <2>5 DEF Next
<1>2. \/ lastStable' = lastStable
      \/ \E k \in Node, s \in Sequence : s > lastStable[k] /\ lastStable' = [lastStable EXCEPT ![k] = s]
  <2>1. ASSUME NEW k \in Node, NEW m \in Incoming(k), HandleCheckpoint(k, m),
               lastStable' # lastStable
        PROVE  \E s \in Sequence : s > lastStable[k] /\ lastStable' = [lastStable EXCEPT ![k] = s]
    <3>1. m.seq > lastStable[k] /\ lastStable' = [lastStable EXCEPT ![k] = m.seq]
      BY <2>1 DEF HandleCheckpoint
    <3>2. m.seq \in Sequence
      BY <2>1, MessageShape DEF HandleCheckpoint, CheckpointMessage, Incoming
    <3> QED
      BY <3>1, <3>2
  <2>2. ASSUME NEW k \in Node, NEW m \in Incoming(k), Deliver(k, m), ~HandleCheckpoint(k, m)
        PROVE  lastStable' = lastStable
    BY <2>2 DEF Deliver, handlePrePrepare, HandlePrepare, HandleCommit, finish, RejectPrePrepare,
                HandleClientRequest, ProposeRequest, ProposeFails, HandleViewChange, checkpointVars
  <2>3. ASSUME NEW k \in Node,
               \/ initiateViewChange(k) \/ failPendingCallbacks(k)
               \/ \E r \in Request : \/ SubmitToPrimary(k, r) \/ ProposeSubmitted(k, r)
                                     \/ ForwardRequest(k, r) \/ EndWait(k, r)
        PROVE  lastStable' = lastStable
    BY <2>3 DEF initiateViewChange, failPendingCallbacks, SubmitToPrimary, ProposeSubmitted,
                ProposeRequest, ProposeFails, ForwardRequest, EndWait, checkpointVars
  <2>4. CASE UNCHANGED vars
    BY <2>4 DEF vars, checkpointVars
  <2> QED
    BY <2>1, <2>2, <2>3, <2>4 DEF Next
<1>3. view'[n] >= view[n]
  BY <1>t, <1>1, Arithmetic
<1>4. lastStable'[n] >= lastStable[n]
  BY <1>t, <1>2, Arithmetic
<1> QED
  BY <1>3, <1>4

\* Views and stable checkpoints only grow, and invokeCallback and
\* failPendingCallbacks never answer a callback a second time.
THEOREM NothingGoesBack == Spec => NeverBack
<1>1. TypeOK /\ TypeOK' /\ CheckpointInv /\ CallbackInv /\ [Next]_vars =>
        /\ \A n \in Node : view'[n] >= view[n] /\ lastStable'[n] >= lastStable[n]
        /\ \A r \in Request : result[r] # "none" => result'[r] = result[r]
  BY NumbersGrow, NextOutcome DEF AnswersKept
<1> QED
  BY <1>1, TypeCorrect, InitOutcome, NextOutcome, PTL DEF Spec, NeverBack

\* A step that only deletes log entries, executes nothing and lowers no view keeps
\* the invariant of the backups.
LEMMA QuietBackup ==
    ASSUME TypeOK, TypeOK', BackupInv, executed' = executed,
           \A n \in Node : /\ view'[n] >= view[n] /\ seen[n] \subseteq seen'[n]
                           /\ \A s \in Sequence : n # Primary(0) /\ view[n] = 0 =>
                                 requestLog'[n][s] \in {requestLog[n][s], None}
    PROVE  BackupInv'
<1> USE DEF BackupInv
<1>1. ASSUME NEW n \in Node \ {Primary(0)}, view'[n] = 0 PROVE view[n] = 0
  BY <1>1, NodeNumbers
<1>2. AcceptedIsSeen'
  BY <1>1 DEF AcceptedIsSeen
<1>3. BackupExecutesOnce'
  <2> SUFFICES ASSUME NEW n \in Node \ {Primary(0)}, NEW e \in executed[n],
                      e.ok, e.view = 0, view'[n] = 0
               PROVE  requestLog'[n][e.seq] = None
    BY DEF BackupExecutesOnce
  <2>1. e.seq \in Sequence
    <3>1. e \in Execution
      BY DEF TypeOK
    <3> QED
      BY <3>1 DEF Execution
  <2>2. view[n] = 0
    BY <1>1
  <2>3. requestLog[n][e.seq] = None
    BY <2>2 DEF BackupExecutesOnce
  <2> QED
    BY <2>1, <2>2, <2>3
<1> QED
  BY <1>2, <1>3

\* The phase handlers keep the invariant of the backups: a proposal is accepted once,
\* and without an accepted proposal there is nothing to execute.
LEMMA PhaseBackup ==
    ASSUME TypeOK, TypeOK', ConsensusInv, BackupInv, NEW n \in Node, NEW m \in Incoming(n),
           NEW req \in Request \cup {None},
           NEW prepares \in SUBSET Node, NEW commits \in SUBSET Node, NEW moves \in BOOLEAN,
           NEW executes \in BOOLEAN, NEW phase, NEW own,
           Handled(n, m, req, prepares, commits, moves, executes, phase, own)
    PROVE  BackupInv'
<1> DEFINE s == m.seq
           proposal(t, r) == PhaseMsg("PRE_PREPARE", 0, t, r, Primary(0))
<1>t. /\ requestLog \in [Node -> [Sequence -> Request \cup {None}]]
      /\ executed \in [Node -> SUBSET Execution] /\ seen \in [Node -> SUBSET Message]
  BY DEF TypeOK
<1>h. /\ m \in sent /\ m \notin seen[n] /\ m.view = view[n] /\ s \in Sequence /\ m.req \in Request
      /\ \/ m.type = "PRE_PREPARE" /\ req = m.req /\ seen' = [seen EXCEPT ![n] = @ \cup {m}]
         \/ m.type # "PRE_PREPARE" /\ req = requestLog[n][s] /\ seen' = seen
  BY DEF Handled, Incoming, PhaseMessage, PhaseMessages, Consume
<1>v. view' = view
  BY DEF Handled, finish, viewVars
<1>s. \A k \in Node : seen[k] \subseteq seen'[k]
  BY <1>h, <1>t
\* What the handler does to the log and the history.
<1>o. \/ /\ executed' = executed /\ requestLog' = [requestLog EXCEPT ![n][s] = req]
      \/ req \in Request /\ \E ok \in BOOLEAN :
           /\ executed' = [executed EXCEPT ![n] = @ \cup
                  {[seq |-> s, view |-> view[n], req |-> req, ok |-> ok]}]
           /\ requestLog' = [requestLog EXCEPT ![n][s] = IF ok THEN None ELSE req]
  <2>1. \/ req \in Request /\ \E ok \in BOOLEAN : Executes(n, m.seq, req, ok)
        \/ Holds(n, m.seq, req)
    BY PhaseOutcome
  <2> QED
    BY Zenon, <2>1 DEF Executes, dropExecuted, Holds, NoOutcome
<1>1. /\ \A k \in Node, t \in Sequence : k # n \/ t # s => requestLog'[k][t] = requestLog[k][t]
      /\ requestLog'[n][s] \in {req, None}
      /\ \A k \in Node : \A e \in executed'[k] \ executed[k] :
            k = n /\ e.seq = s /\ e.view = view[n] /\ e.req = req /\ req \in Request
      /\ \A e \in executed'[n] \ executed[n] : e.ok => requestLog'[n][s] = None
      /\ req = None => requestLog'[n][s] = None
  <2> DEFINE new(ok) == [seq |-> s, view |-> view[n], req |-> req, ok |-> ok]
  <2>1. \A ok : /\ new(ok).seq = s /\ new(ok).view = view[n]
                /\ new(ok).req = req /\ new(ok).ok = ok
    OBVIOUS
  <2>2. \/ /\ executed' = executed /\ requestLog' = [requestLog EXCEPT ![n][s] = req]
        \/ req \in Request /\ \E ok \in BOOLEAN :
             /\ executed' = [executed EXCEPT ![n] = @ \cup {new(ok)}]
             /\ requestLog' = [requestLog EXCEPT ![n][s] = IF ok THEN None ELSE req]
    BY <1>o
  <2> HIDE DEF new
  <2>3. s \in Sequence
    BY <1>h
  <2>4. /\ \A k \in Node, t \in Sequence :
              k # n \/ t # s => requestLog'[k][t] = requestLog[k][t]
        /\ requestLog'[n][s] \in {req, None}
        /\ req = None => requestLog'[n][s] = None
    <3>1. PICK held \in {req, None} : requestLog' = [requestLog EXCEPT ![n][s] = held]
      BY <2>2
    <3> QED
      BY <1>t, <2>3, <3>1
  <2>5. \A k \in Node : \A e \in executed'[k] \ executed[k] :
            k = n /\ e.seq = s /\ e.view = view[n] /\ e.req = req /\ req \in Request
    <3> SUFFICES ASSUME NEW k \in Node, NEW e \in executed'[k] \ executed[k]
                 PROVE  /\ k = n /\ e.seq = s /\ e.view = view[n]
                        /\ e.req = req /\ req \in Request
      OBVIOUS
    <3>1. PICK ok \in BOOLEAN : executed' = [executed EXCEPT ![n] = @ \cup {new(ok)}]
      BY <2>2
    <3>2. k = n /\ e = new(ok) /\ req \in Request
      BY <1>t, <2>2, <3>1
    <3> QED
      BY <2>1, <3>2
  <2>6. ASSUME NEW e \in executed'[n] \ executed[n], e.ok PROVE requestLog'[n][s] = None
    <3>1. PICK ok \in BOOLEAN :
             /\ executed' = [executed EXCEPT ![n] = @ \cup {new(ok)}]
             /\ requestLog' = [requestLog EXCEPT ![n][s] = IF ok THEN None ELSE req]
      BY <2>2, <2>6
    <3>2. e = new(ok) /\ new(ok).ok = ok
      BY <1>t, <2>1, <2>6, <3>1
    <3> QED
      BY <1>t, <2>3, <2>6, <3>1, <3>2
  <2> QED
    BY <2>4, <2>5, <2>6
<1> HIDE <1>o
\* In the first view the request comes from a proposal that has been dealt with.
<1>2. ASSUME n # Primary(0), view[n] = 0, req # None PROVE proposal(s, req) \in seen'[n]
  <2>1. CASE m.type = "PRE_PREPARE"
    <3>1. m = PhaseMsg("PRE_PREPARE", 0, s, m.req, m.node) /\ m \in Proposals
      BY <1>h, <1>2, <2>1, MessageShape DEF Proposals
    <3>2. m.node = Primary(0)
      BY <1>h, <1>2, <3>1 DEF ConsensusInv, ProposalSource
    <3>3. req = m.req /\ m \in seen'[n]
      BY <1>h, <1>t, <2>1
    <3> QED
      BY <3>1, <3>2, <3>3
  <2>2. CASE m.type # "PRE_PREPARE"
    BY <1>2, <1>h, <1>s, <2>2 DEF BackupInv, AcceptedIsSeen
  <2> QED
    BY <2>1, <2>2
<1>3. AcceptedIsSeen'
  <2> SUFFICES ASSUME NEW k \in Node \ {Primary(0)}
               PROVE  /\ \A t \in Sequence : view[k] = 0 /\ requestLog'[k][t] # None =>
                            proposal(t, requestLog'[k][t]) \in seen'[k]
                      /\ \A e \in executed'[k] : e.view = 0 => proposal(e.seq, e.req) \in seen'[k]
    BY <1>v DEF AcceptedIsSeen
  <2> HIDE DEF proposal
  <2>0. /\ \A t \in Sequence : view[k] = 0 /\ requestLog[k][t] # None =>
              proposal(t, requestLog[k][t]) \in seen[k]
        /\ \A e \in executed[k] : e.view = 0 => proposal(e.seq, e.req) \in seen[k]
    BY DEF BackupInv, AcceptedIsSeen, proposal
  <2>1. ASSUME NEW t \in Sequence, view[k] = 0, requestLog'[k][t] # None
        PROVE  proposal(t, requestLog'[k][t]) \in seen'[k]
    <3>1. CASE k = n /\ t = s
      BY <1>1, <1>2, <2>1, <3>1
    <3>2. CASE k # n \/ t # s
      BY <1>1, <1>s, <2>0, <2>1, <3>2
    <3> QED
      BY <3>1, <3>2
  <2>2. ASSUME NEW e \in executed'[k], e.view = 0 PROVE proposal(e.seq, e.req) \in seen'[k]
    <3>1. CASE e \in executed[k]
      BY <1>s, <2>0, <2>2, <3>1
    <3>2. CASE e \notin executed[k]
      BY <1>1, <1>2, <2>2, <3>2, ConstantAssumption
    <3> QED
      BY <3>1, <3>2
  <2> QED
    BY <2>1, <2>2
\* A sequence that a backup has executed is not proposed to it again.
<1>4. ASSUME n # Primary(0), view[n] = 0,
             NEW e \in executed[n], e.ok, e.view = 0, e.seq = s
      PROVE  req = None
  <2>1. requestLog[n][s] = None
    BY <1>4 DEF BackupInv, BackupExecutesOnce
  <2>2. proposal(s, e.req) \in Proposals /\ proposal(s, e.req) \in seen[n]
    BY <1>4, FirstViewProposal DEF BackupInv, AcceptedIsSeen
  <2>3. ASSUME m.type = "PRE_PREPARE" PROVE FALSE
    <3>1. m \in Proposals /\ m.view = 0
      BY <1>h, <1>4, <2>3 DEF Proposals
    <3>2. m = proposal(s, e.req)
      BY <2>2, <3>1 DEF ConsensusInv, ProposalUnique, PhaseMsg
    <3> QED
      BY <1>h, <2>2, <3>2
  <2> QED
    BY <1>h, <2>1, <2>3
<1>5. BackupExecutesOnce'
  <2> SUFFICES ASSUME NEW k \in Node \ {Primary(0)}, NEW e \in executed'[k],
                      e.ok, e.view = 0, view[k] = 0
               PROVE  requestLog'[k][e.seq] = None
    BY <1>v DEF BackupExecutesOnce
  <2>1. CASE e \notin executed[k]
    BY <1>1, <2>1
  <2>2. CASE e \in executed[k]
    <3>0. requestLog[k][e.seq] = None
      BY <2>2 DEF BackupInv, BackupExecutesOnce
    <3>1. e.seq \in Sequence /\ requestLog[k][e.seq] = None
      <4>1. e \in Execution
        BY <1>t, <2>2
      <4> QED
        BY <3>0, <4>1 DEF Execution
    <3>2. CASE k = n /\ e.seq = s
      BY <1>1, <1>4, <2>2, <3>2
    <3>3. CASE k # n \/ e.seq # s
      BY <1>1, <3>1, <3>3
    <3> QED
      BY <3>2, <3>3
  <2> QED
    BY <2>1, <2>2
<1> QED
  BY <1>3, <1>5 DEF BackupInv

\* Every step keeps the invariant of the backups.
LEMMA NextBackup == TypeOK /\ ConsensusInv /\ BackupInv /\ [Next]_vars => BackupInv'
<1> SUFFICES ASSUME TypeOK, ConsensusInv, BackupInv, [Next]_vars PROVE BackupInv'
  OBVIOUS
<1>t. TypeOK' /\ seen \in [Node -> SUBSET Message]
  BY NextType DEF TypeOK
<1>v. \A n \in Node : view'[n] >= view[n]
  BY <1>t, NumbersGrow
<1>q. ASSUME executed' = executed, logVars' = logVars, \A n \in Node : seen[n] \subseteq seen'[n]
      PROVE  BackupInv'
  BY <1>q, <1>t, <1>v, QuietBackup DEF logVars
<1>p. ASSUME NEW n \in Node, NEW r \in Request, ProposeRequest(n, r),
             \A k \in Node : seen[k] \subseteq seen'[k]
      PROVE  BackupInv'
  <2>1. n = Primary(view[n])
    BY <1>p DEF ProposeRequest, ConsensusInv, PrimaryOfView
  <2>2. /\ executed' = executed /\ requestLog \in [Node -> [Sequence -> Request \cup {None}]]
        /\ requestLog' = [requestLog EXCEPT ![n][sequence[n] + 1] = r]
    BY <1>p DEF ProposeRequest, TypeOK
  <2>3. ASSUME NEW k \in Node, NEW s \in Sequence, k # Primary(0), view[k] = 0
        PROVE  requestLog'[k][s] = requestLog[k][s]
    BY <2>1, <2>2, <2>3
  <2> QED
    BY <1>t, <1>v, <1>p, <2>2, <2>3, QuietBackup
<1>1. CASE UNCHANGED vars
  BY <1>1, <1>q DEF vars
<1>2. ASSUME NEW n \in Node, NEW m \in Incoming(n), Deliver(n, m) PROVE BackupInv'
  <2>c. Consume(n, m) => \A k \in Node : seen[k] \subseteq seen'[k]
    BY <1>t DEF Consume
  <2>1. CASE handlePrePrepare(n, m) \/ HandlePrepare(n, m) \/ HandleCommit(n, m)
    BY <1>t, <2>1, PhaseCases, PhaseBackup DEF PhaseStepOf
  <2>2. CASE RejectPrePrepare(n, m)
    BY <1>q, <2>c, <2>2 DEF RejectPrePrepare
  <2>3. CASE HandleViewChange(n, m)
    BY <1>q, <2>3 DEF HandleViewChange
  <2>4. CASE HandleClientRequest(n, m)
    <3>1. m.req \in Request
      BY <2>4, MessageShape DEF HandleClientRequest, ClientMessage, Incoming
    <3>2. CASE ProposeRequest(n, m.req)
      BY <1>p, <2>c, <2>4, <3>1, <3>2 DEF HandleClientRequest
    <3>3. CASE ~ProposeRequest(n, m.req)
      BY <1>q, <2>c, <2>4, <3>3 DEF HandleClientRequest, ProposeFails
    <3> QED
      BY <3>2, <3>3
  <2>5. CASE HandleCheckpoint(n, m)
    <3>1. UNCHANGED <<seen, executed>>
      BY <2>5 DEF HandleCheckpoint
    <3>2. \A k \in Node, s \in Sequence : requestLog'[k][s] \in {requestLog[k][s], None}
      <4>0. requestLog \in [Node -> [Sequence -> Request \cup {None}]]
        BY DEF TypeOK
      <4>1. \A s \in Sequence : DropUpTo(requestLog[n], m.seq, None)[s] \in {requestLog[n][s], None}
        BY Zenon, <4>0, DropUpToEntry
      <4>2. \/ requestLog' = requestLog
            \/ requestLog' = [requestLog EXCEPT ![n] = DropUpTo(requestLog[n], m.seq, None)]
        BY <2>5 DEF HandleCheckpoint, garbageCollect, logVars
      <4> QED
        BY <4>0, <4>1, <4>2
    <3> QED
      BY <1>t, <1>v, <3>1, <3>2, QuietBackup
  <2> QED
    BY <1>2, <2>1, <2>2, <2>3, <2>4, <2>5 DEF Deliver
<1>3. ASSUME NEW n \in Node, initiateViewChange(n) \/ failPendingCallbacks(n) PROVE BackupInv'
  BY <1>q, <1>3 DEF initiateViewChange, failPendingCallbacks
<1>4. ASSUME NEW n \in Node, NEW r \in Request,
             SubmitToPrimary(n, r) \/ ForwardRequest(n, r) \/ EndWait(n, r)
      PROVE  BackupInv'
  BY <1>q, <1>4 DEF SubmitToPrimary, ForwardRequest, EndWait
<1>5. ASSUME NEW n \in Node, NEW r \in Request, ProposeSubmitted(n, r) PROVE BackupInv'
  BY <1>p, <1>q, <1>5 DEF ProposeSubmitted, ProposeFails
<1> QED
  BY <1>1, <1>2, <1>3, <1>4, <1>5 DEF Next

\* In the first view a backup that has executed a sequence never holds a request for
\* it again: no late, repeated or reordered message makes it execute twice.
THEOREM BackupsExecuteOnce == Spec => []BackupExecutesOnce
<1>1. Init => BackupInv
  BY DEF Init, BackupInv, AcceptedIsSeen, BackupExecutesOnce
<1>2. BackupInv => BackupExecutesOnce
  BY DEF BackupInv
<1> QED
  BY <1>1, <1>2, TypeCorrect, ConsensusCorrect, NextBackup, PTL DEF Spec
=============================================================================
