----------------------------- MODULE PBFTProofs -----------------------------
(***************************************************************************)
(* The consensus invariant of PBFT and what follows from it, for every set *)
(* of nodes, connection graph and bound: the proposals, votes and          *)
(* executions, agreement in the first view, and the decision log that the  *)
(* first view implements.                                                  *)
(***************************************************************************)
EXTENDS PBFTLemmas, FirstViewLog

\* Handling a PRE-PREPARE, PREPARE or COMMIT of the node's own view keeps the
\* invariant.
LEMMA PhaseStep ==
    ASSUME TypeOK, TypeOK', ConsensusInv, NEW n \in Node, NEW m, NEW req \in Request \cup {None},
           NEW prepares \in SUBSET Node, NEW commits \in SUBSET Node, NEW moves \in BOOLEAN,
           NEW executes \in BOOLEAN, NEW phase, NEW own,
           Handled(n, m, req, prepares, commits, moves, executes, phase, own)
    PROVE  ConsensusInv'
<1> USE DEF ConsensusInv
<1>h. /\ m \in PhaseMessages /\ m.view = view[n] /\ req \in {m.req, requestLog[n][m.seq]}
      /\ own \subseteq {PhaseMsg("PREPARE", m.view, m.seq, m.req, n)}
      /\ \A k \in prepares \ prepareLog[n][m.seq] :
            PhaseMsg("PREPARE", m.view, m.seq, m.req, k) \in sent \cup own
      /\ \A k \in commits \ commitLog[n][m.seq] :
            PhaseMsg("COMMIT", m.view, m.seq, m.req, k) \in sent \/ (moves /\ k = n)
      /\ moves => IsQuorum(prepares)
      /\ executes => IsQuorum(commits) /\ req \in Request
      /\ finish(n, m, req, prepares, commits, moves, executes, phase, own)
  BY DEF Handled
<1>m. /\ m \in sent /\ m.view \in View /\ m.seq \in Sequence /\ m.req \in Request
      /\ m.view \in Nat /\ m.view <= m.view
  BY <1>h, MessageShape, Arithmetic DEF PhaseMessages, PhaseMessage
<1> DEFINE v == m.view
           s == m.seq
           prepare(k) == PhaseMsg("PREPARE", v, s, m.req, k)
           commit(k) == PhaseMsg("COMMIT", v, s, m.req, k)
           proposal == PhaseMsg("PRE_PREPARE", v, s, m.req, Primary(v))
<1>e. /\ view' = view /\ isPrimary' = isPrimary /\ sequence' = sequence
      /\ prepareLog' = [prepareLog EXCEPT ![n][s] = prepares]
      /\ commitLog' = [commitLog EXCEPT ![n][s] = commits]
      /\ sent \cup own \subseteq sent'
      /\ moves => commit(n) \in sent'
      /\ \A x \in sent' \ sent :
            x = prepare(n) \/ (moves /\ x = commit(n)) \/ x.type = "CHECKPOINT"
      /\ \A k \in Node, t \in Sequence :
            \/ requestLog'[k][t] \in {requestLog[k][t], None}
            \/ k = n /\ t = s /\ requestLog'[k][t] = req
      /\ \A k \in Node : \A e \in executed'[k] \ executed[k] :
            executes /\ k = n /\ e.seq = s /\ e.view = v /\ e.req = req
  <2>1. FinishChanges(n, m, req, prepares, commits, moves, executes, own)
    BY <1>h, <1>m, FinishEffect
  <2> QED
    BY <2>1, <1>h DEF FinishChanges
<1>p. proposal \in sent
  BY <1>h DEF VotesMatchProposal
<1>f. \A k : /\ prepare(k).type = "PREPARE" /\ prepare(k).view = v /\ prepare(k).seq = s
             /\ prepare(k).req = m.req /\ prepare(k).node = k
             /\ commit(k).type = "COMMIT" /\ commit(k).view = v /\ commit(k).seq = s
             /\ commit(k).req = m.req /\ commit(k).node = k
  BY DEF PhaseMsg
<1> HIDE DEF prepare, commit, proposal
<1>1. PrimaryOfView'
  BY <1>e DEF PrimaryOfView
<1>2. Proposals' = Proposals
  BY <1>e, <1>f DEF Proposals
<1>3. ProposalSource' /\ ProposalUnique'
  BY <1>e, <1>2 DEF ProposalSource, ProposalUnique
<1>4. VotesMatchProposal'
  <2> SUFFICES ASSUME NEW x \in PhaseMessages'
               PROVE  PhaseMsg("PRE_PREPARE", x.view, x.seq, x.req, Primary(x.view)) \in sent'
    BY DEF VotesMatchProposal
  <2>1. CASE x \in sent
    BY <1>e, <2>1 DEF VotesMatchProposal, PhaseMessages
  <2>2. CASE x \notin sent
    <3>1. x = prepare(n) \/ x = commit(n)
      BY <1>e, <2>2 DEF PhaseMessages
    <3>2. x.view = v /\ x.seq = s /\ x.req = m.req
      BY <3>1, <1>f
    <3> QED
      BY <3>2, <1>p, <1>e DEF proposal
  <2> QED
    BY <2>1, <2>2
<1>5. req # None => \E w \in 0 .. v : PhaseMsg("PRE_PREPARE", w, s, req, Primary(w)) \in sent
  <2>1. CASE req = m.req
    BY <2>1, <1>p, <1>m DEF proposal
  <2>2. CASE req = requestLog[n][s]
    BY <2>2, <1>h, <1>m DEF LoggedIsProposed
  <2> QED
    BY <1>h, <2>1, <2>2
<1>6. LoggedIsProposed'
  BY <1>h, <1>5, <1>e DEF LoggedIsProposed
<1>7. /\ prepares \subseteq Voters(sent', "PREPARE", v, s)
      /\ commits \subseteq Voters(sent', "COMMIT", v, s)
  <2>1. /\ Voters(sent, "PREPARE", v, s) \subseteq Voters(sent', "PREPARE", v, s)
        /\ Voters(sent, "COMMIT", v, s) \subseteq Voters(sent', "COMMIT", v, s)
    BY <1>m, <1>e, VotersGrow
  <2>2. ASSUME NEW k \in prepares \ prepareLog[n][s] PROVE k \in Voters(sent', "PREPARE", v, s)
    <3>1. prepare(k) \in sent'
      BY <1>h, <1>e DEF prepare
    <3> QED
      BY <3>1, <1>f, <1>m DEF Voters
  <2>3. ASSUME NEW k \in commits \ commitLog[n][s] PROVE k \in Voters(sent', "COMMIT", v, s)
    <3>1. commit(k) \in sent'
      BY <1>h, <1>e DEF commit
    <3> QED
      BY <3>1, <1>f, <1>m DEF Voters
  <2>4. /\ prepareLog[n][s] \subseteq Voters(sent, "PREPARE", v, s)
        /\ commitLog[n][s] \subseteq Voters(sent, "COMMIT", v, s)
    BY <1>h, <1>m DEF LoggedIsCast
  <2> QED
    BY <2>1, <2>2, <2>3, <2>4
<1>8. LoggedIsCast'
  <2> SUFFICES ASSUME NEW k \in Node, NEW t \in Sequence
               PROVE  /\ prepareLog'[k][t] \subseteq Voters(sent', "PREPARE", view'[k], t)
                      /\ commitLog'[k][t] \subseteq Voters(sent', "COMMIT", view'[k], t)
    BY DEF LoggedIsCast
  <2>0. /\ prepareLog \in [Node -> [Sequence -> SUBSET Node]]
        /\ commitLog \in [Node -> [Sequence -> SUBSET Node]]
        /\ view \in [Node -> View]
    BY DEF TypeOK
  <2>1. CASE k = n /\ t = s
    <3>1. prepareLog'[k][t] = prepares /\ commitLog'[k][t] = commits
      BY <2>0, <2>1, <1>e, <1>m
    <3> QED
      BY <1>h, <3>1, <2>1, <1>7, <1>e
  <2>2. CASE k # n \/ t # s
    <3>1. prepareLog'[k][t] = prepareLog[k][t] /\ commitLog'[k][t] = commitLog[k][t]
      BY <2>0, <2>2, <1>e
    <3>2. view[k] \in View /\ view[k] <= view[k]
      BY <2>0, Arithmetic
    <3>3. /\ Voters(sent, "PREPARE", view[k], t) \subseteq Voters(sent', "PREPARE", view[k], t)
          /\ Voters(sent, "COMMIT", view[k], t) \subseteq Voters(sent', "COMMIT", view[k], t)
      BY <3>2, <1>e, VotersGrow
    <3> QED
      BY <3>1, <3>3, <1>e DEF LoggedIsCast
  <2> QED
    BY <2>1, <2>2
<1>n. /\ Voters(sent', "PREPARE", v, s) \in SUBSET Node
      /\ Voters(sent', "COMMIT", v, s) \in SUBSET Node
  BY DEF Voters
<1>9. moves => IsQuorum(Voters(sent', "PREPARE", v, s))
  BY <1>h, <1>7, <1>n, QuorumGrows
<1>10. CommitIsPrepared'
  <2> SUFFICES ASSUME NEW c \in Commits'
               PROVE  IsQuorum(Voters(sent', "PREPARE", c.view, c.seq))
    BY DEF CommitIsPrepared
  <2>1. CASE c \in sent
    <3>1. c.view \in View /\ c.view <= c.view
      BY <2>1, VoteFields DEF Commits
    <3>2. IsQuorum(Voters(sent, "PREPARE", c.view, c.seq))
      BY <2>1 DEF CommitIsPrepared, Commits
    <3> QED
      BY <3>1, <3>2, <1>e, VotersGrow, QuorumGrows
  <2>2. CASE c \notin sent
    BY <2>2, <1>e, <1>f, <1>9 DEF Commits
  <2> QED
    BY <2>1, <2>2
<1>11. executes => /\ IsQuorum(Voters(sent', "COMMIT", v, s))
                   /\ IsQuorum(Voters(sent', "PREPARE", v, s))
  <2> SUFFICES ASSUME executes
               PROVE  /\ IsQuorum(Voters(sent', "COMMIT", v, s))
                      /\ IsQuorum(Voters(sent', "PREPARE", v, s))
    OBVIOUS
  <2>1. IsQuorum(Voters(sent', "COMMIT", v, s))
    BY <1>h, <1>7, <1>n, QuorumGrows
  <2>2. PICK k \in commits : TRUE
    <3>1. Cardinality(commits) >= Quorum
      BY <1>h DEF IsQuorum
    <3>2. Cardinality({}) = 0
      BY FS_EmptySet
    <3>3. Quorum \in Nat \ {0}
      BY Arithmetic
    <3>4. commits # {}
      BY <3>1, <3>2, <3>3
    <3> QED
      BY <3>4
  <2>3. PICK c \in sent' : c.type = "COMMIT" /\ c.view <= v /\ c.seq = s
    BY <2>2, <1>7 DEF Voters
  <2>4. IsQuorum(Voters(sent', "PREPARE", c.view, s))
    BY <2>3, <1>10 DEF CommitIsPrepared, Commits
  <2>5. \A x \in sent' : x.type \in {"PREPARE", "COMMIT"} => x.view \in Nat
    BY <1>e, <1>f, <1>m, VoteFields
  <2>6. c.view \in Nat
    BY <2>3, <2>5
  <2>7. Voters(sent', "PREPARE", c.view, s) \subseteq Voters(sent', "PREPARE", v, s)
    BY <2>3, <2>5, <2>6, <1>m DEF Voters
  <2>8. IsQuorum(Voters(sent', "PREPARE", v, s))
    <3> DEFINE few == Voters(sent', "PREPARE", c.view, s)
               all == Voters(sent', "PREPARE", v, s)
    <3>1. all \in SUBSET Node /\ few \subseteq all /\ IsQuorum(few)
      BY <2>4, <2>7, <1>n
    <3> HIDE DEF few, all
    <3>2. IsQuorum(all)
      BY <3>1, QuorumGrows
    <3> QED
      BY <3>2 DEF all
  <2> QED
    BY <2>1, <2>8
<1>12. QuorumBacked'
  <2> SUFFICES ASSUME NEW k \in Node, NEW e \in executed'[k]
               PROVE  /\ \E w \in 0 .. e.view :
                            PhaseMsg("PRE_PREPARE", w, e.seq, e.req, Primary(w)) \in sent'
                      /\ IsQuorum(Voters(sent', "PREPARE", e.view, e.seq))
                      /\ IsQuorum(Voters(sent', "COMMIT", e.view, e.seq))
    BY DEF QuorumBacked
  <2>1. CASE e \in executed[k]
    BY <2>1, <1>e, ExecutionsStayBacked
  <2>2. CASE e \notin executed[k]
    <3>1. executes /\ e.seq = s /\ e.view = v /\ e.req = req
      BY <2>2, <1>e
    <3>2. req # None
      BY <1>h, <3>1, ConstantAssumption
    <3> QED
      BY <3>1, <3>2, <1>5, <1>11, <1>e
  <2> QED
    BY Zenon, <2>1, <2>2
<1> QED
  BY <1>1, <1>3, <1>4, <1>6, <1>8, <1>10, <1>12

\* Steps that only concern the client, the timer or messages of other kinds.
LEMMA ClientStep ==
    ASSUME TypeOK, TypeOK', ConsensusInv,
           sent \subseteq sent',
           \A m \in sent' \ sent : m.type \notin {"PRE_PREPARE", "PREPARE", "COMMIT"},
           UNCHANGED <<view, isPrimary, sequence, logVars, executed>>
    PROVE  ConsensusInv'
<1>1. PrimaryOfView'
  BY DEF ConsensusInv, PrimaryOfView
<1>2. \A n \in Node : view[n] <= view'[n]
  BY NodeNumbers
<1> QED
  BY <1>1, <1>2, QuietStep DEF logVars

\* Entering a later view keeps the invariant: the logs are left as they are.
LEMMA EnterViewStep ==
    ASSUME TypeOK, TypeOK', ConsensusInv, NEW n \in Node, NEW v \in View, v > view[n],
           enterView(n, v), sent \subseteq sent',
           \A m \in sent' \ sent : m.type \notin {"PRE_PREPARE", "PREPARE", "COMMIT"},
           UNCHANGED <<sequence, logVars, executed>>
    PROVE  ConsensusInv'
<1>1. PrimaryOfView'
  BY Zenon DEF ConsensusInv, PrimaryOfView, enterView, TypeOK
<1>t. view \in [Node -> View] /\ view' = [view EXCEPT ![n] = v]
  BY DEF TypeOK, enterView
<1>2. \A k \in Node : view[k] <= view'[k]
  BY <1>t, NodeNumbers, Arithmetic
<1> QED
  BY <1>1, <1>2, QuietStep DEF logVars

\* Handling any message keeps the invariant.
LEMMA DeliverConsensus ==
    ASSUME TypeOK, TypeOK', ConsensusInv, NEW n \in Node, NEW m \in Incoming(n), Deliver(n, m)
    PROVE  ConsensusInv'
<1>1. m \in sent
  BY DEF Incoming
<1>2. CASE handlePrePrepare(n, m) \/ HandlePrepare(n, m) \/ HandleCommit(n, m)
  BY <1>2, PhaseCases, PhaseStep DEF PhaseStepOf
<1>3. CASE RejectPrePrepare(n, m)
  BY <1>3, ClientStep DEF RejectPrePrepare, viewVars
<1>4. CASE HandleClientRequest(n, m)
  <2>1. m.req \in Request
    BY <1>1, <1>4, MessageShape DEF HandleClientRequest, ClientMessage
  <2>2. CASE ProposeRequest(n, m.req)
    BY <2>1, <2>2, ProposeStep
  <2>3. CASE ~ProposeRequest(n, m.req)
    BY <1>4, <2>3, ClientStep DEF HandleClientRequest, ProposeFails, viewVars
  <2> QED
    BY <2>2, <2>3
<1>5. CASE HandleViewChange(n, m)
  <2>1. m.view \in View
    BY <1>1, <1>5, MessageShape DEF HandleViewChange, ViewChangeMessage
  <2>2. CASE enterView(n, m.view)
    BY <1>5, <2>1, <2>2, EnterViewStep DEF HandleViewChange
  <2>3. CASE ~enterView(n, m.view)
    BY <1>5, <2>3, ClientStep DEF HandleViewChange
  <2> QED
    BY <2>2, <2>3
<1>6. CASE HandleCheckpoint(n, m)
  <2>1. UNCHANGED <<view, isPrimary, sequence, sent, executed>>
    BY <1>6 DEF HandleCheckpoint, viewVars
  <2>2. \A k \in Node, s \in Sequence :
           /\ requestLog'[k][s] \in {requestLog[k][s], None}
           /\ prepareLog'[k][s] \subseteq prepareLog[k][s]
           /\ commitLog'[k][s] \subseteq commitLog[k][s]
    <3>1. CASE UNCHANGED logVars
      BY <3>1 DEF logVars
    <3>2. CASE garbageCollect(n, m.seq)
      <4>0. /\ requestLog \in [Node -> [Sequence -> Request \cup {None}]]
            /\ prepareLog \in [Node -> [Sequence -> SUBSET Node]]
            /\ commitLog \in [Node -> [Sequence -> SUBSET Node]]
        BY DEF TypeOK
      <4>1. \A s \in Sequence :
               /\ DropUpTo(requestLog[n], m.seq, None)[s] \in {requestLog[n][s], None}
               /\ DropUpTo(prepareLog[n], m.seq, {})[s] \in {prepareLog[n][s], {}}
               /\ DropUpTo(commitLog[n], m.seq, {})[s] \in {commitLog[n][s], {}}
        BY Zenon, <4>0, DropUpToEntry
      <4>2. /\ requestLog' = [requestLog EXCEPT ![n] = DropUpTo(requestLog[n], m.seq, None)]
            /\ prepareLog' = [prepareLog EXCEPT ![n] = DropUpTo(prepareLog[n], m.seq, {})]
            /\ commitLog' = [commitLog EXCEPT ![n] = DropUpTo(commitLog[n], m.seq, {})]
        BY <3>2 DEF garbageCollect
      <4> QED
        BY <4>0, <4>1, <4>2
    <3> QED
      BY <1>6, <3>1, <3>2 DEF HandleCheckpoint
  <2>3. PrimaryOfView'
    BY <2>1 DEF ConsensusInv, PrimaryOfView
  <2>4. \A k \in Node : view[k] <= view'[k]
    BY <2>1, NodeNumbers
  <2> QED
    BY <2>1, <2>2, <2>3, <2>4, QuietStep
<1> QED
  BY <1>2, <1>3, <1>4, <1>5, <1>6 DEF Deliver

\* Every step keeps the invariant.
LEMMA NextConsensus == TypeOK /\ ConsensusInv /\ [Next]_vars => ConsensusInv'
<1> SUFFICES ASSUME TypeOK, ConsensusInv, [Next]_vars PROVE ConsensusInv'
  OBVIOUS
<1>t. TypeOK'
  BY NextType
<1>1. CASE UNCHANGED vars
  BY <1>1, <1>t, ClientStep DEF vars, viewVars
<1>2. ASSUME NEW n \in Node, NEW m \in Incoming(n), Deliver(n, m) PROVE ConsensusInv'
  BY <1>2, <1>t, DeliverConsensus
<1>3. ASSUME NEW n \in Node, initiateViewChange(n) PROVE ConsensusInv'
  <2>0. view[n] + 1 <= MaxView
    BY <1>3 DEF initiateViewChange
  <2>1. view[n] + 1 \in View /\ view[n] + 1 > view[n]
    BY <2>0, NodeNumbers, ConstantAssumption DEF View
  <2>2. /\ sent \subseteq sent'
        /\ \A m \in sent' \ sent : m.type \notin {"PRE_PREPARE", "PREPARE", "COMMIT"}
    BY <1>3 DEF initiateViewChange, Broadcast
  <2>3. enterView(n, view[n] + 1) /\ UNCHANGED <<sequence, logVars, executed>>
    BY <1>3 DEF initiateViewChange
  <2> QED
    BY <1>t, <2>1, <2>2, <2>3, EnterViewStep
<1>4. ASSUME NEW n \in Node, failPendingCallbacks(n) PROVE ConsensusInv'
  BY <1>4, <1>t, ClientStep DEF failPendingCallbacks
<1>5. ASSUME NEW n \in Node, NEW r \in Request, SubmitToPrimary(n, r) PROVE ConsensusInv'
  BY <1>5, <1>t, ClientStep DEF SubmitToPrimary, viewVars
<1>8. ASSUME NEW n \in Node, NEW r \in Request, ProposeSubmitted(n, r) PROVE ConsensusInv'
  <2>1. CASE ProposeRequest(n, r)
    BY <1>t, <2>1, ProposeStep
  <2>2. CASE ProposeFails(n)
    BY <1>t, <2>2, ClientStep DEF ProposeFails, viewVars
  <2> QED
    BY <1>8, <2>1, <2>2 DEF ProposeSubmitted
<1>6. ASSUME NEW n \in Node, NEW r \in Request, ForwardRequest(n, r) PROVE ConsensusInv'
  <2>1. /\ sent \subseteq sent'
        /\ \A m \in sent' \ sent : m.type \notin {"PRE_PREPARE", "PREPARE", "COMMIT"}
    <3> DEFINE msg == [type |-> "CLIENT_REQUEST", req |-> r, copy |-> forwards'[r], node |-> n]
    <3>1. sent' = sent \cup {msg} /\ msg.type = "CLIENT_REQUEST"
      BY <1>6 DEF ForwardRequest, Broadcast
    <3> QED
      BY <3>1
  <2>2. UNCHANGED <<view, isPrimary, sequence, logVars, executed>>
    BY <1>6 DEF ForwardRequest, viewVars
  <2> QED
    BY <1>t, <2>1, <2>2, ClientStep
<1>7. ASSUME NEW n \in Node, NEW r \in Request, EndWait(n, r) PROVE ConsensusInv'
  BY <1>7, <1>t, ClientStep DEF EndWait, viewVars
<1> QED
  BY <1>1, <1>2, <1>3, <1>4, <1>5, <1>6, <1>7, <1>8 DEF Next

\* At the start nothing has been sent and every log is empty.
LEMMA InitConsensus == Init => ConsensusInv
<1> SUFFICES ASSUME Init PROVE ConsensusInv
  OBVIOUS
<1>1. PrimaryOfView
  BY Zenon DEF Init, PrimaryOfView
<1>2. ProposalSource /\ ProposalUnique /\ VotesMatchProposal /\ CommitIsPrepared
  BY DEF Init, ProposalSource, ProposalUnique, VotesMatchProposal, CommitIsPrepared,
         Proposals, PhaseMessages, Commits
<1>3. LoggedIsProposed /\ LoggedIsCast /\ QuorumBacked
  BY DEF Init, LoggedIsProposed, LoggedIsCast, QuorumBacked
<1> QED
  BY <1>1, <1>2, <1>3 DEF ConsensusInv

\* The consensus invariant holds in every reachable state.
THEOREM ConsensusCorrect == Spec => []ConsensusInv
<1> QED
  BY TypeCorrect, InitConsensus, NextConsensus, PTL DEF Spec

\* No two requests are ever proposed for one view and sequence (ProposeRequest).
THEOREM ProposalsAreUnique == Spec => []ProposalUnique
<1>1. ConsensusInv => ProposalUnique
  BY DEF ConsensusInv
<1> QED
  BY <1>1, ConsensusCorrect, PTL

\* Every PREPARE and COMMIT carries the digest of its view's proposal.
THEOREM VotesAreForProposals == Spec => []VotesMatchProposal
<1>1. ConsensusInv => VotesMatchProposal
  BY DEF ConsensusInv
<1> QED
  BY <1>1, ConsensusCorrect, PTL

\* executeRequest only runs what was proposed and has 2f+1 PREPAREs and COMMITs
\* for its sequence behind it.
THEOREM ExecutionsAreBacked == Spec => []QuorumBacked
<1>1. ConsensusInv => QuorumBacked
  BY DEF ConsensusInv
<1> QED
  BY <1>1, ConsensusCorrect, PTL

\* What is executed in the first view is the first view's proposal.
LEMMA FirstViewProposal ==
    ASSUME ConsensusInv, TypeOK, NEW n \in Node, NEW e \in executed[n], e.view = 0
    PROVE  PhaseMsg("PRE_PREPARE", 0, e.seq, e.req, Primary(0)) \in Proposals
<1>1. PICK v \in 0 .. 0 : PhaseMsg("PRE_PREPARE", v, e.seq, e.req, Primary(v)) \in sent
  BY DEF ConsensusInv, QuorumBacked
<1>2. v = 0
  OBVIOUS
<1> QED
  BY <1>1, <1>2 DEF Proposals, PhaseMsg

\* In the first view every vote at the sequence of an execution is a vote for the
\* request that was executed.
LEMMA FirstViewVotes ==
    ASSUME ConsensusInv, TypeOK, NEW n \in Node, NEW e \in executed[n], e.view = 0,
           NEW type \in {"PREPARE", "COMMIT"}
    PROVE  Voters(sent, type, 0, e.seq) \subseteq VotersFor(sent, type, 0, e.seq, e.req)
<1> SUFFICES ASSUME NEW k \in Voters(sent, type, 0, e.seq)
             PROVE  PhaseMsg(type, 0, e.seq, e.req, k) \in sent
  BY DEF Voters, VotersFor
<1>1. PICK m \in sent : m.type = type /\ m.view <= 0 /\ m.seq = e.seq /\ m.node = k
  BY DEF Voters
<1>2. m.view \in View /\ m = PhaseMsg(type, m.view, e.seq, m.req, k) /\ m \in PhaseMessages
  BY <1>1, MessageShape DEF PhaseMessage, PhaseMessages
<1>3. m.view = 0
  BY <1>1, <1>2, Arithmetic
<1>4. PhaseMsg("PRE_PREPARE", 0, e.seq, m.req, Primary(0)) \in Proposals
  BY <1>1, <1>2, <1>3 DEF ConsensusInv, VotesMatchProposal, Proposals, PhaseMsg
<1>5. PhaseMsg("PRE_PREPARE", 0, e.seq, e.req, Primary(0)) \in Proposals
  BY FirstViewProposal
<1>6. m.req = e.req
  BY <1>4, <1>5 DEF ConsensusInv, ProposalUnique, PhaseMsg
<1> QED
  BY <1>1, <1>2, <1>3, <1>6

\* In the first view every execution has a full certificate: 2f+1 COMMITs and
\* 2f+1 PREPAREs for the request itself.
THEOREM FirstViewCertified == Spec => []FirstViewCertificate
<1>1. TypeOK /\ ConsensusInv => FirstViewCertificate
  <2> SUFFICES ASSUME TypeOK, ConsensusInv, NEW n \in Node, NEW e \in executed[n], e.view = 0
               PROVE  /\ IsQuorum(VotersFor(sent, "COMMIT", 0, e.seq, e.req))
                      /\ IsQuorum(VotersFor(sent, "PREPARE", 0, e.seq, e.req))
    BY DEF FirstViewCertificate
  <2>1. /\ IsQuorum(Voters(sent, "COMMIT", 0, e.seq))
        /\ IsQuorum(Voters(sent, "PREPARE", 0, e.seq))
    BY DEF ConsensusInv, QuorumBacked
  <2>2. /\ Voters(sent, "COMMIT", 0, e.seq) \subseteq VotersFor(sent, "COMMIT", 0, e.seq, e.req)
        /\ Voters(sent, "PREPARE", 0, e.seq) \subseteq VotersFor(sent, "PREPARE", 0, e.seq, e.req)
    BY FirstViewVotes
  <2>3. /\ VotersFor(sent, "COMMIT", 0, e.seq, e.req) \in SUBSET Node
        /\ VotersFor(sent, "PREPARE", 0, e.seq, e.req) \in SUBSET Node
    BY DEF VotersFor
  <2>4. IsQuorum(VotersFor(sent, "COMMIT", 0, e.seq, e.req))
    <3> DEFINE few == Voters(sent, "COMMIT", 0, e.seq)
               all == VotersFor(sent, "COMMIT", 0, e.seq, e.req)
    <3>1. few \subseteq all /\ all \in SUBSET Node /\ IsQuorum(few)
      BY <2>1, <2>2, <2>3
    <3> HIDE DEF few, all
    <3>2. IsQuorum(all)
      BY <3>1, QuorumGrows
    <3> QED
      BY <3>2 DEF all
  <2>5. IsQuorum(VotersFor(sent, "PREPARE", 0, e.seq, e.req))
    <3> DEFINE few == Voters(sent, "PREPARE", 0, e.seq)
               all == VotersFor(sent, "PREPARE", 0, e.seq, e.req)
    <3>1. few \subseteq all /\ all \in SUBSET Node /\ IsQuorum(few)
      BY <2>1, <2>2, <2>3
    <3> HIDE DEF few, all
    <3>2. IsQuorum(all)
      BY <3>1, QuorumGrows
    <3> QED
      BY <3>2 DEF all
  <2> QED
    BY <2>4, <2>5
<1> QED
  BY <1>1, TypeCorrect, ConsensusCorrect, PTL

\* Nodes that execute the same sequence in the first view execute the same
\* request, whatever is lost, repeated or reordered.
THEOREM FirstViewAgrees == Spec => []FirstViewAgreement
<1>1. TypeOK /\ ConsensusInv => FirstViewAgreement
  <2> SUFFICES ASSUME TypeOK, ConsensusInv, NEW n \in Node, NEW k \in Node,
                      NEW e \in executed[n], NEW d \in executed[k],
                      e.view = 0, d.view = 0, e.seq = d.seq
               PROVE  e.req = d.req
    BY DEF FirstViewAgreement
  <2>1. /\ PhaseMsg("PRE_PREPARE", 0, e.seq, e.req, Primary(0)) \in Proposals
        /\ PhaseMsg("PRE_PREPARE", 0, d.seq, d.req, Primary(0)) \in Proposals
    BY FirstViewProposal
  <2> QED
    BY <2>1 DEF ConsensusInv, ProposalUnique, PhaseMsg
<1> QED
  BY <1>1, TypeCorrect, ConsensusCorrect, PTL

\* The step proposes nothing.
NoProposal ==
    /\ sent \subseteq sent'
    /\ \A x \in sent' \ sent : x.type # "PRE_PREPARE"

\* The step executes at most this request, at this node and sequence.
ExecutesAtMost(n, s, req) ==
    \A k \in Node :
        /\ executed[k] \subseteq executed'[k]
        /\ \A e \in executed'[k] \ executed[k] : k = n /\ e.seq = s /\ e.req = req

\* The log of the first view grows by proposals only.
LEMMA ChosenStays == ASSUME NoProposal PROVE FirstViewChosen' = FirstViewChosen
<1>1. \A s, r : PhaseMsg("PRE_PREPARE", 0, s, r, Primary(0)).type = "PRE_PREPARE"
  BY DEF PhaseMsg
<1>2. \A s, r : PhaseMsg("PRE_PREPARE", 0, s, r, Primary(0)) \in sent' <=>
                PhaseMsg("PRE_PREPARE", 0, s, r, Primary(0)) \in sent
  BY <1>1 DEF NoProposal
<1> QED
  BY <1>2 DEF FirstViewChosen

\* A step that executes nothing new leaves the log alone.
LEMMA QuietLog ==
    ASSUME NoProposal, executed' = executed
    PROVE  UNCHANGED Log!vars
<1>1. FirstViewApplied' = FirstViewApplied
  BY DEF FirstViewApplied
<1> QED
  BY <1>1, ChosenStays DEF Log!vars

\* A step that executes is an Apply of the log if it is made in the first view.
LEMMA ExecuteLog ==
    ASSUME TypeOK, TypeOK', ConsensusInv', NoProposal,
           NEW n \in Node, NEW s \in Sequence, NEW req, ExecutesAtMost(n, s, req)
    PROVE  [Log!Next]_(Log!vars)
<1>1. FirstViewChosen' = FirstViewChosen
  BY ChosenStays
<1>2. CASE \E e \in executed'[n] \ executed[n] : e.view = 0
  <2>1. PICK e \in executed'[n] \ executed[n] : e.view = 0
    BY <1>2
  <2>2. e.seq = s /\ e.req = req
    BY <2>1 DEF ExecutesAtMost
  <2>3. e \in Execution
    BY <2>1 DEF TypeOK
  <2>4. req \in Request
    BY <2>2, <2>3 DEF Execution
  <2>5. PICK v \in 0 .. 0 : PhaseMsg("PRE_PREPARE", v, s, req, Primary(v)) \in sent'
    BY <2>1, <2>2 DEF ConsensusInv, QuorumBacked
  <2>6. v = 0
    OBVIOUS
  <2>7. <<s, req>> \in FirstViewChosen'
    BY <2>4, <2>5, <2>6 DEF FirstViewChosen
  <2>8. FirstViewApplied' = [FirstViewApplied EXCEPT ![n] = @ \cup {<<s, req>>}]
    <3> DEFINE made(k, d) == \E x \in executed[k] : x.view = 0 /\ x.seq = d[1] /\ x.req = d[2]
               madeNext(k, d) == \E x \in executed'[k] : x.view = 0 /\ x.seq = d[1] /\ x.req = d[2]
    <3>1. \A k \in Node, d \in Sequence \X Request :
            madeNext(k, d) <=> (made(k, d) \/ (k = n /\ d = <<s, req>>))
      <4> SUFFICES ASSUME NEW k \in Node, NEW d \in Sequence \X Request
                   PROVE  madeNext(k, d) <=> (made(k, d) \/ (k = n /\ d = <<s, req>>))
        OBVIOUS
      <4>0. d = <<d[1], d[2]>>
        OBVIOUS
      <4>1. ASSUME madeNext(k, d), ~made(k, d) PROVE k = n /\ d = <<s, req>>
        BY <4>0, <4>1 DEF ExecutesAtMost
      <4>2. ASSUME made(k, d) PROVE madeNext(k, d)
        BY <4>2 DEF ExecutesAtMost
      <4>3. ASSUME k = n, d = <<s, req>> PROVE madeNext(k, d)
        BY <4>3, <2>1, <2>2
      <4> QED
        BY <4>1, <4>2, <4>3
    <3>2. FirstViewApplied = [k \in Node |-> {d \in Sequence \X Request : made(k, d)}]
      BY DEF FirstViewApplied
    <3>3. FirstViewApplied' = [k \in Node |-> {d \in Sequence \X Request : madeNext(k, d)}]
      BY DEF FirstViewApplied
    <3> HIDE DEF made, madeNext
    <3>4. <<s, req>> \in Sequence \X Request
      BY <2>4
    <3>5. ASSUME NEW k \in Node
          PROVE  FirstViewApplied'[k] =
                   IF k = n THEN FirstViewApplied[k] \cup {<<s, req>>} ELSE FirstViewApplied[k]
      BY <3>1, <3>2, <3>3, <3>4, Zenon
    <3> QED
      BY <3>2, <3>3, <3>5
  <2>9. Log!Apply(n, s, req)
    BY <1>1, <2>7, <2>8 DEF Log!Apply
  <2> QED
    BY <2>4, <2>9 DEF Log!Next
<1>3. CASE ~\E e \in executed'[n] \ executed[n] : e.view = 0
  <2>1. ASSUME NEW k \in Node
        PROVE  \A x : x.view = 0 => (x \in executed'[k] <=> x \in executed[k])
    BY <1>3 DEF ExecutesAtMost
  <2>2. FirstViewApplied' = FirstViewApplied
    BY <2>1 DEF FirstViewApplied
  <2> QED
    BY <1>1, <2>2 DEF Log!vars
<1> QED
  BY <1>2, <1>3

\* A proposal is a Choose of the log if it is made in the first view: its sequence
\* number is beyond every earlier proposal of the same node.
LEMMA ProposeLog ==
    ASSUME TypeOK, ConsensusInv, NEW n \in Node, NEW r \in Request, ProposeRequest(n, r)
    PROVE  [Log!Next]_(Log!vars)
<1> DEFINE s == sequence[n] + 1
           p == PhaseMsg("PRE_PREPARE", view[n], s, r, n)
<1>t. view[n] \in View /\ sequence[n] \in 0 .. MaxSequence
  BY DEF TypeOK
<1>1. isPrimary[n] /\ sent' = sent \cup {p} /\ executed' = executed /\ s \in Sequence
  BY <1>t, ConstantAssumption DEF ProposeRequest, Broadcast, Sequence
<1>2. n = Primary(view[n])
  BY <1>1 DEF ConsensusInv, PrimaryOfView
<1>3. FirstViewApplied' = FirstViewApplied
  BY <1>1 DEF FirstViewApplied
<1>4. CASE view[n] = 0
  <2>1. \A d \in Sequence \X Request :
           PhaseMsg("PRE_PREPARE", 0, d[1], d[2], Primary(0)) = p <=> d = <<s, r>>
    BY <1>2, <1>4 DEF PhaseMsg
  <2>2. FirstViewChosen' = FirstViewChosen \cup {<<s, r>>}
    <3> HIDE DEF p
    <3> QED
      BY <1>1, <2>1 DEF FirstViewChosen
  <2>3. ASSUME NEW d \in FirstViewChosen PROVE d[1] # s
    <3> DEFINE q == PhaseMsg("PRE_PREPARE", 0, d[1], d[2], Primary(0))
    <3>1. q \in Proposals /\ q.node = Primary(0) /\ q.seq = d[1]
      BY DEF FirstViewChosen, Proposals, PhaseMsg
    <3>2. q.seq <= sequence[q.node]
      BY <3>1 DEF ConsensusInv, ProposalSource
    <3>3. d[1] <= sequence[n]
      BY <1>2, <1>4, <3>1, <3>2
    <3>4. d[1] \in Nat
      BY Arithmetic DEF FirstViewChosen
    <3> QED
      BY <1>t, <3>3, <3>4, ConstantAssumption
  <2>4. Log!Choose(s, r)
    BY <1>3, <2>2, <2>3 DEF Log!Choose
  <2> QED
    BY <1>1, <2>4 DEF Log!Next
<1>5. CASE view[n] # 0
  <2>1. \A x, y : PhaseMsg("PRE_PREPARE", 0, x, y, Primary(0)) # p
    BY <1>5 DEF PhaseMsg
  <2>2. FirstViewChosen' = FirstViewChosen
    <3> HIDE DEF p
    <3> QED
      BY <1>1, <2>1 DEF FirstViewChosen
  <2> QED
    BY <1>3, <2>2 DEF Log!vars
<1> QED
  BY <1>4, <1>5

\* The common end of the three phase handlers proposes nothing and executes at
\* most the request it is given.
LEMMA PhaseLog ==
    ASSUME TypeOK, TypeOK', ConsensusInv', NEW n \in Node, NEW m, NEW req \in Request \cup {None},
           NEW prepares \in SUBSET Node, NEW commits \in SUBSET Node, NEW moves \in BOOLEAN,
           NEW executes \in BOOLEAN, NEW phase, NEW own,
           Handled(n, m, req, prepares, commits, moves, executes, phase, own)
    PROVE  [Log!Next]_(Log!vars)
<1>0. /\ m.seq \in Sequence
      /\ finish(n, m, req, prepares, commits, moves, executes, phase, own)
  BY DEF Handled, PhaseMessage
<1>1. FinishChanges(n, m, req, prepares, commits, moves, executes, own)
  BY <1>0, FinishEffect
<1>2. /\ PhaseMsg("COMMIT", view[n], m.seq, m.req, n).type = "COMMIT"
      /\ \A x \in own : x.type = "PREPARE"
  <2>1. own = {PhaseMsg("PREPARE", m.view, m.seq, m.req, n)} \/ own = {}
    BY DEF Handled
  <2> QED
    BY <2>1 DEF PhaseMsg
<1>3. NoProposal
  BY <1>1, <1>2 DEF FinishChanges, NoProposal
<1>4. ExecutesAtMost(n, m.seq, req)
  BY <1>1 DEF FinishChanges, ExecutesAtMost
<1> QED
  BY <1>0, <1>3, <1>4, ExecuteLog

\* Handling any message is a step of the log.
LEMMA DeliverLog ==
    ASSUME TypeOK, TypeOK', ConsensusInv, ConsensusInv',
           NEW n \in Node, NEW m \in Incoming(n), Deliver(n, m)
    PROVE  [Log!Next]_(Log!vars)
<1>1. m \in sent
  BY DEF Incoming
<1>2. CASE handlePrePrepare(n, m) \/ HandlePrepare(n, m) \/ HandleCommit(n, m)
  BY <1>2, PhaseCases, PhaseLog DEF PhaseStepOf
<1>3. CASE RejectPrePrepare(n, m)
  <2>1. UNCHANGED <<sent, executed>>
    BY <1>3 DEF RejectPrePrepare
  <2> QED
    BY <2>1, QuietLog DEF NoProposal
<1>4. CASE HandleClientRequest(n, m)
  <2>1. m.req \in Request
    BY <1>1, <1>4, MessageShape DEF HandleClientRequest, ClientMessage
  <2>2. CASE ProposeRequest(n, m.req)
    BY <2>1, <2>2, ProposeLog
  <2>3. CASE ~ProposeRequest(n, m.req)
    <3>1. UNCHANGED <<sent, executed>>
      BY <1>4, <2>3 DEF HandleClientRequest, ProposeFails
    <3> QED
      BY <3>1, QuietLog DEF NoProposal
  <2> QED
    BY <2>2, <2>3
<1>5. CASE HandleViewChange(n, m) \/ HandleCheckpoint(n, m)
  <2>1. UNCHANGED <<sent, executed>>
    BY <1>5 DEF HandleViewChange, HandleCheckpoint
  <2> QED
    BY <2>1, QuietLog DEF NoProposal
<1> QED
  BY <1>2, <1>3, <1>4, <1>5 DEF Deliver

\* Every step of PBFT is a step of the log or a stutter.
LEMMA NextLog ==
    TypeOK /\ TypeOK' /\ ConsensusInv /\ ConsensusInv' /\ [Next]_vars => [Log!Next]_(Log!vars)
<1> SUFFICES ASSUME TypeOK, TypeOK', ConsensusInv, ConsensusInv', [Next]_vars
             PROVE  [Log!Next]_(Log!vars)
  OBVIOUS
<1>1. CASE UNCHANGED vars
  BY <1>1, QuietLog DEF vars, NoProposal
<1>2. ASSUME NEW n \in Node, NEW m \in Incoming(n), Deliver(n, m) PROVE [Log!Next]_(Log!vars)
  BY <1>2, DeliverLog
<1>3. ASSUME NEW n \in Node, initiateViewChange(n) PROVE [Log!Next]_(Log!vars)
  <2> DEFINE vote == [type |-> "VIEW_CHANGE", view |-> view[n] + 1, node |-> n]
  <2>1. sent' = sent \cup {vote} /\ vote.type = "VIEW_CHANGE" /\ executed' = executed
    BY <1>3 DEF initiateViewChange, Broadcast
  <2> HIDE DEF vote
  <2>2. NoProposal
    BY <2>1 DEF NoProposal
  <2> QED
    BY <2>1, <2>2, QuietLog
<1>4. ASSUME NEW n \in Node, failPendingCallbacks(n) PROVE [Log!Next]_(Log!vars)
  BY <1>4, QuietLog DEF failPendingCallbacks, NoProposal
<1>5. ASSUME NEW n \in Node, NEW r \in Request, SubmitToPrimary(n, r) PROVE [Log!Next]_(Log!vars)
  BY <1>5, QuietLog DEF SubmitToPrimary, NoProposal
<1>6. ASSUME NEW n \in Node, NEW r \in Request, ForwardRequest(n, r) PROVE [Log!Next]_(Log!vars)
  <2> DEFINE msg == [type |-> "CLIENT_REQUEST", req |-> r, copy |-> forwards'[r], node |-> n]
  <2>1. sent' = sent \cup {msg} /\ msg.type = "CLIENT_REQUEST" /\ executed' = executed
    BY <1>6 DEF ForwardRequest, Broadcast
  <2> HIDE DEF msg
  <2>2. NoProposal
    BY <2>1 DEF NoProposal
  <2> QED
    BY <2>1, <2>2, QuietLog
<1>7. ASSUME NEW n \in Node, NEW r \in Request, ProposeSubmitted(n, r) PROVE [Log!Next]_(Log!vars)
  <2>1. CASE ProposeRequest(n, r)
    BY <2>1, ProposeLog
  <2>2. CASE ProposeFails(n)
    BY <2>2, QuietLog DEF ProposeFails, NoProposal
  <2> QED
    BY <1>7, <2>1, <2>2 DEF ProposeSubmitted
<1>8. ASSUME NEW n \in Node, NEW r \in Request, EndWait(n, r) PROVE [Log!Next]_(Log!vars)
  BY <1>8, QuietLog DEF EndWait, NoProposal
<1> QED
  BY <1>1, <1>2, <1>3, <1>4, <1>5, <1>6, <1>7, <1>8 DEF Next

\* The log of the first view starts empty.
LEMMA InitLog == Init => Log!Init
<1> SUFFICES ASSUME Init PROVE Log!Init
  OBVIOUS
<1>1. sent = {} /\ executed = [n \in Node |-> {}]
  BY DEF Init
<1> QED
  BY <1>1 DEF Log!Init, FirstViewChosen, FirstViewApplied

\* In its first view PBFT implements the decision log, for every cluster, every
\* order of messages and every bound: ProposeRequest never gives a sequence number
\* to a second request, and executeRequest only runs a request under its number.
THEOREM FirstViewImplementsLog == Spec => FirstViewIsALog
<1> QED
  BY TypeCorrect, ConsensusCorrect, InitLog, NextLog, PTL DEF Spec, FirstViewIsALog, Log!Spec
=============================================================================
