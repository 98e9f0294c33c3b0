---------------------------- MODULE TicketsProofs ----------------------------
(***************************************************************************)
(* What holds of the tickets on every node, in every database and in every *)
(* message, for every set of nodes and tickets, every pattern of crashes   *)
(* and every bound.                                                        *)
(***************************************************************************)
EXTENDS TicketsTypeProofs

\* While a process runs, neither gossip, state sync nor loading the database
\* replaces its copy of a ticket by an older one (MergeState, SyncTicket, Increment).
THEOREM CopiesAreNeverOlder == Spec => NeverOlder
<1>1. Init => ClockCoversCopies
  <2> SUFFICES ASSUME Init PROVE ClockCoversCopies
    OBVIOUS
  <2>1. \A n \in Node, t \in Ticket : currentState[n][t] # None =>
           currentState[n][t] = Issued(0, NewVectorClock)
    BY DEF Init
  <2>2. Issued(0, NewVectorClock).vc = NewVectorClock /\ vectorClock = [n \in Node |-> NewVectorClock]
    BY DEF Init, Issued
  <2> QED
    BY <2>1, <2>2, ClockOrder DEF ClockCoversCopies
<1> QED
  BY <1>1, TypeCorrect, NextCovers, PTL DEF Spec, NeverOlder

(***************************************************************************)
(* States come from transitions, and validations from consensus.           *)
(***************************************************************************)
\* Everything that is new in memory, in the databases, in the saves and in the
\* messages has a state that its ticket was moved to.
NewIsReal ==
    /\ happened \subseteq happened'
    /\ \A n \in Node, t \in Ticket :
          /\ currentState'[n][t] # currentState[n][t] => HasHappened(t, StateOf(currentState[n][t]))'
          /\ disk'[n][t] # disk[n][t] => HasHappened(t, StateOf(disk[n][t]))'
    /\ \A n \in Node : \A w \in saves'[n] \ saves[n] :
          StateOf(w.copy) # None => <<w.ticket, StateOf(w.copy)>> \in happened'
    /\ \A m \in net' \ net :
          /\ m.type = "update" => (StateOf(m.copy) # None => <<m.ticket, StateOf(m.copy)>> \in happened')
          /\ m.type = "sync" => \A t \in Ticket : m.states[t] # None => <<t, m.states[t]>> \in happened'

LEMMA RealStep == ASSUME OnlyRealStates, NewIsReal PROVE OnlyRealStates'
<1> USE DEF HasHappened
<1>1. \A n \in Node, t \in Ticket :
         HasHappened(t, StateOf(currentState[n][t]))' /\ HasHappened(t, StateOf(disk[n][t]))'
  <2> SUFFICES ASSUME NEW n \in Node, NEW t \in Ticket
               PROVE  /\ HasHappened(t, StateOf(currentState[n][t]))'
                      /\ HasHappened(t, StateOf(disk[n][t]))'
    OBVIOUS
  <2>1. CASE currentState'[n][t] = currentState[n][t]
    BY <2>1 DEF OnlyRealStates, NewIsReal, StateOf
  <2>2. HasHappened(t, StateOf(currentState[n][t]))'
    BY <2>1 DEF NewIsReal
  <2>3. CASE disk'[n][t] = disk[n][t]
    BY <2>2, <2>3 DEF OnlyRealStates, NewIsReal, StateOf
  <2> QED
    BY <2>2, <2>3 DEF NewIsReal
<1>2. \A n \in Node : \A w \in saves'[n] :
         StateOf(w.copy) # None => <<w.ticket, StateOf(w.copy)>> \in happened'
  BY DEF OnlyRealStates, NewIsReal
<1>3. \A m \in net' : m.type = "update" =>
         (StateOf(m.copy) # None => <<m.ticket, StateOf(m.copy)>> \in happened')
  BY DEF OnlyRealStates, NewIsReal
<1>4. \A m \in net' : m.type = "sync" =>
         \A t \in Ticket : m.states[t] # None => <<t, m.states[t]>> \in happened'
  BY DEF OnlyRealStates, NewIsReal
<1> QED
  BY <1>1, <1>2, <1>3, <1>4 DEF OnlyRealStates

\* Every new validation and every new task comes from a decision.
NewIsDecided ==
    /\ chosen \subseteq chosen'
    /\ \A t \in Ticket, s \in {"VALIDATED", "CONSUMED"} :
          <<t, s>> \in happened' \ happened => t \in DecidedTickets
    /\ \A n \in Node : todo'[n] \subseteq todo[n] \cup chosen'

LEMMA DecidedStep == ASSUME MovedIsDecided, NewIsDecided PROVE MovedIsDecided'
<1>1. DecidedTickets \subseteq DecidedTickets'
  BY DEF DecidedTickets, NewIsDecided
<1> QED
  BY <1>1 DEF MovedIsDecided, NewIsDecided

\* A transition brings only the state it moves the ticket to.
LEMMA TransitionHistory ==
    ASSUME TypeInv, OnlyRealStates, NEW n \in Node, NEW t \in Ticket, NEW s \in State,
           NEW saved \in BOOLEAN, Transition(n, t, s, saved),
           \A k \in Node : \A w \in saves'[k] \ saves[k] : w.copy = None
    PROVE  NewIsReal /\ happened' = happened \cup {<<t, s>>}
<1>1. PICK copy \in Copy : TransitionChanges(n, t, s, copy)
  BY TransitionEffect DEF TypeInv
<1>2. /\ copy.state = s /\ happened' = happened \cup {<<t, s>>}
      /\ currentState' = [currentState EXCEPT ![n][t] = copy]
      /\ disk' = disk \/ disk' = [disk EXCEPT ![n][t] = copy]
      /\ \A m \in net' \ net : m \in Update /\ m.ticket = t /\ m.copy.state = s
  BY <1>1 DEF TransitionChanges
<1>3. currentState \in [Node -> [Ticket -> Copy \cup {None}]]
  BY DEF TypeInv, TypeOK
<1>4. disk \in [Node -> [Ticket -> Copy \cup {None}]]
  BY DEF TypeInv, TypeOK
<1>5. \A k \in Node, u \in Ticket : currentState'[k][u] # currentState[k][u] =>
         u = t /\ currentState'[k][u] = copy
  BY <1>2, <1>3
<1>6. \A k \in Node, u \in Ticket : disk'[k][u] # disk[k][u] => u = t /\ disk'[k][u] = copy
  BY <1>2, <1>4
<1>7. \A k \in Node, u \in Ticket :
          /\ currentState'[k][u] # currentState[k][u] => HasHappened(u, StateOf(currentState[k][u]))'
          /\ disk'[k][u] # disk[k][u] => HasHappened(u, StateOf(disk[k][u]))'
  BY <1>2, <1>5, <1>6, NoneIsNoCopy DEF HasHappened, StateOf
<1>8. \A m \in net' \ net : m.type # "sync" /\ m.copy # None /\ m.copy \in Copy
  BY <1>2, NoneIsNoCopy DEF Update
<1> QED
  BY <1>2, <1>7, <1>8 DEF NewIsReal, StateOf

\* What consensus calls, and the calls of ConsumeTicket and DisputeTicket.
LEMMA TransitionsKeepHistory ==
    ASSUME TypeInv, HistoryInv, NEW n \in Node,
           \/ \E d \in todo[n] : Execute(n, d)
           \/ \E t \in Ticket : ConsumeTicket(n, t) \/ DisputeTicket(n, t)
    PROVE  HistoryInv'
<1>a. OnlyRealStates /\ MovedIsDecided
  BY DEF HistoryInv
<1>b. saves \in [Node -> SUBSET Save] /\ todo \in [Node -> SUBSET (Sequence \X Ticket)]
  BY DEF TypeInv, TypeOK
<1>1. ASSUME NEW t \in Ticket, NEW s \in State, NEW saved \in SaveResults(n),
             Transition(n, t, s, saved), chosen' = chosen,
             saves' \in {saves, [saves EXCEPT ![n] = @ \cup {PersistTicket(t)}]},
             \A k \in Node : todo'[k] \subseteq todo[k],
             s \in {"VALIDATED", "CONSUMED"} => t \in DecidedTickets
      PROVE  HistoryInv'
  <2>1. \A k \in Node : \A w \in saves'[k] \ saves[k] : w.copy = None
    BY <1>1, <1>b DEF PersistTicket
  <2>2. saved \in BOOLEAN
    BY SaveTypes
  <2>3. NewIsReal /\ happened' = happened \cup {<<t, s>>}
    BY <1>1, <1>a, <2>1, <2>2, TransitionHistory
  <2>4. NewIsDecided
    BY <1>1, <2>3 DEF NewIsDecided
  <2> QED
    BY <1>a, <2>3, <2>4, RealStep, DecidedStep DEF HistoryInv
<1>2. ASSUME NEW d \in todo[n], Execute(n, d) PROVE HistoryInv'
  <2>1. d \in chosen /\ d \in Sequence \X Ticket /\ d[2] \in Ticket
    BY <1>a, <1>b DEF MovedIsDecided
  <2>2. d[2] \in DecidedTickets
    BY <2>1 DEF DecidedTickets
  <2>3. CASE ExecuteValidate(n, d)
    <3>1. PICK saved \in SaveResults(n) :
            /\ Transition(n, d[2], "VALIDATED", saved)
            /\ \/ /\ Consensus!Apply(n, d[1], d[2])
                  /\ todo' = [todo EXCEPT ![n] = @ \ {d}]
                  /\ saves' = [saves EXCEPT ![n] = @ \cup {PersistTicket(d[2])}]
               \/ UNCHANGED <<chosen, todo, saves>>
      BY <2>3 DEF ExecuteValidate
    <3>2. chosen' = chosen /\ \A k \in Node : todo'[k] \subseteq todo[k]
      BY <3>1, <1>b DEF Consensus!Apply
    <3> QED
      BY <1>1, <2>1, <2>2, <3>1, <3>2 DEF State
  <2>4. CASE ExecuteAgain(n, d)
    <3>1. /\ chosen' = chosen /\ todo' = [todo EXCEPT ![n] = @ \ {d}]
          /\ saves' = [saves EXCEPT ![n] = @ \cup {PersistTicket(d[2])}]
          /\ UNCHANGED <<currentState, disk, happened, net>>
      BY <2>4 DEF ExecuteAgain, Consensus!Apply
    <3>2. \A k \in Node : \A w \in saves'[k] \ saves[k] : w.copy = None
      BY <3>1, <1>b DEF PersistTicket
    <3>3. NewIsReal
      BY <3>1, <3>2 DEF NewIsReal, StateOf
    <3>4. NewIsDecided
      BY <3>1, <1>b DEF NewIsDecided
    <3> QED
      BY <1>a, <3>3, <3>4, RealStep, DecidedStep DEF HistoryInv
  <2> QED
    BY <1>2, <2>3, <2>4 DEF Execute
<1>3. ASSUME NEW t \in Ticket, ConsumeTicket(n, t) PROVE HistoryInv'
  <2>1. <<t, "VALIDATED">> \in happened
    BY <1>3, <1>a, TicketsAssumption DEF ConsumeTicket, OnlyRealStates, HasHappened, State
  <2>2. t \in DecidedTickets
    BY <1>a, <2>1 DEF MovedIsDecided
  <2> QED
    BY <1>1, <1>3, <2>2 DEF ConsumeTicket, State, logVars
<1>4. ASSUME NEW t \in Ticket, DisputeTicket(n, t) PROVE HistoryInv'
  BY <1>1, <1>4 DEF DisputeTicket, State, logVars
<1> QED
  BY <1>2, <1>3, <1>4

\* Every other step.
LEMMA OthersKeepHistory ==
    ASSUME TypeInv, HistoryInv, NEW n \in Node,
           \/ Replicate(n)
           \/ SeedTickets(n)
           \/ \E w \in saves[n] : ReadForSave(n, w) \/ SaveTicket(n, w)
           \/ \E m \in net : ReceiveUpdate(n, m) \/ ReceiveSync(n, m)
           \/ \E p \in Node : SendSync(n, p)
           \/ Crash(n) \/ Boot(n) \/ Load(n)
    PROVE  HistoryInv'
<1>a. OnlyRealStates /\ MovedIsDecided
  BY DEF HistoryInv
<1>b. currentState \in [Node -> [Ticket -> Copy \cup {None}]]
  BY DEF TypeInv, TypeOK
<1>c. disk \in [Node -> [Ticket -> Copy \cup {None}]]
  BY DEF TypeInv, TypeOK
<1>d. saves \in [Node -> SUBSET Save] /\ net \in SUBSET (Update \cup Sync)
  BY DEF TypeInv, TypeOK
<1>e. ASSUME UNCHANGED <<happened, chosen, todo>> PROVE NewIsDecided
  BY <1>e DEF NewIsDecided
<1>f. ASSUME NewIsReal, NewIsDecided PROVE HistoryInv'
  BY <1>a, <1>f, RealStep, DecidedStep DEF HistoryInv
<1>g. ASSUME NEW u \in Ticket, currentState[n][u] # None
      PROVE  <<u, currentState[n][u].state>> \in happened
  <2>1. currentState[n][u] \in Copy
    BY <1>b, <1>g
  <2>2. currentState[n][u].state # None
    BY <2>1, TicketsAssumption DEF Copy
  <2>3. HasHappened(u, StateOf(currentState[n][u]))
    BY <1>a DEF OnlyRealStates
  <2> QED
    BY <1>g, <2>2, <2>3 DEF HasHappened, StateOf
<1>1. CASE Replicate(n)
  <2>1. replicating[n] \in Ticket /\ currentState[n][replicating[n]] # None
    BY <1>1 DEF Replicate, TypeInv, TypeOK, ReplicatesKnown
  <2>u. \A m \in ReplicatedUpdates(n, replicating[n]) :
           m.type = "update" /\ m.ticket = replicating[n] /\ m.copy = currentState[n][replicating[n]]
    BY DEF ReplicatedUpdates
  <2>v. net' = net \cup ReplicatedUpdates(n, replicating[n])
    BY <1>1 DEF Replicate
  <2>2. \A m \in net' \ net : m.type = "update" /\ m.ticket = replicating[n]
                              /\ m.copy = currentState[n][replicating[n]]
    BY <2>u, <2>v
  <2>3. NewIsReal
    BY <1>1, <1>g, <2>1, <2>2 DEF Replicate, NewIsReal, StateOf, storeVars
  <2> QED
    BY <1>1, <1>e, <1>f, <2>3 DEF Replicate, storeVars
<1>2. CASE SeedTickets(n)
  <2>1. /\ currentState' = [currentState EXCEPT ![n] = [t \in Ticket |->
              IF @[t] = None THEN Issued(now', vectorClock[n]) ELSE @[t]]]
        /\ saves' = [saves EXCEPT ![n] = @ \cup
              {[ticket |-> t, copy |-> Issued(now', NewVectorClock)] : t \in Ticket}]
        /\ happened' = happened \cup {<<t, "ISSUED">> : t \in Ticket}
        /\ UNCHANGED <<disk, chosen, todo, net>>
    BY <1>2 DEF SeedTickets, logVars
  <2>2. \A k \in Node, u \in Ticket : currentState'[k][u] # currentState[k][u] =>
           currentState'[k][u] = Issued(now', vectorClock[n])
    BY <1>b, <2>1
  <2>3. \A k \in Node : \A w \in saves'[k] \ saves[k] :
           w.ticket \in Ticket /\ w.copy = Issued(now', NewVectorClock)
    BY <1>d, <2>1
  <2>4. \A t \in Ticket : <<t, "ISSUED">> \in happened'
    BY <2>1
  <2>i. Issued(now', vectorClock[n]).state = "ISSUED" /\ Issued(now', NewVectorClock).state = "ISSUED"
    BY DEF Issued
  <2>j. \A k \in Node, u \in Ticket :
          currentState'[k][u] # currentState[k][u] => HasHappened(u, StateOf(currentState[k][u]))'
    BY <2>2, <2>4, <2>i DEF HasHappened, StateOf
  <2>k. \A k \in Node : \A w \in saves'[k] \ saves[k] :
          StateOf(w.copy) # None => <<w.ticket, StateOf(w.copy)>> \in happened'
    BY <2>3, <2>4, <2>i DEF StateOf
  <2>5. NewIsReal
    BY <2>1, <2>j, <2>k DEF NewIsReal
  <2>6. NewIsDecided
    BY <2>1 DEF NewIsDecided
  <2> QED
    BY <1>f, <2>5, <2>6
<1>3. ASSUME NEW w \in saves[n], ReadForSave(n, w) PROVE HistoryInv'
  <2>1. w.ticket \in Ticket
    BY <1>d DEF Save
  <2>2. \A k \in Node : \A x \in saves'[k] \ saves[k] :
           x.ticket = w.ticket /\ x.copy = currentState[n][w.ticket]
    BY <1>3, <1>d DEF ReadForSave
  <2>3. NewIsReal
    BY <1>3, <1>g, <2>1, <2>2 DEF ReadForSave, NewIsReal, StateOf
  <2> QED
    BY <1>3, <1>e, <1>f, <2>3 DEF ReadForSave, logVars
<1>4. ASSUME NEW w \in saves[n], SaveTicket(n, w) PROVE HistoryInv'
  <2>1. w.ticket \in Ticket /\ w.copy # None
    BY <1>d, <1>4 DEF Save, SaveTicket
  <2>2. HasHappened(w.ticket, StateOf(w.copy))
    BY <1>a DEF OnlyRealStates
  <2>3. \A k \in Node, u \in Ticket : disk'[k][u] # disk[k][u] => u = w.ticket /\ disk'[k][u] = w.copy
    BY <1>4, <1>c, <2>1 DEF SaveTicket
  <2>4. \A k \in Node : saves'[k] \subseteq saves[k]
    BY <1>4, <1>d DEF SaveTicket
  <2>5. NewIsReal
    BY <1>4, <2>2, <2>3, <2>4 DEF SaveTicket, NewIsReal, HasHappened, StateOf
  <2> QED
    BY <1>4, <1>e, <1>f, <2>5 DEF SaveTicket, logVars
<1>5. ASSUME NEW m \in net, ReceiveUpdate(n, m) PROVE HistoryInv'
  <2> DEFINE merged == MergeTicket(currentState[n][m.ticket], m.copy)
  <2>1. m \in Update
    BY <1>5, <1>d DEF ReceiveUpdate, Sync
  <2>2. m.ticket \in Ticket /\ m.copy \in Copy
    BY <2>1 DEF Update
  <2>c. currentState[n][m.ticket] \in Copy \cup {None}
    BY <1>b, <2>2
  <2>3. merged \in {currentState[n][m.ticket], m.copy}
    BY <2>2, <2>c, MergeTicketChoice
  <2>4. currentState' = [currentState EXCEPT ![n][m.ticket] = merged]
    BY <1>5 DEF ReceiveUpdate
  <2> HIDE DEF merged
  <2>5. \A k \in Node, u \in Ticket : currentState'[k][u] # currentState[k][u] =>
           u = m.ticket /\ currentState'[k][u] = m.copy
    BY <1>b, <2>2, <2>3, <2>4
  <2>6. HasHappened(m.ticket, StateOf(m.copy))
    BY <1>5, <1>a DEF OnlyRealStates, ReceiveUpdate
  <2>7. \A k \in Node : \A w \in saves'[k] \ saves[k] : w.copy = None
    BY <1>5, <1>d DEF ReceiveUpdate, PersistTicket
  <2>8. net' \subseteq net /\ UNCHANGED <<disk, happened, chosen, todo>>
    BY <1>5 DEF ReceiveUpdate, logVars
  <2>9. NewIsReal
    BY <2>5, <2>6, <2>7, <2>8 DEF NewIsReal, HasHappened, StateOf
  <2> QED
    BY <1>e, <1>f, <2>8, <2>9
<1>6. ASSUME NEW m \in net, ReceiveSync(n, m) PROVE HistoryInv'
  <2> DEFINE T == IF m.seq > GetSequence(n) THEN Missing(n, m) ELSE {}
             take(map) == [t \in Ticket |-> IF t \in T THEN SyncTicket(n) ELSE map[t]]
  <2>1. /\ net' = net \ {m}
        /\ currentState' = [currentState EXCEPT ![n] = take(@)]
        /\ disk' = disk \/ disk' = [disk EXCEPT ![n] = take(@)]
        /\ saves' = saves \/ saves' = [saves EXCEPT ![n] = @ \cup {PersistTicket(t) : t \in T}]
        /\ UNCHANGED <<happened, chosen, todo>>
    BY <1>6 DEF ReceiveSync, logVars
  <2>2. \A t \in T : t \in Ticket /\ m.states[t] = "VALIDATED"
    BY DEF Missing
  <2>3. \A t \in T : <<t, "VALIDATED">> \in happened
    <3>1. \A t \in Ticket : HasHappened(t, m.states[t])
      BY <1>6, <1>a DEF OnlyRealStates, ReceiveSync
    <3> QED
      BY <2>2, <3>1, TicketsAssumption DEF HasHappened, State
  <2> HIDE DEF T
  <2>4. SyncTicket(n).state = "VALIDATED"
    BY DEF SyncTicket
  <2>5. \A k \in Node, u \in Ticket : currentState'[k][u] # currentState[k][u] =>
           u \in T /\ currentState'[k][u] = SyncTicket(n)
    BY <1>b, <2>1
  <2>6. \A k \in Node, u \in Ticket : disk'[k][u] # disk[k][u] =>
           u \in T /\ disk'[k][u] = SyncTicket(n)
    BY <1>c, <2>1
  <2>7. \A k \in Node : \A w \in saves'[k] \ saves[k] : w.copy = None
    <3>1. \A w \in {PersistTicket(t) : t \in T} : w.copy = None
      BY DEF PersistTicket
    <3>2. saves' = saves \/ saves' = [saves EXCEPT ![n] = @ \cup {PersistTicket(t) : t \in T}]
      BY <2>1
    <3> QED
      BY <1>d, <3>1, <3>2
  <2>h. happened' = happened
    BY <2>1
  <2>8. \A k \in Node, u \in Ticket :
          /\ currentState'[k][u] # currentState[k][u] => HasHappened(u, StateOf(currentState[k][u]))'
          /\ disk'[k][u] # disk[k][u] => HasHappened(u, StateOf(disk[k][u]))'
    BY <2>h, <2>3, <2>4, <2>5, <2>6 DEF HasHappened, StateOf
  <2>9. NewIsReal
    BY <2>1, <2>7, <2>8 DEF NewIsReal, StateOf
  <2> QED
    BY <1>e, <1>f, <2>1, <2>9
<1>7. ASSUME NEW p \in Node, SendSync(n, p) PROVE HistoryInv'
  <2> DEFINE states == [t \in Ticket |-> IF StateOf(currentState[n][t]) = "ISSUED"
                                         THEN None ELSE StateOf(currentState[n][t])]
             answer == [type |-> "sync", to |-> p, seq |-> GetSequence(n), states |-> states]
  <2>a. net' = net \cup {answer}
    BY <1>7 DEF SendSync
  <2>b. answer.type = "sync" /\ answer.states = states
    OBVIOUS
  <2> HIDE DEF answer
  <2>1. \A m \in net' \ net : m.type = "sync" /\ m.states = states
    BY <2>a, <2>b
  <2>2. \A t \in Ticket : HasHappened(t, StateOf(currentState[n][t]))
    BY <1>a DEF OnlyRealStates
  <2>3. UNCHANGED <<currentState, disk, saves, happened, chosen, todo>> /\ net \subseteq net'
    BY <1>7 DEF SendSync, storeVars, logVars
  <2>4. NewIsReal
    BY <2>1, <2>2, <2>3 DEF NewIsReal, HasHappened
  <2> QED
    BY <1>e, <1>f, <2>3, <2>4
<1>8. CASE Crash(n)
  <2>1. \A k \in Node, u \in Ticket : currentState'[k][u] # currentState[k][u] =>
           currentState'[k][u] = None
    BY <1>8, <1>b DEF Crash
  <2>2. \A k \in Node : saves'[k] \subseteq saves[k] /\ todo'[k] \subseteq todo[k]
    BY <1>8, <1>d DEF Crash, TypeInv, TypeOK
  <2>3. net' \subseteq net /\ UNCHANGED <<disk, happened, chosen>>
    BY <1>8 DEF Crash
  <2>4. NewIsReal
    BY <2>1, <2>2, <2>3 DEF NewIsReal, HasHappened, StateOf
  <2>5. NewIsDecided
    BY <2>2, <2>3 DEF NewIsDecided
  <2> QED
    BY <1>f, <2>4, <2>5
<1>9. CASE Boot(n)
  <2>1. UNCHANGED <<currentState, disk, saves, happened, chosen, todo, net>>
    BY <1>9 DEF Boot, storeVars, logVars
  <2>2. NewIsReal
    BY <2>1 DEF NewIsReal
  <2> QED
    BY <1>e, <1>f, <2>1, <2>2
<1>10. CASE Load(n)
  <2>1. ASSUME NEW t \in Ticket PROVE MergeStored(n, t) \in {currentState[n][t], disk[n][t]}
    <3>1. currentState[n][t] \in Copy \cup {None} /\ disk[n][t] \in Copy \cup {None}
      BY <1>b, <1>c
    <3> QED
      BY <3>1, MergeTicketChoice DEF MergeStored
  <2>2. \A k \in Node, u \in Ticket : currentState'[k][u] # currentState[k][u] =>
           k = n /\ currentState'[k][u] = disk[n][u]
    BY <1>10, <1>b, <2>1 DEF Load
  <2>3. UNCHANGED <<disk, saves, happened, chosen, todo, net>>
    BY <1>10 DEF Load, logVars
  <2>4. \A t \in Ticket : HasHappened(t, StateOf(disk[n][t]))
    BY <1>a DEF OnlyRealStates
  <2>5. NewIsReal
    BY <2>2, <2>3, <2>4 DEF NewIsReal, HasHappened, StateOf
  <2> QED
    BY <1>e, <1>f, <2>3, <2>5
<1> QED
  BY <1>1, <1>2, <1>3, <1>4, <1>5, <1>6, <1>7, <1>8, <1>9, <1>10

\* Every step keeps the history.
LEMMA NextHistory == TypeInv /\ HistoryInv /\ [Next]_vars => HistoryInv'
<1> SUFFICES ASSUME TypeInv, HistoryInv, [Next]_vars PROVE HistoryInv'
  OBVIOUS
<1>a. ASSUME NewIsReal, NewIsDecided PROVE HistoryInv'
  BY <1>a, RealStep, DecidedStep DEF HistoryInv
<1>1. CASE UNCHANGED vars
  <2>1. UNCHANGED <<currentState, disk, saves, happened, chosen, todo, net>>
    BY <1>1 DEF vars, storeVars, logVars
  <2> QED
    BY <1>a, <2>1 DEF NewIsReal, NewIsDecided
<1>2. ASSUME NEW t \in Ticket, ProposeRequest(t) PROVE HistoryInv'
  <2>1. UNCHANGED <<currentState, disk, saves, happened, net>>
    BY <1>2 DEF ProposeRequest, storeVars
  <2>2. /\ chosen' = chosen \cup {<<Cardinality(chosen) + 1, t>>}
        /\ todo' = [n \in Node |-> IF Alive(n) THEN todo[n] \cup {<<Cardinality(chosen) + 1, t>>}
                                   ELSE todo[n]]
    BY <1>2 DEF ProposeRequest, Consensus!Choose
  <2>3. NewIsReal
    BY <2>1 DEF NewIsReal
  <2>4. NewIsDecided
    BY <2>1, <2>2 DEF NewIsDecided
  <2> QED
    BY <1>a, <2>3, <2>4
<1> QED
  BY <1>1, <1>2, TransitionsKeepHistory, OthersKeepHistory DEF Next

LEMMA InitHistory == Init => HistoryInv
<1> SUFFICES ASSUME Init PROVE HistoryInv
  OBVIOUS
<1>1. PICK seeded \in SUBSET Node :
          /\ currentState = [n \in Node |-> [t \in Ticket |->
                 IF n \in seeded THEN Issued(0, NewVectorClock) ELSE None]]
          /\ disk = currentState
          /\ happened = IF seeded = {} THEN {} ELSE {<<t, "ISSUED">> : t \in Ticket}
  BY DEF Init
<1>2. Issued(0, NewVectorClock).state = "ISSUED"
  BY DEF Issued
<1>3. \A n \in Node, t \in Ticket : currentState[n][t] # None =>
         currentState[n][t] = Issued(0, NewVectorClock) /\ <<t, "ISSUED">> \in happened
  BY <1>1
<1>4. \A n \in Node, t \in Ticket :
         HasHappened(t, StateOf(currentState[n][t])) /\ HasHappened(t, StateOf(disk[n][t]))
  BY <1>1, <1>2, <1>3 DEF HasHappened, StateOf
<1>5. saves = [n \in Node |-> {}] /\ net = {} /\ todo = [n \in Node |-> {}]
  BY DEF Init
<1>6. OnlyRealStates
  BY <1>4, <1>5 DEF OnlyRealStates
<1>7. MovedIsDecided
  BY <1>1, <1>5 DEF MovedIsDecided
<1> QED
  BY <1>6, <1>7 DEF HistoryInv

\* Every copy has a state that its ticket was moved to, and tickets were moved to
\* VALIDATED and CONSUMED only after consensus chose them.
THEOREM HistoryCorrect == Spec => []HistoryInv
<1> QED
  BY TypeCorrect, InitHistory, NextHistory, PTL DEF Spec

\* README: "Validation requires PBFT consensus".  No node and no database ever has a
\* ticket as VALIDATED or CONSUMED that consensus did not choose.
THEOREM ValidationNeedsConsensus == Spec => []OnlyDecidedIsValidated
<1>1. HistoryInv => OnlyDecidedIsValidated
  <2> SUFFICES ASSUME HistoryInv, NEW n \in Node, NEW t \in Ticket,
                      NEW s \in {"VALIDATED", "CONSUMED"},
                      s \in {StateOf(currentState[n][t]), StateOf(disk[n][t])}
               PROVE  t \in DecidedTickets
    BY DEF OnlyDecidedIsValidated
  <2>1. HasHappened(t, s) /\ s # None
    BY TicketsAssumption DEF HistoryInv, OnlyRealStates, State
  <2> QED
    BY <2>1 DEF HistoryInv, MovedIsDecided, HasHappened
<1> QED
  BY <1>1, HistoryCorrect, PTL

(***************************************************************************)
(* The validators implement the ledger.                                    *)
(***************************************************************************)
Shown == [n \in Node |-> [t \in Ticket |-> StateOf(currentState[n][t])]]

\* A step that changes no copy of the tickets and no decision.
LEMMA QuietLedger ==
    ASSUME UNCHANGED <<currentState, chosen, happened>>
    PROVE  UNCHANGED Ledger!vars
<1>1. DecidedTickets' = DecidedTickets /\ Shown' = Shown
  BY DEF DecidedTickets, Shown, StateOf
<1> QED
  BY <1>1 DEF Ledger!vars, Shown

\* What a node takes over from elsewhere has happened.
LEMMA LearnLedger ==
    ASSUME TypeInv, TypeInv', HistoryInv', UNCHANGED <<chosen, happened>>, NEW n \in Node,
           \A k \in Node \ {n} : currentState'[k] = currentState[k]
    PROVE  Ledger!Next
<1> DEFINE known == [t \in Ticket |-> StateOf(currentState[n][t])']
<1>1. \A t \in Ticket : StateOf(currentState[n][t])' \in State \cup {None}
  <2> SUFFICES ASSUME NEW t \in Ticket, currentState'[n][t] # None
               PROVE  currentState'[n][t].state \in State
    BY DEF StateOf
  <2>1. currentState'[n][t] \in Copy
    BY DEF TypeInv, TypeOK
  <2> QED
    BY <2>1 DEF Copy
<1>2. known \in [Ticket -> State \cup {None}]
  BY <1>1
<1>3. \A t \in Ticket : known[t] = None \/ <<t, known[t]>> \in happened
  BY DEF HistoryInv, OnlyRealStates, HasHappened
<1>4. Shown' = [Shown EXCEPT ![n] = known]
  BY DEF Shown, StateOf
<1>5. DecidedTickets' = DecidedTickets
  BY DEF DecidedTickets
<1> HIDE DEF known
<1>6. State = Ledger!State
  BY DEF State, Ledger!State
<1>7. Ledger!Learn(n)
  BY <1>2, <1>3, <1>4, <1>5, <1>6 DEF Ledger!Learn, Shown
<1> QED
  BY <1>7 DEF Ledger!Next

\* The transitions of the state machine are moves of the ledger.
LEMMA MoveLedger ==
    ASSUME TypeInv, NEW n \in Node, NEW t \in Ticket, NEW s \in State, NEW saved \in BOOLEAN,
           Transition(n, t, s, saved), chosen' = chosen
    PROVE  Ledger!Move(n, t, s)
<1>1. PICK copy \in Copy : TransitionChanges(n, t, s, copy)
  BY TransitionEffect DEF TypeInv
<1>2. copy.state = s /\ copy # None /\ happened' = happened \cup {<<t, s>>}
  BY <1>1, NoneIsNoCopy DEF TransitionChanges
<1>3. currentState \in [Node -> [Ticket -> Copy \cup {None}]]
  BY DEF TypeInv, TypeOK
<1>4. currentState' = [currentState EXCEPT ![n][t] = copy]
  BY <1>1 DEF TransitionChanges
<1>5. \A k \in Node, u \in Ticket :
         StateOf(currentState[k][u])' = IF k = n /\ u = t THEN s ELSE StateOf(currentState[k][u])
  BY <1>2, <1>3, <1>4 DEF StateOf
<1>6. Shown' = [Shown EXCEPT ![n][t] = s]
  BY <1>5 DEF Shown
<1>7. DecidedTickets' = DecidedTickets
  BY DEF DecidedTickets
<1> QED
  BY <1>2, <1>6, <1>7 DEF Ledger!Move, Shown

\* Every step of the validators is a step of the ledger or a stutter.
LEMMA NextLedger ==
    TypeInv /\ TypeInv' /\ HistoryInv /\ HistoryInv' /\ [Next]_vars => [Ledger!Next]_(Ledger!vars)
<1> SUFFICES ASSUME TypeInv, TypeInv', HistoryInv, HistoryInv', [Next]_vars
             PROVE  [Ledger!Next]_(Ledger!vars)
  OBVIOUS
<1>a. currentState \in [Node -> [Ticket -> Copy \cup {None}]]
  BY DEF TypeInv, TypeOK
<1>b. \A n \in Node, t \in Ticket : Shown[n][t] = StateOf(currentState[n][t])
  BY DEF Shown
<1>1. CASE UNCHANGED vars
  BY <1>1, QuietLedger DEF vars, storeVars, logVars
<1>2. ASSUME NEW t \in Ticket, ProposeRequest(t) PROVE Ledger!Next
  <2>1. chosen' = chosen \cup {<<Cardinality(chosen) + 1, t>>} /\ UNCHANGED <<currentState, happened>>
    BY <1>2 DEF ProposeRequest, Consensus!Choose, storeVars
  <2>2. DecidedTickets' = DecidedTickets \cup {t}
    <3> DEFINE d == <<Cardinality(chosen) + 1, t>>
    <3>1. d[2] = t /\ chosen' = chosen \cup {d}
      BY <2>1
    <3> HIDE DEF d
    <3> QED
      BY <3>1 DEF DecidedTickets
  <2>3. Shown' = Shown
    BY <2>1 DEF Shown, StateOf
  <2>4. Ledger!Decide(t)
    BY <2>1, <2>2, <2>3 DEF Ledger!Decide, Shown
  <2> QED
    BY <2>4 DEF Ledger!Next
<1>3. ASSUME NEW n \in Node, NEW d \in todo[n], Execute(n, d) PROVE [Ledger!Next]_(Ledger!vars)
  <2>d. todo \in [Node -> SUBSET (Sequence \X Ticket)]
    BY DEF TypeInv, TypeOK
  <2>1. d \in chosen /\ d[2] \in Ticket
    BY <2>d DEF HistoryInv, MovedIsDecided
  <2>2. d[2] \in DecidedTickets
    BY <2>1 DEF DecidedTickets
  <2>3. CASE ExecuteValidate(n, d)
    <3>1. PICK saved \in SaveResults(n) :
            /\ Transition(n, d[2], "VALIDATED", saved)
            /\ Consensus!Apply(n, d[1], d[2]) \/ UNCHANGED chosen
      BY <2>3 DEF ExecuteValidate
    <3>2. saved \in BOOLEAN /\ chosen' = chosen /\ "VALIDATED" \in State
      BY <3>1, SaveTypes DEF Consensus!Apply, State
    <3>3. Ledger!Move(n, d[2], "VALIDATED")
      BY <2>1, <3>1, <3>2, MoveLedger
    <3>4. Shown[n][d[2]] = "ISSUED"
      BY <2>1, <2>3, <1>b DEF ExecuteValidate
    <3>5. Ledger!Validate(n, d[2])
      BY <2>2, <3>3, <3>4 DEF Ledger!Validate, Shown
    <3> QED
      BY <2>1, <3>5 DEF Ledger!Next
  <2>4. CASE ExecuteAgain(n, d)
    BY <2>4, QuietLedger DEF ExecuteAgain, Consensus!Apply
  <2> QED
    BY <1>3, <2>3, <2>4 DEF Execute
<1>4. ASSUME NEW n \in Node, NEW t \in Ticket, ConsumeTicket(n, t) PROVE Ledger!Next
  <2>1. PICK saved \in SaveResults(n) : Transition(n, t, "CONSUMED", saved)
    BY <1>4 DEF ConsumeTicket
  <2>2. saved \in BOOLEAN /\ chosen' = chosen /\ "CONSUMED" \in State
    BY <1>4, SaveTypes DEF ConsumeTicket, logVars, State
  <2>3. Ledger!Move(n, t, "CONSUMED")
    BY <2>1, <2>2, MoveLedger
  <2>4. Shown[n][t] = "VALIDATED"
    BY <1>4, <1>b DEF ConsumeTicket
  <2>5. Ledger!Consume(n, t)
    BY <2>3, <2>4 DEF Ledger!Consume, Shown
  <2> QED
    BY <2>5 DEF Ledger!Next
<1>5. ASSUME NEW n \in Node, NEW t \in Ticket, DisputeTicket(n, t) PROVE Ledger!Next
  <2>1. PICK saved \in SaveResults(n) : Transition(n, t, "DISPUTED", saved)
    BY <1>5 DEF DisputeTicket
  <2>2. saved \in BOOLEAN /\ chosen' = chosen /\ "DISPUTED" \in State
    BY <1>5, SaveTypes DEF DisputeTicket, logVars, State
  <2>3. Ledger!Move(n, t, "DISPUTED")
    BY <2>1, <2>2, MoveLedger
  <2>4. currentState[n][t] \in Copy
    BY <1>5, <1>a DEF DisputeTicket
  <2>5. Shown[n][t] # None
    BY <2>4, <1>b, TicketsAssumption DEF StateOf, Copy
  <2>6. Ledger!Dispute(n, t)
    BY <2>3, <2>5 DEF Ledger!Dispute, Shown
  <2> QED
    BY <2>6 DEF Ledger!Next
<1>6. ASSUME NEW n \in Node, SeedTickets(n) PROVE Ledger!Next
  <2>1. /\ currentState' = [currentState EXCEPT ![n] = [t \in Ticket |->
              IF @[t] = None THEN Issued(now', vectorClock[n]) ELSE @[t]]]
        /\ happened' = happened \cup {<<t, "ISSUED">> : t \in Ticket}
        /\ chosen' = chosen
    BY <1>6 DEF SeedTickets, logVars
  <2>2. Issued(now', vectorClock[n]).state = "ISSUED" /\ Issued(now', vectorClock[n]) \in Copy
    <3>1. now' \in 0 .. MaxTime /\ vectorClock[n] \in Clock
      BY DEF TypeInv, TypeOK
    <3> QED
      BY <3>1 DEF Issued, Copy, State
  <2>3. \A u \in Ticket : currentState[n][u] = None <=> Shown[n][u] = None
    <3> SUFFICES ASSUME NEW u \in Ticket, currentState[n][u] # None
                 PROVE  currentState[n][u].state # None
      BY <1>b DEF StateOf
    <3>1. currentState[n][u] \in Copy
      BY <1>a
    <3> QED
      BY <3>1, TicketsAssumption DEF Copy
  <2>4. \A k \in Node, u \in Ticket :
           StateOf(currentState[k][u])' = IF k = n /\ currentState[n][u] = None
                                          THEN "ISSUED" ELSE StateOf(currentState[k][u])
    BY <1>a, <2>1, <2>2, NoneIsNoCopy DEF StateOf
  <2>5. Shown' = [Shown EXCEPT ![n] = [t \in Ticket |-> IF @[t] = None THEN "ISSUED" ELSE @[t]]]
    BY <2>3, <2>4 DEF Shown
  <2>6. DecidedTickets' = DecidedTickets
    BY <2>1 DEF DecidedTickets
  <2>7. Ledger!Issue(n)
    BY <2>1, <2>5, <2>6 DEF Ledger!Issue, Shown
  <2> QED
    BY <2>7 DEF Ledger!Next
<1>7. ASSUME NEW n \in Node,
             \/ Replicate(n) \/ Boot(n)
             \/ \E w \in saves[n] : ReadForSave(n, w) \/ SaveTicket(n, w)
             \/ \E p \in Node : SendSync(n, p)
      PROVE  UNCHANGED Ledger!vars
  <2>1. UNCHANGED <<currentState, chosen, happened>>
    BY <1>7 DEF Replicate, Boot, ReadForSave, SaveTicket, SendSync, storeVars, logVars
  <2> QED
    BY <2>1, QuietLedger
<1>8. ASSUME NEW n \in Node,
             \/ \E m \in net : ReceiveUpdate(n, m) \/ ReceiveSync(n, m)
             \/ Crash(n) \/ Load(n)
      PROVE  Ledger!Next
  <2>1. UNCHANGED <<chosen, happened>>
    BY <1>8 DEF ReceiveUpdate, ReceiveSync, Crash, Load, logVars
  <2>2. \A k \in Node \ {n} : currentState'[k] = currentState[k]
    BY <1>8, <1>a DEF ReceiveUpdate, ReceiveSync, Crash, Load
  <2> QED
    BY <2>1, <2>2, LearnLedger
<1> QED
  BY <1>1, <1>2, <1>3, <1>4, <1>5, <1>6, <1>7, <1>8 DEF Next

LEMMA InitLedger == Init => Ledger!Init
<1> SUFFICES ASSUME Init PROVE Ledger!Init
  OBVIOUS
<1>1. PICK seeded \in SUBSET Node :
          /\ currentState = [n \in Node |-> [t \in Ticket |->
                 IF n \in seeded THEN Issued(0, NewVectorClock) ELSE None]]
          /\ happened = IF seeded = {} THEN {} ELSE {<<t, "ISSUED">> : t \in Ticket}
  BY DEF Init
<1>2. Issued(0, NewVectorClock).state = "ISSUED" /\ Issued(0, NewVectorClock) \in Copy
  BY ClockOrder, BoundTypes DEF Issued, Copy, State
<1>3. Shown = [n \in Node |-> [t \in Ticket |-> IF n \in seeded THEN "ISSUED" ELSE None]]
  BY <1>1, <1>2, NoneIsNoCopy DEF Shown, StateOf
<1>4. DecidedTickets = {}
  BY DEF Init, Consensus!Init, DecidedTickets
<1> QED
  BY <1>1, <1>3, <1>4 DEF Ledger!Init, Shown

\* The validators implement the ticket ledger: whatever is merged, synchronised,
\* saved, lost and loaded, a node only shows states that the ticket was moved to.
THEOREM ValidatorsImplementLedger == Spec => LedgerRefined
<1> QED
  BY TypeCorrect, HistoryCorrect, InitLedger, NextLedger, PTL DEF Spec, LedgerRefined, Ledger!Spec
=============================================================================
