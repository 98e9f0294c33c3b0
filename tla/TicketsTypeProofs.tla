------------------------- MODULE TicketsTypeProofs -------------------------
(***************************************************************************)
(* Type correctness of Tickets.                                            *)
(***************************************************************************)
EXTENDS TicketsLemmas

\* The operations of the API and the writes of the database keep the types.
LEMMA LocalType ==
    ASSUME TypeInv, NEW n \in Node,
           \/ Replicate(n)
           \/ SeedTickets(n)
           \/ \E w \in saves[n] : ReadForSave(n, w) \/ SaveTicket(n, w)
           \/ \E t \in Ticket : ConsumeTicket(n, t) \/ DisputeTicket(n, t)
    PROVE  TypeInv'
<1>a. /\ currentState \in [Node -> [Ticket -> Copy \cup {None}]]
      /\ saves \in [Node -> SUBSET Save]
      /\ replicating \in [Node -> Ticket \cup {None}]
  BY DEF TypeInv, TypeOK
<1>b. now \in 0 .. MaxTime /\ vectorClock[n] \in Clock /\ uses \in 0 .. MaxUses
  BY DEF TypeInv, TypeOK
<1>c. ASSUME UNCHANGED <<chosen, sequence>> PROVE SequenceCounted'
  BY <1>c, CountKept
<1>d. ReplicatesKnown
  BY DEF TypeInv
<1>1. CASE Replicate(n)
  <2>1. replicating[n] \in Ticket /\ currentState[n][replicating[n]] \in Copy
    BY <1>1, <1>a, <1>d DEF Replicate, ReplicatesKnown
  <2>2. ReplicatedUpdates(n, replicating[n]) \subseteq Update
    BY <2>1 DEF ReplicatedUpdates, Update, Reachable
  <2>3. TypeOK'
    BY <1>1, <2>2 DEF TypeInv, TypeOK, Replicate, storeVars
  <2>4. ReplicatesKnown'
    BY <1>1, <1>a, <1>d DEF Replicate, ReplicatesKnown, storeVars
  <2> QED
    BY <1>1, <1>c, <2>3, <2>4 DEF TypeInv, Replicate
<1>2. CASE SeedTickets(n)
  <2>1. now' \in 0 .. MaxTime /\ uses' \in 0 .. MaxUses
    BY <1>2, <1>b, BoundTypes DEF SeedTickets, ReadTime
  <2>2. Issued(now', vectorClock[n]) \in Copy /\ Issued(now', NewVectorClock) \in Copy
    BY <1>b, <2>1, ClockOrder DEF Issued, Copy, State
  <2>3. currentState' = [currentState EXCEPT ![n] = [t \in Ticket |->
           IF @[t] = None THEN Issued(now', vectorClock[n]) ELSE @[t]]]
    BY <1>2 DEF SeedTickets
  <2>4. currentState' \in [Node -> [Ticket -> Copy \cup {None}]]
    BY <1>a, <2>2, <2>3
  <2>5. \A k \in Node, u \in Ticket : currentState[k][u] # None => currentState'[k][u] # None
    BY <1>a, <2>3
  <2>6. saves' \in [Node -> SUBSET Save]
    <3>1. {[ticket |-> t, copy |-> Issued(now', NewVectorClock)] : t \in Ticket} \subseteq Save
      BY <2>2, SaveTypes
    <3> QED
      BY <1>2, <1>a, <3>1 DEF SeedTickets
  <2>7. happened' \in SUBSET (Ticket \X State)
    BY <1>2 DEF SeedTickets, TypeInv, TypeOK, State
  <2>8. TypeOK'
    BY <1>2, <2>1, <2>4, <2>6, <2>7 DEF SeedTickets, TypeInv, TypeOK, logVars
  <2>9. ReplicatesKnown'
    BY <1>2, <1>a, <1>d, <2>5 DEF SeedTickets, ReplicatesKnown, logVars
  <2> QED
    BY <1>2, <1>c, <2>8, <2>9 DEF TypeInv, SeedTickets, logVars
<1>3. ASSUME NEW w \in saves[n], ReadForSave(n, w) PROVE TypeInv'
  <2>1. [ticket |-> w.ticket, copy |-> currentState[n][w.ticket]] \in Save
    BY <1>a, SaveTypes DEF Save
  <2>2. saves' \in [Node -> SUBSET Save]
    BY <1>3, <1>a, <2>1 DEF ReadForSave
  <2>3. TypeOK'
    BY <1>3, <2>2 DEF ReadForSave, TypeInv, TypeOK, logVars
  <2> QED
    BY <1>3, <1>c, <1>d, <2>3 DEF ReadForSave, ReplicatesKnown, TypeInv, logVars
<1>4. ASSUME NEW w \in saves[n], SaveTicket(n, w) PROVE TypeInv'
  <2>1. w.ticket \in Ticket /\ w.copy \in Copy
    BY <1>4, <1>a DEF Save, SaveTicket
  <2>2. disk' = disk \/ disk' = [disk EXCEPT ![n][w.ticket] = w.copy]
    BY <1>4 DEF SaveTicket
  <2>d. disk \in [Node -> [Ticket -> Copy \cup {None}]]
    BY DEF TypeInv, TypeOK
  <2>3. disk' \in [Node -> [Ticket -> Copy \cup {None}]]
    BY <2>1, <2>2, <2>d
  <2>4. TypeOK'
    BY <1>4, <2>3 DEF SaveTicket, TypeInv, TypeOK, logVars
  <2> QED
    BY <1>4, <1>c, <1>d, <2>4 DEF SaveTicket, ReplicatesKnown, TypeInv, logVars
<1>5. ASSUME NEW t \in Ticket, NEW s \in State, NEW saved \in SaveResults(n),
             Transition(n, t, s, saved), uses < MaxUses, uses' = uses + 1,
             UNCHANGED <<process, saves, logVars, crashes>>
      PROVE  TypeInv'
  <2>1. saved \in BOOLEAN
    BY SaveTypes
  <2>2. /\ currentState' \in [Node -> [Ticket -> Copy \cup {None}]]
        /\ vectorClock' \in [Node -> Clock]
        /\ disk' \in [Node -> [Ticket -> Copy \cup {None}]]
        /\ net' \in SUBSET (Update \cup Sync)
        /\ now' \in 0 .. MaxTime
        /\ happened' \in SUBSET (Ticket \X State)
        /\ \A k \in Node, u \in Ticket : currentState[k][u] # None => currentState'[k][u] # None
    BY <1>5, <2>1, TransitionType
  <2>3. uses' \in 0 .. MaxUses
    BY <1>5, <1>b, BoundTypes
  <2>4. TypeOK'
    BY <1>5, <2>2, <2>3 DEF TypeInv, TypeOK, logVars
  <2>5. ReplicatesKnown'
    BY <1>5, <1>a, <1>d, <2>2 DEF ReplicatesKnown, logVars
  <2> QED
    BY <1>5, <1>c, <2>4, <2>5 DEF TypeInv, logVars
<1>6. ASSUME NEW t \in Ticket, ConsumeTicket(n, t) \/ DisputeTicket(n, t) PROVE TypeInv'
  BY <1>5, <1>6 DEF ConsumeTicket, DisputeTicket, State
<1> QED
  BY <1>1, <1>2, <1>3, <1>4, <1>6

\* Messages, crashes and restarts keep the types.
LEMMA RemoteType ==
    ASSUME TypeInv, NEW n \in Node,
           \/ \E m \in net : ReceiveUpdate(n, m) \/ ReceiveSync(n, m)
           \/ \E p \in Node : SendSync(n, p)
           \/ Crash(n) \/ Boot(n) \/ Load(n)
    PROVE  TypeInv'
<1>a. /\ currentState \in [Node -> [Ticket -> Copy \cup {None}]]
      /\ replicating \in [Node -> Ticket \cup {None}]
  BY DEF TypeInv, TypeOK
<1>e. disk \in [Node -> [Ticket -> Copy \cup {None}]]
  BY DEF TypeInv, TypeOK
<1>f. saves \in [Node -> SUBSET Save] /\ vectorClock \in [Node -> Clock]
  BY DEF TypeInv, TypeOK
<1>g. net \in SUBSET (Update \cup Sync)
  BY DEF TypeInv, TypeOK
<1>b. now \in 0 .. MaxTime /\ crashes \in 0 .. MaxCrashes /\ sequence \in 0 .. MaxSequence
  BY DEF TypeInv, TypeOK
<1>c. ASSUME UNCHANGED <<chosen, sequence>> PROVE SequenceCounted'
  BY <1>c, CountKept
<1>d. ASSUME replicating' = replicating,
             \A k \in Node, u \in Ticket : currentState[k][u] # None => currentState'[k][u] # None
      PROVE  ReplicatesKnown'
  BY <1>a, <1>d DEF TypeInv, ReplicatesKnown
<1>1. ASSUME NEW m \in net, ReceiveUpdate(n, m) PROVE TypeInv'
  <2> DEFINE merged == MergeTicket(currentState[n][m.ticket], m.copy)
  <2>1. m \in Update
    BY <1>1, <1>g DEF ReceiveUpdate, Sync
  <2>2. m.ticket \in Ticket /\ m.copy \in Copy /\ m.copy.vc \in Clock
    BY <2>1 DEF Update, Copy
  <2>c. currentState[n][m.ticket] \in Copy \cup {None}
    BY <1>a, <2>2
  <2>3. merged \in Copy
    BY <2>2, <2>c, MergeTicketChoice
  <2>4. currentState' = [currentState EXCEPT ![n][m.ticket] = merged]
    BY <1>1 DEF ReceiveUpdate
  <2> HIDE DEF merged
  <2>5. /\ currentState' \in [Node -> [Ticket -> Copy \cup {None}]]
        /\ \A k \in Node, u \in Ticket : currentState[k][u] # None => currentState'[k][u] # None
    BY <1>a, <2>2, <2>3, <2>4, NoneIsNoCopy
  <2>6. vectorClock' \in [Node -> Clock]
    BY <1>1, <1>f, <2>2, MergeIsUpperBound DEF ReceiveUpdate, MergeClock
  <2>p. PersistTicket(m.ticket) \in Save
    BY <2>2, SaveTypes
  <2>7. saves' \in [Node -> SUBSET Save]
    BY <1>1, <1>f, <2>p DEF ReceiveUpdate
  <2>8. TypeOK'
    BY <1>1, <2>5, <2>6, <2>7 DEF ReceiveUpdate, TypeInv, TypeOK, logVars
  <2> QED
    BY <1>1, <1>c, <1>d, <2>5, <2>8 DEF ReceiveUpdate, TypeInv, logVars
<1>2. ASSUME NEW m \in net, ReceiveSync(n, m) PROVE TypeInv'
  <2> DEFINE T == IF m.seq > GetSequence(n) THEN Missing(n, m) ELSE {}
             take(map) == [t \in Ticket |-> IF t \in T THEN SyncTicket(n) ELSE map[t]]
  <2>1. T \subseteq Ticket
    BY DEF Missing
  <2>2. /\ net' = net \ {m}
        /\ IF T = {} THEN UNCHANGED now ELSE ReadTime
        /\ currentState' = [currentState EXCEPT ![n] = take(@)]
        /\ disk' = disk \/ disk' = [disk EXCEPT ![n] = take(@)]
        /\ saves' = saves \/ saves' = [saves EXCEPT ![n] = @ \cup {PersistTicket(t) : t \in T}]
        /\ UNCHANGED <<process, vectorClock, happened, logVars, crashes, uses>>
    BY <1>2 DEF ReceiveSync
  <2> HIDE DEF T
  <2>3. now' \in 0 .. MaxTime
    BY <1>b, <2>2 DEF ReadTime
  <2>4. SyncTicket(n) \in Copy /\ SyncTicket(n) # None
    BY <1>f, <2>3, NoneIsNoCopy DEF SyncTicket, Copy, State
  <2>5. \A f \in [Ticket -> Copy \cup {None}] : take(f) \in [Ticket -> Copy \cup {None}]
    BY <2>4
  <2>6. \A u \in Ticket : currentState[n][u] # None => take(currentState[n])[u] # None
    BY <2>4
  <2> HIDE DEF take
  <2>7. currentState' \in [Node -> [Ticket -> Copy \cup {None}]]
    BY <1>a, <2>2, <2>5
  <2>8. disk' \in [Node -> [Ticket -> Copy \cup {None}]]
    BY <1>e, <2>2, <2>5
  <2>9. \A k \in Node, u \in Ticket : currentState[k][u] # None => currentState'[k][u] # None
    BY <1>a, <2>2, <2>6
  <2>10. saves' \in [Node -> SUBSET Save]
    BY <1>f, <2>1, <2>2, SaveTypes
  <2>11. TypeOK'
    BY <2>2, <2>3, <2>7, <2>8, <2>10 DEF TypeInv, TypeOK, logVars
  <2> QED
    BY <2>2, <1>c, <1>d, <2>9, <2>11 DEF TypeInv, logVars
<1>3. ASSUME NEW p \in Node, SendSync(n, p) PROVE TypeInv'
  <2> DEFINE states == [t \in Ticket |-> IF StateOf(currentState[n][t]) = "ISSUED"
                                         THEN None ELSE StateOf(currentState[n][t])]
             answer == [type |-> "sync", to |-> p, seq |-> GetSequence(n), states |-> states]
  <2>1. \A t \in Ticket : StateOf(currentState[n][t]) \in State \cup {None}
    <3> SUFFICES ASSUME NEW t \in Ticket, currentState[n][t] # None
                 PROVE  currentState[n][t].state \in State
      BY DEF StateOf
    <3>1. currentState[n][t] \in Copy
      BY <1>a
    <3> QED
      BY <3>1 DEF Copy
  <2>2. states \in [Ticket -> State \cup {None}]
    BY <2>1
  <2>3. GetSequence(n) \in 0 .. MaxSequence
    BY <1>b, BoundTypes DEF GetSequence
  <2>4. net' = net \cup {answer} /\ UNCHANGED <<process, storeVars, logVars, now, crashes, uses>>
    BY <1>3 DEF SendSync
  <2> HIDE DEF states
  <2>5. answer \in Sync
    BY <2>2, <2>3 DEF Sync
  <2> HIDE DEF answer
  <2>6. TypeOK'
    BY <2>4, <2>5 DEF TypeInv, TypeOK, storeVars, logVars
  <2> QED
    BY <2>4, <2>6, <1>c, <1>d DEF TypeInv, storeVars, logVars
<1>4. CASE Crash(n)
  <2>1. [t \in Ticket |-> None] \in [Ticket -> Copy \cup {None}] /\ NewVectorClock \in Clock
    BY ClockOrder
  <2>2. crashes' \in 0 .. MaxCrashes
    BY <1>4, <1>b, BoundTypes DEF Crash
  <2>3. chosen' = chosen /\ sequence' \in {sequence, 0}
    BY <1>4 DEF Crash
  <2>4. SequenceCounted' /\ sequence' \in 0 .. MaxSequence
    BY <2>3, CountKept
  <2>5. /\ currentState' \in [Node -> [Ticket -> Copy \cup {None}]]
        /\ vectorClock' \in [Node -> Clock]
        /\ saves' \in [Node -> SUBSET Save]
        /\ replicating' \in [Node -> Ticket \cup {None}]
    BY <1>4, <1>a, <1>f, <2>1 DEF Crash
  <2>6. TypeOK'
    BY <1>4, <2>2, <2>4, <2>5 DEF Crash, TypeInv, TypeOK
  <2>7. ReplicatesKnown'
    BY <1>4, <1>a DEF Crash, TypeInv, ReplicatesKnown
  <2> QED
    BY <2>4, <2>6, <2>7 DEF TypeInv
<1>5. CASE Boot(n)
  <2>1. TypeOK'
    BY <1>5 DEF Boot, TypeInv, TypeOK, storeVars, logVars
  <2> QED
    BY <1>5, <2>1, <1>c, <1>d DEF Boot, TypeInv, storeVars, logVars
<1>6. CASE Load(n)
  <2>1. ASSUME NEW t \in Ticket
        PROVE  /\ MergeStored(n, t) \in Copy \cup {None}
               /\ currentState[n][t] # None => MergeStored(n, t) # None
    <3>1. currentState[n][t] \in Copy \cup {None} /\ disk[n][t] \in Copy \cup {None}
      BY <1>a, <1>e
    <3> QED
      BY <3>1, MergeTicketChoice, NoneIsNoCopy DEF MergeStored
  <2>2. currentState' = [currentState EXCEPT ![n] = [t \in Ticket |-> MergeStored(n, t)]]
    BY <1>6 DEF Load
  <2>3. /\ currentState' \in [Node -> [Ticket -> Copy \cup {None}]]
        /\ \A k \in Node, u \in Ticket : currentState[k][u] # None => currentState'[k][u] # None
    BY <1>a, <2>1, <2>2
  <2>4. vectorClock' \in [Node -> Clock]
    BY <1>6, <1>f, LoadedClock DEF Load
  <2>5. TypeOK'
    BY <1>6, <2>3, <2>4 DEF Load, TypeInv, TypeOK, logVars
  <2> QED
    BY <1>6, <2>3, <2>5, <1>c, <1>d DEF Load, TypeInv, logVars
<1> QED
  BY <1>1, <1>2, <1>3, <1>4, <1>5, <1>6

LEMMA InitType == Init => TypeInv
<1> SUFFICES ASSUME Init PROVE TypeInv
  OBVIOUS
<1>1. PICK seeded \in SUBSET Node :
          /\ currentState = [n \in Node |-> [t \in Ticket |->
                 IF n \in seeded THEN Issued(0, NewVectorClock) ELSE None]]
          /\ disk = currentState
          /\ happened = IF seeded = {} THEN {} ELSE {<<t, "ISSUED">> : t \in Ticket}
  BY DEF Init
<1>2. Issued(0, NewVectorClock) \in Copy
  BY ClockOrder, BoundTypes DEF Issued, Copy, State
<1>3. currentState \in [Node -> [Ticket -> Copy \cup {None}]] /\ disk = currentState
  BY <1>1, <1>2
<1>4. happened \in SUBSET (Ticket \X State)
  BY <1>1 DEF State
<1>5. chosen = {} /\ applied = [n \in Node |-> {}] /\ sequence = 0
  BY DEF Init, Consensus!Init
<1>8. /\ process \in [Node -> {"down", "booting", "up"}]
      /\ vectorClock \in [Node -> Clock]
      /\ replicating \in [Node -> Ticket \cup {None}]
  BY ClockOrder DEF Init
<1>9. /\ saves \in [Node -> SUBSET Save] /\ net \in SUBSET (Update \cup Sync)
      /\ chosen \in SUBSET (Sequence \X Ticket)
      /\ applied \in [Node -> SUBSET (Sequence \X Ticket)]
      /\ todo \in [Node -> SUBSET (Sequence \X Ticket)]
  BY <1>5 DEF Init
<1>10. /\ sequence \in 0 .. MaxSequence /\ now \in 0 .. MaxTime
       /\ crashes \in 0 .. MaxCrashes /\ uses \in 0 .. MaxUses
  <2>1. sequence = 0 /\ now = 0 /\ crashes = 0 /\ uses = 0
    BY DEF Init
  <2> QED
    BY <2>1, BoundTypes
<1>6. TypeOK
  BY <1>3, <1>4, <1>8, <1>9, <1>10 DEF TypeOK
<1>7. SequenceCounted
  BY <1>5, FS_EmptySet DEF SequenceCounted
<1> QED
  BY <1>6, <1>7 DEF Init, TypeInv, ReplicatesKnown

LEMMA NextType == TypeInv /\ [Next]_vars => TypeInv'
<1> SUFFICES ASSUME TypeInv, [Next]_vars PROVE TypeInv'
  OBVIOUS
<1>1. CASE UNCHANGED vars
  <2>1. TypeOK'
    BY <1>1 DEF TypeInv, TypeOK, vars, storeVars, logVars
  <2>2. SequenceCounted'
    BY <1>1, CountKept DEF vars, logVars
  <2> QED
    BY <1>1, <2>1, <2>2 DEF TypeInv, ReplicatesKnown, vars, storeVars, logVars
<1> QED
  BY <1>1, ProposeType, ExecuteType, LocalType, RemoteType DEF Next

\* Every variable keeps its type, the sequence counter never passes the length of
\* the log and the state replicator always has a copy to send.
THEOREM TypeCorrect == Spec => []TypeInv
<1> QED
  BY InitType, NextType, PTL DEF Spec

\* In particular, every copy of a ticket, in memory, on disk, in a replica's log or
\* in a message, is a record that the ticket store can have written.
THEOREM TypesAreKept == Spec => []TypeOK
<1>1. TypeInv => TypeOK
  BY DEF TypeInv
<1> QED
  BY <1>1, TypeCorrect, PTL
=============================================================================
