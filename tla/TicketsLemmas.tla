---------------------------- MODULE TicketsLemmas ----------------------------
(***************************************************************************)
(* What the vector clocks of the tickets guarantee, what the transitions   *)
(* of the state machine change, and which types they keep, for every set   *)
(* of nodes and tickets and every bound.                                   *)
(***************************************************************************)
EXTENDS Tickets, FiniteSetTheorems, WellFoundedInduction, TLAPS

\* The bounds are naturals, and None is no copy.
LEMMA BoundTypes ==
    MaxSequence \in Nat /\ MaxTime \in Nat /\ MaxCrashes \in Nat /\ MaxUses \in Nat
<1> QED
  BY TicketsAssumption

LEMMA NoneIsNoCopy == None \notin Copy
<1> QED
  BY TicketsAssumption

(***************************************************************************)
(* Vector clocks.                                                          *)
(***************************************************************************)
\* LessOrEqual is reflexive and transitive, and the empty clock is below all.
LEMMA ClockOrder ==
    /\ NewVectorClock \in Clock
    /\ \A a \in Clock : LessOrEqual(a, a) /\ LessOrEqual(NewVectorClock, a)
    /\ \A a, b, c \in Clock : LessOrEqual(a, b) /\ LessOrEqual(b, c) => LessOrEqual(a, c)
<1>1. NewVectorClock \in Clock
  BY DEF NewVectorClock, Clock
<1>2. ASSUME NEW a \in Clock PROVE LessOrEqual(a, a) /\ LessOrEqual(NewVectorClock, a)
  BY DEF LessOrEqual, NewVectorClock, Clock
<1>3. ASSUME NEW a \in Clock, NEW b \in Clock, NEW c \in Clock,
             LessOrEqual(a, b), LessOrEqual(b, c)
      PROVE  LessOrEqual(a, c)
  <2>1. ASSUME NEW k \in Node PROVE a[k] <= c[k]
    <3>1. a[k] \in Nat /\ b[k] \in Nat /\ c[k] \in Nat
      BY DEF Clock
    <3>2. a[k] <= b[k] /\ b[k] <= c[k]
      BY <1>3 DEF LessOrEqual
    <3> QED
      BY <3>1, <3>2
  <2> QED
    BY <2>1 DEF LessOrEqual
<1> QED
  BY <1>1, <1>2, <1>3

\* Compare answers "Before" exactly when the first clock is below the second and
\* the second is not below the first.
LEMMA CompareBefore ==
    ASSUME NEW a, NEW b
    PROVE  Compare(a, b) = "Before" <=> LessOrEqual(a, b) /\ ~LessOrEqual(b, a)
<1> QED
  BY DEF Compare

\* Increment gives a clock that is later than the one before.
LEMMA IncrementIsLater ==
    ASSUME NEW vc \in Clock, NEW n \in Node
    PROVE  /\ Increment(vc, n) \in Clock
           /\ LessOrEqual(vc, Increment(vc, n))
           /\ ~LessOrEqual(Increment(vc, n), vc)
<1>1. \A k \in Node : vc[k] \in Nat
  BY DEF Clock
<1>2. Increment(vc, n) = [k \in Node |-> IF k = n THEN vc[k] + 1 ELSE vc[k]]
  BY DEF Increment, Clock
<1>3. Increment(vc, n) \in Clock
  BY <1>1, <1>2 DEF Clock
<1>4. LessOrEqual(vc, Increment(vc, n)) /\ ~LessOrEqual(Increment(vc, n), vc)
  BY <1>1, <1>2 DEF LessOrEqual
<1> QED
  BY <1>3, <1>4

\* Merge gives an upper bound of the two clocks.
LEMMA MergeIsUpperBound ==
    ASSUME NEW a \in Clock, NEW b \in Clock
    PROVE  /\ Merge(a, b) \in Clock
           /\ LessOrEqual(a, Merge(a, b))
           /\ LessOrEqual(b, Merge(a, b))
<1>1. \A k \in Node : a[k] \in Nat /\ b[k] \in Nat
  BY DEF Clock
<1>2. Merge(a, b) \in Clock
  BY <1>1 DEF Merge, Clock
<1>3. LessOrEqual(a, Merge(a, b)) /\ LessOrEqual(b, Merge(a, b))
  BY <1>1 DEF Merge, LessOrEqual
<1> QED
  BY <1>2, <1>3

\* Among finitely many tickets one has the greatest counter: a least set of
\* tickets without one cannot exist.
LEMMA GreatestCounter ==
    ASSUME NEW g \in [Ticket -> Nat], NEW U \in SUBSET Ticket, U # {}
    PROVE  \E m \in U : \A u \in U : g[m] >= g[u]
<1> DEFINE HasGreatest(V) == \E m \in V : \A u \in V : g[m] >= g[u]
           Bad == {V \in SUBSET Ticket : V # {} /\ ~HasGreatest(V)}
           R == StrictSubsetOrdering(Ticket)
<1> SUFFICES ASSUME Bad # {} PROVE FALSE
  OBVIOUS
<1>1. FiniteSubsetsOf(Ticket) = SUBSET Ticket
  BY FS_FiniteSubsetsOfFinite, TicketsAssumption
<1>2. IsWellFoundedOn(R, SUBSET Ticket)
  BY <1>1, FS_StrictSubsetOrderingWellFounded
<1>3. Bad \subseteq SUBSET Ticket
  OBVIOUS
<1> HIDE DEF Bad, R
<1>4. PICK V \in Bad : \A W \in Bad : ~(<<W, V>> \in R)
  BY <1>2, <1>3, WFMin
<1> USE DEF Bad, R
<1>5. PICK x \in V : TRUE
  OBVIOUS
<1>6. x \in Ticket /\ V \in SUBSET Ticket /\ g[x] \in Nat
  OBVIOUS
<1>7. CASE V \ {x} = {}
  <2>1. \A u \in V : u = x
    BY <1>7
  <2> QED
    BY <1>6, <2>1
<1>8. CASE V \ {x} # {}
  <2>1. <<V \ {x}, V>> \in R
    BY <1>5, <1>6 DEF StrictSubsetOrdering
  <2>2. HasGreatest(V \ {x})
    BY <1>4, <1>6, <1>8, <2>1
  <2>3. PICK m \in V \ {x} : \A u \in V \ {x} : g[m] >= g[u]
    BY <2>2
  <2>4. \A u \in V : g[u] \in Nat
    BY <1>6
  <2>5. CASE g[m] >= g[x]
    BY <2>3, <2>5
  <2>6. CASE ~(g[m] >= g[x])
    <3>1. \A u \in V : g[x] >= g[u]
      BY <2>3, <2>4, <2>6, <1>5
    <3> QED
      BY <3>1, <1>5
  <2> QED
    BY <2>5, <2>6
<1> QED
  BY <1>7, <1>8

\* Loading the database gives a clock that is beyond all the loaded records.
LEMMA MergeAllIsUpperBound ==
    ASSUME NEW vc \in Clock, NEW U \in SUBSET Ticket, NEW h \in [Ticket -> Clock]
    PROVE  /\ MergeAll(vc, {h[t] : t \in U}) \in Clock
           /\ LessOrEqual(vc, MergeAll(vc, {h[t] : t \in U}))
           /\ \A t \in U : LessOrEqual(h[t], MergeAll(vc, {h[t1] : t1 \in U}))
<1> DEFINE others == {h[t] : t \in U}
           M == MergeAll(vc, others)
<1>1. ASSUME NEW k \in Node
      PROVE  M[k] \in Nat /\ vc[k] <= M[k] /\ \A t \in U : h[t][k] <= M[k]
  <2> DEFINE S == {vc[k]} \cup {o[k] : o \in others}
             Greatest(c) == c >= vc[k] /\ \A o \in others : c >= o[k]
             g == [t \in Ticket |-> h[t][k]]
  <2>1. vc[k] \in Nat /\ g \in [Ticket -> Nat] /\ \A t \in U : g[t] = h[t][k]
    BY DEF Clock
  <2>2. \E c \in S : Greatest(c)
    <3>1. CASE U = {}
      BY <2>1, <3>1
    <3>2. CASE U # {}
      <4>1. PICK m \in U : \A u \in U : g[m] >= g[u]
        BY <2>1, <3>2, GreatestCounter
      <4>2. \A u \in U : g[u] \in Nat
        BY <2>1
      <4>3. g[m] \in S /\ vc[k] \in S
        BY <2>1
      <4>4. \A o \in others : \E u \in U : o[k] = g[u]
        BY <2>1
      <4> HIDE DEF g, others
      <4>5. CASE g[m] >= vc[k]
        BY <4>1, <4>3, <4>4, <4>5
      <4>6. CASE ~(g[m] >= vc[k])
        <5>1. \A u \in U : vc[k] >= g[u]
          BY <2>1, <4>1, <4>2, <4>6
        <5>2. Greatest(vc[k])
          BY <2>1, <4>4, <5>1
        <5> QED
          BY <4>3, <5>2
      <4> QED
        BY <4>5, <4>6
    <3> QED
      BY <3>1, <3>2
  <2>3. M[k] = CHOOSE c \in S : Greatest(c)
    BY DEF MergeAll
  <2>4. \A t \in U : h[t] \in others /\ h[t][k] \in Nat
    BY DEF Clock
  <2>5. \A c \in S : c \in Nat
    BY <2>1, <2>4
  <2> HIDE DEF S, Greatest, M
  <2>6. M[k] \in S /\ Greatest(M[k])
    BY <2>2, <2>3
  <2> USE DEF Greatest
  <2> HIDE DEF others
  <2> QED
    BY <2>1, <2>4, <2>5, <2>6
<1>2. M \in [Node -> Nat]
  <2>1. M = [k \in Node |-> M[k]]
    BY DEF MergeAll
  <2> HIDE DEF M
  <2> QED
    BY <1>1, <2>1
<1> HIDE DEF M
<1>3. M \in Clock /\ LessOrEqual(vc, M) /\ \A t \in U : LessOrEqual(h[t], M)
  BY <1>1, <1>2 DEF Clock, LessOrEqual
<1> QED
  BY <1>3 DEF M

(***************************************************************************)
(* Types.                                                                  *)
(***************************************************************************)
\* What a transition changes: the copy of one ticket and the clock, perhaps the
\* record, and messages about that ticket.
TransitionChanges(n, t, s, copy) ==
    /\ copy.state = s /\ copy.vc = Increment(vectorClock[n], n)
    /\ currentState' = [currentState EXCEPT ![n][t] = copy]
    /\ vectorClock' = [vectorClock EXCEPT ![n] = copy.vc]
    /\ disk' = disk \/ disk' = [disk EXCEPT ![n][t] = copy]
    /\ net \subseteq net'
    /\ \A m \in net' \ net : m \in Update /\ m.ticket = t /\ m.copy.state = s
    /\ now' \in 0 .. MaxTime
    /\ happened' = happened \cup {<<t, s>>}

LEMMA TransitionEffect ==
    ASSUME TypeOK, NEW n \in Node, NEW t \in Ticket, NEW s \in State, NEW saved \in BOOLEAN,
           Transition(n, t, s, saved)
    PROVE  \E copy \in Copy : TransitionChanges(n, t, s, copy)
<1> DEFINE copy == [state |-> s, ts |-> now', vc |-> NextClock(n)]
<1>1. vectorClock[n] \in Clock /\ now \in 0 .. MaxTime
  BY DEF TypeOK
<1>2. now' \in 0 .. MaxTime
  BY <1>1 DEF Transition, ReadTime
<1>3. NextClock(n) \in Clock /\ NextClock(n) = Increment(vectorClock[n], n)
  BY <1>1, IncrementIsLater DEF NextClock
<1>4. copy \in Copy
  BY <1>2, <1>3 DEF Copy
<1>5. net \subseteq net' /\ \A m \in net' \ net : m \in Update /\ m.ticket = t /\ m.copy.state = s
  <2>1. CASE saved
    <3> DEFINE sentCopy == [copy EXCEPT !.vc = NewVectorClock]
    <3>1. sentCopy \in Copy /\ sentCopy.state = s
      BY <1>4, ClockOrder DEF Copy
    <3>2. PICK P \in GossipTargets(n) : net' = net \cup GossipUpdates(P, t, copy)
      BY <2>1 DEF Transition, disseminateMessage
    <3>3. P \subseteq Node
      BY DEF GossipTargets, Reachable
    <3>4. GossipUpdates(P, t, copy) =
            {[type |-> "update", to |-> p, ticket |-> t, copy |-> sentCopy] : p \in P}
      BY DEF GossipUpdates
    <3> HIDE DEF sentCopy, copy
    <3> QED
      BY <3>1, <3>2, <3>3, <3>4 DEF Update
  <2>2. CASE ~saved
    BY <2>2 DEF Transition
  <2> QED
    BY <2>1, <2>2
<1>6. /\ currentState' = [currentState EXCEPT ![n][t] = copy]
      /\ vectorClock' = [vectorClock EXCEPT ![n] = copy.vc]
      /\ disk' = disk \/ disk' = [disk EXCEPT ![n][t] = copy]
      /\ happened' = happened \cup {<<t, s>>}
  BY DEF Transition
<1>7. copy.state = s /\ copy.vc = NextClock(n)
  OBVIOUS
<1> HIDE DEF copy
<1> QED
  BY <1>2, <1>3, <1>4, <1>5, <1>6, <1>7 DEF TransitionChanges

\* The copies, clocks, records, messages and the history keep their types, and the
\* state replicator keeps its ticket.
LEMMA TransitionType ==
    ASSUME TypeInv, NEW n \in Node, NEW t \in Ticket, NEW s \in State, NEW saved \in BOOLEAN,
           Transition(n, t, s, saved)
    PROVE  /\ currentState' \in [Node -> [Ticket -> Copy \cup {None}]]
           /\ vectorClock' \in [Node -> Clock]
           /\ disk' \in [Node -> [Ticket -> Copy \cup {None}]]
           /\ net' \in SUBSET (Update \cup Sync)
           /\ now' \in 0 .. MaxTime
           /\ happened' \in SUBSET (Ticket \X State)
           /\ currentState'[n][t] # None
           /\ \A k \in Node, u \in Ticket : currentState[k][u] # None => currentState'[k][u] # None
<1>1. PICK copy \in Copy : TransitionChanges(n, t, s, copy)
  BY TransitionEffect DEF TypeInv
<1>2. copy # None /\ copy.vc \in Clock
  BY NoneIsNoCopy DEF Copy
<1>3. currentState \in [Node -> [Ticket -> Copy \cup {None}]]
  BY DEF TypeInv, TypeOK
<1>4. disk \in [Node -> [Ticket -> Copy \cup {None}]]
  BY DEF TypeInv, TypeOK
<1>5. vectorClock \in [Node -> Clock] /\ net \in SUBSET (Update \cup Sync)
      /\ happened \in SUBSET (Ticket \X State)
  BY DEF TypeInv, TypeOK
<1>6. currentState' = [currentState EXCEPT ![n][t] = copy]
  BY <1>1 DEF TransitionChanges
<1>7. currentState' \in [Node -> [Ticket -> Copy \cup {None}]]
  BY <1>3, <1>6
<1>8. disk' \in [Node -> [Ticket -> Copy \cup {None}]]
  BY <1>1, <1>4 DEF TransitionChanges
<1>9. \A k \in Node, u \in Ticket :
         currentState'[k][u] = IF k = n /\ u = t THEN copy ELSE currentState[k][u]
  BY <1>3, <1>6
<1>10. /\ vectorClock' \in [Node -> Clock] /\ net' \in SUBSET (Update \cup Sync)
       /\ now' \in 0 .. MaxTime /\ happened' \in SUBSET (Ticket \X State)
  BY <1>1, <1>2, <1>5 DEF TransitionChanges
<1> QED
  BY <1>2, <1>7, <1>8, <1>9, <1>10

\* MergeState keeps the local copy or takes the other one, and it takes the other
\* one only if that is newer, or concurrent with a later timestamp.
LEMMA MergeTicketChoice ==
    ASSUME NEW local \in Copy \cup {None}, NEW remote \in Copy
    PROVE  /\ MergeTicket(local, remote) \in Copy
           /\ MergeTicket(local, remote) \in {local, remote}
           /\ local # None /\ MergeTicket(local, remote) # local =>
                 IsNewer(MergeTicket(local, remote), local)
<1> QED
  BY DEF MergeTicket, IsNewer

\* persistTicket's call and the results of SaveTicket.
LEMMA SaveTypes ==
    /\ \A t \in Ticket : PersistTicket(t) \in Save
    /\ \A n \in Node : SaveResults(n) \subseteq BOOLEAN
    /\ \A t \in Ticket, c \in Copy \cup {None} : [ticket |-> t, copy |-> c] \in Save
<1> QED
  BY DEF PersistTicket, Save, SaveResults

\* The steps that leave the log alone keep SequenceCounted.
LEMMA CountKept ==
    ASSUME TypeInv, chosen' = chosen, sequence' \in {sequence, 0}
    PROVE  SequenceCounted' /\ sequence' \in 0 .. MaxSequence
<1>1. IsFiniteSet(chosen) /\ sequence <= Cardinality(chosen) /\ sequence \in 0 .. MaxSequence
  BY DEF TypeInv, SequenceCounted, TypeOK
<1>2. Cardinality(chosen) \in Nat /\ MaxSequence \in Nat
  BY <1>1, FS_CardinalityType, BoundTypes
<1> QED
  BY <1>1, <1>2 DEF SequenceCounted

LEMMA ProposeType == ASSUME TypeInv, NEW t \in Ticket, ProposeRequest(t) PROVE TypeInv'
<1> DEFINE d == <<Cardinality(chosen) + 1, t>>
<1>1. IsFiniteSet(chosen) /\ sequence <= Cardinality(chosen) /\ sequence \in 0 .. MaxSequence
  BY DEF TypeInv, SequenceCounted, TypeOK
<1>2. Cardinality(chosen) \in Nat /\ MaxSequence \in Nat
  BY <1>1, FS_CardinalityType, BoundTypes
<1>3. /\ Cardinality(chosen) + 1 <= MaxSequence
      /\ \A e \in chosen : e[1] # Cardinality(chosen) + 1
      /\ chosen' = chosen \cup {d} /\ applied' = applied /\ sequence' = sequence + 1
      /\ todo' = [n \in Node |-> IF Alive(n) THEN todo[n] \cup {d} ELSE todo[n]]
      /\ UNCHANGED <<process, storeVars, replicating, net, now, crashes, uses>>
  BY DEF ProposeRequest, Consensus!Choose
<1>4. d \in Sequence \X Ticket /\ d \notin chosen
  BY <1>2, <1>3 DEF Sequence
<1>c. IsFiniteSet(chosen') /\ Cardinality(chosen') = Cardinality(chosen) + 1
  BY <1>1, <1>3, <1>4, FS_AddElement
<1>5. sequence' \in 0 .. MaxSequence /\ SequenceCounted'
  BY <1>1, <1>2, <1>3, <1>c DEF SequenceCounted
<1>6. ReplicatesKnown'
  BY <1>3 DEF TypeInv, ReplicatesKnown, storeVars
<1> HIDE DEF d
<1>7. TypeOK'
  BY <1>3, <1>4, <1>5 DEF TypeInv, TypeOK, storeVars
<1> QED
  BY <1>5, <1>6, <1>7 DEF TypeInv

LEMMA ExecuteType ==
    ASSUME TypeInv, NEW n \in Node, NEW d \in todo[n], Execute(n, d)
    PROVE  TypeInv'
<1> DEFINE t == d[2]
<1>1. d \in Sequence \X Ticket /\ d[1] \in Sequence /\ t \in Ticket /\ d = <<d[1], t>>
  BY DEF TypeInv, TypeOK
<1>2. UNCHANGED <<process, sequence, crashes, uses>>
  BY DEF Execute
<1>3. ASSUME Consensus!Apply(n, d[1], t), todo' = [todo EXCEPT ![n] = @ \ {d}],
             saves' = [saves EXCEPT ![n] = @ \cup {PersistTicket(t)}],
             replicating' = [replicating EXCEPT ![n] = t]
      PROVE  /\ chosen' = chosen
             /\ applied' \in [Node -> SUBSET (Sequence \X Ticket)]
             /\ todo' \in [Node -> SUBSET (Sequence \X Ticket)]
             /\ saves' \in [Node -> SUBSET Save]
             /\ replicating' \in [Node -> Ticket \cup {None}]
  <2> HIDE DEF t
  <2> QED
    BY <1>1, <1>3, SaveTypes DEF TypeInv, TypeOK, Consensus!Apply
<1>r. ASSUME replicating' = [replicating EXCEPT ![n] = t] \/ replicating' = replicating,
             currentState'[n][t] # None,
             \A k \in Node, u \in Ticket : currentState[k][u] # None => currentState'[k][u] # None
      PROVE  ReplicatesKnown'
  <2> HIDE DEF t
  <2>1. replicating \in [Node -> Ticket \cup {None}]
    BY DEF TypeInv, TypeOK
  <2>2. ReplicatesKnown
    BY DEF TypeInv
  <2> QED
    BY <1>r, <1>1, <2>1, <2>2 DEF ReplicatesKnown
<1>4. CASE ExecuteValidate(n, d)
  <2>1. PICK saved \in SaveResults(n) :
          /\ Transition(n, t, "VALIDATED", saved)
          /\ \/ /\ saved
                /\ Consensus!Apply(n, d[1], t)
                /\ todo' = [todo EXCEPT ![n] = @ \ {d}]
                /\ saves' = [saves EXCEPT ![n] = @ \cup {PersistTicket(t)}]
                /\ replicating' = [replicating EXCEPT ![n] = t]
             \/ ~saved /\ UNCHANGED <<chosen, applied, todo, saves, replicating>>
    BY <1>4 DEF ExecuteValidate
  <2>2. saved \in BOOLEAN /\ "VALIDATED" \in State
    BY SaveTypes DEF State
  <2> HIDE DEF t
  <2>3. /\ currentState' \in [Node -> [Ticket -> Copy \cup {None}]]
        /\ vectorClock' \in [Node -> Clock]
        /\ disk' \in [Node -> [Ticket -> Copy \cup {None}]]
        /\ net' \in SUBSET (Update \cup Sync)
        /\ now' \in 0 .. MaxTime
        /\ happened' \in SUBSET (Ticket \X State)
        /\ currentState'[n][t] # None
        /\ \A k \in Node, u \in Ticket : currentState[k][u] # None => currentState'[k][u] # None
    BY <1>1, <2>1, <2>2, TransitionType
  <2>4. /\ chosen' = chosen
        /\ applied' \in [Node -> SUBSET (Sequence \X Ticket)]
        /\ todo' \in [Node -> SUBSET (Sequence \X Ticket)]
        /\ saves' \in [Node -> SUBSET Save]
        /\ replicating' \in [Node -> Ticket \cup {None}]
    BY <2>1, <1>3 DEF TypeInv, TypeOK
  <2>5. TypeOK'
    BY <1>2, <2>3, <2>4 DEF TypeInv, TypeOK
  <2>6. ReplicatesKnown'
    BY <2>1, <2>3, <1>r
  <2>7. SequenceCounted'
    BY <1>2, <2>4, CountKept
  <2> QED
    BY <2>5, <2>6, <2>7 DEF TypeInv
<1>5. CASE ExecuteAgain(n, d)
  <2>1. /\ Consensus!Apply(n, d[1], t)
        /\ todo' = [todo EXCEPT ![n] = @ \ {d}]
        /\ saves' = [saves EXCEPT ![n] = @ \cup {PersistTicket(t)}]
        /\ replicating' = [replicating EXCEPT ![n] = t]
        /\ UNCHANGED <<currentState, vectorClock, disk, happened, net, now>>
    BY <1>5 DEF ExecuteAgain
  <2>2. currentState[n][t] # None
    BY <1>5, TicketsAssumption DEF ExecuteAgain, StateOf, State
  <2>3. ReplicatesKnown'
    BY <2>1, <2>2, <1>r
  <2>4. TypeOK'
    BY <1>2, <2>1, <1>3 DEF TypeInv, TypeOK
  <2>5. SequenceCounted'
    BY <1>2, <2>1, <1>3, CountKept
  <2> QED
    BY <2>3, <2>4, <2>5 DEF TypeInv
<1> QED
  BY <1>4, <1>5 DEF Execute

\* The clock after loading the database, see Load.
LEMMA LoadedClock ==
    ASSUME TypeInv, NEW n \in Node
    PROVE  LET U == {u \in Ticket : disk[n][u] # None}
               M == MergeAll(vectorClock[n], {disk[n][t].vc : t \in U})
           IN /\ M \in Clock
              /\ LessOrEqual(vectorClock[n], M)
              /\ \A t \in U : LessOrEqual(disk[n][t].vc, M)
<1> DEFINE U == {u \in Ticket : disk[n][u] # None}
           h == [t \in Ticket |-> IF t \in U THEN disk[n][t].vc ELSE NewVectorClock]
<1>1. vectorClock[n] \in Clock /\ \A t \in U : disk[n][t] \in Copy
  BY DEF TypeInv, TypeOK
<1>2. h \in [Ticket -> Clock] /\ U \in SUBSET Ticket
  BY <1>1, ClockOrder DEF Copy
<1>3. {disk[n][t].vc : t \in U} = {h[t] : t \in U} /\ \A t \in U : h[t] = disk[n][t].vc
  OBVIOUS
<1> HIDE DEF h, U
<1>4. /\ MergeAll(vectorClock[n], {h[t] : t \in U}) \in Clock
      /\ LessOrEqual(vectorClock[n], MergeAll(vectorClock[n], {h[t] : t \in U}))
      /\ \A t \in U : LessOrEqual(h[t], MergeAll(vectorClock[n], {h[u] : u \in U}))
  BY <1>1, <1>2, MergeAllIsUpperBound
<1> QED
  BY <1>3, <1>4 DEF U

(***************************************************************************)
(* Copies only get newer.                                                  *)
(***************************************************************************)
\* What a step does to the copies and the clock of node n is enough.
LEMMA CoverStep ==
    ASSUME ClockCoversCopies, NEW n \in Node,
           \A k \in Node \ {n} : currentState'[k] = currentState[k] /\ vectorClock'[k] = vectorClock[k],
           \A t \in Ticket : currentState'[n][t] # None =>
              LessOrEqual(currentState'[n][t].vc, vectorClock'[n]),
           \A t \in Ticket :
              process'[n] # "down" /\ currentState[n][t] # None
                 /\ currentState'[n][t] # currentState[n][t] =>
                       IsNewer(currentState'[n][t], currentState[n][t])
    PROVE  ClockCoversCopies' /\ CopiesGetNewer
<1>1. ClockCoversCopies'
  BY DEF ClockCoversCopies, LessOrEqual
<1>2. CopiesGetNewer
  BY DEF CopiesGetNewer
<1> QED
  BY <1>1, <1>2

\* A transition's clock is later than every copy the node holds.
LEMMA TransitionCovers ==
    ASSUME TypeInv, ClockCoversCopies, NEW n \in Node, NEW t \in Ticket, NEW s \in State,
           NEW saved \in BOOLEAN, Transition(n, t, s, saved)
    PROVE  ClockCoversCopies' /\ CopiesGetNewer
<1>1. PICK copy \in Copy : TransitionChanges(n, t, s, copy)
  BY TransitionEffect DEF TypeInv
<1>2. /\ copy.vc = Increment(vectorClock[n], n)
      /\ currentState' = [currentState EXCEPT ![n][t] = copy]
      /\ vectorClock' = [vectorClock EXCEPT ![n] = copy.vc]
  BY <1>1 DEF TransitionChanges
<1>3. currentState \in [Node -> [Ticket -> Copy \cup {None}]] /\ vectorClock \in [Node -> Clock]
  BY DEF TypeInv, TypeOK
<1>4. /\ vectorClock[n] \in Clock /\ copy.vc \in Clock
      /\ LessOrEqual(vectorClock[n], copy.vc) /\ ~LessOrEqual(copy.vc, vectorClock[n])
  BY <1>2, <1>3, IncrementIsLater
<1>5. ASSUME NEW u \in Ticket, currentState[n][u] # None
      PROVE  /\ LessOrEqual(currentState[n][u].vc, copy.vc)
             /\ ~LessOrEqual(copy.vc, currentState[n][u].vc)
  <2>1. currentState[n][u] \in Copy
    BY <1>3, <1>5
  <2>2. currentState[n][u].vc \in Clock
    BY <2>1 DEF Copy
  <2>3. LessOrEqual(currentState[n][u].vc, vectorClock[n])
    BY <1>5 DEF ClockCoversCopies
  <2> QED
    BY <1>4, <2>2, <2>3, ClockOrder
<1>6. \A u \in Ticket : currentState'[n][u] = IF u = t THEN copy ELSE currentState[n][u]
  BY <1>2, <1>3
<1>7. vectorClock'[n] = copy.vc
  BY <1>2, <1>3
<1>8. \A k \in Node \ {n} : currentState'[k] = currentState[k] /\ vectorClock'[k] = vectorClock[k]
  BY <1>2, <1>3
<1>9. \A u \in Ticket : currentState'[n][u] # None =>
         LessOrEqual(currentState'[n][u].vc, vectorClock'[n])
  BY <1>4, <1>5, <1>6, <1>7, ClockOrder
<1>10. \A u \in Ticket :
          currentState[n][u] # None /\ currentState'[n][u] # currentState[n][u] =>
             IsNewer(currentState'[n][u], currentState[n][u])
  BY <1>5, <1>6, CompareBefore DEF IsNewer
<1> QED
  BY <1>8, <1>9, <1>10, CoverStep

\* Merging an update and loading the database take over newer copies only.
LEMMA MergeCovers ==
    ASSUME TypeInv, ClockCoversCopies, NEW n \in Node,
           (\E m \in net : ReceiveUpdate(n, m)) \/ Load(n)
    PROVE  ClockCoversCopies' /\ CopiesGetNewer
<1>a. currentState \in [Node -> [Ticket -> Copy \cup {None}]] /\ vectorClock \in [Node -> Clock]
  BY DEF TypeInv, TypeOK
<1>b. disk \in [Node -> [Ticket -> Copy \cup {None}]]
  BY DEF TypeInv, TypeOK
<1>c. ASSUME NEW u \in Ticket, currentState[n][u] # None
      PROVE  currentState[n][u].vc \in Clock /\ LessOrEqual(currentState[n][u].vc, vectorClock[n])
  <2>1. currentState[n][u] \in Copy
    BY <1>a, <1>c
  <2> QED
    BY <1>c, <2>1 DEF Copy, ClockCoversCopies
<1>1. ASSUME NEW m \in net, ReceiveUpdate(n, m) PROVE ClockCoversCopies' /\ CopiesGetNewer
  <2> DEFINE merged == MergeTicket(currentState[n][m.ticket], m.copy)
             M == Merge(vectorClock[n], m.copy.vc)
  <2>1. m \in Update
    BY <1>1 DEF ReceiveUpdate, Sync, TypeInv, TypeOK
  <2>2. m.ticket \in Ticket /\ m.copy \in Copy /\ m.copy.vc \in Clock
    BY <2>1 DEF Update, Copy
  <2>3. M \in Clock /\ LessOrEqual(vectorClock[n], M) /\ LessOrEqual(m.copy.vc, M)
    BY <1>a, <2>2, MergeIsUpperBound
  <2>4. /\ currentState' = [currentState EXCEPT ![n][m.ticket] = merged]
        /\ vectorClock' = [vectorClock EXCEPT ![n] = M]
    BY <1>1, <1>a DEF ReceiveUpdate, MergeClock
  <2>5. /\ merged \in {currentState[n][m.ticket], m.copy}
        /\ currentState[n][m.ticket] # None /\ merged # currentState[n][m.ticket] =>
              IsNewer(merged, currentState[n][m.ticket])
    <3>1. currentState[n][m.ticket] \in Copy \cup {None}
      BY <1>a, <2>2
    <3> QED
      BY <2>2, <3>1, MergeTicketChoice
  <2> HIDE DEF merged, M
  <2>6. \A u \in Ticket : currentState'[n][u] = IF u = m.ticket THEN merged ELSE currentState[n][u]
    BY <1>a, <2>4
  <2>7. vectorClock'[n] = M
    BY <1>a, <2>4
  <2>8. \A k \in Node \ {n} : currentState'[k] = currentState[k] /\ vectorClock'[k] = vectorClock[k]
    BY <1>a, <2>4
  <2>9. \A u \in Ticket : currentState[n][u] # None => LessOrEqual(currentState[n][u].vc, M)
    BY <1>a, <1>c, <2>3, ClockOrder
  <2>10. \A u \in Ticket : currentState'[n][u] # None =>
            LessOrEqual(currentState'[n][u].vc, vectorClock'[n])
    <3> SUFFICES ASSUME NEW u \in Ticket, currentState'[n][u] # None
                 PROVE  LessOrEqual(currentState'[n][u].vc, M)
      BY <2>7
    <3>1. \/ currentState'[n][u] = currentState[n][u]
          \/ currentState'[n][u] = m.copy
      BY <2>5, <2>6
    <3> QED
      BY <2>3, <2>9, <3>1
  <2>11. \A u \in Ticket : currentState[n][u] # None /\ currentState'[n][u] # currentState[n][u] =>
            IsNewer(currentState'[n][u], currentState[n][u])
    BY <2>5, <2>6
  <2> QED
    BY <2>8, <2>10, <2>11, CoverStep
<1>2. CASE Load(n)
  <2> DEFINE U == {u \in Ticket : disk[n][u] # None}
             M == MergeAll(vectorClock[n], {disk[n][t].vc : t \in U})
  <2>1. /\ M \in Clock /\ LessOrEqual(vectorClock[n], M)
        /\ \A t \in Ticket : disk[n][t] # None => LessOrEqual(disk[n][t].vc, M)
    BY LoadedClock
  <2>2. /\ currentState' = [currentState EXCEPT ![n] = [t \in Ticket |-> MergeStored(n, t)]]
        /\ vectorClock' = [vectorClock EXCEPT ![n] = M]
    BY <1>2, <1>a DEF Load
  <2> HIDE DEF M
  <2>3. ASSUME NEW t \in Ticket
        PROVE  /\ MergeStored(n, t) \in {currentState[n][t], disk[n][t]}
               /\ currentState[n][t] # None /\ MergeStored(n, t) # currentState[n][t] =>
                     IsNewer(MergeStored(n, t), currentState[n][t])
    <3>1. currentState[n][t] \in Copy \cup {None} /\ disk[n][t] \in Copy \cup {None}
      BY <1>a, <1>b
    <3> QED
      BY <3>1, MergeTicketChoice DEF MergeStored
  <2>4. (\A t \in Ticket : currentState'[n][t] = MergeStored(n, t)) /\ vectorClock'[n] = M
    BY <1>a, <2>2
  <2>5. \A k \in Node \ {n} : currentState'[k] = currentState[k] /\ vectorClock'[k] = vectorClock[k]
    BY <1>a, <2>2
  <2>6. \A t \in Ticket : currentState[n][t] # None => LessOrEqual(currentState[n][t].vc, M)
    BY <1>a, <1>c, <2>1, ClockOrder
  <2>7. \A t \in Ticket : currentState'[n][t] # None =>
           LessOrEqual(currentState'[n][t].vc, vectorClock'[n])
    BY <2>1, <2>3, <2>4, <2>6
  <2>8. \A t \in Ticket : currentState[n][t] # None /\ currentState'[n][t] # currentState[n][t] =>
           IsNewer(currentState'[n][t], currentState[n][t])
    BY <2>3, <2>4
  <2> QED
    BY <2>5, <2>7, <2>8, CoverStep
<1> QED
  BY <1>1, <1>2

\* Every step keeps the clocks beyond the copies and replaces copies by newer ones.
LEMMA NextCovers ==
    TypeInv /\ ClockCoversCopies /\ [Next]_vars => ClockCoversCopies' /\ [CopiesGetNewer]_vars
<1> SUFFICES ASSUME TypeInv, ClockCoversCopies, [Next]_vars
             PROVE  ClockCoversCopies' /\ CopiesGetNewer
  OBVIOUS
<1>a. currentState \in [Node -> [Ticket -> Copy \cup {None}]] /\ vectorClock \in [Node -> Clock]
  BY DEF TypeInv, TypeOK
<1>1. ASSUME UNCHANGED <<currentState, vectorClock>> PROVE ClockCoversCopies' /\ CopiesGetNewer
  BY <1>1 DEF ClockCoversCopies, LessOrEqual, CopiesGetNewer
<1>2. ASSUME NEW n \in Node, NEW d \in todo[n], Execute(n, d)
      PROVE  ClockCoversCopies' /\ CopiesGetNewer
  <2>1. d[2] \in Ticket /\ "VALIDATED" \in State
    BY DEF TypeInv, TypeOK, State
  <2>2. CASE ExecuteValidate(n, d)
    <3>1. PICK saved \in SaveResults(n) : Transition(n, d[2], "VALIDATED", saved)
      BY <2>2 DEF ExecuteValidate
    <3> QED
      BY <2>1, <3>1, SaveTypes, TransitionCovers
  <2>3. CASE ExecuteAgain(n, d)
    BY <1>1, <2>3 DEF ExecuteAgain
  <2> QED
    BY <1>2, <2>2, <2>3 DEF Execute
<1>3. ASSUME NEW n \in Node, NEW t \in Ticket, ConsumeTicket(n, t) \/ DisputeTicket(n, t)
      PROVE  ClockCoversCopies' /\ CopiesGetNewer
  <2>1. PICK s \in State, saved \in SaveResults(n) : Transition(n, t, s, saved)
    BY <1>3 DEF ConsumeTicket, DisputeTicket, State
  <2> QED
    BY <2>1, SaveTypes, TransitionCovers
<1>4. ASSUME NEW n \in Node, vectorClock' = vectorClock,
             \A k \in Node \ {n} : currentState'[k] = currentState[k],
             \A t \in Ticket : currentState'[n][t] # currentState[n][t] =>
                currentState[n][t] = None /\ currentState'[n][t].vc = vectorClock[n]
      PROVE  ClockCoversCopies' /\ CopiesGetNewer
  <2>1. \A t \in Ticket : currentState'[n][t] # None =>
           LessOrEqual(currentState'[n][t].vc, vectorClock'[n])
    BY <1>a, <1>4, ClockOrder DEF ClockCoversCopies
  <2> QED
    BY <1>4, <2>1, CoverStep
<1>5. ASSUME NEW n \in Node, SeedTickets(n) PROVE ClockCoversCopies' /\ CopiesGetNewer
  <2>1. /\ currentState' = [currentState EXCEPT ![n] = [t \in Ticket |->
              IF @[t] = None THEN Issued(now', vectorClock[n]) ELSE @[t]]]
        /\ vectorClock' = vectorClock
    BY <1>5 DEF SeedTickets
  <2>2. Issued(now', vectorClock[n]).vc = vectorClock[n]
    BY DEF Issued
  <2> QED
    BY <1>a, <1>4, <2>1, <2>2
<1>6. ASSUME NEW n \in Node, NEW m \in net, ReceiveSync(n, m)
      PROVE  ClockCoversCopies' /\ CopiesGetNewer
  <2> DEFINE T == IF m.seq > GetSequence(n) THEN Missing(n, m) ELSE {}
  <2>1. /\ currentState' = [currentState EXCEPT ![n] =
              [t \in Ticket |-> IF t \in T THEN SyncTicket(n) ELSE @[t]]]
        /\ vectorClock' = vectorClock
    BY <1>6 DEF ReceiveSync
  <2>2. \A t \in T : currentState[n][t] = None
    BY DEF Missing
  <2>3. SyncTicket(n).vc = vectorClock[n]
    BY DEF SyncTicket
  <2> HIDE DEF T
  <2> QED
    BY <1>a, <1>4, <2>1, <2>2, <2>3
<1>7. ASSUME NEW n \in Node, Crash(n) PROVE ClockCoversCopies' /\ CopiesGetNewer
  <2>1. /\ \A t \in Ticket : currentState'[n][t] = None
        /\ \A k \in Node \ {n} : currentState'[k] = currentState[k] /\ vectorClock'[k] = vectorClock[k]
    BY <1>a, <1>7 DEF Crash
  <2>2. process'[n] = "down"
    BY <1>7 DEF Crash, TypeInv, TypeOK
  <2> QED
    BY <2>1, <2>2, CoverStep
<1>8. ASSUME \/ UNCHANGED vars
             \/ \E t \in Ticket : ProposeRequest(t)
             \/ \E n \in Node :
                   \/ Replicate(n) \/ Boot(n)
                   \/ \E w \in saves[n] : ReadForSave(n, w) \/ SaveTicket(n, w)
                   \/ \E p \in Node : SendSync(n, p)
      PROVE  UNCHANGED <<currentState, vectorClock>>
  BY <1>8 DEF vars, ProposeRequest, Replicate, Boot, ReadForSave, SaveTicket, SendSync, storeVars
<1> QED
  BY <1>1, <1>2, <1>3, <1>5, <1>6, <1>7, <1>8, MergeCovers DEF Next
=============================================================================
