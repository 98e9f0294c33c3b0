----------------------------- MODULE Dashboard -----------------------------
(***************************************************************************)
(* The WebSocket side of the supervisor (pkg/supervisor/server.go) with    *)
(* the simulator controller as the source of events: callbacks broadcast   *)
(* events into a channel, one goroutine pumps them to the dashboards, and  *)
(* each dashboard has a goroutine that greets it and answers its pings.    *)
(*                                                                         *)
(* A write to a connection takes time: it begins and ends in two actions.  *)
(* The WebSocket library allows one writer at a time on a connection and   *)
(* panics when it meets a second one; the model stops there.               *)
(***************************************************************************)
EXTENDS Simulation

CONSTANTS
    Conn,        \* the connections of dashboards
    MaxPings     \* bound: pings

ASSUME DashboardAssumption == MaxPings \in Nat

VARIABLES
    wsClients,   \* the registered connections
    open,        \* the connections that are open on both sides
    handler,     \* [conn]: what its own goroutine does
    writing,     \* [conn]: the goroutines that are writing to it
    pump,        \* the broadcast pump: the clients still to write to and the dead ones
    stopped,     \* Stop has closed stopCh
    pings        \* pings so far, for the bound

hubVars == <<wsClients, open, handler, writing, pump, stopped, pings>>
vars == <<simVars, hubVars>>

TypeOK ==
    /\ SimTypeOK
    /\ wsClients \subseteq Conn
    /\ open \subseteq Conn
    /\ handler \in [Conn -> {"none", "registered", "greeting", "reading", "answering", "ended"}]
    /\ writing \in [Conn -> SUBSET {"pump", "handler"}]
    /\ pump \in [state : {"idle", "writing", "ended"}, todo : SUBSET Conn, dead : SUBSET Conn]
    /\ stopped \in BOOLEAN
    /\ pings \in 0 .. MaxPings

IdlePump == [state |-> "idle", todo |-> {}, dead |-> {}]

Init ==
    /\ SimInit
    /\ wsClients = {}
    /\ open = {}
    /\ handler = [c \in Conn |-> "none"]
    /\ writing = [c \in Conn |-> {}]
    /\ pump = IdlePump
    /\ stopped = FALSE
    /\ pings = 0

\* The library has met two writers on one connection.
Panicked == \E c \in Conn : writing[c] = {"pump", "handler"}

(***************************************************************************)
(* The broadcast pump.                                                     *)
(***************************************************************************)
PumpTakes ==
    /\ pump.state = "idle" /\ wsBroadcast > 0
    /\ wsBroadcast' = wsBroadcast - 1
    /\ pump' = [state |-> "writing", todo |-> wsClients, dead |-> {}]
    /\ UNCHANGED <<status, run, goroutine, process, printed, pipe, cancelFunc, cancelled, keptVars,
                   recentLines, wsClients, open, handler, writing, stopped, pings>>

PumpBegins(c) ==
    /\ pump.state = "writing" /\ c \in pump.todo
    /\ \A d \in Conn : "pump" \notin writing[d]
    /\ writing' = [writing EXCEPT ![c] = @ \cup {"pump"}]
    /\ UNCHANGED <<simVars, wsClients, open, handler, pump, stopped, pings>>

\* Mutant of PumpWriteEnds: without a deadline, a slow client holds the pump up.
PumpWriteEndsNot(c) == c \notin open

\* A write ends at the latest when its deadline of five seconds passes.
PumpWriteEnds(c) == TRUE

\* WriteJSON succeeds or fails on an open connection and fails on a closed one.
PumpWrote(c) ==
    /\ "pump" \in writing[c] /\ PumpWriteEnds(c)
    /\ \E failed \in IF c \in open THEN BOOLEAN ELSE {TRUE} :
          pump' = [pump EXCEPT !.todo = @ \ {c}, !.dead = IF failed THEN @ \cup {c} ELSE @]
    /\ writing' = [writing EXCEPT ![c] = @ \ {"pump"}]
    /\ UNCHANGED <<simVars, wsClients, open, handler, stopped, pings>>

\* The round ends: dead clients are removed and closed.
PumpEndsRound ==
    /\ pump.state = "writing" /\ pump.todo = {}
    /\ wsClients' = wsClients \ pump.dead
    /\ open' = open \ pump.dead
    /\ pump' = IdlePump
    /\ UNCHANGED <<simVars, handler, writing, stopped, pings>>

PumpReturns ==
    /\ pump.state = "idle" /\ stopped
    /\ pump' = [pump EXCEPT !.state = "ended"]
    /\ UNCHANGED <<simVars, wsClients, open, handler, writing, stopped, pings>>

PumpStep ==
    \/ PumpTakes \/ PumpEndsRound \/ PumpReturns
    \/ \E c \in Conn : PumpBegins(c) \/ PumpWrote(c)

(***************************************************************************)
(* A dashboard connects: handleWebSocket, then handleWSMessages.           *)
(***************************************************************************)
handleWebSocket(c) ==
    /\ handler[c] = "none" /\ ~stopped
    /\ wsClients' = wsClients \cup {c}
    /\ open' = open \cup {c}
    /\ handler' = [handler EXCEPT ![c] = "registered"]
    /\ UNCHANGED <<simVars, writing, pump, stopped, pings>>

\* sendWSMessage begins: the greeting with the initial state ...
Greet(c) ==
    /\ handler[c] = "registered"
    /\ handler' = [handler EXCEPT ![c] = "greeting"]
    /\ writing' = [writing EXCEPT ![c] = @ \cup {"handler"}]
    /\ UNCHANGED <<simVars, wsClients, open, pump, stopped, pings>>

\* ... or the answer to a ping.
Pong(c) ==
    /\ handler[c] = "reading" /\ c \in open /\ pings < MaxPings
    /\ pings' = pings + 1
    /\ handler' = [handler EXCEPT ![c] = "answering"]
    /\ writing' = [writing EXCEPT ![c] = @ \cup {"handler"}]
    /\ UNCHANGED <<simVars, wsClients, open, pump, stopped>>

\* sendWSMessage ends; after a failure the client is removed and closed.  In either
\* case the goroutine goes on to read.
HandlerWrote(c) ==
    /\ "handler" \in writing[c]
    /\ writing' = [writing EXCEPT ![c] = @ \ {"handler"}]
    /\ handler' = [handler EXCEPT ![c] = "reading"]
    /\ \E failed \in IF c \in open THEN BOOLEAN ELSE {TRUE} :
          /\ wsClients' = IF failed THEN wsClients \ {c} ELSE wsClients
          /\ open' = IF failed THEN open \ {c} ELSE open
    /\ UNCHANGED <<simVars, pump, stopped, pings>>

\* Mutant of ReaderEnds: the client stays registered.
ReaderEndsQuietly(c) ==
    /\ handler[c] = "reading" /\ c \notin open
    /\ handler' = [handler EXCEPT ![c] = "ended"]
    /\ UNCHANGED <<simVars, wsClients, open, writing, pump, stopped, pings>>

\* ReadJSON fails on a closed connection: the deferred function removes the client.
ReaderEnds(c) ==
    /\ handler[c] = "reading" /\ c \notin open
    /\ handler' = [handler EXCEPT ![c] = "ended"]
    /\ wsClients' = wsClients \ {c}
    /\ UNCHANGED <<simVars, open, writing, pump, stopped, pings>>

\* The browser goes away.
Disconnect(c) ==
    /\ c \in open
    /\ open' = open \ {c}
    /\ UNCHANGED <<simVars, wsClients, handler, writing, pump, stopped, pings>>

HandlerStep(c) == handleWebSocket(c) \/ Greet(c) \/ Pong(c) \/ HandlerWrote(c) \/ ReaderEnds(c)

\* Stop of the server: the pump is told to end, a running simulation is stopped, every
\* connection closed and no request is served any more.
StopServer ==
    /\ ~stopped /\ stopped' = TRUE
    /\ IF status = "running" THEN Stop ELSE UNCHANGED simVars
    /\ open' = open \ wsClients
    /\ wsClients' = {}
    /\ UNCHANGED <<handler, writing, pump, pings>>

Next ==
    /\ ~Panicked
    /\ \/ SimNext /\ UNCHANGED hubVars /\ (stopped => run' = run)
       \/ PumpStep
       \/ \E c \in Conn : HandlerStep(c) \/ Disconnect(c)
       \/ StopServer

Spec == Init /\ [][Next]_vars

\* The goroutines of the supervisor run, writes end, and a process whose context is
\* cancelled is killed.  Nothing makes a user or a browser act, or a simulation end.
Fairness ==
    /\ \A r \in Run :
          /\ WF_vars(~Panicked /\ GoroutineStep(r) /\ UNCHANGED hubVars)
          /\ WF_vars(~Panicked /\ r \in cancelled /\ ProcessExits(r) /\ UNCHANGED hubVars)
    /\ WF_vars(~Panicked /\ PumpStep)
    /\ \A c \in Conn :
          WF_vars(~Panicked /\ (Greet(c) \/ HandlerWrote(c) \/ ReaderEnds(c)))

FairSpec == Spec /\ Fairness

-----------------------------------------------------------------------------
(***************************************************************************)
(* Properties.                                                             *)
(***************************************************************************)
\* A run whose context Stop cancelled comes to its end, wherever its goroutines are:
\* before the process is started, while it prints or when it has ended by itself.
CancelledRunEnds ==
    \A r \in Run : (r \in cancelled) ~> (goroutine[r] = "ended" \/ Panicked)

\* "a slow client can't block the pump": what is in the channel is sent, whatever the
\* dashboards do, until the server is stopped.
QueueDrains == (wsBroadcast > 0) ~> (wsBroadcast = 0 \/ stopped \/ Panicked)

\* "Dead or slow clients are removed automatically": by the pump, by their own
\* goroutine or by Stop, and no round of the pump brings them back.
DeadClientsLeave ==
    \A c \in Conn : (c \in wsClients /\ c \notin open) ~> (c \notin wsClients \/ Panicked)

\* "wsBroadcastPump is the single goroutine that handles all WebSocket writes": two
\* goroutines never write to a connection at the same time.
SingleWriter == \A c \in Conn : Cardinality(writing[c]) <= 1
=============================================================================
