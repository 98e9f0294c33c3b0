----------------------------- MODULE Simulation -----------------------------
(***************************************************************************)
(* The simulator controller of the supervisor (pkg/supervisor/simulator.go)*)
(* which runs the simulator program as a child process and keeps what it   *)
(* prints.  Several runs can follow one another; what a run's goroutines   *)
(* hold is indexed by the run, so that a late goroutine of an earlier run  *)
(* can be told apart.                                                      *)
(*                                                                         *)
(* What a line says is left out, except that it reports progress; what is  *)
(* kept is tagged with the run that printed it.  The callbacks, which are  *)
(* called outside the mutex, put events into the channel wsBroadcast of    *)
(* the supervisor's server; of the channel only its length matters.        *)
(***************************************************************************)
EXTENDS Naturals, FiniteSets, Sequences

CONSTANTS
    Line,           \* lines that a simulator prints
    ProgressLine,   \* those that report progress
    maxOutputLines, \* lines that are kept
    QueueSize,      \* the capacity of wsBroadcast
    MaxRuns,        \* bound: runs that are started
    MaxLines        \* bound: lines that a run prints

ASSUME SimulationAssumption ==
    /\ {maxOutputLines, QueueSize, MaxRuns, MaxLines} \subseteq Nat \ {0}
    /\ ProgressLine \subseteq Line

Run == 1 .. MaxRuns
NoRun == 0
Stream == {"stdout", "stderr"}
Status == {"idle", "running", "complete", "error"}

VARIABLES
    status,      \* the controller's status
    run,         \* the latest run
    goroutine,   \* [run]: how far Start and runSimulator have come
    process,     \* [run]: its child process
    printed,     \* [run]: the number of lines that its process printed, for the bound
    pipe,        \* [run][stream]: the lines not yet scanned
    cancelFunc,  \* the run that s.cancelFunc cancels, or NoRun
    cancelled,   \* the runs under way whose context is cancelled
    outputLines, \* what is kept: pairs <<run, line>>
    progress,    \* the run that s.progress is of, or NoRun
    results,     \* the run that s.results is of, or NoRun (nil)
    recentLines, \* the lines seen within the deduplication window
    wsBroadcast  \* the number of events in the channel

keptVars == <<outputLines, progress, results>>
simVars == <<status, run, goroutine, process, printed, pipe, cancelFunc, cancelled, keptVars,
             recentLines, wsBroadcast>>

\* The goroutine of a run: Start has yet to notify; the goroutine begins; it has set
\* cancelFunc; the process is started; it has yet to notify the final status; ended.
Stage == {"none", "notify", "begin", "ready", "started", "complete", "idle", "error", "ended"}

SimTypeOK ==
    /\ status \in Status
    /\ run \in 0 .. MaxRuns
    /\ goroutine \in [Run -> Stage]
    /\ process \in [Run -> {"none", "alive", "succeeded", "failed"}]
    /\ printed \in [Run -> 0 .. MaxLines]
    /\ pipe \in [Run -> [Stream -> Seq(Line)]]
    /\ \A r \in Run, s \in Stream : Len(pipe[r][s]) <= MaxLines
    /\ cancelFunc \in 0 .. MaxRuns
    /\ cancelled \subseteq Run
    /\ outputLines \in Seq(Run \X (Line \cup {"end"})) /\ Len(outputLines) <= maxOutputLines
    /\ progress \in 0 .. MaxRuns
    /\ results \in 0 .. MaxRuns
    /\ recentLines \subseteq Line
    /\ wsBroadcast \in 0 .. QueueSize

SimInit ==
    /\ status = "idle"
    /\ run = NoRun
    /\ goroutine = [r \in Run |-> "none"]
    /\ process = [r \in Run |-> "none"]
    /\ printed = [r \in Run |-> 0]
    /\ pipe = [r \in Run |-> [s \in Stream |-> <<>>]]
    /\ cancelFunc = NoRun
    /\ cancelled = {}
    /\ outputLines = <<>>
    /\ progress = NoRun
    /\ results = NoRun
    /\ recentLines = {}
    /\ wsBroadcast = 0

\* Mutant of broadcastWSMessage: nothing is dropped.
broadcastWSMessageAlways(k) == wsBroadcast' = wsBroadcast + k

\* broadcastWSMessage, k times: an event is dropped when the channel is full.
broadcastWSMessage(k) ==
    wsBroadcast' = IF wsBroadcast + k <= QueueSize THEN wsBroadcast + k ELSE QueueSize

\* addOutput: the last maxOutputLines lines are kept.
addOutput(r, line) ==
    LET lines == Append(outputLines, <<r, line>>)
    IN IF Len(lines) > maxOutputLines
       THEN SubSeq(lines, Len(lines) - maxOutputLines + 1, Len(lines)) ELSE lines

(***************************************************************************)
(* Start and runSimulator.                                                 *)
(***************************************************************************)
\* Mutant of CanStart: a second run is not refused.
CanStartAlways == TRUE

CanStart == status # "running"

Start ==
    /\ CanStart /\ run < MaxRuns
    /\ status' = "running"
    /\ run' = run + 1
    /\ progress' = run + 1
    /\ results' = NoRun
    /\ outputLines' = <<>>
    /\ goroutine' = [goroutine EXCEPT ![run + 1] = "notify"]
    /\ UNCHANGED <<process, printed, pipe, cancelFunc, cancelled, recentLines, wsBroadcast>>

NotifyRunning(r) ==
    /\ goroutine[r] = "notify"
    /\ goroutine' = [goroutine EXCEPT ![r] = "begin"]
    /\ broadcastWSMessage(1)
    /\ UNCHANGED <<status, run, process, printed, pipe, cancelFunc, cancelled, keptVars, recentLines>>

SetCancelFunc(r) ==
    /\ goroutine[r] = "begin"
    /\ goroutine' = [goroutine EXCEPT ![r] = "ready"]
    /\ cancelFunc' = r
    /\ UNCHANGED <<status, run, process, printed, pipe, cancelled, keptVars, recentLines, wsBroadcast>>

StartProcess(r) ==
    /\ goroutine[r] = "ready" /\ r \notin cancelled
    /\ goroutine' = [goroutine EXCEPT ![r] = "started"]
    /\ process' = [process EXCEPT ![r] = "alive"]
    /\ UNCHANGED <<status, run, printed, pipe, cancelFunc, cancelled, keptVars, recentLines, wsBroadcast>>

\* setError: a pipe cannot be made or the process not started.
StartFails(r) ==
    /\ goroutine[r] = "ready"
    /\ status' = "error"
    /\ outputLines' = addOutput(r, "end")
    /\ goroutine' = [goroutine EXCEPT ![r] = "error"]
    /\ UNCHANGED <<run, process, printed, pipe, cancelFunc, cancelled, progress, results, recentLines, wsBroadcast>>

\* Mutant of StreamsClosed: the streams are not waited for.
StreamsClosedNot(r) == TRUE

\* wg.Wait: both scanners have met the end of their stream.
StreamsClosed(r) == \A s \in Stream : pipe[r][s] = <<>>

\* The status after cmd.Wait.
FinalStatus(r) ==
    IF r \in cancelled THEN "idle" ELSE IF process[r] = "failed" THEN "error" ELSE "complete"

Finish(r) ==
    /\ goroutine[r] = "started" /\ process[r] \in {"succeeded", "failed"} /\ StreamsClosed(r)
    /\ status' = FinalStatus(r)
    /\ outputLines' = addOutput(r, "end")
    /\ goroutine' = [goroutine EXCEPT ![r] = FinalStatus(r)]
    /\ process' = [process EXCEPT ![r] = "none"]
    /\ UNCHANGED <<run, printed, pipe, cancelFunc, cancelled, progress, results, recentLines, wsBroadcast>>

NotifyFinal(r) ==
    /\ goroutine[r] \in {"complete", "idle", "error"}
    /\ goroutine' = [goroutine EXCEPT ![r] = "ended"]
    /\ cancelled' = cancelled \ {r}
    /\ broadcastWSMessage(1)
    /\ UNCHANGED <<status, run, process, printed, pipe, cancelFunc, keptVars, recentLines>>

(***************************************************************************)
(* The child process and the goroutines that scan its output.              *)
(***************************************************************************)
PrintLine(r, s, line) ==
    /\ process[r] = "alive" /\ printed[r] < MaxLines
    /\ printed' = [printed EXCEPT ![r] = @ + 1]
    /\ pipe' = [pipe EXCEPT ![r][s] = Append(@, line)]
    /\ UNCHANGED <<status, run, goroutine, process, cancelFunc, cancelled, keptVars, recentLines, wsBroadcast>>

\* Mutant of ProcessExits: the process is not tied to the context.
ProcessExitsAlone(r) ==
    /\ process[r] = "alive" /\ r \notin cancelled
    /\ process' = [process EXCEPT ![r] = "succeeded"]
    /\ printed' = [printed EXCEPT ![r] = 0]
    /\ UNCHANGED <<status, run, goroutine, pipe, cancelFunc, cancelled, keptVars, recentLines, wsBroadcast>>

\* The simulation ends, or the process is killed because its context is cancelled.
ProcessExits(r) ==
    /\ process[r] = "alive"
    /\ \E outcome \in IF r \in cancelled THEN {"failed"} ELSE {"succeeded", "failed"} :
          process' = [process EXCEPT ![r] = outcome]
    /\ printed' = [printed EXCEPT ![r] = 0]
    /\ UNCHANGED <<status, run, goroutine, pipe, cancelFunc, cancelled, keptVars, recentLines, wsBroadcast>>

\* streamOutput on one line.  A line seen within the window is skipped, whichever
\* stream or run it came from.
ScanLine(r, s) ==
    /\ pipe[r][s] # <<>>
    /\ pipe' = [pipe EXCEPT ![r][s] = Tail(@)]
    /\ LET line == Head(pipe[r][s])
       IN IF line \in recentLines
          THEN UNCHANGED <<keptVars, recentLines, wsBroadcast>>
          ELSE /\ recentLines' = recentLines \cup {line}
               /\ outputLines' = addOutput(r, line)
               /\ progress' = IF line \in ProgressLine THEN r ELSE progress
               \* the pattern of a result matches a progress line too
               /\ results' = r
               /\ broadcastWSMessage(IF line \in ProgressLine THEN 2 ELSE 1)
    /\ UNCHANGED <<status, run, goroutine, process, printed, cancelFunc, cancelled>>

\* Half a second passes since a line was last seen.
WindowPasses(line) ==
    /\ line \in recentLines
    /\ recentLines' = recentLines \ {line}
    /\ UNCHANGED <<status, run, goroutine, process, printed, pipe, cancelFunc, cancelled, keptVars, wsBroadcast>>

(***************************************************************************)
(* Stop reads cancelFunc under the mutex and calls it after.  The call has *)
(* no effect once the run has ended, so the two are one action.            *)
(***************************************************************************)
\* cancelFunc is nil, or an earlier run's, until the run's goroutine has set it.
Cancel == cancelled \cup {r \in Run : r = cancelFunc /\ goroutine[r] # "ended"}

Stop ==
    /\ status = "running"
    /\ cancelled' = Cancel
    /\ UNCHANGED <<status, run, goroutine, process, printed, pipe, cancelFunc, keptVars, recentLines, wsBroadcast>>

GoroutineStep(r) ==
    \/ NotifyRunning(r) \/ SetCancelFunc(r) \/ StartProcess(r) \/ StartFails(r) \/ Finish(r)
    \/ NotifyFinal(r)
    \/ \E s \in Stream : ScanLine(r, s)

SimNext ==
    \/ Start \/ Stop
    \/ \E r \in Run :
          \/ GoroutineStep(r) \/ ProcessExits(r)
          \/ \E s \in Stream, line \in Line : PrintLine(r, s, line)
    \/ \E line \in Line : WindowPasses(line)

-----------------------------------------------------------------------------
(***************************************************************************)
(* Properties.                                                             *)
(***************************************************************************)
\* Start refuses while a simulation is running, and the status leaves "running" only
\* after the process is gone: two simulator processes never live at a time.
OneSimulator == Cardinality({r \in Run : process[r] = "alive"}) <= 1

\* Start empties the buffers, and a run's final status comes after its streams have
\* been read to their end: output, progress and results shown are the latest run's,
\* never lines that a scanner of an earlier run adds late.
KeptIsOfThisRun ==
    /\ \A i \in DOMAIN outputLines : outputLines[i][1] = run
    /\ {progress, results} \subseteq {run, NoRun}

-----------------------------------------------------------------------------
(***************************************************************************)
(* What the properties rest on: an invariant that every action keeps.      *)
(***************************************************************************)
\* Only the latest run has a goroutine on its way to the final status, and the status
\* is "running" as long as it has; a process and unread lines are of such a run.
OnlyLatestRuns ==
    \A r \in Run :
        /\ goroutine[r] \in {"notify", "begin", "ready", "started"} => r = run /\ status = "running"
        /\ r > run => goroutine[r] = "none"
        /\ process[r] # "none" => goroutine[r] = "started"
        /\ \A s \in Stream :
              /\ pipe[r][s] # <<>> => goroutine[r] = "started"
              /\ process[r] = "alive" => Len(pipe[r][s]) <= printed[r]

SimInvariant == SimTypeOK /\ OnlyLatestRuns /\ KeptIsOfThisRun
=============================================================================
