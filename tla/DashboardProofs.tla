-------------------------- MODULE DashboardProofs --------------------------
(***************************************************************************)
(* Proofs about the supervisor's simulator controller and its dashboards:  *)
(* the runs of the simulator do not get into each other's way, whatever    *)
(* the goroutines of several runs, the dashboards and Stop do in between.  *)
(***************************************************************************)
EXTENDS Dashboard, FiniteSetTheorems, SequenceTheorems, TLAPS

LEMMA Bounds ==
    /\ maxOutputLines \in Nat \ {0} /\ QueueSize \in Nat \ {0} /\ MaxRuns \in Nat \ {0}
    /\ MaxLines \in Nat \ {0} /\ MaxPings \in Nat
<1> QED
  BY SimulationAssumption, DashboardAssumption

(***************************************************************************)
(* What is kept of a run's output.                                         *)
(***************************************************************************)
LinesOf(r) == {r} \X (Line \cup {"end"})

\* A buffer with nothing but lines of run r.
Holds(lines, r) == lines \in Seq(LinesOf(r)) /\ Len(lines) <= maxOutputLines

\* addOutput keeps to the limit, and to the run whose line is added.
LEMMA OutputAdded ==
    ASSUME NEW r \in Run, NEW line \in Line \cup {"end"}, Holds(outputLines, r)
    PROVE  Holds(addOutput(r, line), r)
<1> DEFINE lines == Append(outputLines, <<r, line>>)
           from == Len(lines) - maxOutputLines + 1
<1>1. <<r, line>> \in LinesOf(r)
  BY DEF LinesOf
<1>2. lines \in Seq(LinesOf(r)) /\ Len(lines) = Len(outputLines) + 1
  BY <1>1, AppendProperties DEF Holds
<1>3. Len(outputLines) \in Nat
  BY LenProperties DEF Holds
<1>4. addOutput(r, line) = IF Len(lines) > maxOutputLines THEN SubSeq(lines, from, Len(lines)) ELSE lines
  BY DEF addOutput
<1> HIDE DEF lines
<1>5. CASE Len(lines) > maxOutputLines
  <2>1. Len(lines) \in Nat /\ from \in Int /\ from <= Len(lines) /\ 1 <= from
        /\ Len(lines) - from + 1 = maxOutputLines
    BY <1>2, <1>3, <1>5, Bounds
  <2> HIDE DEF from
  <2>2. \A i \in from .. Len(lines) : lines[i] \in LinesOf(r)
    <3>1. \A i \in from .. Len(lines) : i \in 1 .. Len(lines)
      BY <2>1
    <3> QED
      BY <1>2, <3>1, ElementOfSeq
  <2>3. /\ SubSeq(lines, from, Len(lines)) \in Seq(LinesOf(r))
        /\ Len(SubSeq(lines, from, Len(lines))) = maxOutputLines
    BY <2>1, <2>2, SubSeqProperties
  <2> QED
    BY <1>4, <1>5, <2>3, Bounds DEF Holds
<1>6. CASE ~(Len(lines) > maxOutputLines)
  BY <1>2, <1>3, <1>4, <1>6, Bounds DEF Holds
<1> QED
  BY <1>5, <1>6

LEMMA HeldLines ==
    ASSUME NEW lines, NEW r \in Run, Holds(lines, r)
    PROVE  /\ lines \in Seq(Run \X (Line \cup {"end"})) /\ Len(lines) <= maxOutputLines
           /\ \A i \in DOMAIN lines : lines[i][1] = r
<1>1. Len(lines) \in Nat /\ DOMAIN lines = 1 .. Len(lines) /\ lines \in [1 .. Len(lines) -> LinesOf(r)]
  BY LenProperties DEF Holds
<1>2. \A i \in DOMAIN lines : lines[i] \in Run \X (Line \cup {"end"}) /\ lines[i][1] = r
  BY <1>1 DEF LinesOf
<1>3. lines \in [1 .. Len(lines) -> Run \X (Line \cup {"end"})]
  BY <1>1, <1>2
<1> QED
  BY <1>1, <1>2, <1>3 DEF Holds

LEMMA LinesHeld ==
    ASSUME SimTypeOK, KeptIsOfThisRun, run \in Run
    PROVE  Holds(outputLines, run)
<1> DEFINE S == Run \X (Line \cup {"end"})
<1>1. outputLines \in Seq(S) /\ Len(outputLines) <= maxOutputLines
  BY DEF SimTypeOK
<1>2. /\ Len(outputLines) \in Nat /\ DOMAIN outputLines = 1 .. Len(outputLines)
      /\ outputLines \in [1 .. Len(outputLines) -> S]
  BY <1>1, LenProperties
<1>3. \A i \in DOMAIN outputLines : outputLines[i] \in LinesOf(run)
  BY <1>2 DEF KeptIsOfThisRun, LinesOf
<1>4. outputLines \in [1 .. Len(outputLines) -> LinesOf(run)]
  BY <1>2, <1>3
<1> QED
  BY <1>1, <1>2, <1>4 DEF Holds

(***************************************************************************)
(* One run at a time.                                                      *)
(***************************************************************************)
\* OnlyLatestRuns, for one run.
Latest(r) ==
    /\ goroutine[r] \in {"notify", "begin", "ready", "started"} => r = run /\ status = "running"
    /\ r > run => goroutine[r] = "none"
    /\ process[r] # "none" => goroutine[r] = "started"
    /\ \A s \in Stream :
          /\ pipe[r][s] # <<>> => goroutine[r] = "started"
          /\ process[r] = "alive" => Len(pipe[r][s]) <= printed[r]

\* What a run does to itself does not concern the others, even when it ends the
\* status "running", which is the latest run's alone.
LEMMA OthersKept ==
    ASSUME OnlyLatestRuns, NEW r \in Run, run' = run, status' = status \/ r = run,
           \A q \in Run \ {r} : /\ goroutine'[q] = goroutine[q] /\ process'[q] = process[q]
                                 /\ pipe'[q] = pipe[q] /\ printed'[q] = printed[q],
           Latest(r)'
    PROVE  OnlyLatestRuns'
<1> SUFFICES ASSUME NEW q \in Run PROVE Latest(q)'
  BY DEF OnlyLatestRuns, Latest
<1>1. Latest(q)
  BY DEF OnlyLatestRuns, Latest
<1>2. CASE q = r
  BY <1>2
<1>3. CASE q # r
  BY <1>1, <1>3 DEF Latest
<1> QED
  BY <1>2, <1>3

LEMMA RunNumbers ==
    ASSUME SimTypeOK
    PROVE  run \in Nat /\ run <= MaxRuns /\ \A r \in Run : r \in Nat /\ r # NoRun
<1>1. run \in 0 .. MaxRuns
  BY DEF SimTypeOK
<1> QED
  BY <1>1, Bounds DEF Run, NoRun

LEMMA EventsCounted ==
    ASSUME SimTypeOK, NEW k \in Nat, broadcastWSMessage(k)
    PROVE  wsBroadcast' \in 0 .. QueueSize
<1>1. wsBroadcast \in 0 .. QueueSize
  BY DEF SimTypeOK
<1> QED
  BY <1>1, Bounds DEF broadcastWSMessage

LEMMA StartKeeps ==
    ASSUME SimInvariant, Start
    PROVE  SimInvariant'
<1>t. SimTypeOK /\ OnlyLatestRuns /\ goroutine \in [Run -> Stage]
  BY DEF SimInvariant, SimTypeOK
<1>1. /\ status # "running" /\ run < MaxRuns /\ status' = "running" /\ run' = run + 1
      /\ progress' = run + 1 /\ results' = NoRun /\ outputLines' = <<>>
      /\ goroutine' = [goroutine EXCEPT ![run + 1] = "notify"]
      /\ UNCHANGED <<process, printed, pipe, cancelFunc, cancelled, recentLines, wsBroadcast>>
  BY DEF Start, CanStart
<1>n. run \in Nat /\ run + 1 \in Run /\ run + 1 \in 0 .. MaxRuns /\ NoRun \in 0 .. MaxRuns
  BY <1>t, <1>1, RunNumbers, Bounds DEF Run, NoRun
<1>2. <<>> \in Seq(Run \X (Line \cup {"end"})) /\ Len(<<>>) = 0 /\ DOMAIN <<>> = {}
  <2>1. <<>> \in Seq(Run \X (Line \cup {"end"})) /\ Len(<<>>) = 0
    BY EmptySeq
  <2>2. DOMAIN <<>> = 1 .. 0
    BY <2>1, LenProperties
  <2> QED
    BY <2>1, <2>2
<1>3. goroutine' \in [Run -> Stage]
  BY <1>t, <1>1, <1>n DEF Stage
<1>4. SimTypeOK'
  BY <1>t, <1>1, <1>n, <1>2, <1>3, Bounds DEF SimTypeOK, Status
<1>5. OnlyLatestRuns'
  <2> SUFFICES ASSUME NEW q \in Run PROVE Latest(q)'
    BY DEF OnlyLatestRuns, Latest
  <2>1. Latest(q) /\ q \in Nat
    BY <1>t, RunNumbers DEF OnlyLatestRuns, Latest
  <2>2. CASE q = run + 1
    <3>1. goroutine[q] = "none" /\ goroutine'[q] = "notify"
      BY <1>t, <1>1, <1>n, <2>1, <2>2 DEF Latest
    <3> QED
      BY <1>1, <1>n, <2>1, <2>2, <3>1 DEF Latest
  <2>3. CASE q # run + 1
    <3>1. goroutine'[q] = goroutine[q]
      BY <1>t, <1>1, <2>3
    <3>2. goroutine[q] \notin {"notify", "begin", "ready", "started"}
      BY <1>1, <2>1 DEF Latest
    <3>3. q > run + 1 => q > run
      BY <1>n, <2>1
    <3> QED
      BY <1>1, <2>1, <3>1, <3>2, <3>3 DEF Latest
  <2> QED
    BY <2>2, <2>3
<1>6. KeptIsOfThisRun'
  BY <1>1, <1>2 DEF KeptIsOfThisRun
<1> QED
  BY <1>4, <1>5, <1>6 DEF SimInvariant

\* What holds of a run, and of the variables that its steps change.
LEMMA RunFacts ==
    ASSUME SimInvariant, NEW r \in Run
    PROVE  /\ SimTypeOK /\ OnlyLatestRuns /\ KeptIsOfThisRun /\ Latest(r)
           /\ goroutine \in [Run -> Stage]
           /\ process \in [Run -> {"none", "alive", "succeeded", "failed"}]
           /\ printed \in [Run -> 0 .. MaxLines] /\ pipe \in [Run -> [Stream -> Seq(Line)]]
           /\ \A s \in Stream : /\ pipe[r][s] \in Seq(Line) /\ Len(pipe[r][s]) \in Nat
                                 /\ Len(pipe[r][s]) <= MaxLines
           /\ printed[r] \in Nat /\ printed[r] <= MaxLines
<1>1. /\ SimTypeOK /\ OnlyLatestRuns /\ KeptIsOfThisRun /\ Latest(r)
  BY DEF SimInvariant, OnlyLatestRuns, Latest
<1>2. /\ goroutine \in [Run -> Stage]
      /\ process \in [Run -> {"none", "alive", "succeeded", "failed"}]
      /\ printed \in [Run -> 0 .. MaxLines] /\ pipe \in [Run -> [Stream -> Seq(Line)]]
      /\ \A s \in Stream : Len(pipe[r][s]) <= MaxLines
  BY <1>1 DEF SimTypeOK
<1>3. \A s \in Stream : pipe[r][s] \in Seq(Line)
  BY <1>2
<1>4. \A s \in Stream : Len(pipe[r][s]) \in Nat
  BY <1>3, LenProperties
<1>5. printed[r] \in 0 .. MaxLines
  BY <1>2
<1>6. printed[r] \in Nat /\ printed[r] <= MaxLines
  BY <1>5, Bounds
<1> QED
  BY <1>1, <1>2, <1>3, <1>4, <1>6

\* The goroutine of a run, up to the start of its process and after its final status.
LEMMA StageKeeps ==
    ASSUME SimInvariant, NEW r \in Run,
           NotifyRunning(r) \/ SetCancelFunc(r) \/ StartProcess(r) \/ NotifyFinal(r)
    PROVE  SimInvariant'
<1>r. /\ SimTypeOK /\ OnlyLatestRuns /\ KeptIsOfThisRun /\ Latest(r)
      /\ goroutine \in [Run -> Stage]
      /\ process \in [Run -> {"none", "alive", "succeeded", "failed"}]
      /\ \A s \in Stream : pipe[r][s] \in Seq(Line)
  BY RunFacts
<1>n. r \in 0 .. MaxRuns /\ printed[r] \in Nat /\ Len(<<>>) = 0
  BY RunFacts DEF Run
<1>1. PICK stage \in {"begin", "ready", "started", "ended"} :
         /\ goroutine' = [goroutine EXCEPT ![r] = stage]
         /\ stage = "started" <=> process' = [process EXCEPT ![r] = "alive"] /\ goroutine[r] = "ready"
         /\ stage # "started" => process' = process
         /\ stage # "ended" => goroutine[r] \in {"notify", "begin", "ready"}
         /\ stage = "ended" => goroutine[r] \in {"complete", "idle", "error"}
  <2>1. CASE NotifyRunning(r)
    BY <2>1 DEF NotifyRunning
  <2>2. CASE SetCancelFunc(r)
    BY <2>2 DEF SetCancelFunc
  <2>3. CASE StartProcess(r)
    BY <2>3 DEF StartProcess
  <2>4. CASE NotifyFinal(r)
    BY <2>4 DEF NotifyFinal
  <2> QED
    BY <2>1, <2>2, <2>3, <2>4
<1>2. /\ UNCHANGED <<status, run, printed, pipe, outputLines, progress, results, recentLines>>
      /\ cancelFunc' \in {cancelFunc, r} /\ cancelled' \subseteq cancelled
  BY DEF NotifyRunning, SetCancelFunc, StartProcess, NotifyFinal, keptVars
<1>3. wsBroadcast' \in 0 .. QueueSize
  <2>1. wsBroadcast' = wsBroadcast \/ broadcastWSMessage(1)
    BY DEF NotifyRunning, SetCancelFunc, StartProcess, NotifyFinal
  <2> QED
    BY <1>r, <2>1, EventsCounted DEF SimTypeOK
<1>4. /\ goroutine' \in [Run -> Stage]
      /\ process' \in [Run -> {"none", "alive", "succeeded", "failed"}]
  BY <1>r, <1>1 DEF Stage
<1>5. SimTypeOK'
  BY <1>r, <1>n, <1>2, <1>3, <1>4 DEF SimTypeOK
<1>6. Latest(r)'
  <2>1. goroutine'[r] = stage /\ goroutine[r] \notin {"none", "started"}
    BY <1>r, <1>1
  <2>2. process[r] = "none" /\ \A s \in Stream : pipe[r][s] = <<>>
    BY <1>r, <2>1 DEF Latest
  <2>3. \A s \in Stream : pipe'[r][s] = <<>> /\ Len(pipe'[r][s]) <= printed'[r]
    BY <1>n, <1>2, <2>2
  <2>4. process'[r] # "none" => stage = "started"
    BY <1>r, <1>1, <2>2
  <2>5. stage # "ended" => r = run /\ status = "running"
    BY <1>r, <1>1 DEF Latest
  <2>6. ~(r > run)
    BY <1>r, <2>1 DEF Latest
  <2> QED
    BY <1>2, <2>1, <2>3, <2>4, <2>5, <2>6 DEF Latest
<1>7. \A q \in Run \ {r} : /\ goroutine'[q] = goroutine[q] /\ process'[q] = process[q]
                            /\ pipe'[q] = pipe[q] /\ printed'[q] = printed[q]
  BY <1>r, <1>1, <1>2
<1>8. OnlyLatestRuns'
  BY <1>r, <1>2, <1>6, <1>7, OthersKept
<1>9. KeptIsOfThisRun'
  BY <1>r, <1>2 DEF KeptIsOfThisRun
<1> QED
  BY <1>5, <1>8, <1>9 DEF SimInvariant

\* The final status: the process could not be started, or it and its output have ended.
LEMMA FinalKeeps ==
    ASSUME SimInvariant, NEW r \in Run, StartFails(r) \/ Finish(r)
    PROVE  SimInvariant'
<1>r. /\ SimTypeOK /\ OnlyLatestRuns /\ KeptIsOfThisRun /\ Latest(r)
      /\ goroutine \in [Run -> Stage]
      /\ process \in [Run -> {"none", "alive", "succeeded", "failed"}]
  BY RunFacts
<1>1. PICK final \in {"complete", "idle", "error"} :
         /\ goroutine' = [goroutine EXCEPT ![r] = final] /\ status' = final
  BY DEF StartFails, Finish, FinalStatus
<1>2. /\ UNCHANGED <<run, printed, pipe, cancelFunc, cancelled, progress, results, recentLines>>
      /\ wsBroadcast' = wsBroadcast /\ outputLines' = addOutput(r, "end")
      /\ goroutine[r] \in {"ready", "started"}
  BY DEF StartFails, Finish
<1>3. r = run /\ status = "running"
  BY <1>r, <1>2 DEF Latest
<1>4. \A s \in Stream : pipe'[r][s] = <<>>
  BY <1>r, <1>2 DEF StartFails, Finish, StreamsClosed, Latest
<1>5. /\ process' \in [Run -> {"none", "alive", "succeeded", "failed"}] /\ process'[r] = "none"
      /\ \A q \in Run \ {r} : process'[q] = process[q]
  BY <1>r DEF StartFails, Finish, Latest
<1>6. Holds(outputLines', r)
  BY <1>r, <1>2, <1>3, LinesHeld, OutputAdded
<1>7. /\ outputLines' \in Seq(Run \X (Line \cup {"end"})) /\ Len(outputLines') <= maxOutputLines
      /\ \A i \in DOMAIN outputLines' : outputLines'[i][1] = r
  BY <1>6, HeldLines
<1>8. goroutine' \in [Run -> Stage] /\ status' \in Status
  BY <1>r, <1>1 DEF Stage, Status
<1>9. SimTypeOK'
  BY <1>r, <1>2, <1>5, <1>7, <1>8 DEF SimTypeOK
<1>10. Latest(r)'
  <2>1. goroutine'[r] \in {"complete", "idle", "error"} /\ ~(r > run)
    BY <1>r, <1>1, <1>2 DEF Latest
  <2> QED
    BY <1>2, <1>4, <1>5, <2>1 DEF Latest
<1>11. OnlyLatestRuns'
  BY <1>r, <1>1, <1>2, <1>3, <1>5, <1>10, OthersKept
<1>12. KeptIsOfThisRun'
  BY <1>r, <1>2, <1>3, <1>7 DEF KeptIsOfThisRun
<1> QED
  BY <1>9, <1>11, <1>12 DEF SimInvariant

\* The child process prints a line or ends.
LEMMA ProcessKeeps ==
    ASSUME SimInvariant, NEW r \in Run,
           ProcessExits(r) \/ \E s \in Stream, line \in Line : PrintLine(r, s, line)
    PROVE  SimInvariant'
<1>r. /\ SimTypeOK /\ OnlyLatestRuns /\ KeptIsOfThisRun /\ Latest(r)
      /\ process \in [Run -> {"none", "alive", "succeeded", "failed"}]
      /\ printed \in [Run -> 0 .. MaxLines] /\ pipe \in [Run -> [Stream -> Seq(Line)]]
      /\ \A s \in Stream : /\ pipe[r][s] \in Seq(Line) /\ Len(pipe[r][s]) \in Nat
                            /\ Len(pipe[r][s]) <= MaxLines
      /\ printed[r] \in Nat /\ printed[r] <= MaxLines
  BY RunFacts
<1>1. /\ process[r] = "alive"
      /\ UNCHANGED <<status, run, goroutine, cancelFunc, cancelled, outputLines, progress, results>>
      /\ UNCHANGED <<recentLines, wsBroadcast>>
  BY DEF ProcessExits, PrintLine, keptVars
<1>2. goroutine[r] = "started" /\ r = run /\ status = "running"
  BY <1>r, <1>1 DEF Latest
<1>3. KeptIsOfThisRun'
  BY <1>r, <1>1 DEF KeptIsOfThisRun
<1>4. CASE ProcessExits(r)
  <2>1. PICK outcome \in {"succeeded", "failed"} : process' = [process EXCEPT ![r] = outcome]
    BY <1>4 DEF ProcessExits
  <2>2. printed' = [printed EXCEPT ![r] = 0] /\ pipe' = pipe
    BY <1>4 DEF ProcessExits
  <2>3. 0 \in 0 .. MaxLines
    BY Bounds
  <2>4. /\ process' \in [Run -> {"none", "alive", "succeeded", "failed"}]
        /\ printed' \in [Run -> 0 .. MaxLines]
    BY <1>r, <2>1, <2>2, <2>3
  <2>5. SimTypeOK'
    BY <1>r, <1>1, <2>2, <2>4 DEF SimTypeOK
  <2>6. process'[r] = outcome
    BY <1>r, <2>1
  <2>7. Latest(r)'
    BY <1>r, <1>1, <1>2, <2>2, <2>6 DEF Latest
  <2>8. \A q \in Run \ {r} : process'[q] = process[q] /\ printed'[q] = printed[q]
    BY <1>r, <2>1, <2>2
  <2>9. OnlyLatestRuns'
    BY <1>r, <1>1, <2>2, <2>7, <2>8, OthersKept
  <2> QED
    BY <1>3, <2>5, <2>9 DEF SimInvariant
<1>5. ASSUME NEW s \in Stream, NEW line \in Line, PrintLine(r, s, line)
      PROVE  SimInvariant'
  <2> DEFINE lines == Append(pipe[r][s], line)
  <2>1. /\ printed[r] < MaxLines /\ printed' = [printed EXCEPT ![r] = printed[r] + 1]
        /\ pipe' = [pipe EXCEPT ![r] = [pipe[r] EXCEPT ![s] = lines]] /\ process' = process
    BY <1>5 DEF PrintLine
  <2>2. lines \in Seq(Line) /\ Len(lines) = Len(pipe[r][s]) + 1
    BY <1>r, AppendProperties
  <2>3. Len(pipe[r][s]) <= printed[r]
    BY <1>r, <1>1 DEF Latest
  <2> HIDE DEF lines
  <2>4. printed[r] + 1 \in 0 .. MaxLines /\ Len(lines) <= printed[r] + 1 /\ Len(lines) <= MaxLines
    BY <1>r, <2>1, <2>2, <2>3, Bounds
  <2>5. /\ pipe' \in [Run -> [Stream -> Seq(Line)]] /\ printed' \in [Run -> 0 .. MaxLines]
        /\ printed'[r] = printed[r] + 1 /\ pipe'[r][s] = lines
        /\ \A u \in Stream : u # s => pipe'[r][u] = pipe[r][u]
        /\ \A q \in Run \ {r} : pipe'[q] = pipe[q] /\ printed'[q] = printed[q]
    BY <1>r, <2>1, <2>2, <2>4
  <2>6. \A q \in Run, u \in Stream : Len(pipe'[q][u]) <= MaxLines
    BY <1>r, <2>4, <2>5 DEF SimTypeOK
  <2>7. SimTypeOK'
    BY <1>r, <1>1, <2>1, <2>5, <2>6 DEF SimTypeOK
  <2>8. \A u \in Stream : Len(pipe'[r][u]) <= printed'[r]
    <3> SUFFICES ASSUME NEW u \in Stream PROVE Len(pipe'[r][u]) <= printed'[r]
      OBVIOUS
    <3>1. CASE u = s
      BY <2>4, <2>5, <3>1
    <3>2. CASE u # s
      <4>1. Len(pipe[r][u]) <= printed[r] /\ Len(pipe[r][u]) \in Nat
        BY <1>r, <1>1 DEF Latest
      <4> QED
        BY <1>r, <2>5, <3>2, <4>1
    <3> QED
      BY <3>1, <3>2
  <2>9. Latest(r)'
    BY <1>r, <1>1, <1>2, <2>1, <2>8 DEF Latest
  <2>10. OnlyLatestRuns'
    BY <1>r, <1>1, <2>1, <2>5, <2>9, OthersKept
  <2> QED
    BY <1>3, <2>7, <2>10 DEF SimInvariant
<1> QED
  BY <1>4, <1>5

\* A scanner takes a line: only the latest run has any.
LEMMA ScanKeeps ==
    ASSUME SimInvariant, NEW r \in Run, NEW s \in Stream, ScanLine(r, s)
    PROVE  SimInvariant'
<1>r. /\ SimTypeOK /\ OnlyLatestRuns /\ KeptIsOfThisRun /\ Latest(r)
      /\ pipe \in [Run -> [Stream -> Seq(Line)]]
      /\ \A u \in Stream : /\ pipe[r][u] \in Seq(Line) /\ Len(pipe[r][u]) \in Nat
                            /\ Len(pipe[r][u]) <= MaxLines
      /\ printed[r] \in Nat
  BY RunFacts
<1> DEFINE rest == Tail(pipe[r][s])
           line == Head(pipe[r][s])
<1>1. /\ pipe[r][s] # <<>> /\ pipe' = [pipe EXCEPT ![r] = [pipe[r] EXCEPT ![s] = rest]]
      /\ UNCHANGED <<status, run, goroutine, process, printed, cancelFunc, cancelled>>
  BY DEF ScanLine
<1>2. goroutine[r] = "started" /\ r = run
  BY <1>r, <1>1 DEF Latest
<1>3. line \in Line /\ rest \in Seq(Line) /\ Len(rest) = Len(pipe[r][s]) - 1
  BY <1>r, <1>1, HeadTailProperties
<1>4. \/ UNCHANGED <<outputLines, progress, results, recentLines, wsBroadcast>>
      \/ /\ recentLines' = recentLines \cup {line} /\ outputLines' = addOutput(r, line)
         /\ progress' \in {r, progress} /\ results' = r
         /\ broadcastWSMessage(1) \/ broadcastWSMessage(2)
  BY DEF ScanLine, keptVars
<1> HIDE DEF rest, line
<1>5. Len(rest) <= Len(pipe[r][s]) /\ Len(rest) <= MaxLines /\ Len(rest) \in Nat
  <2>1. Len(rest) \in Nat
    BY <1>3, LenProperties
  <2> QED
    BY <1>r, <1>3, <2>1, Bounds
<1>6. /\ pipe' \in [Run -> [Stream -> Seq(Line)]] /\ pipe'[r][s] = rest
      /\ \A u \in Stream : u # s => pipe'[r][u] = pipe[r][u]
      /\ \A q \in Run \ {r} : pipe'[q] = pipe[q]
  BY <1>r, <1>1, <1>3
<1>7. \A q \in Run, u \in Stream : Len(pipe'[q][u]) <= MaxLines
  BY <1>r, <1>5, <1>6 DEF SimTypeOK
<1>8. Holds(outputLines', r)
  BY <1>r, <1>2, <1>3, <1>4, LinesHeld, OutputAdded
<1>9. /\ outputLines' \in Seq(Run \X (Line \cup {"end"})) /\ Len(outputLines') <= maxOutputLines
      /\ \A i \in DOMAIN outputLines' : outputLines'[i][1] = r
  BY <1>8, HeldLines
<1>10. wsBroadcast' \in 0 .. QueueSize
  BY <1>r, <1>4, EventsCounted DEF SimTypeOK
<1>11. recentLines' \subseteq Line /\ {progress', results'} \subseteq {run, NoRun}
  BY <1>r, <1>2, <1>3, <1>4 DEF SimTypeOK, KeptIsOfThisRun
<1>12. progress' \in 0 .. MaxRuns /\ results' \in 0 .. MaxRuns
  BY <1>r, <1>11, Bounds DEF SimTypeOK, NoRun
<1>13. SimTypeOK'
  BY <1>r, <1>1, <1>6, <1>7, <1>9, <1>10, <1>11, <1>12 DEF SimTypeOK
<1>14. Latest(r)'
  <2>1. ASSUME NEW u \in Stream, process[r] = "alive" PROVE Len(pipe'[r][u]) <= printed[r]
    <3>1. Len(pipe[r][u]) <= printed[r] /\ Len(pipe[r][s]) <= printed[r]
      BY <1>r, <2>1 DEF Latest
    <3>2. CASE u = s
      BY <1>r, <1>5, <1>6, <3>1, <3>2
    <3>3. CASE u # s
      BY <1>6, <3>1, <3>3
    <3> QED
      BY <3>2, <3>3
  <2> QED
    BY <1>r, <1>1, <1>2, <2>1 DEF Latest
<1>15. OnlyLatestRuns'
  BY <1>r, <1>1, <1>6, <1>14, OthersKept
<1>16. KeptIsOfThisRun'
  BY <1>1, <1>2, <1>9, <1>11 DEF KeptIsOfThisRun
<1> QED
  BY <1>13, <1>15, <1>16 DEF SimInvariant

\* Nothing but the deduplication window, the cancelled runs or the channel changes.
LEMMA QuietKeeps ==
    ASSUME SimInvariant, UNCHANGED <<status, run, goroutine, process, printed, pipe, cancelFunc>>,
           UNCHANGED <<outputLines, progress, results>>, recentLines' \subseteq Line,
           cancelled' \subseteq Run, wsBroadcast' \in 0 .. QueueSize
    PROVE  SimInvariant'
<1>1. SimTypeOK'
  BY DEF SimInvariant, SimTypeOK
<1>2. OnlyLatestRuns'
  BY DEF SimInvariant, OnlyLatestRuns
<1>3. KeptIsOfThisRun'
  BY DEF SimInvariant, KeptIsOfThisRun
<1> QED
  BY <1>1, <1>2, <1>3 DEF SimInvariant

LEMMA StopKeeps ==
    ASSUME SimInvariant, Stop
    PROVE  SimInvariant'
<1>1. /\ UNCHANGED <<status, run, goroutine, process, printed, pipe, cancelFunc>>
      /\ UNCHANGED <<outputLines, progress, results, recentLines, wsBroadcast>>
  BY DEF Stop, keptVars
<1>2. cancelled \subseteq Run /\ recentLines \subseteq Line /\ wsBroadcast \in 0 .. QueueSize
  BY DEF SimInvariant, SimTypeOK
<1>3. cancelled' \subseteq Run
  BY <1>2 DEF Stop, Cancel
<1> QED
  BY <1>1, <1>2, <1>3, QuietKeeps

LEMMA SimUnchanged ==
    ASSUME SimInvariant, UNCHANGED simVars
    PROVE  SimInvariant'
<1>1. /\ UNCHANGED <<status, run, goroutine, process, printed, pipe, cancelFunc, cancelled>>
      /\ UNCHANGED <<outputLines, progress, results, recentLines, wsBroadcast>>
  BY DEF simVars, keptVars
<1>2. cancelled \subseteq Run /\ recentLines \subseteq Line /\ wsBroadcast \in 0 .. QueueSize
  BY DEF SimInvariant, SimTypeOK
<1> QED
  BY <1>1, <1>2, QuietKeeps

\* Every step of the simulator controller, its processes and its scanners.
LEMMA SimKeeps ==
    ASSUME SimInvariant, SimNext
    PROVE  SimInvariant'
<1>1. ASSUME NEW line \in Line, WindowPasses(line) PROVE SimInvariant'
  <2>1. /\ UNCHANGED <<status, run, goroutine, process, printed, pipe, cancelFunc, cancelled>>
        /\ UNCHANGED <<outputLines, progress, results, wsBroadcast>>
        /\ recentLines' \subseteq recentLines
    BY <1>1 DEF WindowPasses, keptVars
  <2>2. cancelled \subseteq Run /\ recentLines \subseteq Line /\ wsBroadcast \in 0 .. QueueSize
    BY DEF SimInvariant, SimTypeOK
  <2> QED
    BY <2>1, <2>2, QuietKeeps
<1> QED
  BY <1>1, StartKeeps, StopKeeps, StageKeeps, FinalKeeps, ProcessKeeps, ScanKeeps
  DEF SimNext, GoroutineStep

LEMMA SimInitKeeps == SimInit => SimInvariant
<1> SUFFICES ASSUME SimInit PROVE SimInvariant
  OBVIOUS
<1>1. <<>> \in Seq(Run \X (Line \cup {"end"})) /\ <<>> \in Seq(Line) /\ Len(<<>>) = 0 /\ DOMAIN <<>> = {}
  <2>1. <<>> \in Seq(Run \X (Line \cup {"end"})) /\ <<>> \in Seq(Line) /\ Len(<<>>) = 0
    BY EmptySeq
  <2>2. DOMAIN <<>> = 1 .. 0
    BY <2>1, LenProperties
  <2> QED
    BY <2>1, <2>2
<1>2. /\ pipe \in [Run -> [Stream -> Seq(Line)]]
      /\ \A r \in Run, s \in Stream : pipe[r][s] = <<>>
  BY <1>1 DEF SimInit
<1>3. /\ NoRun \in 0 .. MaxRuns /\ 0 \in 0 .. MaxLines /\ 0 \in 0 .. QueueSize
      /\ 0 <= MaxLines /\ 0 <= maxOutputLines
  BY Bounds DEF NoRun
<1>4. SimTypeOK
  BY <1>1, <1>2, <1>3 DEF SimInit, SimTypeOK, Status, Stage
<1>5. OnlyLatestRuns
  BY <1>2 DEF SimInit, OnlyLatestRuns
<1>6. KeptIsOfThisRun
  BY <1>1 DEF SimInit, KeptIsOfThisRun
<1> QED
  BY <1>4, <1>5, <1>6 DEF SimInvariant

(***************************************************************************)
(* The dashboards.                                                         *)
(***************************************************************************)
HubTypeOK ==
    /\ wsClients \subseteq Conn
    /\ open \subseteq Conn
    /\ handler \in [Conn -> {"none", "registered", "greeting", "reading", "answering", "ended"}]
    /\ writing \in [Conn -> SUBSET {"pump", "handler"}]
    /\ pump \in [state : {"idle", "writing", "ended"}, todo : SUBSET Conn, dead : SUBSET Conn]
    /\ stopped \in BOOLEAN
    /\ pings \in 0 .. MaxPings

DashboardInv == SimInvariant /\ HubTypeOK

LEMMA PumpKeeps ==
    ASSUME DashboardInv, PumpStep
    PROVE  DashboardInv'
<1>s. SimInvariant /\ HubTypeOK /\ wsBroadcast \in 0 .. QueueSize /\ cancelled \subseteq Run
      /\ recentLines \subseteq Line
  BY DEF DashboardInv, SimInvariant, SimTypeOK
<1>1. CASE PumpTakes
  <2>1. /\ UNCHANGED <<status, run, goroutine, process, printed, pipe, cancelFunc, cancelled>>
        /\ UNCHANGED <<outputLines, progress, results, recentLines>>
        /\ wsBroadcast > 0 /\ wsBroadcast' = wsBroadcast - 1
    BY <1>1 DEF PumpTakes, keptVars
  <2>2. wsBroadcast' \in 0 .. QueueSize
    BY <1>s, <2>1, Bounds
  <2>3. SimInvariant'
    BY <1>s, <2>1, <2>2, QuietKeeps
  <2>4. HubTypeOK'
    BY <1>1, <1>s DEF PumpTakes, HubTypeOK
  <2> QED
    BY <2>3, <2>4 DEF DashboardInv
<1>2. CASE PumpEndsRound \/ PumpReturns
  <2>1. SimInvariant'
    BY <1>2, <1>s, SimUnchanged DEF PumpEndsRound, PumpReturns
  <2>2. HubTypeOK'
    BY <1>2, <1>s DEF PumpEndsRound, PumpReturns, HubTypeOK, IdlePump
  <2> QED
    BY <2>1, <2>2 DEF DashboardInv
<1>3. ASSUME NEW c \in Conn, PumpBegins(c) \/ PumpWrote(c) PROVE DashboardInv'
  <2>1. SimInvariant'
    BY <1>3, <1>s, SimUnchanged DEF PumpBegins, PumpWrote
  <2>2. HubTypeOK'
    <3>1. CASE PumpBegins(c)
      BY <1>s, <3>1 DEF PumpBegins, HubTypeOK
    <3>2. CASE PumpWrote(c)
      <4>1. PICK failed \in BOOLEAN :
               pump' = [pump EXCEPT !.todo = @ \ {c}, !.dead = IF failed THEN @ \cup {c} ELSE @]
        BY <3>2 DEF PumpWrote
      <4> QED
        BY <1>s, <3>2, <4>1 DEF PumpWrote, HubTypeOK
    <3> QED
      BY <1>3, <3>1, <3>2
  <2> QED
    BY <2>1, <2>2 DEF DashboardInv
<1> QED
  BY <1>1, <1>2, <1>3 DEF PumpStep

LEMMA HandlerKeeps ==
    ASSUME DashboardInv, NEW c \in Conn, HandlerStep(c) \/ Disconnect(c)
    PROVE  DashboardInv'
<1>1. SimInvariant'
  BY SimUnchanged DEF DashboardInv, HandlerStep, handleWebSocket, Greet, Pong, HandlerWrote, ReaderEnds,
                      Disconnect
<1>2. HubTypeOK
  BY DEF DashboardInv
<1>3. HubTypeOK'
  <2>1. CASE handleWebSocket(c) \/ Greet(c) \/ ReaderEnds(c) \/ Disconnect(c)
    BY <1>2, <2>1 DEF HubTypeOK, handleWebSocket, Greet, ReaderEnds, Disconnect
  <2>2. CASE Pong(c)
    <3>1. pings' \in 0 .. MaxPings
      BY <1>2, <2>2, Bounds DEF Pong, HubTypeOK
    <3> QED
      BY <1>2, <2>2, <3>1 DEF HubTypeOK, Pong
  <2>3. CASE HandlerWrote(c)
    BY <1>2, <2>3 DEF HubTypeOK, HandlerWrote
  <2> QED
    BY <2>1, <2>2, <2>3 DEF HandlerStep
<1> QED
  BY <1>1, <1>3 DEF DashboardInv

LEMMA NextKeeps == DashboardInv /\ [Next]_vars => DashboardInv'
<1> SUFFICES ASSUME DashboardInv, [Next]_vars PROVE DashboardInv'
  OBVIOUS
<1>i. SimInvariant /\ HubTypeOK
  BY DEF DashboardInv
<1>1. CASE UNCHANGED vars
  <2>1. SimInvariant'
    BY <1>1, <1>i, SimUnchanged DEF vars
  <2>2. HubTypeOK'
    BY <1>1, <1>i DEF vars, hubVars, HubTypeOK
  <2> QED
    BY <2>1, <2>2 DEF DashboardInv
<1>2. CASE SimNext /\ UNCHANGED hubVars
  <2>1. SimInvariant'
    BY <1>2, <1>i, SimKeeps
  <2>2. HubTypeOK'
    BY <1>2, <1>i DEF hubVars, HubTypeOK
  <2> QED
    BY <2>1, <2>2 DEF DashboardInv
<1>3. CASE StopServer
  <2>1. SimInvariant'
    BY <1>3, <1>i, StopKeeps, SimUnchanged DEF StopServer
  <2>2. HubTypeOK'
    BY <1>3, <1>i DEF StopServer, HubTypeOK
  <2> QED
    BY <2>1, <2>2 DEF DashboardInv
<1> QED
  BY <1>1, <1>2, <1>3, PumpKeeps, HandlerKeeps DEF Next

(***************************************************************************)
(* The theorems.                                                           *)
(***************************************************************************)
\* Only the latest run of the simulator has a process, unread output or a goroutine
\* before its final status, and what is kept is of that run.
THEOREM RunsAreSeparate == Spec => []DashboardInv
<1>1. Init => DashboardInv
  <2> SUFFICES ASSUME Init PROVE DashboardInv
    OBVIOUS
  <2>1. SimInvariant
    BY SimInitKeeps DEF Init
  <2>2. HubTypeOK
    <3>1. pings \in 0 .. MaxPings
      BY Bounds DEF Init
    <3>2. /\ wsClients \subseteq Conn /\ open \subseteq Conn /\ stopped \in BOOLEAN
          /\ handler \in [Conn -> {"none", "registered", "greeting", "reading", "answering", "ended"}]
      BY Zenon DEF Init
    <3>3. /\ writing \in [Conn -> SUBSET {"pump", "handler"}]
          /\ pump \in [state : {"idle", "writing", "ended"}, todo : SUBSET Conn, dead : SUBSET Conn]
      BY DEF Init, IdlePump
    <3> QED
      BY Zenon, <3>1, <3>2, <3>3 DEF HubTypeOK
  <2> QED
    BY <2>1, <2>2 DEF DashboardInv
<1> QED
  BY <1>1, NextKeeps, PTL DEF Spec

\* Every variable keeps its type: in particular the channel wsBroadcast and the buffer
\* of output lines keep to their limits.
THEOREM TypeCorrect == Spec => []TypeOK
<1>1. DashboardInv => TypeOK
  BY DEF DashboardInv, HubTypeOK, SimInvariant, TypeOK
<1> QED
  BY <1>1, RunsAreSeparate, PTL

\* Two simulator processes never live at a time.
THEOREM OneProcessAtATime == Spec => []OneSimulator
<1>1. DashboardInv => OneSimulator
  <2> SUFFICES ASSUME DashboardInv PROVE OneSimulator
    OBVIOUS
  <2> DEFINE alive == {r \in Run : process[r] = "alive"}
  <2>1. alive \in SUBSET {run}
    BY DEF DashboardInv, SimInvariant, OnlyLatestRuns
  <2> HIDE DEF alive
  <2>2. Cardinality(alive) <= Cardinality({run}) /\ Cardinality({run}) = 1
    BY <2>1, FS_Singleton, FS_Subset
  <2> QED
    BY <2>2 DEF OneSimulator, alive
<1> QED
  BY <1>1, RunsAreSeparate, PTL

\* Output, progress and results that the dashboards are shown are the latest run's.
THEOREM OutputIsOfThisRun == Spec => []KeptIsOfThisRun
<1>1. DashboardInv => KeptIsOfThisRun
  BY DEF DashboardInv, SimInvariant
<1> QED
  BY <1>1, RunsAreSeparate, PTL
=============================================================================
