----------------------------- MODULE RunManager -----------------------------
(***************************************************************************)
(* The run manager of the studio server (gui/server/src/runs): it queues a *)
(* solver run behind the GPU, spawns it, reads the lines it prints, and    *)
(* tells everyone watching when it is over.                                *)
(*                                                                         *)
(* The server is one Node.js event loop.  One action below is one          *)
(* uninterrupted stretch of that loop, from the event that wakes a handler *)
(* to its next await: the two awaits of the start path (the provenance of  *)
(* the run, then the opening of its files) are what other events slip      *)
(* into.  The child processes run on their own and are the environment.    *)
(***************************************************************************)
EXTENDS Naturals, Sequences, FiniteSets

CONSTANTS
    Runs,           \* run ids
    GpuRuns,        \* the runs whose binary needs the GPU
    MaxConcurrent,  \* Math.max(1, config.maxConcurrentRuns)
    Lines,          \* the lines a driver may print that the parser reacts to
    EndWords,       \* the "run ended:" words a driver may print
    ExitKinds,      \* how a driver may end: by an exit code or by a signal
    Failures,       \* what may fail around a driver
    Unsavable,      \* the runs whose run.json may fail to be written
    WaitConds,      \* the status sets a wait() may be given
    WithShutdown    \* whether the server may be asked to shut down

ASSUME RunsAssumption ==
    /\ GpuRuns \subseteq Runs
    /\ MaxConcurrent \in Nat \ {0}
    /\ EndWords \subseteq {"budget", "error", "refused", "diverged"}
    /\ Lines \subseteq {"nan", "error"}
    /\ ExitKinds \subseteq {"zero", "nonzero", "signal"}
    /\ Failures \subseteq {"open", "spawn", "child", "sink"}
    /\ Unsavable \subseteq Runs
    /\ WithShutdown \in BOOLEAN

VARIABLES
    status,      \* info.status; "absent" before the run is in the runs map
    outcome,     \* the status stamped with info.endedAt; "none" before it
    exits,       \* how many exit events were emitted for the run
    endWord,     \* info.endWord, "none" when no such line was printed
    errored,     \* info.error # null
    queue,       \* the waiting line of run ids
    collecting,  \* start() calls inside await collectRunProvenance
    launching,   \* launch() calls inside await openRun
    sink,        \* the run's files: "null", "open" or "broken"
    saved,       \* the status in the run.json on disk; "torn" when it is not readable
    unsaved,     \* history: the runs whose last saveInfo wrote nothing, or not all
    proc,        \* the child process; how it ended, while its close is pending
    sig,         \* the signal the manager sent to the process group
    timers,      \* the escalation of stop(): "off", "hard" (4 s), "guard" (8 s)
    waits,       \* the pending wait() calls of each run
    gpuBusy,     \* the GPU slot
    closing,     \* shutdown() was called
    awaited,     \* the runs shutdown() awaits
    closed       \* shutdown() has returned; the handlers are cleared

infoVars == <<status, outcome, exits, saved, unsaved>>
lineVars == <<endWord, errored>>
queueVars == <<queue, launching, gpuBusy>>
procVars == <<proc, sig>>
stopVars == <<timers, waits>>
downVars == <<closing, awaited, closed>>
vars == <<infoVars, lineVars, queueVars, procVars, stopVars, downVars,
          collecting, sink>>

Exited == {"zero", "nonzero", "signal"}
Terminal == {"done", "failed", "killed", "diverged"}
Ended(r) == outcome[r] # "none"
HasProcess(r) == proc[r] # "none"

TypeOK ==
    /\ status \in [Runs -> {"absent", "queued", "running"} \cup Terminal]
    /\ outcome \in [Runs -> {"none"} \cup Terminal]
    /\ exits \in [Runs -> Nat]
    /\ endWord \in [Runs -> {"none"} \cup EndWords]
    /\ errored \in [Runs -> BOOLEAN]
    /\ queue \in Seq(Runs)
    /\ collecting \in SUBSET Runs
    /\ launching \in SUBSET Runs
    /\ sink \in [Runs -> {"null", "open", "broken"}]
    /\ saved \in [Runs -> {"none", "running", "torn"} \cup Terminal]
    /\ unsaved \in SUBSET Runs
    /\ proc \in [Runs -> {"none", "unspawned", "alive", "closed"} \cup Exited]
    /\ sig \in [Runs -> {"none", "term", "kill"}]
    /\ timers \in [Runs -> {"off", "hard", "guard"}]
    /\ waits \in [Runs -> SUBSET WaitConds]
    /\ gpuBusy \in BOOLEAN
    /\ closing \in BOOLEAN
    /\ awaited \in SUBSET Runs
    /\ closed \in BOOLEAN

Init ==
    /\ status = [r \in Runs |-> "absent"]
    /\ outcome = [r \in Runs |-> "none"]
    /\ exits = [r \in Runs |-> 0]
    /\ endWord = [r \in Runs |-> "none"]
    /\ errored = [r \in Runs |-> FALSE]
    /\ queue = <<>>
    /\ collecting = {}
    /\ launching = {}
    /\ sink = [r \in Runs |-> "null"]
    /\ saved = [r \in Runs |-> "none"]
    /\ unsaved = {}
    /\ proc = [r \in Runs |-> "none"]
    /\ sig = [r \in Runs |-> "none"]
    /\ timers = [r \in Runs |-> "off"]
    /\ waits = [r \in Runs |-> {}]
    /\ gpuBusy = FALSE
    /\ closing = FALSE
    /\ awaited = {}
    /\ closed = FALSE

-----------------------------------------------------------------------------
(* The queue. *)

RunningIn(st) == {r \in Runs : st[r] = "running"}

BlockedByAnyGpuRun(r, st, busy) ==    \* mutant: the slot holds up every run
    /\ st[r] = "queued"
    /\ busy \/ Cardinality(RunningIn(st)) >= MaxConcurrent

(* What makes pump() stop at run r, given the statuses and the GPU slot. *)
Blocked(r, st, busy) ==
    /\ st[r] = "queued"
    /\ \/ r \in GpuRuns /\ busy
       \/ Cardinality(RunningIn(st)) >= MaxConcurrent

(* The line after n shifts. *)
Rest(line, n) == SubSeq(line, n + 1, Len(line))

(* pump(): drop the head while it is no longer queued, launch it while      *)
(* nothing blocks it.  launch() runs up to its first await only, so neither *)
(* the slot nor the count of running runs moves while the loop does.        *)
Pump(st, busy, line, opening) ==
    \E n \in 0..Len(line) :
        /\ IF closing
             THEN n = 0
             ELSE /\ \A i \in 1..n : ~Blocked(line[i], st, busy)
                  /\ n < Len(line) => Blocked(line[n + 1], st, busy)
        /\ queue' = Rest(line, n)
        /\ launching' =
             opening \cup {r \in Runs : st[r] = "queued" /\ \E i \in 1..n : line[i] = r}

-----------------------------------------------------------------------------
(* The end of a run. *)

WakeNobody(r, st) == waits    \* mutant: finish() and onLine() do not wake

(* The waiters of r that a status lets go. *)
Wake(r, st) == [waits EXCEPT ![r] = {c \in @ : st \notin c}]

NeverOver(r) == FALSE    \* mutant: finish() runs twice

(* A run that is over is not ended again. *)
AlreadyOver(r) == Ended(r)

(* A divergence is not overwritten by the failure that follows from it. *)
FinalStatus(r, verdict) ==
    IF status[r] = "diverged" /\ verdict = "failed" THEN "diverged" ELSE verdict

KeepsSlot(r) == FALSE    \* mutant: the slot is leaked

(* Any GPU run that ends frees the slot, the one that took it or not. *)
FreesSlot(r) == r \in GpuRuns

(* saveInfo() of some runs.  Nothing is written without the files, or after  *)
(* one of their streams has failed.  A write that fails leaves what was there *)
(* before, or a part of the new; it is logged and nothing else follows.      *)
SaveInfo(ended, files, st) ==
    LET open == {r \in ended : files[r] = "open"}
    IN  \E lost \in SUBSET (open \cap Unsavable) :
        \E torn \in SUBSET lost :
            /\ saved' = [r \in Runs |-> IF r \in torn THEN "torn"
                                        ELSE IF r \in open \ lost THEN st ELSE saved[r]]
            /\ unsaved' = (unsaved \cup ended) \ (open \ lost)

(* finish(): the end of a run. *)
Finish(r, verdict, files, opening) ==
    LET final == FinalStatus(r, verdict)
        st    == [status EXCEPT ![r] = final]
        busy  == gpuBusy /\ ~FreesSlot(r)
    IN  IF AlreadyOver(r)
          THEN /\ launching' = opening
               /\ UNCHANGED <<infoVars, timers, waits, gpuBusy, queue>>
          ELSE /\ status' = st
               /\ outcome' = [outcome EXCEPT ![r] = final]
               /\ SaveInfo({r}, files, final)
               /\ exits' = IF closed THEN exits ELSE [exits EXCEPT ![r] = @ + 1]
               /\ timers' = [timers EXCEPT ![r] = "off"]
               /\ waits' = Wake(r, final)
               /\ gpuBusy' = busy
               /\ Pump(st, busy, queue, opening)

-----------------------------------------------------------------------------
(* Starting a run. *)

(* start() up to its await: refused once the server is shutting down. *)
StartRequest(r) ==
    /\ status[r] = "absent" /\ r \notin collecting
    /\ ~closing
    /\ collecting' = collecting \cup {r}
    /\ UNCHANGED <<infoVars, lineVars, queueVars, procVars, stopVars, downVars, sink>>

(* start() after its await: the run is known, queued, and the queue moves. *)
StartQueued(r) ==
    /\ r \in collecting
    /\ collecting' = collecting \ {r}
    /\ status' = [status EXCEPT ![r] = "queued"]
    /\ Pump(status', gpuBusy, Append(queue, r), launching)
    /\ UNCHANGED <<outcome, exits, saved, unsaved, gpuBusy, lineVars, procVars,
                   stopVars, downVars, sink>>

LaunchAnyway(r) == TRUE    \* mutant: the status is not read again

(* What launch() reads again after its await: was the run cancelled? *)
StillQueued(r) == status[r] = "queued"

(* launch() after openRun, for a run cancelled meanwhile: nothing to spawn. *)
LaunchSkipped(r) ==
    /\ r \in launching
    /\ ~StillQueued(r)
    /\ launching' = launching \ {r}
    /\ sink' = [sink EXCEPT ![r] = "open"]
    /\ UNCHANGED <<infoVars, lineVars, queue, gpuBusy, procVars, stopVars,
                   downVars, collecting>>

(* launch() after openRun: the process is spawned, the GPU slot is taken.   *)
(* Node reports a spawn that failed in the kernel later, by an error event. *)
LaunchSpawned(r) ==
    /\ r \in launching
    /\ StillQueued(r)
    /\ launching' = launching \ {r}
    /\ sink' = [sink EXCEPT ![r] = "open"]
    /\ \/ proc' = [proc EXCEPT ![r] = "alive"]
       \/ "child" \in Failures /\ proc' = [proc EXCEPT ![r] = "unspawned"]
    /\ status' = [status EXCEPT ![r] = "running"]
    /\ gpuBusy' = (gpuBusy \/ r \in GpuRuns)
    /\ SaveInfo({r}, sink', "running")
    /\ UNCHANGED <<outcome, exits, lineVars, queue, sig, stopVars,
                   downVars, collecting>>

(* The directory of the run cannot be made: its files stay the null sink. *)
OpenFailed(r) ==
    /\ "open" \in Failures
    /\ r \in launching
    /\ Finish(r, "failed", sink, launching \ {r})
    /\ UNCHANGED <<lineVars, procVars, downVars, collecting, sink>>

(* The files are open but the binary is not built, or spawn() throws. *)
SpawnFailed(r) ==
    /\ "spawn" \in Failures
    /\ r \in launching
    /\ StillQueued(r)
    /\ sink' = [sink EXCEPT ![r] = "open"]
    /\ Finish(r, "failed", sink', launching \ {r})
    /\ UNCHANGED <<lineVars, procVars, downVars, collecting>>

-----------------------------------------------------------------------------
(* The process, and what its events do. *)

(* Lines reach the manager until the child closes, even from a run that    *)
(* stop() has already given up on.                                         *)
Prints(r) == proc[r] \in {"alive"} \cup Exited

(* A NaN line. *)
DivergedLine(r) ==
    /\ "nan" \in Lines /\ Prints(r)
    /\ status' = [status EXCEPT ![r] = "diverged"]
    /\ errored' = [errored EXCEPT ![r] = TRUE]
    /\ waits' = Wake(r, "diverged")
    /\ UNCHANGED <<outcome, exits, saved, unsaved, endWord, queueVars, procVars,
                   timers, downVars, collecting, sink>>

(* An error line. *)
ErrorLine(r) ==
    /\ "error" \in Lines /\ Prints(r)
    /\ errored' = [errored EXCEPT ![r] = TRUE]
    /\ waits' = Wake(r, status[r])
    /\ UNCHANGED <<infoVars, endWord, queueVars, procVars, timers,
                   downVars, collecting, sink>>

(* The driver's own "run ended:" line. *)
EndedLine(r, word) ==
    /\ Prints(r)
    /\ endWord' = [endWord EXCEPT ![r] = word]
    /\ errored' = [errored EXCEPT ![r] = @ \/ word # "budget"]
    /\ waits' = Wake(r, status[r])
    /\ UNCHANGED <<infoVars, queueVars, procVars, timers, downVars,
                   collecting, sink>>

(* The process ends, by itself or by a signal from anyone. *)
ProcessExit(r, how) ==
    /\ proc[r] = "alive"
    /\ proc' = [proc EXCEPT ![r] = how]
    /\ UNCHANGED <<infoVars, lineVars, queueVars, sig, stopVars, downVars,
                   collecting, sink>>

(* The error event of a child that never came to be. *)
ChildError(r) ==
    /\ proc[r] = "unspawned"
    /\ proc' = [proc EXCEPT ![r] = "nonzero"]
    /\ Finish(r, "failed", sink, launching)
    /\ UNCHANGED <<lineVars, sig, downVars, collecting, sink>>

CloseStatusForgetsStop(exit, current, word, err) ==    \* mutant
    IF exit = "signal" THEN "killed"
    ELSE IF word = "diverged" THEN "diverged"
    ELSE IF word \in {"refused", "error"} THEN "failed"
    ELSE IF exit = "zero" THEN IF err THEN "failed" ELSE "done"
    ELSE IF current = "diverged" THEN "diverged" ELSE "failed"

CloseStatusKeepsCurrent(exit, current, word, err) ==    \* mutant
    IF exit = "signal" THEN "killed" ELSE IF exit = "zero" THEN "done" ELSE current

(* closeStatus(): the verdict on a process that has closed; the first that *)
(* applies, as in the code.                                                *)
CloseStatus(exit, current, word, err) ==
    IF exit = "signal" \/ current = "killed" THEN "killed"
    ELSE IF word = "diverged" THEN "diverged"
    ELSE IF word \in {"refused", "error"} THEN "failed"
    ELSE IF exit = "zero" THEN IF err THEN "failed" ELSE "done"
    ELSE IF current = "diverged" THEN "diverged" ELSE "failed"

(* The close event: the process is gone and its pipes are drained. *)
ChildClose(r) ==
    /\ proc[r] \in Exited
    /\ proc' = [proc EXCEPT ![r] = "closed"]
    /\ Finish(r, CloseStatus(proc[r], status[r], endWord[r], errored[r]),
              sink, launching)
    /\ UNCHANGED <<lineVars, sig, downVars, collecting, sink>>

(* A stream of the run's files fails; the run goes on without them. *)
SinkBreaks(r) ==
    /\ "sink" \in Failures
    /\ sink[r] = "open"
    /\ sink' = [sink EXCEPT ![r] = "broken"]
    /\ UNCHANGED <<infoVars, lineVars, queueVars, procVars, stopVars, downVars,
                   collecting>>

-----------------------------------------------------------------------------
(* Stopping, waiting, shutting down. *)

(* stop() of a run that has not started. *)
StopQueued(r) ==
    /\ status[r] = "queued"
    /\ Finish(r, "killed", sink, launching)
    /\ UNCHANGED <<lineVars, procVars, downVars, collecting, sink>>

(* The signal killTree() leaves with the group of r. *)
Signalled(r, s) == IF proc[r] = "alive" THEN [sig EXCEPT ![r] = s] ELSE sig

(* stop() of a running run: the status first, then SIGTERM and two timers. *)
(* Of a run whose status is terminal it returns at once and changes nothing, *)
(* also where a NaN line made it so and its process still runs.              *)
StopRunning(r) ==
    /\ status[r] = "running"
    /\ status' = [status EXCEPT ![r] = "killed"]
    /\ sig' = Signalled(r, "term")
    /\ timers' = [timers EXCEPT ![r] = "hard"]
    /\ UNCHANGED <<outcome, exits, saved, unsaved, lineVars, queueVars, proc, waits,
                   downVars, collecting, sink>>

(* Four seconds later: SIGKILL, unless the status is terminal. *)
HardTimer(r) ==
    /\ timers[r] = "hard"
    /\ timers' = [timers EXCEPT ![r] = "guard"]
    /\ sig' = IF status[r] \in Terminal THEN sig ELSE Signalled(r, "kill")
    /\ UNCHANGED <<infoVars, lineVars, queueVars, proc, waits,
                   downVars, collecting, sink>>

GuardLooksAtStatus(r) == status[r] \notin Terminal    \* mutant

(* The guard timer looks at endedAt too, which the hard timer does not. *)
GuardApplies(r) == status[r] \notin Terminal \/ ~Ended(r)

(* Eight seconds later: the run is over whether its process is or not. *)
GuardTimer(r) ==
    /\ timers[r] = "guard"
    /\ GuardApplies(r)
    /\ Finish(r, "killed", sink, launching)
    /\ UNCHANGED <<lineVars, procVars, downVars, collecting, sink>>

(* wait(): registered only when it is not satisfied yet. *)
WaitFor(r, cond) ==
    /\ status[r] # "absent"
    /\ status[r] \notin cond
    /\ waits' = [waits EXCEPT ![r] = @ \cup {cond}]
    /\ UNCHANGED <<infoVars, lineVars, queueVars, procVars, timers,
                   downVars, collecting, sink>>

(* wait() gives up after maxMs. *)
WaitTimeout(r, cond) ==
    /\ cond \in waits[r]
    /\ waits' = [waits EXCEPT ![r] = @ \ {cond}]
    /\ UNCHANGED <<infoVars, lineVars, queueVars, procVars, timers,
                   downVars, collecting, sink>>

(* shutdown() up to its first await: every stop() it calls runs up to its  *)
(* own, so the queued runs end here and the running ones get SIGTERM.      *)
Shutdown ==
    /\ WithShutdown /\ ~closing
    /\ closing' = TRUE
    /\ LET queued  == {r \in Runs : status[r] = "queued"}
           running == RunningIn(status)
       IN  /\ status' = [r \in Runs |->
                           IF r \in queued \cup running THEN "killed" ELSE status[r]]
           /\ outcome' = [r \in Runs |-> IF r \in queued THEN "killed" ELSE outcome[r]]
           /\ exits' = [r \in Runs |-> IF r \in queued THEN exits[r] + 1 ELSE exits[r]]
           /\ SaveInfo(queued, sink, "killed")
           /\ waits' = [r \in Runs |->
                          IF r \in queued THEN {c \in waits[r] : "killed" \notin c}
                                          ELSE waits[r]]
           /\ sig' = [r \in Runs |->
                        IF r \in running /\ proc[r] = "alive" THEN "term" ELSE sig[r]]
           /\ timers' = [r \in Runs |-> IF r \in running THEN "hard" ELSE timers[r]]
           /\ gpuBusy' = (gpuBusy /\ queued \cap GpuRuns = {})
           /\ awaited' = running
    /\ UNCHANGED <<lineVars, queue, launching, proc, closed, collecting, sink>>

(* shutdown() after its awaits: files closed, event handlers cleared. *)
ShutdownDone ==
    /\ closing /\ ~closed
    /\ \A r \in awaited : Ended(r)
    /\ closed' = TRUE
    /\ UNCHANGED <<infoVars, lineVars, queueVars, procVars, stopVars, closing,
                   awaited, collecting, sink>>

-----------------------------------------------------------------------------
Start(r) == StartRequest(r) \/ StartQueued(r)

Launch(r) == LaunchSkipped(r) \/ LaunchSpawned(r) \/ OpenFailed(r) \/ SpawnFailed(r)

ProcessStep(r) ==
    \/ DivergedLine(r) \/ ErrorLine(r)
    \/ \E word \in EndWords : EndedLine(r, word)
    \/ \E how \in ExitKinds : ProcessExit(r, how)
    \/ ChildError(r) \/ ChildClose(r) \/ SinkBreaks(r)

Stop(r) == StopQueued(r) \/ StopRunning(r) \/ HardTimer(r) \/ GuardTimer(r)

Wait(r) == \E cond \in WaitConds : WaitFor(r, cond) \/ WaitTimeout(r, cond)

RunStep(r) == Start(r) \/ Launch(r) \/ ProcessStep(r) \/ Stop(r) \/ Wait(r)

Next == (\E r \in Runs : RunStep(r)) \/ Shutdown \/ ShutdownDone

Spec == Init /\ [][Next]_vars
=============================================================================
