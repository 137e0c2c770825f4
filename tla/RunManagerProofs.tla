-------------------------- MODULE RunManagerProofs --------------------------
(***************************************************************************)
(* The run manager for every set of runs and every environment: types, the *)
(* inductive invariant, what follows from it, the refinement of            *)
(* RunLifecycle, what is known of a run's end, and the waiting line.       *)
(***************************************************************************)
EXTENDS RunManagerProps, SequenceTheorems, FiniteSetTheorems, TLAPS

(* pump() keeps the waiting line a line of runs, and what it launches was    *)
(* queued.                                                                   *)
LEMMA PumpEffect ==
    ASSUME NEW line \in Seq(Runs), NEW opening \in SUBSET Runs,
           NEW st, NEW busy, Pump(st, busy, line, opening)
    PROVE  /\ queue' \in Seq(Runs)
           /\ launching' \in SUBSET Runs
           /\ \A r \in Runs : r \in launching' => r \in opening \/ st[r] = "queued"
<1>1. PICK n \in 0..Len(line) :
        /\ queue' = SubSeq(line, n + 1, Len(line))
        /\ launching' = opening \cup
             {r \in Runs : st[r] = "queued" /\ \E i \in 1..n : line[i] = r}
  BY DEF Pump, Rest
<1>2. /\ Len(line) \in Nat
      /\ n + 1 \in Int
      /\ \A i \in (n + 1)..Len(line) : line[i] \in Runs
  OBVIOUS
<1>3. queue' \in Seq(Runs)
  BY <1>1, <1>2, SubSeqProperties
<1>. QED  BY <1>1, <1>3

(* What saveInfo() leaves on disk: the new status, what was there or a torn   *)
(* file; and where it is not the new status, the run is among the unsaved.   *)
LEMMA SaveEffect ==
    ASSUME TypeOK, NEW ended \in SUBSET Runs, NEW files, NEW st \in {"running"} \cup Terminal,
           SaveInfo(ended, files, st)
    PROVE  /\ saved' \in [Runs -> {"none", "running", "torn"} \cup Terminal]
           /\ unsaved' \in SUBSET Runs
           /\ \A s \in Runs \ ended : /\ saved'[s] = saved[s]
                                      /\ (s \in unsaved' <=> s \in unsaved)
           /\ \A s \in ended : /\ saved'[s] \in {saved[s], "torn", st}
                               /\ saved'[s] = st \/ s \in unsaved'
<1> DEFINE open == {s \in ended : files[s] = "open"}
<1>1. PICK lost \in SUBSET open : \E torn \in SUBSET lost :
        /\ saved' = [s \in Runs |-> IF s \in torn THEN "torn"
                                    ELSE IF s \in open \ lost THEN st ELSE saved[s]]
        /\ unsaved' = (unsaved \cup ended) \ (open \ lost)
  BY DEF SaveInfo
<1>2. PICK torn \in SUBSET lost :
        /\ saved' = [s \in Runs |-> IF s \in torn THEN "torn"
                                    ELSE IF s \in open \ lost THEN st ELSE saved[s]]
        /\ unsaved' = (unsaved \cup ended) \ (open \ lost)
  BY <1>1
<1>3. \A s \in Runs : saved'[s] = IF s \in torn THEN "torn"
                                  ELSE IF s \in open \ lost THEN st ELSE saved[s]
  BY <1>2
<1>4. open \subseteq ended
  OBVIOUS
<1>. HIDE DEF open
<1>5. saved' \in [Runs -> {"none", "running", "torn"} \cup Terminal]
  BY <1>2 DEF TypeOK
<1>6. unsaved' \in SUBSET Runs
  BY <1>2 DEF TypeOK
<1>. QED  BY <1>2, <1>3, <1>4, <1>5, <1>6

(* finish() either finds the run over and changes nothing, or ends it; in   *)
(* both cases the variables it owns keep their types.                       *)
LEMMA FinishEffect ==
    ASSUME TypeOK, NEW r \in Runs, NEW verdict \in Terminal,
           NEW files \in [Runs -> {"null", "open", "broken"}],
           NEW opening \in SUBSET Runs, Finish(r, verdict, files, opening)
    PROVE  /\ queue' \in Seq(Runs)
           /\ launching' \in SUBSET Runs
           /\ saved' \in [Runs -> {"none", "running", "torn"} \cup Terminal]
           /\ unsaved' \in SUBSET Runs
           /\ \/ /\ Ended(r)
                 /\ launching' = opening
                 /\ UNCHANGED <<infoVars, timers, waits, gpuBusy, queue>>
              \/ /\ ~Ended(r)
                 /\ \E final \in Terminal :
                      /\ final = IF status[r] = "diverged" /\ verdict = "failed"
                                   THEN "diverged" ELSE verdict
                      /\ status' = [status EXCEPT ![r] = final]
                      /\ outcome' = [outcome EXCEPT ![r] = final]
                      /\ waits' = Wake(r, final)
                 /\ exits' = IF closed THEN exits ELSE [exits EXCEPT ![r] = @ + 1]
                 /\ timers' = [timers EXCEPT ![r] = "off"]
                 /\ gpuBusy' = (gpuBusy /\ r \notin GpuRuns)
                 /\ \A s \in Runs : s \in launching' =>
                      s \in opening \/ (s # r /\ status[s] = "queued")
<1> DEFINE final == IF status[r] = "diverged" /\ verdict = "failed"
                      THEN "diverged" ELSE verdict
           st == [status EXCEPT ![r] = final]
           busy == gpuBusy /\ r \notin GpuRuns
<1>1. final \in Terminal
  BY DEF Terminal
<1>2. queue \in Seq(Runs) /\ status \in [Runs -> {"absent", "queued", "running"} \cup Terminal]
  BY DEF TypeOK
<1>3. CASE Ended(r)
  <2>1. /\ saved \in [Runs -> {"none", "running", "torn"} \cup Terminal]
        /\ unsaved \in SUBSET Runs
    BY DEF TypeOK
  <2>2. /\ launching' = opening
        /\ UNCHANGED <<infoVars, timers, waits, gpuBusy, queue>>
    BY <1>3 DEF Finish, AlreadyOver
  <2>. QED  BY <1>2, <1>3, <2>1, <2>2 DEF infoVars
<1>4. CASE ~Ended(r)
  <2>1. /\ status' = st
        /\ outcome' = [outcome EXCEPT ![r] = final]
        /\ SaveInfo({r}, files, final)
        /\ waits' = Wake(r, final)
        /\ exits' = IF closed THEN exits ELSE [exits EXCEPT ![r] = @ + 1]
        /\ timers' = [timers EXCEPT ![r] = "off"]
        /\ gpuBusy' = busy
        /\ Pump(st, busy, queue, opening)
    BY <1>4 DEF Finish, AlreadyOver, FinalStatus, FreesSlot
  <2>2. /\ queue' \in Seq(Runs)
        /\ launching' \in SUBSET Runs
        /\ \A s \in Runs : s \in launching' => s \in opening \/ st[s] = "queued"
    <3> HIDE DEF st, busy
    <3>. QED  BY <2>1, <1>2, PumpEffect
  <2>3. \A s \in Runs : st[s] = "queued" => s # r /\ status[s] = "queued"
    BY <1>1, <1>2 DEF Terminal
  <2>4. /\ saved' \in [Runs -> {"none", "running", "torn"} \cup Terminal]
        /\ unsaved' \in SUBSET Runs
    <3>1. {r} \in SUBSET Runs /\ final \in {"running"} \cup Terminal
      BY <1>1
    <3>2. SaveInfo({r}, files, final)
      BY <2>1
    <3>. HIDE DEF final
    <3>. QED  BY <3>1, <3>2, SaveEffect
  <2>. QED  BY <1>1, <1>4, <2>1, <2>2, <2>3, <2>4
<1>. QED  BY <1>3, <1>4

(* wake() only takes waiters away. *)
LEMMA WakeType ==
    ASSUME TypeOK, NEW r \in Runs, NEW st
    PROVE  Wake(r, st) \in [Runs -> SUBSET WaitConds]
BY DEF TypeOK, Wake

(* The verdict on a closed process is a terminal status. *)
LEMMA CloseStatusType ==
    ASSUME NEW exit, NEW current, NEW word, NEW err
    PROVE  CloseStatus(exit, current, word, err) \in Terminal
BY DEF CloseStatus, Terminal
-----------------------------------------------------------------------------
(* Type correctness, for every set of runs and every environment. *)

LEMMA FinishTypes ==
    ASSUME TypeOK, NEW r \in Runs, NEW verdict \in Terminal,
           NEW files \in [Runs -> {"null", "open", "broken"}],
           NEW opening \in SUBSET Runs, Finish(r, verdict, files, opening)
    PROVE  /\ status' \in [Runs -> {"absent", "queued", "running"} \cup Terminal]
           /\ outcome' \in [Runs -> {"none"} \cup Terminal]
           /\ exits' \in [Runs -> Nat]
           /\ saved' \in [Runs -> {"none", "running", "torn"} \cup Terminal]
           /\ unsaved' \in SUBSET Runs
           /\ queue' \in Seq(Runs)
           /\ launching' \in SUBSET Runs
           /\ timers' \in [Runs -> {"off", "hard", "guard"}]
           /\ waits' \in [Runs -> SUBSET WaitConds]
           /\ gpuBusy' \in BOOLEAN
<1>1. \A final : Wake(r, final) \in [Runs -> SUBSET WaitConds]
  BY WakeType
<1>0. /\ queue' \in Seq(Runs)
      /\ launching' \in SUBSET Runs
      /\ saved' \in [Runs -> {"none", "running", "torn"} \cup Terminal]
      /\ unsaved' \in SUBSET Runs
  BY FinishEffect
<1>2. CASE Ended(r)
  <2>1. UNCHANGED <<infoVars, timers, waits, gpuBusy, queue>>
    BY <1>2 DEF Finish, AlreadyOver
  <2>. QED  BY <1>0, <2>1 DEF TypeOK, infoVars
<1>3. CASE ~Ended(r)
  <2>1. PICK final \in Terminal :
          /\ status' = [status EXCEPT ![r] = final]
          /\ outcome' = [outcome EXCEPT ![r] = final]
          /\ waits' = Wake(r, final)
    BY <1>3, FinishEffect
  <2>2. /\ exits' = IF closed THEN exits ELSE [exits EXCEPT ![r] = @ + 1]
        /\ timers' = [timers EXCEPT ![r] = "off"]
        /\ gpuBusy' = (gpuBusy /\ r \notin GpuRuns)
    BY <1>3, FinishEffect
  <2>3. exits' \in [Runs -> Nat]
    BY <2>2 DEF TypeOK
  <2>4. /\ status' \in [Runs -> {"absent", "queued", "running"} \cup Terminal]
        /\ outcome' \in [Runs -> {"none"} \cup Terminal]
    BY <2>1 DEF TypeOK
  <2>. QED  BY <1>0, <1>1, <2>1, <2>2, <2>3, <2>4 DEF TypeOK
<1>. QED  BY <1>2, <1>3

(* Every variable of the run manager keeps its type (runs/types.ts).         *)
THEOREM TypeCorrect == Spec => []TypeOK
<1>1. Init => TypeOK
  <2> SUFFICES ASSUME Init  PROVE TypeOK
    OBVIOUS
  <2>1. /\ status \in [Runs -> {"absent", "queued", "running"} \cup Terminal]
        /\ outcome \in [Runs -> {"none"} \cup Terminal]
        /\ saved \in [Runs -> {"none", "running", "torn"} \cup Terminal]
        /\ proc \in [Runs -> {"none", "unspawned", "alive", "closed"} \cup Exited]
        /\ endWord \in [Runs -> {"none"} \cup EndWords]
    BY DEF Init
  <2>2. /\ exits \in [Runs -> Nat]
        /\ errored \in [Runs -> BOOLEAN]
        /\ sink \in [Runs -> {"null", "open", "broken"}]
        /\ sig \in [Runs -> {"none", "term", "kill"}]
        /\ timers \in [Runs -> {"off", "hard", "guard"}]
    BY DEF Init
  <2>3. waits \in [Runs -> SUBSET WaitConds]
    BY DEF Init
  <2>4. queue \in Seq(Runs)
    BY DEF Init
  <2>. QED  BY <2>1, <2>2, <2>3, <2>4 DEF Init, TypeOK
<1>2. TypeOK /\ [Next]_vars => TypeOK'
  <2> SUFFICES ASSUME TypeOK, [Next]_vars  PROVE TypeOK'
    OBVIOUS
  <2>. USE DEF infoVars, lineVars, queueVars, procVars, stopVars, downVars
  <2>1. ASSUME NEW r \in Runs, StartRequest(r)  PROVE TypeOK'
    BY <2>1 DEF TypeOK, StartRequest
  <2>2. ASSUME NEW r \in Runs, StartQueued(r)  PROVE TypeOK'
    <3>1. Append(queue, r) \in Seq(Runs) /\ launching \in SUBSET Runs
      BY DEF TypeOK
    <3>2. queue' \in Seq(Runs) /\ launching' \in SUBSET Runs
      BY <2>2, <3>1, PumpEffect DEF StartQueued
    <3>. QED  BY <2>2, <3>2 DEF TypeOK, StartQueued
  <2>3. ASSUME NEW r \in Runs, LaunchSkipped(r)  PROVE TypeOK'
    BY <2>3 DEF TypeOK, LaunchSkipped
  <2>4. ASSUME NEW r \in Runs, LaunchSpawned(r)  PROVE TypeOK'
    <3>1. SaveInfo({r}, sink', "running")
      BY <2>4 DEF LaunchSpawned
    <3>2. /\ saved' \in [Runs -> {"none", "running", "torn"} \cup Terminal]
          /\ unsaved' \in SUBSET Runs
      BY <3>1, SaveEffect
    <3>. QED  BY <2>4, <3>2 DEF TypeOK, LaunchSpawned, StillQueued
  <2>5. ASSUME NEW r \in Runs, OpenFailed(r)  PROVE TypeOK'
    <3>1. /\ "failed" \in Terminal
          /\ sink \in [Runs -> {"null", "open", "broken"}]
          /\ launching \ {r} \in SUBSET Runs
      BY DEF TypeOK, Terminal
    <3>2. Finish(r, "failed", sink, launching \ {r})
      BY <2>5 DEF OpenFailed
    <3>. QED  BY <2>5, <3>1, <3>2, FinishTypes DEF TypeOK, OpenFailed
  <2>6. ASSUME NEW r \in Runs, SpawnFailed(r)  PROVE TypeOK'
    <3>1. /\ "failed" \in Terminal
          /\ sink' \in [Runs -> {"null", "open", "broken"}]
          /\ launching \ {r} \in SUBSET Runs
      BY <2>6 DEF TypeOK, Terminal, SpawnFailed, StillQueued
    <3>2. Finish(r, "failed", sink', launching \ {r})
      BY <2>6 DEF SpawnFailed, StillQueued
    <3>. QED  BY <2>6, <3>1, <3>2, FinishTypes DEF TypeOK, SpawnFailed, StillQueued
  <2>7. ASSUME NEW r \in Runs, ProcessStep(r)  PROVE TypeOK'
    <3>1. \A st : Wake(r, st) \in [Runs -> SUBSET WaitConds]
      BY WakeType
    <3>2. CASE DivergedLine(r)
      BY <3>1, <3>2 DEF TypeOK, DivergedLine, Terminal
    <3>3. CASE ErrorLine(r)
      BY <3>1, <3>3 DEF TypeOK, ErrorLine
    <3>4. ASSUME NEW word \in EndWords, EndedLine(r, word)  PROVE TypeOK'
      BY <3>1, <3>4 DEF TypeOK, EndedLine
    <3>5. ASSUME NEW how \in ExitKinds, ProcessExit(r, how)  PROVE TypeOK'
      BY <3>5, RunsAssumption DEF TypeOK, ProcessExit, Exited
    <3>6. CASE ChildError(r)
      <4>1. /\ "failed" \in Terminal
            /\ sink \in [Runs -> {"null", "open", "broken"}]
            /\ launching \in SUBSET Runs
        BY DEF TypeOK, Terminal
      <4>2. Finish(r, "failed", sink, launching)
        BY <3>6 DEF ChildError
      <4>. QED  BY <3>6, <4>1, <4>2, FinishTypes DEF TypeOK, ChildError, Exited
    <3>7. CASE ChildClose(r)
      <4> DEFINE verdict == CloseStatus(proc[r], status[r], endWord[r], errored[r])
      <4>1. /\ verdict \in Terminal
            /\ sink \in [Runs -> {"null", "open", "broken"}]
            /\ launching \in SUBSET Runs
        BY CloseStatusType DEF TypeOK
      <4>2. Finish(r, verdict, sink, launching)
        BY <3>7 DEF ChildClose
      <4>. HIDE DEF verdict
      <4>. QED  BY <3>7, <4>1, <4>2, FinishTypes DEF TypeOK, ChildClose
    <3>8. CASE SinkBreaks(r)
      BY <3>8 DEF TypeOK, SinkBreaks
    <3>. QED  BY <2>7, <3>2, <3>3, <3>4, <3>5, <3>6, <3>7, <3>8 DEF ProcessStep
  <2>8. ASSUME NEW r \in Runs, Stop(r)  PROVE TypeOK'
    <3>1. /\ "killed" \in Terminal
          /\ sink \in [Runs -> {"null", "open", "broken"}]
          /\ launching \in SUBSET Runs
      BY DEF TypeOK, Terminal
    <3>2. CASE StopQueued(r)
      <4>1. Finish(r, "killed", sink, launching)
        BY <3>2 DEF StopQueued
      <4>. QED  BY <3>1, <3>2, <4>1, FinishTypes DEF TypeOK, StopQueued
    <3>3. CASE StopRunning(r)
      BY <3>3 DEF TypeOK, StopRunning, Signalled, Terminal
    <3>5. CASE HardTimer(r)
      BY <3>5 DEF TypeOK, HardTimer, Signalled
    <3>6. CASE GuardTimer(r)
      <4>1. Finish(r, "killed", sink, launching)
        BY <3>6 DEF GuardTimer
      <4>. QED  BY <3>1, <3>6, <4>1, FinishTypes DEF TypeOK, GuardTimer
    <3>. QED  BY <2>8, <3>2, <3>3, <3>5, <3>6 DEF Stop
  <2>9. ASSUME NEW r \in Runs, Wait(r)  PROVE TypeOK'
    <3>1. PICK cond \in WaitConds : WaitFor(r, cond) \/ WaitTimeout(r, cond)
      BY <2>9 DEF Wait
    <3>2. waits' \in [Runs -> SUBSET WaitConds]
      <4>1. waits \in [Runs -> SUBSET WaitConds]
        BY DEF TypeOK
      <4>2. /\ waits[r] \cup {cond} \in SUBSET WaitConds
            /\ waits[r] \ {cond} \in SUBSET WaitConds
        BY <4>1
      <4>3. \/ waits' = [waits EXCEPT ![r] = waits[r] \cup {cond}]
            \/ waits' = [waits EXCEPT ![r] = waits[r] \ {cond}]
        BY <3>1 DEF WaitFor, WaitTimeout
      <4>. QED  BY <4>1, <4>2, <4>3
    <3>3. UNCHANGED <<infoVars, lineVars, queueVars, procVars, timers, downVars, collecting, sink>>
      BY <3>1 DEF WaitFor, WaitTimeout
    <3>. QED  BY <3>2, <3>3 DEF TypeOK
  <2>10. CASE Shutdown
    <3> DEFINE queued == {r \in Runs : status[r] = "queued"}
               running == RunningIn(status)
    <3>1. /\ status' = [r \in Runs |->
                          IF r \in queued \cup running THEN "killed" ELSE status[r]]
          /\ outcome' = [r \in Runs |-> IF r \in queued THEN "killed" ELSE outcome[r]]
          /\ exits' = [r \in Runs |-> IF r \in queued THEN exits[r] + 1 ELSE exits[r]]
          /\ SaveInfo(queued, sink, "killed")
          /\ waits' = [r \in Runs |->
                         IF r \in queued THEN {c \in waits[r] : "killed" \notin c}
                                         ELSE waits[r]]
          /\ sig' = [r \in Runs |->
                       IF r \in running /\ proc[r] = "alive" THEN "term" ELSE sig[r]]
          /\ timers' = [r \in Runs |-> IF r \in running THEN "hard" ELSE timers[r]]
          /\ gpuBusy' = (gpuBusy /\ queued \cap GpuRuns = {})
          /\ awaited' = running
      BY <2>10 DEF Shutdown
    <3>2. /\ closing' = TRUE
          /\ UNCHANGED <<endWord, errored, queue, launching, proc, closed,
                         collecting, sink>>
      BY <2>10 DEF Shutdown
    <3>3. queued \in SUBSET Runs /\ running \in SUBSET Runs /\ "killed" \in Terminal
      BY DEF RunningIn, Terminal
    <3>. HIDE DEF queued, running
    <3>4. /\ status' \in [Runs -> {"absent", "queued", "running"} \cup Terminal]
          /\ outcome' \in [Runs -> {"none"} \cup Terminal]
      BY <3>1, <3>3 DEF TypeOK
    <3>9. /\ saved' \in [Runs -> {"none", "running", "torn"} \cup Terminal]
          /\ unsaved' \in SUBSET Runs
      BY <3>1, <3>3, SaveEffect
    <3>5. exits' \in [Runs -> Nat]
      BY <3>1 DEF TypeOK
    <3>6. waits' \in [Runs -> SUBSET WaitConds]
      BY <3>1 DEF TypeOK
    <3>7. /\ sig' \in [Runs -> {"none", "term", "kill"}]
          /\ timers' \in [Runs -> {"off", "hard", "guard"}]
      BY <3>1 DEF TypeOK
    <3>8. /\ awaited' \in SUBSET Runs
          /\ gpuBusy' \in BOOLEAN
      BY <3>1, <3>3 DEF TypeOK
    <3>. QED  BY <3>2, <3>4, <3>5, <3>6, <3>7, <3>8, <3>9 DEF TypeOK
  <2>11. CASE ShutdownDone
    BY <2>11 DEF TypeOK, ShutdownDone
  <2>12. CASE UNCHANGED vars
    BY <2>12 DEF TypeOK, vars
  <2>. QED
    BY <2>1, <2>2, <2>3, <2>4, <2>5, <2>6, <2>7, <2>8, <2>9, <2>10, <2>11, <2>12
       DEF Next, RunStep, Start, Launch
<1>. QED  BY <1>1, <1>2, PTL DEF Spec
-----------------------------------------------------------------------------
(* The inductive invariant. *)

(* A handler that only ends a run keeps the invariant: the run it ends was   *)
(* queued or had a process, and the process table does not move.             *)
LEMMA FinishInv ==
    ASSUME TypeOK, IInv, NEW r \in Runs, NEW verdict \in Terminal,
           NEW files \in [Runs -> {"null", "open", "broken"}],
           NEW opening \in SUBSET launching, Finish(r, verdict, files, opening),
           Ended(r) \/ status[r] = "queued" \/ HasProcess(r),
           \A s \in Runs : HasProcess(s)' <=> HasProcess(s),
           UNCHANGED <<collecting, closed>>
    PROVE  IInv'
<1>0. opening \in SUBSET Runs
  BY DEF TypeOK
<1>1. CASE Ended(r)
  <2>1. launching' = opening /\ UNCHANGED <<status, outcome, exits, timers, gpuBusy>>
    BY <1>0, <1>1, FinishEffect DEF infoVars
  <2>2. \A s \in Runs : RunInv(s)'
    BY <2>1 DEF IInv, RunInv, Ended
  <2>3. GpuSlotHasHolder'
    BY <2>1, RunsAssumption DEF IInv, GpuSlotHasHolder, Live, Ended
  <2>. QED  BY <2>2, <2>3 DEF IInv
<1>2. CASE ~Ended(r)
  <2>1. PICK final \in Terminal :
          /\ status' = [status EXCEPT ![r] = final]
          /\ outcome' = [outcome EXCEPT ![r] = final]
    BY <1>0, <1>2, FinishEffect
  <2>2. /\ exits' = IF closed THEN exits ELSE [exits EXCEPT ![r] = @ + 1]
        /\ timers' = [timers EXCEPT ![r] = "off"]
        /\ gpuBusy' = (gpuBusy /\ r \notin GpuRuns)
        /\ \A s \in Runs : s \in launching' =>
             s \in opening \/ (s # r /\ status[s] = "queued")
    BY <1>0, <1>2, FinishEffect
  <2>3. r \notin collecting
    BY <1>2 DEF IInv, RunInv
  <2>4. \A s \in Runs \ {r} : RunInv(s)'
    <3> SUFFICES ASSUME NEW s \in Runs, s # r  PROVE RunInv(s)'
      OBVIOUS
    <3>1. /\ status'[s] = status[s]
          /\ outcome'[s] = outcome[s]
          /\ exits'[s] = exits[s]
          /\ timers'[s] = timers[s]
      <4>1. status'[s] = status[s] /\ outcome'[s] = outcome[s]
        BY <2>1 DEF TypeOK
      <4>2. exits'[s] = exits[s]
        BY <2>2 DEF TypeOK
      <4>3. timers'[s] = timers[s]
        BY <2>2 DEF TypeOK
      <4>. QED  BY <4>1, <4>2, <4>3
    <3>2. s \in launching' => s \in launching \/ status[s] = "queued"
      BY <2>2
    <3>3. RunInv(s)
      BY DEF IInv
    <3>. QED  BY <3>1, <3>2, <3>3 DEF RunInv, Ended
  <2>5. RunInv(r)'
    <3>1. /\ status'[r] = final
          /\ outcome'[r] = final
          /\ timers'[r] = "off"
          /\ exits'[r] = IF closed THEN exits[r] ELSE exits[r] + 1
      <4>1. status'[r] = final /\ outcome'[r] = final
        BY <2>1 DEF TypeOK
      <4>2. exits'[r] = IF closed THEN exits[r] ELSE exits[r] + 1
        BY <2>2 DEF TypeOK
      <4>3. timers'[r] = "off"
        BY <2>2 DEF TypeOK
      <4>. QED  BY <4>1, <4>2, <4>3
    <3>2. exits[r] = 0
      <4>1. exits[r] <= 1 /\ (exits[r] = 1 => Ended(r))
        BY DEF IInv, RunInv
      <4>2. exits[r] \in Nat
        BY DEF TypeOK
      <4>. QED  BY <1>2, <4>1, <4>2
    <3>3. final # "none" /\ final \notin {"absent", "queued", "running"}
      BY DEF Terminal
    <3>4. r \in launching' => ~HasProcess(r)
      BY <2>2 DEF IInv, RunInv
    <3>. QED  BY <2>3, <3>1, <3>2, <3>3, <3>4 DEF RunInv, Ended
  <2>6. GpuSlotHasHolder'
    <3> SUFFICES ASSUME gpuBusy'  PROVE \E h \in GpuRuns : Live(h)'
      BY DEF GpuSlotHasHolder
    <3>1. gpuBusy /\ r \notin GpuRuns
      BY <2>2
    <3>2. PICK h \in GpuRuns : Live(h)
      BY <3>1 DEF IInv, GpuSlotHasHolder
    <3>3. h \in Runs /\ h # r
      BY <3>1, RunsAssumption
    <3>4. outcome'[h] = outcome[h]
      BY <2>1, <3>3 DEF TypeOK
    <3>. QED  BY <3>2, <3>3, <3>4 DEF Live, Ended
  <2>. QED  BY <2>4, <2>5, <2>6 DEF IInv
<1>. QED  BY <1>1, <1>2

(* A handler that ends no run, starts none and leaves the GPU slot alone     *)
(* keeps the invariant when it moves statuses among the terminal ones and    *)
(* processes among the started ones.                                         *)
LEMMA QuietInv ==
    ASSUME TypeOK, IInv,
           \A s \in Runs : \/ status'[s] = status[s]
                          \/ /\ status[s] \in Terminal \cup {"running"}
                             /\ status'[s] \in Terminal,
           \A s \in Runs : HasProcess(s)' <=> HasProcess(s),
           \A s \in Runs : timers'[s] # "off" =>
               timers[s] # "off" \/ (status'[s] \in Terminal /\ ~Ended(s)),
           UNCHANGED <<outcome, exits, launching, collecting, gpuBusy>>,
           closed => closed'
    PROVE  IInv'
<1>1. \A s \in Runs : RunInv(s)'
  <2> SUFFICES ASSUME NEW s \in Runs  PROVE RunInv(s)'
    OBVIOUS
  <2>1. RunInv(s)
    BY DEF IInv
  <2>. QED  BY <2>1 DEF RunInv, Ended, Terminal
<1>2. GpuSlotHasHolder'
  BY RunsAssumption DEF IInv, GpuSlotHasHolder, Live, Ended
<1>. QED  BY <1>1, <1>2 DEF IInv

LEMMA InitInv == Init => IInv
BY DEF Init, IInv, RunInv, GpuSlotHasHolder, HasProcess, Ended, Terminal

LEMMA Invariance == TypeOK /\ TypeOK' /\ IInv /\ [Next]_vars => IInv'
<1> SUFFICES ASSUME TypeOK, TypeOK', IInv, [Next]_vars  PROVE IInv'
  OBVIOUS
<1>. USE DEF infoVars, lineVars, queueVars, procVars, stopVars, downVars
<1>1. ASSUME NEW r \in Runs, StartRequest(r)  PROVE IInv'
  <2>1. \A s \in Runs : RunInv(s)'
    BY <1>1 DEF IInv, RunInv, StartRequest, HasProcess, Ended
  <2>2. GpuSlotHasHolder'
    BY <1>1 DEF IInv, GpuSlotHasHolder, StartRequest, Live, HasProcess, Ended
  <2>. QED  BY <2>1, <2>2 DEF IInv
<1>2. ASSUME NEW r \in Runs, StartQueued(r)  PROVE IInv'
  <2>1. Append(queue, r) \in Seq(Runs) /\ launching \in SUBSET Runs
    BY DEF TypeOK
  <2>2. \A s \in Runs : s \in launching' => s \in launching \/ status'[s] = "queued"
    BY <1>2, <2>1, PumpEffect DEF StartQueued
  <2>3. status[r] = "absent"
    BY <1>2 DEF StartQueued, IInv, RunInv
  <2>4. \A s \in Runs : status'[s] = IF s = r THEN "queued" ELSE status[s]
    BY <1>2 DEF StartQueued, TypeOK
  <2>5. \A s \in Runs : RunInv(s)'
    BY <1>2, <2>2, <2>3, <2>4 DEF IInv, RunInv, StartQueued, HasProcess, Ended, Terminal
  <2>6. GpuSlotHasHolder'
    BY <1>2 DEF IInv, GpuSlotHasHolder, StartQueued, Live, HasProcess, Ended
  <2>. QED  BY <2>5, <2>6 DEF IInv
<1>3. ASSUME NEW r \in Runs, LaunchSkipped(r)  PROVE IInv'
  <2>1. \A s \in Runs : RunInv(s)'
    BY <1>3 DEF IInv, RunInv, LaunchSkipped, HasProcess, Ended
  <2>2. GpuSlotHasHolder'
    BY <1>3 DEF IInv, GpuSlotHasHolder, LaunchSkipped, Live, HasProcess, Ended
  <2>. QED  BY <2>1, <2>2 DEF IInv
<1>4. ASSUME NEW r \in Runs, LaunchSpawned(r)  PROVE IInv'
  <2>1. /\ status[r] = "queued" /\ ~Ended(r) /\ timers[r] = "off"
        /\ r \notin collecting
    BY <1>4 DEF LaunchSpawned, StillQueued, IInv, RunInv, Terminal
  <2>2. /\ \A s \in Runs : status'[s] = IF s = r THEN "running" ELSE status[s]
        /\ \A s \in Runs \ {r} : proc'[s] = proc[s]
        /\ HasProcess(r)'
    BY <1>4 DEF LaunchSpawned, StillQueued, TypeOK, HasProcess
  <2>3. /\ launching' = launching \ {r}
        /\ gpuBusy' = (gpuBusy \/ r \in GpuRuns)
        /\ UNCHANGED <<outcome, exits, timers, collecting, closed>>
    BY <1>4 DEF LaunchSpawned, StillQueued
  <2>4. RunInv(r)'
    BY <2>1, <2>2, <2>3 DEF IInv, RunInv, Ended, Terminal
  <2>5. \A s \in Runs \ {r} : RunInv(s)'
    BY <2>2, <2>3 DEF IInv, RunInv, HasProcess, Ended
  <2>6. GpuSlotHasHolder'
    <3>1. CASE r \in GpuRuns
      BY <2>1, <2>2, <2>3, <3>1 DEF GpuSlotHasHolder, Live, Ended
    <3>2. CASE r \notin GpuRuns
      BY <2>2, <2>3, <3>2, RunsAssumption
         DEF IInv, GpuSlotHasHolder, Live, HasProcess, Ended
    <3>. QED  BY <3>1, <3>2
  <2>. QED  BY <2>4, <2>5, <2>6 DEF IInv
<1>5. ASSUME NEW r \in Runs, OpenFailed(r)  PROVE IInv'
  <2>1. /\ "failed" \in Terminal
        /\ sink \in [Runs -> {"null", "open", "broken"}]
        /\ launching \ {r} \in SUBSET launching
    BY DEF TypeOK, Terminal
  <2>2. /\ Finish(r, "failed", sink, launching \ {r})
        /\ UNCHANGED <<collecting, closed, proc>>
    BY <1>5 DEF OpenFailed
  <2>3. Ended(r) \/ status[r] = "queued"
    BY <1>5 DEF OpenFailed, IInv, RunInv
  <2>. QED  BY <2>1, <2>2, <2>3, FinishInv DEF HasProcess
<1>6. ASSUME NEW r \in Runs, SpawnFailed(r)  PROVE IInv'
  <2>1. /\ "failed" \in Terminal
        /\ sink' \in [Runs -> {"null", "open", "broken"}]
        /\ launching \ {r} \in SUBSET launching
    BY DEF TypeOK, Terminal
  <2>2. /\ Finish(r, "failed", sink', launching \ {r})
        /\ UNCHANGED <<collecting, closed, proc>>
        /\ status[r] = "queued"
    BY <1>6 DEF SpawnFailed, StillQueued
  <2>. QED  BY <2>1, <2>2, FinishInv DEF HasProcess
<1>7. ASSUME NEW r \in Runs, ProcessStep(r)  PROVE IInv'
  <2>1. CASE DivergedLine(r)
    <3>1. HasProcess(r) /\ status[r] \in Terminal \cup {"running"}
      BY <2>1 DEF DivergedLine, Prints, Exited, IInv, RunInv, HasProcess, TypeOK
    <3>2. \A s \in Runs : status'[s] = IF s = r THEN "diverged" ELSE status[s]
      BY <2>1 DEF DivergedLine, TypeOK
    <3>3. UNCHANGED <<outcome, exits, launching, collecting, gpuBusy, closed,
                      proc, timers>>
      BY <2>1 DEF DivergedLine
    <3>4. "diverged" \in Terminal
      BY DEF Terminal
    <3>. QED  BY <3>1, <3>2, <3>3, <3>4, QuietInv DEF HasProcess
  <2>2. CASE ErrorLine(r)
    BY <2>2, QuietInv DEF ErrorLine, HasProcess
  <2>3. ASSUME NEW word \in EndWords, EndedLine(r, word)  PROVE IInv'
    BY <2>3, QuietInv DEF EndedLine, HasProcess
  <2>4. ASSUME NEW how \in ExitKinds, ProcessExit(r, how)  PROVE IInv'
    <3>1. \A s \in Runs : HasProcess(s)' <=> HasProcess(s)
      BY <2>4, RunsAssumption DEF ProcessExit, HasProcess, TypeOK
    <3>2. UNCHANGED <<status, outcome, exits, launching, collecting, gpuBusy,
                      closed, timers>>
      BY <2>4 DEF ProcessExit
    <3>. QED  BY <3>1, <3>2, QuietInv
  <2>5. CASE ChildError(r)
    <3>1. /\ "failed" \in Terminal
          /\ sink \in [Runs -> {"null", "open", "broken"}]
          /\ launching \in SUBSET launching
      BY DEF TypeOK, Terminal
    <3>2. /\ Finish(r, "failed", sink, launching)
          /\ UNCHANGED <<collecting, closed>>
      BY <2>5 DEF ChildError
    <3>3. HasProcess(r) /\ \A s \in Runs : HasProcess(s)' <=> HasProcess(s)
      BY <2>5 DEF ChildError, HasProcess, TypeOK
    <3>. QED  BY <3>1, <3>2, <3>3, FinishInv
  <2>6. CASE ChildClose(r)
    <3> DEFINE verdict == CloseStatus(proc[r], status[r], endWord[r], errored[r])
    <3>1. /\ verdict \in Terminal
          /\ sink \in [Runs -> {"null", "open", "broken"}]
          /\ launching \in SUBSET launching
      BY CloseStatusType DEF TypeOK
    <3>2. /\ Finish(r, verdict, sink, launching)
          /\ UNCHANGED <<collecting, closed>>
      BY <2>6 DEF ChildClose
    <3>3. HasProcess(r) /\ \A s \in Runs : HasProcess(s)' <=> HasProcess(s)
      BY <2>6 DEF ChildClose, HasProcess, Exited, TypeOK
    <3>. HIDE DEF verdict
    <3>. QED  BY <3>1, <3>2, <3>3, FinishInv
  <2>7. CASE SinkBreaks(r)
    BY <2>7, QuietInv DEF SinkBreaks, HasProcess
  <2>. QED  BY <1>7, <2>1, <2>2, <2>3, <2>4, <2>5, <2>6, <2>7 DEF ProcessStep
<1>8. ASSUME NEW r \in Runs, Stop(r)  PROVE IInv'
  <2>1. /\ "killed" \in Terminal
        /\ sink \in [Runs -> {"null", "open", "broken"}]
        /\ launching \in SUBSET launching
    BY DEF TypeOK, Terminal
  <2>2. CASE StopQueued(r)
    <3>1. /\ Finish(r, "killed", sink, launching)
          /\ UNCHANGED <<collecting, closed, proc>>
          /\ status[r] = "queued"
      BY <2>2 DEF StopQueued
    <3>. QED  BY <2>1, <3>1, FinishInv DEF HasProcess
  <2>3. CASE StopRunning(r)
    <3>1. status[r] = "running" /\ ~Ended(r)
      BY <2>3 DEF StopRunning, IInv, RunInv
    <3>2. /\ \A s \in Runs : status'[s] = IF s = r THEN "killed" ELSE status[s]
          /\ \A s \in Runs : timers'[s] = IF s = r THEN "hard" ELSE timers[s]
      BY <2>3 DEF StopRunning, TypeOK
    <3>3. UNCHANGED <<outcome, exits, launching, collecting, gpuBusy, closed, proc>>
      BY <2>3 DEF StopRunning
    <3>. QED  BY <2>1, <3>1, <3>2, <3>3, QuietInv DEF HasProcess
  <2>5. CASE HardTimer(r)
    <3>1. \A s \in Runs : timers'[s] # "off" => timers[s] # "off"
      BY <2>5 DEF HardTimer, TypeOK
    <3>2. UNCHANGED <<status, outcome, exits, launching, collecting, gpuBusy,
                      closed, proc>>
      BY <2>5 DEF HardTimer
    <3>. QED  BY <3>1, <3>2, QuietInv DEF HasProcess
  <2>6. CASE GuardTimer(r)
    <3>1. /\ Finish(r, "killed", sink, launching)
          /\ UNCHANGED <<collecting, closed, proc>>
      BY <2>6 DEF GuardTimer
    <3>2. HasProcess(r)
      BY <2>6 DEF GuardTimer, IInv, RunInv
    <3>. QED  BY <2>1, <3>1, <3>2, FinishInv DEF HasProcess
  <2>. QED  BY <1>8, <2>2, <2>3, <2>5, <2>6 DEF Stop
<1>9. ASSUME NEW r \in Runs, Wait(r)  PROVE IInv'
  <2>1. UNCHANGED <<status, outcome, exits, launching, collecting, gpuBusy,
                    closed, proc, timers>>
    BY <1>9 DEF Wait, WaitFor, WaitTimeout
  <2>. QED  BY <2>1, QuietInv DEF HasProcess
<1>10. CASE Shutdown
  <2>1. \A s \in Runs :
          /\ status'[s] = IF status[s] \in {"queued", "running"} THEN "killed" ELSE status[s]
          /\ outcome'[s] = IF status[s] = "queued" THEN "killed" ELSE outcome[s]
          /\ exits'[s] = IF status[s] = "queued" THEN exits[s] + 1 ELSE exits[s]
          /\ timers'[s] = IF status[s] = "running" THEN "hard" ELSE timers[s]
    BY <1>10 DEF Shutdown, RunningIn
  <2>2. /\ UNCHANGED <<launching, proc, collecting, closed>>
        /\ gpuBusy' => gpuBusy
    BY <1>10 DEF Shutdown
  <2>3. \A s \in Runs : RunInv(s)'
    <3> SUFFICES ASSUME NEW s \in Runs  PROVE RunInv(s)'
      OBVIOUS
    <3>1. RunInv(s) /\ exits[s] \in Nat
      BY DEF IInv, TypeOK
    <3>. QED  BY <2>1, <2>2, <3>1 DEF RunInv, HasProcess, Ended, Terminal
  <2>4. GpuSlotHasHolder'
    BY <2>1, <2>2, RunsAssumption
       DEF IInv, RunInv, GpuSlotHasHolder, Live, HasProcess, Ended
  <2>. QED  BY <2>3, <2>4 DEF IInv
<1>11. CASE ShutdownDone
  BY <1>11, QuietInv DEF ShutdownDone, HasProcess
<1>12. CASE UNCHANGED vars
  BY <1>12, QuietInv DEF vars, HasProcess
<1>. QED
  BY <1>1, <1>2, <1>3, <1>4, <1>5, <1>6, <1>7, <1>8, <1>9, <1>10, <1>11, <1>12
     DEF Next, RunStep, Start, Launch

(* In every reachable state the inductive invariant holds. *)
THEOREM InvariantHolds == Spec => []IInv
BY InitInv, Invariance, TypeCorrect, PTL DEF Spec

(* A running status always has a live process behind it that is not over.   *)
THEOREM NoPhantom == Spec => []NoPhantomRun
<1>1. IInv => NoPhantomRun
  BY DEF IInv, RunInv, NoPhantomRun, Live, Ended
<1>. QED  BY <1>1, InvariantHolds, PTL

(* The GPU slot is never taken without a GPU run that will free it.          *)
THEOREM NoGpuLeak == Spec => []GpuSlotHasHolder
<1>1. IInv => GpuSlotHasHolder
  BY DEF IInv
<1>. QED  BY <1>1, InvariantHolds, PTL

(* The end of a run is announced once.                                       *)
THEOREM OneExit == Spec => []ExitOnce
<1>1. IInv => ExitOnce
  BY DEF IInv, RunInv, ExitOnce
<1>. QED  BY <1>1, InvariantHolds, PTL

(* No process is ever started for a run that is over.                        *)
THEOREM CancelWins == Spec => NoSpawnAfterEnd
<1> DEFINE NoSpawn == \A r \in Runs : Ended(r) => (HasProcess(r)' <=> HasProcess(r))
<1>1. TypeOK /\ IInv /\ [Next]_vars => [NoSpawn]_vars
  <2> SUFFICES ASSUME TypeOK, IInv, Next, NEW s \in Runs, Ended(s)
               PROVE  HasProcess(s)' <=> HasProcess(s)
    OBVIOUS
  <2>. USE DEF procVars, HasProcess
  <2>1. status[s] # "queued"
    BY DEF IInv, RunInv
  <2>2. ASSUME NEW r \in Runs, Start(r)  PROVE proc' = proc
    BY <2>2 DEF Start, StartRequest, StartQueued
  <2>3. ASSUME NEW r \in Runs, Launch(r)
        PROVE  HasProcess(s)' <=> HasProcess(s)
    BY <2>1, <2>3 DEF Launch, LaunchSkipped, LaunchSpawned, OpenFailed, SpawnFailed, StillQueued, TypeOK
  <2>4. ASSUME NEW r \in Runs, ProcessStep(r)
        PROVE  HasProcess(s)' <=> HasProcess(s)
    <3>1. \/ proc' = proc
          \/ \E how \in ExitKinds : ProcessExit(r, how)
          \/ ChildError(r) \/ ChildClose(r)
      BY <2>4 DEF ProcessStep, DivergedLine, ErrorLine, EndedLine, SinkBreaks
    <3>2. ASSUME NEW how \in ExitKinds, ProcessExit(r, how)
          PROVE  HasProcess(s)' <=> HasProcess(s)
      BY <3>2, RunsAssumption DEF ProcessExit, TypeOK
    <3>3. ChildError(r) => (HasProcess(s)' <=> HasProcess(s))
      BY DEF ChildError, TypeOK
    <3>4. ChildClose(r) => (HasProcess(s)' <=> HasProcess(s))
      BY DEF ChildClose, Exited, TypeOK
    <3>. QED  BY <3>1, <3>2, <3>3, <3>4
  <2>5. ASSUME NEW r \in Runs, Stop(r)  PROVE proc' = proc
    BY <2>5 DEF Stop, StopQueued, StopRunning, HardTimer, GuardTimer
  <2>6. ASSUME NEW r \in Runs, Wait(r)  PROVE proc' = proc
    BY <2>6 DEF Wait, WaitFor, WaitTimeout
  <2>7. Shutdown \/ ShutdownDone => proc' = proc
    BY DEF Shutdown, ShutdownDone
  <2>. QED  BY <2>2, <2>3, <2>4, <2>5, <2>6, <2>7 DEF Next, RunStep
<1>2. NoSpawnAfterEnd <=> [][NoSpawn]_vars
  BY DEF NoSpawnAfterEnd
<1>. QED  BY <1>1, <1>2, TypeCorrect, InvariantHolds, PTL DEF Spec

-----------------------------------------------------------------------------
(* The run manager implements RunLifecycle. *)

(* A handler under which no run ends, starts or is accepted is a stutter.    *)
LEMMA Stutter ==
    ASSUME TypeOK, IInv, IInv', UNCHANGED outcome,
           \A s \in Runs : HasProcess(s)' <=> HasProcess(s),
           \A s \in Runs : (status[s] = "absent") <=> (status'[s] = "absent")
    PROVE  UNCHANGED Lifecycle!lifeVars
<1>1. \A s \in Runs : LifeOf(s)' = LifeOf(s)
  BY DEF LifeOf, Ended
<1>. QED  BY <1>1 DEF Lifecycle!lifeVars

(* finish() is an End, a GiveUp or a stutter of the abstract run.            *)
LEMMA FinishLife ==
    ASSUME TypeOK, IInv, NEW r \in Runs, NEW verdict \in Terminal,
           NEW files \in [Runs -> {"null", "open", "broken"}],
           NEW opening \in SUBSET launching, Finish(r, verdict, files, opening),
           \/ Ended(r)
           \/ HasProcess(r)
           \/ status[r] = "queued" /\ verdict \in {"killed", "failed"},
           \A s \in Runs : HasProcess(s)' <=> HasProcess(s)
    PROVE  [Lifecycle!LifeNext]_Lifecycle!lifeVars
<1>0. opening \in SUBSET Runs
  BY DEF TypeOK
<1>1. CASE Ended(r)
  <2>1. UNCHANGED <<status, outcome>>
    BY <1>0, <1>1, FinishEffect DEF infoVars
  <2>2. \A s \in Runs : LifeOf(s)' = LifeOf(s)
    BY <2>1 DEF LifeOf, Ended
  <2>. QED  BY <2>1, <2>2 DEF Lifecycle!lifeVars
<1>2. CASE ~Ended(r)
  <2>1. PICK final \in Terminal :
          /\ final = IF status[r] = "diverged" /\ verdict = "failed"
                       THEN "diverged" ELSE verdict
          /\ status' = [status EXCEPT ![r] = final]
          /\ outcome' = [outcome EXCEPT ![r] = final]
    BY <1>0, <1>2, FinishEffect
  <2>2. /\ Ended(r)'
        /\ \A s \in Runs \ {r} : outcome'[s] = outcome[s] /\ status'[s] = status[s]
    BY <2>1 DEF TypeOK, Ended, Terminal
  <2>3. /\ LifeOf(r)' = "over"
        /\ \A s \in Runs \ {r} : LifeOf(s)' = LifeOf(s)
    BY <2>2 DEF LifeOf, Ended
  <2>4. [s \in Runs |-> LifeOf(s)]' = [[s \in Runs |-> LifeOf(s)] EXCEPT ![r] = "over"]
    BY <2>3
  <2>5. final \in Lifecycle!Outcomes
    BY DEF Terminal, Lifecycle!Outcomes
  <2>6. CASE HasProcess(r)
    <3>1. LifeOf(r) = "live"
      BY <1>2, <2>6 DEF LifeOf
    <3>2. Lifecycle!End(r, final)
      BY <2>1, <2>4, <2>5, <3>1 DEF Lifecycle!End
    <3>. QED  BY <2>5, <3>2 DEF Lifecycle!LifeNext
  <2>7. CASE ~HasProcess(r)
    <3>1. status[r] = "queued" /\ final \in {"killed", "failed"}
      BY <1>2, <2>1, <2>7
    <3>2. LifeOf(r) = "waiting"
      BY <1>2, <2>7, <3>1 DEF LifeOf
    <3>3. Lifecycle!GiveUp(r, final)
      BY <2>1, <2>4, <3>1, <3>2 DEF Lifecycle!GiveUp
    <3>. QED  BY <2>5, <3>3 DEF Lifecycle!LifeNext
  <2>. QED  BY <2>6, <2>7
<1>. QED  BY <1>1, <1>2

LEMMA LifeInit == Init => Lifecycle!LifeInit
BY DEF Init, Lifecycle!LifeInit, LifeOf, Ended, HasProcess

LEMMA LifeStep ==
    TypeOK /\ TypeOK' /\ IInv /\ IInv' /\ [Next]_vars
        => [Lifecycle!LifeNext]_Lifecycle!lifeVars
<1> SUFFICES ASSUME TypeOK, TypeOK', IInv, IInv', [Next]_vars
             PROVE  [Lifecycle!LifeNext]_Lifecycle!lifeVars
  OBVIOUS
<1>. USE DEF infoVars, lineVars, queueVars, procVars, stopVars, downVars
<1>1. ASSUME NEW r \in Runs, StartRequest(r)
      PROVE  [Lifecycle!LifeNext]_Lifecycle!lifeVars
  BY <1>1, Stutter DEF StartRequest, HasProcess
<1>2. ASSUME NEW r \in Runs, StartQueued(r)
      PROVE  [Lifecycle!LifeNext]_Lifecycle!lifeVars
  <2>1. status[r] = "absent" /\ ~Ended(r) /\ ~HasProcess(r)
    BY <1>2 DEF StartQueued, IInv, RunInv
  <2>2. /\ \A s \in Runs : status'[s] = IF s = r THEN "queued" ELSE status[s]
        /\ UNCHANGED <<outcome, proc>>
    BY <1>2 DEF StartQueued, TypeOK
  <2>3. \A s \in Runs : LifeOf(s)' = IF s = r THEN "waiting" ELSE LifeOf(s)
    BY <2>1, <2>2 DEF LifeOf, Ended, HasProcess
  <2>4. LifeOf(r) = "new"
    BY <2>1 DEF LifeOf
  <2>5. Lifecycle!Submit(r)
    BY <2>2, <2>3, <2>4 DEF Lifecycle!Submit
  <2>. QED  BY <2>5 DEF Lifecycle!LifeNext
<1>3. ASSUME NEW r \in Runs, LaunchSkipped(r)
      PROVE  [Lifecycle!LifeNext]_Lifecycle!lifeVars
  BY <1>3, Stutter DEF LaunchSkipped, HasProcess
<1>4. ASSUME NEW r \in Runs, LaunchSpawned(r)
      PROVE  [Lifecycle!LifeNext]_Lifecycle!lifeVars
  <2>1. status[r] = "queued" /\ ~Ended(r) /\ ~HasProcess(r)
    BY <1>4 DEF LaunchSpawned, StillQueued, IInv, RunInv
  <2>2. /\ \A s \in Runs : status'[s] = IF s = r THEN "running" ELSE status[s]
        /\ \A s \in Runs \ {r} : proc'[s] = proc[s]
        /\ HasProcess(r)'
        /\ UNCHANGED outcome
    BY <1>4 DEF LaunchSpawned, StillQueued, TypeOK, HasProcess
  <2>3. \A s \in Runs : LifeOf(s)' = IF s = r THEN "live" ELSE LifeOf(s)
    BY <2>1, <2>2 DEF LifeOf, Ended, HasProcess
  <2>4. LifeOf(r) = "waiting"
    BY <2>1 DEF LifeOf
  <2>5. Lifecycle!Begin(r)
    BY <2>2, <2>3, <2>4 DEF Lifecycle!Begin
  <2>. QED  BY <2>5 DEF Lifecycle!LifeNext
<1>5. ASSUME NEW r \in Runs, OpenFailed(r)
      PROVE  [Lifecycle!LifeNext]_Lifecycle!lifeVars
  <2>1. /\ "failed" \in Terminal
        /\ sink \in [Runs -> {"null", "open", "broken"}]
        /\ launching \ {r} \in SUBSET launching
    BY DEF TypeOK, Terminal
  <2>2. Finish(r, "failed", sink, launching \ {r}) /\ proc' = proc
    BY <1>5 DEF OpenFailed
  <2>3. Ended(r) \/ status[r] = "queued"
    BY <1>5 DEF OpenFailed, IInv, RunInv
  <2>. QED  BY <2>1, <2>2, <2>3, FinishLife DEF HasProcess
<1>6. ASSUME NEW r \in Runs, SpawnFailed(r)
      PROVE  [Lifecycle!LifeNext]_Lifecycle!lifeVars
  <2>1. /\ "failed" \in Terminal
        /\ sink' \in [Runs -> {"null", "open", "broken"}]
        /\ launching \ {r} \in SUBSET launching
    BY DEF TypeOK, Terminal
  <2>2. /\ Finish(r, "failed", sink', launching \ {r})
        /\ proc' = proc
        /\ status[r] = "queued"
    BY <1>6 DEF SpawnFailed, StillQueued
  <2>. QED  BY <2>1, <2>2, FinishLife DEF HasProcess
<1>7. ASSUME NEW r \in Runs, ProcessStep(r)
      PROVE  [Lifecycle!LifeNext]_Lifecycle!lifeVars
  <2>1. CASE DivergedLine(r)
    <3>1. status[r] # "absent"
      BY <2>1 DEF DivergedLine, Prints, Exited, IInv, RunInv, HasProcess
    <3>2. \A s \in Runs : status'[s] = IF s = r THEN "diverged" ELSE status[s]
      BY <2>1 DEF DivergedLine, TypeOK
    <3>3. UNCHANGED <<outcome, proc>>
      BY <2>1 DEF DivergedLine
    <3>. QED  BY <3>1, <3>2, <3>3, Stutter DEF HasProcess
  <2>2. CASE ErrorLine(r)
    BY <2>2, Stutter DEF ErrorLine, HasProcess
  <2>3. ASSUME NEW word \in EndWords, EndedLine(r, word)
        PROVE  [Lifecycle!LifeNext]_Lifecycle!lifeVars
    BY <2>3, Stutter DEF EndedLine, HasProcess
  <2>4. ASSUME NEW how \in ExitKinds, ProcessExit(r, how)
        PROVE  [Lifecycle!LifeNext]_Lifecycle!lifeVars
    <3>1. \A s \in Runs : HasProcess(s)' <=> HasProcess(s)
      BY <2>4, RunsAssumption DEF ProcessExit, HasProcess, TypeOK
    <3>2. UNCHANGED <<status, outcome>>
      BY <2>4 DEF ProcessExit
    <3>. QED  BY <3>1, <3>2, Stutter
  <2>5. CASE ChildError(r)
    <3>1. /\ "failed" \in Terminal
          /\ sink \in [Runs -> {"null", "open", "broken"}]
          /\ launching \in SUBSET launching
      BY DEF TypeOK, Terminal
    <3>2. Finish(r, "failed", sink, launching)
      BY <2>5 DEF ChildError
    <3>3. HasProcess(r) /\ \A s \in Runs : HasProcess(s)' <=> HasProcess(s)
      BY <2>5 DEF ChildError, HasProcess, TypeOK
    <3>. QED  BY <3>1, <3>2, <3>3, FinishLife
  <2>6. CASE ChildClose(r)
    <3> DEFINE verdict == CloseStatus(proc[r], status[r], endWord[r], errored[r])
    <3>1. /\ verdict \in Terminal
          /\ sink \in [Runs -> {"null", "open", "broken"}]
          /\ launching \in SUBSET launching
      BY CloseStatusType DEF TypeOK
    <3>2. Finish(r, verdict, sink, launching)
      BY <2>6 DEF ChildClose
    <3>3. HasProcess(r) /\ \A s \in Runs : HasProcess(s)' <=> HasProcess(s)
      BY <2>6 DEF ChildClose, HasProcess, Exited, TypeOK
    <3>. HIDE DEF verdict
    <3>. QED  BY <3>1, <3>2, <3>3, FinishLife
  <2>7. CASE SinkBreaks(r)
    BY <2>7, Stutter DEF SinkBreaks, HasProcess
  <2>. QED  BY <1>7, <2>1, <2>2, <2>3, <2>4, <2>5, <2>6, <2>7 DEF ProcessStep
<1>8. ASSUME NEW r \in Runs, Stop(r)
      PROVE  [Lifecycle!LifeNext]_Lifecycle!lifeVars
  <2>1. /\ "killed" \in Terminal
        /\ sink \in [Runs -> {"null", "open", "broken"}]
        /\ launching \in SUBSET launching
    BY DEF TypeOK, Terminal
  <2>2. CASE StopQueued(r)
    <3>1. /\ Finish(r, "killed", sink, launching)
          /\ proc' = proc
          /\ status[r] = "queued"
      BY <2>2 DEF StopQueued
    <3>. QED  BY <2>1, <3>1, FinishLife DEF HasProcess
  <2>3. CASE StopRunning(r)
    <3>1. \A s \in Runs : status'[s] = IF s = r THEN "killed" ELSE status[s]
      BY <2>3 DEF StopRunning, TypeOK
    <3>2. status[r] = "running" /\ UNCHANGED <<outcome, proc>>
      BY <2>3 DEF StopRunning
    <3>. QED  BY <3>1, <3>2, Stutter DEF HasProcess
  <2>5. CASE HardTimer(r)
    BY <2>5, Stutter DEF HardTimer, HasProcess
  <2>6. CASE GuardTimer(r)
    <3>1. Finish(r, "killed", sink, launching) /\ proc' = proc
      BY <2>6 DEF GuardTimer
    <3>2. HasProcess(r)
      BY <2>6 DEF GuardTimer, IInv, RunInv
    <3>. QED  BY <2>1, <3>1, <3>2, FinishLife DEF HasProcess
  <2>. QED  BY <1>8, <2>2, <2>3, <2>5, <2>6 DEF Stop
<1>9. ASSUME NEW r \in Runs, Wait(r)
      PROVE  [Lifecycle!LifeNext]_Lifecycle!lifeVars
  <2>1. UNCHANGED <<status, outcome, proc>>
    BY <1>9 DEF Wait, WaitFor, WaitTimeout
  <2>. QED  BY <2>1, Stutter DEF HasProcess
<1>10. CASE Shutdown
  <2>1. \A s \in Runs :
          /\ status'[s] = IF status[s] \in {"queued", "running"} THEN "killed" ELSE status[s]
          /\ outcome'[s] = IF status[s] = "queued" THEN "killed" ELSE outcome[s]
    BY <1>10 DEF Shutdown, RunningIn
  <2>2. /\ proc' = proc
        /\ outcome' = [s \in Runs |-> IF status[s] = "queued" THEN "killed" ELSE outcome[s]]
    BY <1>10 DEF Shutdown
  <2>3. \A s \in Runs : LifeOf(s) = "waiting" <=> status[s] = "queued"
    <3> SUFFICES ASSUME NEW s \in Runs
                 PROVE  LifeOf(s) = "waiting" <=> status[s] = "queued"
      OBVIOUS
    <3>1. RunInv(s) /\ status[s] \in {"absent", "queued", "running"} \cup Terminal
      BY DEF IInv, TypeOK
    <3>. QED  BY <3>1 DEF RunInv, LifeOf
  <2>4. \A s \in Runs : LifeOf(s)' = IF LifeOf(s) = "waiting" THEN "over" ELSE LifeOf(s)
    <3> SUFFICES ASSUME NEW s \in Runs
                 PROVE  LifeOf(s)' = IF LifeOf(s) = "waiting" THEN "over" ELSE LifeOf(s)
      OBVIOUS
    <3>. QED  BY <2>1, <2>2, <2>3 DEF LifeOf, Ended, HasProcess
  <2>5. Lifecycle!CancelWaiting
    BY <2>2, <2>3, <2>4 DEF Lifecycle!CancelWaiting
  <2>. QED  BY <2>5 DEF Lifecycle!LifeNext
<1>11. CASE ShutdownDone
  BY <1>11, Stutter DEF ShutdownDone, HasProcess
<1>12. CASE UNCHANGED vars
  BY <1>12, Stutter DEF vars, HasProcess
<1>. QED
  BY <1>1, <1>2, <1>3, <1>4, <1>5, <1>6, <1>7, <1>8, <1>9, <1>10, <1>11, <1>12
     DEF Next, RunStep, Start, Launch

(* Every run waits, lives and ends the way RunLifecycle allows, and its      *)
(* announced outcome is final, whatever users, drivers and timers do.        *)
THEOREM Refinement == Spec => ImplementsLifecycle
<1>1. Spec => [][Lifecycle!LifeNext]_Lifecycle!lifeVars
  BY LifeStep, TypeCorrect, InvariantHolds, PTL DEF Spec
<1>2. Spec => Lifecycle!LifeInit
  BY LifeInit DEF Spec
<1>. QED  BY <1>1, <1>2, PTL DEF ImplementsLifecycle, Lifecycle!LifeSpec
-----------------------------------------------------------------------------
(* The end of a run, what is known of it and the verdict on it.              *)

(* What a handler that ends a live run does, in full. *)
LEMMA FinishEnds ==
    ASSUME TypeOK, NEW r \in Runs, NEW verdict \in Terminal,
           NEW files \in [Runs -> {"null", "open", "broken"}],
           NEW opening \in SUBSET Runs, Finish(r, verdict, files, opening), ~Ended(r)
    PROVE  /\ FinalStatus(r, verdict) \in Terminal
           /\ status' = [status EXCEPT ![r] = FinalStatus(r, verdict)]
           /\ outcome' = [outcome EXCEPT ![r] = FinalStatus(r, verdict)]
           /\ SaveInfo({r}, files, FinalStatus(r, verdict))
           /\ waits' = [waits EXCEPT ![r] = {c \in @ : FinalStatus(r, verdict) \notin c}]
           /\ gpuBusy' = (gpuBusy /\ r \notin GpuRuns)
           /\ Pump(status', gpuBusy', queue, opening)
<1>1. FinalStatus(r, verdict) \in Terminal
  BY DEF FinalStatus, Terminal
<1>. HIDE DEF FinalStatus
<1>. QED  BY <1>1 DEF Finish, AlreadyOver, Wake, FreesSlot

LEMMA FinishOver ==
    ASSUME NEW r \in Runs, NEW verdict, NEW files, NEW opening,
           Finish(r, verdict, files, opening), Ended(r)
    PROVE  /\ launching' = opening
           /\ UNCHANGED <<infoVars, timers, waits, gpuBusy, queue>>
BY DEF Finish, AlreadyOver

(* Until a run is over, its status remembers that it was signalled or that   *)
(* it diverged.                                                              *)
VerdictInv(r) ==
    /\ sig[r] # "none" => proc[r] \notin {"none", "unspawned"}
    /\ ~Ended(r) => status[r] \notin {"done", "failed"}
    /\ sig[r] # "none" /\ ~Ended(r) => status[r] \in {"killed", "diverged"}
    /\ status[r] = "diverged" /\ ~Ended(r) => errored[r]

(* What the waiters and run.json know of a run. *)
KnownInv(r) ==
    /\ Ended(r) => \A cond \in waits[r] : status[r] \notin cond
    /\ saved[r] \in {"none", "running", "torn", outcome[r]}
    /\ Ended(r) => saved[r] = outcome[r] \/ r \in unsaved

EndInv == \A r \in Runs : VerdictInv(r) /\ KnownInv(r)

(* What a handler that calls finish() keeps: the others are not touched,     *)
(* and the one that ends is over.                                            *)
LEMMA FinishEndInv ==
    ASSUME TypeOK, TypeOK', IInv, EndInv, NEW r \in Runs, NEW verdict \in Terminal,
           NEW files \in [Runs -> {"null", "open", "broken"}],
           NEW opening \in SUBSET Runs, Finish(r, verdict, files, opening),
           sig[r] # "none" => proc'[r] \notin {"none", "unspawned"},
           \A s \in Runs : s # r => proc'[s] = proc[s],
           UNCHANGED <<sig, errored>>
    PROVE  EndInv'
<1>2. CASE Ended(r)
  <2>1. UNCHANGED <<status, outcome, exits, saved, unsaved, waits>>
    BY <1>2, FinishOver DEF infoVars
  <2>2. ASSUME NEW s \in Runs PROVE VerdictInv(s)' /\ KnownInv(s)'
    BY <1>2, <2>1 DEF EndInv, VerdictInv, KnownInv, Ended
  <2>. QED  BY <2>2 DEF EndInv
<1>3. CASE ~Ended(r)
  <2> DEFINE final == FinalStatus(r, verdict)
  <2>1. /\ final \in Terminal
        /\ status' = [status EXCEPT ![r] = final]
        /\ outcome' = [outcome EXCEPT ![r] = final]
        /\ SaveInfo({r}, files, final)
        /\ waits' = [waits EXCEPT ![r] = {c \in @ : final \notin c}]
    BY <1>3, FinishEnds
  <2> HIDE DEF final
  <2>2. /\ \A s \in Runs \ {r} : saved'[s] = saved[s] /\ (s \in unsaved' <=> s \in unsaved)
        /\ saved'[r] \in {saved[r], "torn", final}
        /\ saved'[r] = final \/ r \in unsaved'
    <3>1. {r} \in SUBSET Runs /\ final \in {"running"} \cup Terminal
      BY <2>1
    <3>2. SaveInfo({r}, files, final)
      BY <2>1
    <3>3. /\ \A s \in Runs \ {r} : saved'[s] = saved[s] /\ (s \in unsaved' <=> s \in unsaved)
          /\ \A s \in {r} : /\ saved'[s] \in {saved[s], "torn", final}
                            /\ saved'[s] = final \/ s \in unsaved'
      BY <3>1, <3>2, SaveEffect
    <3>. QED  BY <3>3
  <2>3. ASSUME NEW s \in Runs, s # r PROVE VerdictInv(s)' /\ KnownInv(s)'
    <3>1. /\ status'[s] = status[s] /\ outcome'[s] = outcome[s] /\ saved'[s] = saved[s]
          /\ waits'[s] = waits[s] /\ (s \in unsaved' <=> s \in unsaved)
      BY <2>1, <2>2, <2>3 DEF TypeOK
    <3>. QED  BY <2>3, <3>1 DEF EndInv, VerdictInv, KnownInv, Ended
  <2>4. VerdictInv(r)' /\ KnownInv(r)'
    <3>1. /\ status'[r] = final /\ outcome'[r] = final
          /\ waits'[r] = {c \in waits[r] : final \notin c}
      BY <2>1 DEF TypeOK
    <3>2. final # "none"
      BY <2>1 DEF Terminal
    <3>3. saved[r] \in {"none", "running", "torn"}
      BY <1>3 DEF EndInv, KnownInv, Ended
    <3>. QED  BY <2>2, <3>1, <3>2, <3>3 DEF EndInv, VerdictInv, KnownInv, Ended
  <2>. QED  BY <2>3, <2>4 DEF EndInv
<1>. QED  BY <1>2, <1>3

LEMMA InitEndInv == Init => EndInv
BY DEF Init, EndInv, VerdictInv, KnownInv, Ended

LEMMA EndInvStep == TypeOK /\ TypeOK' /\ IInv /\ EndInv /\ [Next]_vars => EndInv'
<1> SUFFICES ASSUME TypeOK, TypeOK', IInv, EndInv, [Next]_vars  PROVE EndInv'
  OBVIOUS
<1>. USE DEF infoVars, lineVars, queueVars, procVars, stopVars, downVars
<1> DEFINE Both(s) == VerdictInv(s) /\ KnownInv(s)
<1>0. /\ "killed" \in Terminal /\ "failed" \in Terminal
      /\ sink \in [Runs -> {"null", "open", "broken"}]
      /\ sink' \in [Runs -> {"null", "open", "broken"}]
      /\ launching \in SUBSET Runs /\ \A r \in Runs : launching \ {r} \in SUBSET Runs
  BY DEF TypeOK, Terminal
<1>1. ASSUME NEW r \in Runs, StartRequest(r)  PROVE EndInv'
  BY <1>1 DEF EndInv, VerdictInv, KnownInv, StartRequest, Ended
<1>2. ASSUME NEW r \in Runs, StartQueued(r)  PROVE EndInv'
  <2>1. /\ status' = [status EXCEPT ![r] = "queued"]
        /\ UNCHANGED <<outcome, saved, unsaved, sig, proc, errored, waits>>
    BY <1>2 DEF StartQueued
  <2>2. status[r] = "absent" /\ ~Ended(r) /\ ~HasProcess(r)
    BY <1>2 DEF StartQueued, IInv, RunInv
  <2>3. ASSUME NEW s \in Runs  PROVE Both(s)'
    BY <2>1, <2>2 DEF EndInv, VerdictInv, KnownInv, Ended, HasProcess, TypeOK
  <2>. QED  BY <2>3 DEF EndInv
<1>3. ASSUME NEW r \in Runs, LaunchSkipped(r)  PROVE EndInv'
  BY <1>3 DEF LaunchSkipped, EndInv, VerdictInv, KnownInv, Ended
<1>4. ASSUME NEW r \in Runs, LaunchSpawned(r)  PROVE EndInv'
  <2>1. ~Ended(r) /\ sig[r] = "none"
    BY <1>4 DEF LaunchSpawned, StillQueued, IInv, RunInv, EndInv, VerdictInv, HasProcess
  <2>2. /\ status' = [status EXCEPT ![r] = "running"]
        /\ \A s \in Runs : s # r => proc'[s] = proc[s]
        /\ SaveInfo({r}, sink', "running")
        /\ UNCHANGED <<outcome, sig, errored, waits>>
    BY <1>4 DEF LaunchSpawned, TypeOK
  <2>3. /\ \A s \in Runs \ {r} : saved'[s] = saved[s] /\ (s \in unsaved' <=> s \in unsaved)
        /\ saved'[r] \in {saved[r], "torn", "running"}
    BY <2>2, SaveEffect
  <2>4. ASSUME NEW s \in Runs  PROVE Both(s)'
    <3>1. CASE s = r
      BY <2>1, <2>2, <2>3, <3>1 DEF EndInv, VerdictInv, KnownInv, Ended, TypeOK
    <3>2. CASE s # r
      BY <2>2, <2>3, <3>2 DEF EndInv, VerdictInv, KnownInv, Ended, TypeOK
    <3>. QED  BY <3>1, <3>2
  <2>. QED  BY <2>4 DEF EndInv
<1>5. ASSUME NEW r \in Runs, OpenFailed(r)  PROVE EndInv'
  <2>1. /\ Finish(r, "failed", sink, launching \ {r})
        /\ UNCHANGED <<proc, sig, errored>>
    BY <1>5 DEF OpenFailed
  <2>2. sig[r] # "none" => proc[r] \notin {"none", "unspawned"}
    BY DEF EndInv, VerdictInv
  <2>. QED  BY <1>0, <2>1, <2>2, FinishEndInv
<1>6. ASSUME NEW r \in Runs, SpawnFailed(r)  PROVE EndInv'
  <2> DEFINE files == sink'
  <2>1. /\ Finish(r, "failed", files, launching \ {r})
        /\ files \in [Runs -> {"null", "open", "broken"}]
        /\ UNCHANGED <<proc, sig, errored>>
    BY <1>0, <1>6 DEF SpawnFailed
  <2>2. sig[r] # "none" => proc[r] \notin {"none", "unspawned"}
    BY DEF EndInv, VerdictInv
  <2>. HIDE DEF files
  <2>. QED  BY <1>0, <2>1, <2>2, FinishEndInv
<1>7. ASSUME NEW r \in Runs, DivergedLine(r)  PROVE EndInv'
  <2>1. proc[r] # "none" /\ proc[r] # "unspawned"
    BY <1>7 DEF DivergedLine, Prints, Exited
  <2>2. status[r] \notin {"absent", "queued"}
    BY <2>1 DEF IInv, RunInv, HasProcess
  <2>3. /\ status' = [status EXCEPT ![r] = "diverged"]
        /\ errored' = [errored EXCEPT ![r] = TRUE]
        /\ waits' = [waits EXCEPT ![r] = {c \in @ : "diverged" \notin c}]
        /\ UNCHANGED <<outcome, saved, unsaved, sig, proc>>
    BY <1>7 DEF DivergedLine, Wake
  <2>4. ASSUME NEW s \in Runs  PROVE Both(s)'
    <3>1. CASE s = r
      BY <2>1, <2>2, <2>3, <3>1 DEF EndInv, VerdictInv, KnownInv, Ended, TypeOK
    <3>2. CASE s # r
      BY <2>3, <3>2 DEF EndInv, VerdictInv, KnownInv, Ended, TypeOK
    <3>. QED  BY <3>1, <3>2
  <2>. QED  BY <2>4 DEF EndInv
<1>8. ASSUME NEW r \in Runs, ErrorLine(r) \/ \E word \in EndWords : EndedLine(r, word)
      PROVE  EndInv'
  <2>1. /\ \A s \in Runs : errored[s] => errored'[s]
        /\ \A s \in Runs : waits'[s] \subseteq waits[s]
        /\ UNCHANGED <<status, outcome, saved, unsaved, sig, proc>>
    <3>1. UNCHANGED <<status, outcome, saved, unsaved, sig, proc>>
      BY <1>8 DEF ErrorLine, EndedLine
    <3>2. waits' = [waits EXCEPT ![r] = {c \in @ : status[r] \notin c}]
      BY <1>8 DEF ErrorLine, EndedLine, Wake
    <3>3. \E now \in BOOLEAN : (errored[r] => now) /\ errored' = [errored EXCEPT ![r] = now]
      <4>1. CASE ErrorLine(r)
        BY <4>1 DEF ErrorLine
      <4>2. ASSUME NEW word \in EndWords, EndedLine(r, word)
            PROVE  errored' = [errored EXCEPT ![r] = errored[r] \/ word # "budget"]
        BY <4>2 DEF EndedLine
      <4>. QED  BY <1>8, <4>1, <4>2
    <3>4. \A s \in Runs : waits'[s] \subseteq waits[s]
      BY <3>2 DEF TypeOK
    <3>5. \A s \in Runs : errored[s] => errored'[s]
      BY <3>3 DEF TypeOK
    <3>. QED  BY <3>1, <3>4, <3>5
  <2>2. ASSUME NEW s \in Runs  PROVE Both(s)'
    BY <2>1 DEF EndInv, VerdictInv, KnownInv, Ended
  <2>. QED  BY <2>2 DEF EndInv
<1>9. ASSUME NEW r \in Runs, NEW how \in ExitKinds, ProcessExit(r, how)  PROVE EndInv'
  <2>1. how \notin {"none", "unspawned"}
    BY RunsAssumption
  <2>2. /\ proc' = [proc EXCEPT ![r] = how]
        /\ UNCHANGED <<status, outcome, saved, unsaved, sig, errored, waits>>
    BY <1>9 DEF ProcessExit
  <2>3. ASSUME NEW s \in Runs  PROVE Both(s)'
    BY <2>1, <2>2 DEF EndInv, VerdictInv, KnownInv, Ended, TypeOK
  <2>. QED  BY <2>3 DEF EndInv
<1>10. ASSUME NEW r \in Runs, ChildError(r) \/ ChildClose(r)  PROVE EndInv'
  <2>1. PICK verdict \in Terminal : Finish(r, verdict, sink, launching)
    BY <1>0, <1>10, CloseStatusType DEF ChildError, ChildClose
  <2>2. /\ UNCHANGED <<sig, errored>>
        /\ proc' = [proc EXCEPT ![r] = "nonzero"] \/ proc' = [proc EXCEPT ![r] = "closed"]
    BY <1>10 DEF ChildError, ChildClose
  <2>3. /\ proc'[r] \notin {"none", "unspawned"}
        /\ \A s \in Runs : s # r => proc'[s] = proc[s]
    BY <2>2 DEF TypeOK
  <2>. QED  BY <1>0, <2>1, <2>2, <2>3, FinishEndInv
<1>11. ASSUME NEW r \in Runs, SinkBreaks(r)  PROVE EndInv'
  BY <1>11 DEF SinkBreaks, EndInv, VerdictInv, KnownInv, Ended
<1>12. ASSUME NEW r \in Runs, StopQueued(r) \/ GuardTimer(r)  PROVE EndInv'
  <2>1. /\ Finish(r, "killed", sink, launching)
        /\ UNCHANGED <<proc, sig, errored>>
    BY <1>12 DEF StopQueued, GuardTimer
  <2>2. sig[r] # "none" => proc[r] \notin {"none", "unspawned"}
    BY DEF EndInv, VerdictInv
  <2>. QED  BY <1>0, <2>1, <2>2, FinishEndInv
<1>13. ASSUME NEW r \in Runs, StopRunning(r)  PROVE EndInv'
  <2>1. /\ status[r] = "running" /\ status' = [status EXCEPT ![r] = "killed"]
        /\ \A s \in Runs : sig'[s] # "none" => sig[s] # "none" \/ (s = r /\ proc[r] = "alive")
        /\ UNCHANGED <<outcome, saved, unsaved, errored, proc, waits>>
    BY <1>13 DEF StopRunning, Signalled, TypeOK
  <2>2. ~Ended(r)
    BY <2>1 DEF IInv, RunInv
  <2>3. ASSUME NEW s \in Runs  PROVE Both(s)'
    BY <2>1, <2>2 DEF EndInv, VerdictInv, KnownInv, Ended, TypeOK
  <2>. QED  BY <2>3 DEF EndInv
<1>14. ASSUME NEW r \in Runs, HardTimer(r)  PROVE EndInv'
  <2>1. UNCHANGED <<sig, status, outcome, saved, unsaved, errored, proc, waits>>
    BY <1>14 DEF HardTimer, IInv, RunInv
  <2>. QED  BY <2>1 DEF EndInv, VerdictInv, KnownInv, Ended
<1>15. ASSUME NEW r \in Runs, Wait(r)  PROVE EndInv'
  <2>1. /\ UNCHANGED <<status, outcome, saved, unsaved, sig, errored, proc>>
        /\ \A s \in Runs : \A c \in waits'[s] : c \in waits[s] \/ (s = r /\ status[r] \notin c)
    BY <1>15 DEF Wait, WaitFor, WaitTimeout, TypeOK
  <2>2. ASSUME NEW s \in Runs  PROVE Both(s)'
    BY <2>1 DEF EndInv, VerdictInv, KnownInv, Ended
  <2>. QED  BY <2>2 DEF EndInv
<1>16. CASE Shutdown
  <2> DEFINE queued == {s \in Runs : status[s] = "queued"}
  <2>0. SaveInfo(queued, sink, "killed") /\ queued \in SUBSET Runs
    BY <1>16 DEF Shutdown
  <2>. HIDE DEF queued
  <2>1. /\ \A s \in Runs \ queued : saved'[s] = saved[s] /\ (s \in unsaved' <=> s \in unsaved)
        /\ \A s \in queued : /\ saved'[s] \in {saved[s], "torn", "killed"}
                             /\ saved'[s] = "killed" \/ s \in unsaved'
    BY <1>0, <2>0, SaveEffect DEF Terminal
  <2>2. ASSUME NEW s \in Runs, status[s] = "queued"  PROVE Both(s)'
    <3>1. /\ status'[s] = "killed" /\ outcome'[s] = "killed"
          /\ waits'[s] = {c \in waits[s] : "killed" \notin c}
          /\ sig'[s] = sig[s] /\ UNCHANGED <<proc, errored>>
      BY <1>16, <2>2 DEF Shutdown, RunningIn
    <3>2. saved[s] \in {"none", "running", "torn"}
      BY <2>2 DEF EndInv, KnownInv, IInv, RunInv, Ended
    <3>. QED  BY <2>1, <2>2, <3>1, <3>2 DEF EndInv, VerdictInv, KnownInv, Ended, queued
  <2>3. ASSUME NEW s \in Runs, status[s] = "running"  PROVE Both(s)'
    <3>1. /\ status'[s] = "killed" /\ outcome'[s] = outcome[s]
          /\ waits'[s] = waits[s]
          /\ sig'[s] = sig[s] \/ proc[s] = "alive"
          /\ UNCHANGED <<proc, errored>>
      BY <1>16, <2>3 DEF Shutdown, RunningIn
    <3>2. ~Ended(s)
      BY <2>3 DEF IInv, RunInv
    <3>. QED  BY <2>1, <2>3, <3>1, <3>2 DEF EndInv, VerdictInv, KnownInv, Ended, queued
  <2>4. ASSUME NEW s \in Runs, status[s] \notin {"queued", "running"}  PROVE Both(s)'
    <3>1. /\ status'[s] = status[s] /\ outcome'[s] = outcome[s]
          /\ waits'[s] = waits[s] /\ sig'[s] = sig[s]
          /\ UNCHANGED <<proc, errored>>
      BY <1>16, <2>4 DEF Shutdown, RunningIn
    <3>. QED  BY <2>1, <2>4, <3>1 DEF EndInv, VerdictInv, KnownInv, Ended, queued
  <2>. QED  BY <2>2, <2>3, <2>4 DEF EndInv
<1>17. CASE ShutdownDone \/ UNCHANGED vars
  BY <1>17 DEF EndInv, VerdictInv, KnownInv, Ended, ShutdownDone, vars
<1>. QED
  BY <1>1, <1>2, <1>3, <1>4, <1>5, <1>6, <1>7, <1>8, <1>9, <1>10, <1>11, <1>12, <1>13,
     <1>14, <1>15, <1>16, <1>17
     DEF Next, RunStep, Start, Launch, ProcessStep, Stop

LEMMA EndInvHolds == Spec => []EndInv
BY InitEndInv, EndInvStep, TypeCorrect, InvariantHolds, PTL DEF Spec

(* The timers of stop() and the waiters learn of the end, whichever way it    *)
(* came.                                                                     *)
THEOREM EndReachesEveryone == Spec => []EndIsKnown
<1>1. IInv /\ EndInv => EndIsKnown
  BY DEF IInv, RunInv, EndInv, KnownInv, EndIsKnown
<1>. QED  BY <1>1, InvariantHolds, EndInvHolds, PTL

(* The record on disk never tells of another end than the announced one, and *)
(* it tells of that one unless the last write of it did not take.            *)
THEOREM RecordNeverLies == Spec => []RecordIsTrue
<1>1. EndInv => RecordIsTrue
  BY DEF EndInv, KnownInv, RecordIsTrue
<1>. QED  BY <1>1, EndInvHolds, PTL

(* A run that was stopped or that diverged is never called a success or a    *)
(* failure of its own, whatever comes in between.                            *)
THEOREM VerdictIsFair == Spec => VerdictFits
<1> DEFINE Fits(r) == /\ sig[r] # "none" => outcome'[r] \in {"killed", "diverged"}
                      /\ status[r] = "diverged" => outcome'[r] \in {"killed", "diverged"}
           Fit == \A r \in Runs : ~Ended(r) /\ Ended(r)' => Fits(r)
<1>1. TypeOK /\ TypeOK' /\ IInv /\ EndInv /\ [Next]_vars => [Fit]_vars
  <2> SUFFICES ASSUME TypeOK, TypeOK', IInv, EndInv, Next,
                      NEW s \in Runs, ~Ended(s), Ended(s)'
               PROVE  Fits(s)
    OBVIOUS
  <2>. USE DEF infoVars, lineVars, queueVars, procVars, stopVars, downVars
  <2>0. /\ "killed" \in Terminal /\ "failed" \in Terminal
        /\ sink \in [Runs -> {"null", "open", "broken"}]
        /\ sink' \in [Runs -> {"null", "open", "broken"}]
        /\ launching \in SUBSET Runs /\ \A r \in Runs : launching \ {r} \in SUBSET Runs
    BY DEF TypeOK, Terminal
  <2>1. ASSUME NEW r \in Runs, NEW verdict \in Terminal,
               NEW files \in [Runs -> {"null", "open", "broken"}],
               NEW opening \in SUBSET Runs, Finish(r, verdict, files, opening)
        PROVE  r = s /\ outcome'[s] = FinalStatus(s, verdict)
    <3>1. CASE Ended(r)
      <4>1. outcome' = outcome
        BY <2>1, <3>1, FinishOver
      <4>. QED  BY <4>1 DEF Ended
    <3>2. CASE ~Ended(r)
      <4>1. outcome' = [outcome EXCEPT ![r] = FinalStatus(r, verdict)]
        BY <2>1, <3>2, FinishEnds
      <4>. HIDE DEF FinalStatus
      <4>. QED  BY <4>1 DEF Ended, TypeOK
    <3>. QED  BY <3>1, <3>2
  <2>2. ASSUME NEW r \in Runs, OpenFailed(r) \/ SpawnFailed(r)  PROVE Fits(s)
    <3>1. r = s /\ r \in launching
      BY <2>0, <2>1, <2>2 DEF OpenFailed, SpawnFailed
    <3>2. ~HasProcess(s) /\ status[s] = "queued"
      BY <3>1 DEF IInv, RunInv
    <3>. QED  BY <3>2 DEF EndInv, VerdictInv, HasProcess
  <2>3. ASSUME NEW r \in Runs, ChildError(r)  PROVE Fits(s)
    <3>1. r = s /\ outcome'[s] = FinalStatus(s, "failed")
      BY <2>0, <2>1, <2>3 DEF ChildError
    <3>2. proc[s] = "unspawned"
      BY <2>3, <3>1 DEF ChildError
    <3>. QED  BY <3>1, <3>2 DEF FinalStatus, EndInv, VerdictInv
  <2>4. ASSUME NEW r \in Runs, ChildClose(r)  PROVE Fits(s)
    <3> DEFINE verdict == CloseStatus(proc[s], status[s], endWord[s], errored[s])
    <3>1. r = s /\ outcome'[s] = FinalStatus(s, verdict)
      BY <2>0, <2>1, <2>4, CloseStatusType DEF ChildClose
    <3>2. CASE status[s] = "diverged"
      <4>1. errored[s]
        BY <3>2 DEF EndInv, VerdictInv
      <4>. QED  BY <3>1, <3>2, <4>1 DEF FinalStatus, CloseStatus
    <3>3. CASE status[s] # "diverged"
      <4>1. sig[s] # "none" => status[s] = "killed"
        BY <3>3 DEF EndInv, VerdictInv
      <4>2. status[s] = "killed" => verdict = "killed"
        BY DEF CloseStatus
      <4>3. verdict = "killed" => outcome'[s] = "killed"
        BY <3>1 DEF FinalStatus
      <4>. HIDE DEF verdict
      <4>. QED  BY <3>3, <4>1, <4>2, <4>3
    <3>. QED  BY <3>2, <3>3
  <2>5. ASSUME NEW r \in Runs, StopQueued(r) \/ GuardTimer(r)  PROVE Fits(s)
    <3>1. r = s /\ outcome'[s] = FinalStatus(s, "killed")
      BY <2>0, <2>1, <2>5 DEF StopQueued, GuardTimer
    <3>. QED  BY <3>1 DEF FinalStatus
  <2>6. CASE Shutdown
    BY <2>6 DEF Shutdown, Ended
  <2>7. ASSUME outcome' = outcome  PROVE Fits(s)
    BY <2>7 DEF Ended
  <2>8. ASSUME NEW r \in Runs,
               \/ Start(r) \/ LaunchSkipped(r) \/ LaunchSpawned(r)
               \/ DivergedLine(r) \/ ErrorLine(r)
               \/ \E word \in EndWords : EndedLine(r, word)
               \/ \E how \in ExitKinds : ProcessExit(r, how)
               \/ SinkBreaks(r) \/ StopRunning(r) \/ HardTimer(r) \/ Wait(r)
        PROVE  outcome' = outcome
    BY <2>8 DEF Start, StartRequest, StartQueued, LaunchSkipped, LaunchSpawned, DivergedLine,
                ErrorLine, EndedLine, ProcessExit, SinkBreaks, StopRunning, HardTimer,
                Wait, WaitFor, WaitTimeout
  <2>9. ShutdownDone => outcome' = outcome
    BY DEF ShutdownDone
  <2>. QED  BY <2>2, <2>3, <2>4, <2>5, <2>6, <2>7, <2>8, <2>9
            DEF Next, RunStep, Launch, ProcessStep, Stop
<1>. QED  BY <1>1, TypeCorrect, InvariantHolds, EndInvHolds, PTL DEF Spec, VerdictFits
-----------------------------------------------------------------------------
(* The waiting line. *)

LiveRuns == {r \in Runs : Live(r)}

(* A run waits once, is known, and is not also being launched. *)
LineOK ==
    /\ \A i \in 1..Len(queue) : queue[i] \notin launching /\ status[queue[i]] # "absent"
    /\ \A i, j \in 1..Len(queue) : queue[i] = queue[j] => i = j

(* The head is queued, and what blocks it lives. *)
HeadOK ==
    ~closing /\ queue # <<>> =>
        /\ status[queue[1]] = "queued"
        /\ (queue[1] \in GpuRuns /\ gpuBusy) \/ Cardinality(LiveRuns) >= MaxConcurrent

LineInv == LineOK /\ HeadOK /\ IsFiniteSet(LiveRuns)

(* pump() takes runs off the front; it stops where something blocks.         *)
LEMMA PumpLine ==
    ASSUME NEW line \in Seq(Runs), NEW opening \in SUBSET Runs, NEW st, NEW busy,
           Pump(st, busy, line, opening),
           \A i \in 1..Len(line) : line[i] \notin opening /\ st[line[i]] # "absent",
           \A i, j \in 1..Len(line) : line[i] = line[j] => i = j
    PROVE  /\ \A i \in 1..Len(queue') : queue'[i] \notin launching' /\ st[queue'[i]] # "absent"
           /\ \A i, j \in 1..Len(queue') : queue'[i] = queue'[j] => i = j
           /\ ~closing /\ queue' # <<>> => Blocked(queue'[1], st, busy)
<1>1. PICK n \in 0..Len(line) :
        /\ ~closing => (n < Len(line) => Blocked(line[n + 1], st, busy))
        /\ queue' = SubSeq(line, n + 1, Len(line))
        /\ launching' = opening \cup
             {r \in Runs : st[r] = "queued" /\ \E i \in 1..n : line[i] = r}
  BY DEF Pump, Rest
<1>2. /\ Len(line) \in Nat
      /\ n + 1 \in Int
      /\ \A i \in (n + 1)..Len(line) : line[i] \in Runs
  OBVIOUS
<1>3. /\ queue' \in Seq(Runs)
      /\ Len(queue') = Len(line) - n
      /\ \A i \in 1..Len(queue') : queue'[i] = line[n + i]
  <2>1. /\ queue' \in Seq(Runs)
        /\ Len(queue') = IF n + 1 <= Len(line) THEN Len(line) - (n + 1) + 1 ELSE 0
        /\ \A i \in 1..(Len(line) - (n + 1) + 1) : queue'[i] = line[(n + 1) + i - 1]
    BY <1>1, <1>2, SubSeqProperties
  <2>2. Len(queue') = Len(line) - n /\ Len(line) - (n + 1) + 1 = Len(line) - n
    BY <1>2, <2>1
  <2>3. ASSUME NEW i \in 1..Len(queue')  PROVE queue'[i] = line[n + i]
    <3>1. (n + 1) + i - 1 = n + i
      BY <1>2, <2>2
    <3>. QED  BY <2>1, <2>2, <3>1
  <2>. QED  BY <2>1, <2>2, <2>3
<1>4. ASSUME NEW i \in 1..Len(queue')
      PROVE  queue'[i] \notin launching' /\ st[queue'[i]] # "absent"
  <2>1. n + i \in 1..Len(line) /\ \A j \in 1..n : j \in 1..Len(line) /\ j # n + i
    BY <1>2, <1>3
  <2>. QED  BY <1>1, <1>3, <2>1
<1>5. ASSUME NEW i \in 1..Len(queue'), NEW j \in 1..Len(queue'), queue'[i] = queue'[j]
      PROVE  i = j
  <2>1. n + i \in 1..Len(line) /\ n + j \in 1..Len(line)
    BY <1>2, <1>3
  <2>2. n + i = n + j
    BY <1>3, <1>5, <2>1
  <2>. QED  BY <2>2
<1>6. ASSUME ~closing, queue' # <<>>  PROVE Blocked(queue'[1], st, busy)
  <2>1. 1 \in 1..Len(queue')
    BY <1>3, <1>6, EmptySeq
  <2>2. n < Len(line)
    BY <1>2, <1>3, <2>1
  <2>. QED  BY <1>1, <1>3, <1>6, <2>1, <2>2
<1>. QED  BY <1>4, <1>5, <1>6

(* What blocked the head by its status blocks it by the processes there are. *)
LEMMA BlockedHead ==
    ASSUME TypeOK', IInv', IsFiniteSet(LiveRuns)', closing' = closing,
           ~closing /\ queue' # <<>> => Blocked(queue'[1], status', gpuBusy')
    PROVE  HeadOK'
<1> SUFFICES ASSUME ~closing, queue' # <<>>, ~(queue'[1] \in GpuRuns /\ gpuBusy')
             PROVE  /\ status'[queue'[1]] = "queued"
                    /\ Cardinality(LiveRuns') >= MaxConcurrent
  BY DEF HeadOK, Blocked
<1>1. /\ status'[queue'[1]] = "queued"
      /\ Cardinality(RunningIn(status')) >= MaxConcurrent
  BY DEF Blocked
<1>2. RunningIn(status') \in SUBSET LiveRuns'
  BY DEF RunningIn, LiveRuns, Live, IInv, RunInv, Ended
<1>3. /\ IsFiniteSet(RunningIn(status'))
      /\ Cardinality(RunningIn(status')) <= Cardinality(LiveRuns')
  BY <1>2, FS_Subset
<1>4. Cardinality(RunningIn(status')) \in Nat /\ Cardinality(LiveRuns') \in Nat
  BY <1>3, FS_CardinalityType
<1>. QED  BY <1>1, <1>3, <1>4, RunsAssumption

(* A step that leaves the line alone and takes no reason to wait away. *)
LEMMA LineKept ==
    ASSUME TypeOK, LineInv, UNCHANGED <<queue, closing>>, launching' \subseteq launching,
           \A s \in Runs : Live(s) <=> Live(s)', gpuBusy => gpuBusy',
           \A s \in Runs \ launching :
             /\ status[s] = "queued" => status'[s] = "queued"
             /\ status'[s] = "absent" => status[s] = "absent"
    PROVE  LineInv'
<1>1. LiveRuns' = LiveRuns
  BY DEF LiveRuns
<1>2. \A i \in 1..Len(queue) : queue[i] \in Runs \ launching
  BY DEF TypeOK, LineInv, LineOK
<1>3. LineOK'
  BY <1>2 DEF LineInv, LineOK
<1>4. HeadOK'
  <2>1. queue # <<>> => 1 \in 1..Len(queue)
    BY EmptySeq DEF TypeOK
  <2>. QED  BY <1>1, <1>2, <2>1 DEF LineInv, HeadOK
<1>. QED  BY <1>1, <1>3, <1>4 DEF LineInv

(* A handler that ends a run pumps: what blocked the head may be gone. *)
LEMMA FinishLine ==
    ASSUME TypeOK, TypeOK', IInv', LineInv, NEW r \in Runs, NEW verdict \in Terminal,
           NEW files \in [Runs -> {"null", "open", "broken"}],
           NEW opening \in SUBSET launching, Finish(r, verdict, files, opening),
           \A s \in Runs : HasProcess(s)' <=> HasProcess(s),
           closing' = closing
    PROVE  LineInv'
<1>0. opening \in SUBSET Runs
  BY DEF TypeOK
<1>1. CASE Ended(r)
  <2>1. launching' = opening /\ UNCHANGED <<status, outcome, gpuBusy, queue>>
    BY <1>0, <1>1, FinishOver DEF infoVars
  <2>2. \A s \in Runs : Live(s) <=> Live(s)'
    BY <2>1 DEF Live, Ended
  <2>. QED  BY <2>1, <2>2, LineKept
<1>2. CASE ~Ended(r)
  <2> DEFINE final == FinalStatus(r, verdict)
  <2>1. /\ final \in Terminal
        /\ status' = [status EXCEPT ![r] = final]
        /\ outcome' = [outcome EXCEPT ![r] = final]
        /\ Pump(status', gpuBusy', queue, opening)
    BY <1>0, <1>2, FinishEnds
  <2>. HIDE DEF final
  <2>2. LiveRuns' \in SUBSET LiveRuns
    BY <1>2, <2>1 DEF LiveRuns, Live, Ended, TypeOK
  <2>3. IsFiniteSet(LiveRuns)'
    BY <2>2, FS_Subset DEF LineInv
  <2>4. \A i \in 1..Len(queue) : queue[i] \notin opening /\ status'[queue[i]] # "absent"
    <3>1. \A s \in Runs : status'[s] = "absent" => status[s] = "absent"
      BY <2>1 DEF TypeOK, Terminal
    <3>. QED  BY <3>1 DEF TypeOK, LineInv, LineOK
  <2>5. /\ LineOK'
        /\ ~closing /\ queue' # <<>> => Blocked(queue'[1], status', gpuBusy')
    <3>1. queue \in Seq(Runs)
      BY DEF TypeOK
    <3>2. \A i, j \in 1..Len(queue) : queue[i] = queue[j] => i = j
      BY DEF LineInv, LineOK
    <3> DEFINE st == status'
               busy == gpuBusy'
    <3>3. Pump(st, busy, queue, opening)
      BY <2>1
    <3>4. \A i \in 1..Len(queue) : queue[i] \notin opening /\ st[queue[i]] # "absent"
      BY <2>4
    <3>. HIDE DEF st, busy
    <3>5. /\ \A i \in 1..Len(queue') : queue'[i] \notin launching' /\ st[queue'[i]] # "absent"
          /\ \A i, j \in 1..Len(queue') : queue'[i] = queue'[j] => i = j
          /\ ~closing /\ queue' # <<>> => Blocked(queue'[1], st, busy)
      BY <1>0, <3>1, <3>2, <3>3, <3>4, PumpLine
    <3>. QED  BY <3>5 DEF LineOK, st, busy
  <2>6. HeadOK'
    BY <2>3, <2>5, BlockedHead
  <2>. QED  BY <2>3, <2>5, <2>6 DEF LineInv
<1>. QED  BY <1>1, <1>2

LEMMA LineStep == TypeOK /\ TypeOK' /\ IInv /\ IInv' /\ LineInv /\ [Next]_vars => LineInv'
<1> SUFFICES ASSUME TypeOK, TypeOK', IInv, IInv', LineInv, [Next]_vars  PROVE LineInv'
  OBVIOUS
<1>. USE DEF infoVars, lineVars, queueVars, procVars, stopVars, downVars
<1>0. /\ "killed" \in Terminal /\ "failed" \in Terminal
      /\ sink \in [Runs -> {"null", "open", "broken"}]
      /\ sink' \in [Runs -> {"null", "open", "broken"}]
      /\ launching \in SUBSET launching /\ \A r \in Runs : launching \ {r} \in SUBSET launching
  BY DEF TypeOK, Terminal
<1>1. ASSUME NEW r \in Runs, StartQueued(r)  PROVE LineInv'
  <2> DEFINE line == Append(queue, r)
             st == status'
  <2>1. status[r] = "absent"
    BY <1>1 DEF StartQueued, IInv, RunInv
  <2>2. /\ st = [status EXCEPT ![r] = "queued"]
        /\ UNCHANGED <<gpuBusy, closing, outcome, proc>>
        /\ Pump(st, gpuBusy, line, launching)
    BY <1>1 DEF StartQueued
  <2>3. LiveRuns' = LiveRuns
    BY <2>2 DEF LiveRuns, Live, Ended, HasProcess
  <2>4. r \notin launching
    BY <2>1 DEF IInv, RunInv
  <2>5. /\ line \in Seq(Runs) /\ Len(line) = Len(queue) + 1 /\ Len(queue) \in Nat
        /\ \A i \in 1..Len(line) : line[i] = IF i = Len(line) THEN r ELSE queue[i]
    <3>1. queue \in Seq(Runs)
      BY DEF TypeOK
    <3>. QED  BY <3>1, AppendProperties
  <2>6. \A i \in 1..Len(queue) : queue[i] \in Runs /\ queue[i] # r
    BY <2>1 DEF LineInv, LineOK, TypeOK
  <2>7. launching \in SUBSET Runs
    BY DEF TypeOK
  <2>8. \A s \in Runs : st[s] = IF s = r THEN "queued" ELSE status[s]
    BY <2>2 DEF TypeOK
  <2>. HIDE DEF line, st
  <2>9. ASSUME NEW i \in 1..Len(line)
        PROVE  line[i] \notin launching /\ st[line[i]] # "absent"
    BY <2>4, <2>5, <2>6, <2>8 DEF LineInv, LineOK
  <2>10. ASSUME NEW i \in 1..Len(line), NEW j \in 1..Len(line), line[i] = line[j]
         PROVE  i = j
    BY <2>5, <2>6, <2>10 DEF LineInv, LineOK
  <2>11. /\ \A i \in 1..Len(queue') : queue'[i] \notin launching' /\ st[queue'[i]] # "absent"
         /\ \A i, j \in 1..Len(queue') : queue'[i] = queue'[j] => i = j
         /\ ~closing /\ queue' # <<>> => Blocked(queue'[1], st, gpuBusy)
    <3> DEFINE busy == gpuBusy
    <3>1. line \in Seq(Runs) /\ Pump(st, busy, line, launching)
      BY <2>2, <2>5
    <3>2. \A i \in 1..Len(line) : line[i] \notin launching /\ st[line[i]] # "absent"
      BY <2>9
    <3>3. \A i, j \in 1..Len(line) : line[i] = line[j] => i = j
      BY <2>10
    <3>. HIDE DEF busy
    <3>4. /\ \A i \in 1..Len(queue') : queue'[i] \notin launching' /\ st[queue'[i]] # "absent"
          /\ \A i, j \in 1..Len(queue') : queue'[i] = queue'[j] => i = j
          /\ ~closing /\ queue' # <<>> => Blocked(queue'[1], st, busy)
      BY <2>7, <3>1, <3>2, <3>3, PumpLine
    <3>. QED  BY <3>4 DEF busy
  <2>12. LineOK'
    BY <2>11 DEF LineOK, st
  <2>13. HeadOK'
    <3>1. ~closing /\ queue' # <<>> => Blocked(queue'[1], status', gpuBusy')
      BY <2>2, <2>11 DEF st
    <3>2. IsFiniteSet(LiveRuns)'
      BY <2>3 DEF LineInv
    <3>. QED  BY <2>2, <3>1, <3>2, BlockedHead
  <2>. QED  BY <2>3, <2>12, <2>13 DEF LineInv
<1>2. ASSUME NEW r \in Runs, LaunchSpawned(r)  PROVE LineInv'
  <2>1. ~Ended(r) /\ r \in launching
    BY <1>2 DEF LaunchSpawned, StillQueued, IInv, RunInv, Terminal
  <2>2. /\ status' = [status EXCEPT ![r] = "running"]
        /\ proc' = [proc EXCEPT ![r] = "alive"] \/ proc' = [proc EXCEPT ![r] = "unspawned"]
        /\ launching' = launching \ {r}
        /\ gpuBusy' = (gpuBusy \/ r \in GpuRuns)
        /\ UNCHANGED <<outcome, queue, closing>>
    BY <1>2 DEF LaunchSpawned
  <2>3. \A s \in Runs : HasProcess(s)' <=> HasProcess(s) \/ s = r
    <3>1. \A s \in Runs : proc'[s] = IF s = r THEN proc'[r] ELSE proc[s]
      BY <2>2 DEF TypeOK
    <3>2. proc'[r] # "none"
      BY <2>2 DEF TypeOK
    <3>. QED  BY <3>1, <3>2 DEF HasProcess
  <2>4. LiveRuns' = LiveRuns \cup {r}
    BY <2>1, <2>2, <2>3 DEF LiveRuns, Live, Ended
  <2>5. /\ IsFiniteSet(LiveRuns') /\ IsFiniteSet(LiveRuns)
        /\ Cardinality(LiveRuns) <= Cardinality(LiveRuns')
    BY <2>4, FS_AddElement, FS_Subset DEF LineInv
  <2>6. Cardinality(LiveRuns) \in Nat /\ Cardinality(LiveRuns') \in Nat
    BY <2>5, FS_CardinalityType
  <2>7. \A i \in 1..Len(queue) : /\ queue[i] # r /\ queue[i] \notin launching'
                                 /\ status'[queue[i]] = status[queue[i]]
    BY <2>1, <2>2 DEF LineInv, LineOK, TypeOK
  <2>8. LineOK'
    BY <2>2, <2>7 DEF LineInv, LineOK
  <2>9. HeadOK'
    <3> SUFFICES ASSUME ~closing, queue # <<>>
                 PROVE  /\ status'[queue[1]] = "queued"
                        /\ \/ queue[1] \in GpuRuns /\ gpuBusy'
                           \/ Cardinality(LiveRuns') >= MaxConcurrent
      BY <2>2 DEF HeadOK
    <3>1. 1 \in 1..Len(queue)
      BY EmptySeq DEF TypeOK
    <3>2. /\ status[queue[1]] = "queued"
          /\ (queue[1] \in GpuRuns /\ gpuBusy) \/ Cardinality(LiveRuns) >= MaxConcurrent
      BY DEF LineInv, HeadOK
    <3>3. CASE queue[1] \in GpuRuns /\ gpuBusy
      BY <2>2, <2>7, <3>1, <3>2, <3>3
    <3>4. CASE Cardinality(LiveRuns) >= MaxConcurrent
      BY <2>5, <2>6, <2>7, <3>1, <3>2, <3>4, RunsAssumption
    <3>. QED  BY <3>2, <3>3, <3>4
  <2>. QED  BY <2>5, <2>8, <2>9 DEF LineInv
<1>3. ASSUME NEW r \in Runs, OpenFailed(r)  PROVE LineInv'
  <2>1. /\ Finish(r, "failed", sink, launching \ {r})
        /\ UNCHANGED <<proc, closing>>
    BY <1>3 DEF OpenFailed
  <2>. QED  BY <1>0, <2>1, FinishLine DEF HasProcess
<1>4. ASSUME NEW r \in Runs, SpawnFailed(r)  PROVE LineInv'
  <2>1. /\ Finish(r, "failed", sink', launching \ {r})
        /\ UNCHANGED <<proc, closing>>
    BY <1>4 DEF SpawnFailed
  <2> DEFINE files == sink'
  <2>2. files \in [Runs -> {"null", "open", "broken"}] /\ Finish(r, "failed", files, launching \ {r})
    BY <1>0, <2>1
  <2>. HIDE DEF files
  <2>. QED  BY <1>0, <2>1, <2>2, FinishLine DEF HasProcess
<1>5. ASSUME NEW r \in Runs, ChildError(r)  PROVE LineInv'
  <2>1. /\ Finish(r, "failed", sink, launching)
        /\ proc' = [proc EXCEPT ![r] = "nonzero"] /\ proc[r] = "unspawned"
        /\ closing' = closing
    BY <1>5 DEF ChildError
  <2>2. \A s \in Runs : HasProcess(s)' <=> HasProcess(s)
    BY <2>1 DEF HasProcess, TypeOK
  <2>. QED  BY <1>0, <2>1, <2>2, FinishLine
<1>6. ASSUME NEW r \in Runs, ChildClose(r)  PROVE LineInv'
  <2> DEFINE verdict == CloseStatus(proc[r], status[r], endWord[r], errored[r])
  <2>1. /\ Finish(r, verdict, sink, launching)
        /\ proc' = [proc EXCEPT ![r] = "closed"] /\ proc[r] \in Exited
        /\ closing' = closing
    BY <1>6 DEF ChildClose
  <2>2. verdict \in Terminal
    BY CloseStatusType
  <2>3. \A s \in Runs : HasProcess(s)' <=> HasProcess(s)
    BY <2>1 DEF HasProcess, TypeOK, Exited
  <2>. HIDE DEF verdict
  <2>. QED  BY <1>0, <2>1, <2>2, <2>3, FinishLine
<1>7. ASSUME NEW r \in Runs, StopQueued(r) \/ GuardTimer(r)  PROVE LineInv'
  <2>1. Finish(r, "killed", sink, launching) /\ UNCHANGED <<proc, closing>>
    BY <1>7 DEF StopQueued, GuardTimer
  <2>. QED  BY <1>0, <2>1, FinishLine DEF HasProcess
<1>8. CASE Shutdown
  <2>1. /\ UNCHANGED <<queue, launching, proc>> /\ closing'
        /\ \A s \in Runs : status'[s] = "absent" => status[s] = "absent"
        /\ \A s \in Runs : Ended(s) => Ended(s)'
    BY <1>8 DEF Shutdown, Ended
  <2>2. LiveRuns' \in SUBSET LiveRuns
    BY <2>1 DEF LiveRuns, Live, HasProcess
  <2>3. IsFiniteSet(LiveRuns)'
    BY <2>2, FS_Subset DEF LineInv
  <2>4. \A i \in 1..Len(queue) : queue[i] \in Runs
    BY DEF TypeOK
  <2>. QED  BY <2>1, <2>3, <2>4 DEF LineInv, LineOK, HeadOK
<1>9. ASSUME NEW r \in Runs, DivergedLine(r) \/ StopRunning(r)  PROVE LineInv'
  <2>1. /\ UNCHANGED <<queue, launching, gpuBusy, outcome, proc, closing>>
        /\ HasProcess(r)
        /\ status' = [status EXCEPT ![r] = "diverged"] \/ status' = [status EXCEPT ![r] = "killed"]
    BY <1>9 DEF DivergedLine, StopRunning, Prints, HasProcess, Exited, IInv, RunInv
  <2>2. status[r] \notin {"absent", "queued"}
    BY <2>1 DEF IInv, RunInv
  <2>3. \A s \in Runs : /\ status[s] = "queued" => status'[s] = "queued"
                        /\ status'[s] = "absent" => status[s] = "absent"
    BY <2>1, <2>2 DEF TypeOK
  <2>. QED  BY <2>1, <2>3, LineKept DEF Live, HasProcess, Ended
<1>10. ASSUME NEW r \in Runs, \E how \in ExitKinds : ProcessExit(r, how)  PROVE LineInv'
  <2>1. PICK how \in ExitKinds : ProcessExit(r, how)
    BY <1>10
  <2>2. \A s \in Runs : HasProcess(s)' <=> HasProcess(s)
    BY <2>1, RunsAssumption DEF ProcessExit, HasProcess, TypeOK
  <2>3. UNCHANGED <<queue, launching, gpuBusy, outcome, status, closing>>
    BY <2>1 DEF ProcessExit
  <2>. QED  BY <2>2, <2>3, LineKept DEF Live, Ended
<1>11. ASSUME NEW r \in Runs,
              \/ StartRequest(r) \/ LaunchSkipped(r) \/ ErrorLine(r)
              \/ \E word \in EndWords : EndedLine(r, word)
              \/ SinkBreaks(r) \/ HardTimer(r) \/ Wait(r)
       PROVE  LineInv'
  <2>1. /\ UNCHANGED <<queue, gpuBusy, outcome, status, proc, closing>>
        /\ launching' \subseteq launching
    BY <1>11 DEF StartRequest, LaunchSkipped, ErrorLine, EndedLine, SinkBreaks,
                 HardTimer, Wait, WaitFor, WaitTimeout
  <2>. QED  BY <2>1, LineKept DEF Live, HasProcess, Ended
<1>12. CASE ShutdownDone \/ UNCHANGED vars
  <2>1. UNCHANGED <<queue, launching, gpuBusy, outcome, status, proc, closing>>
    BY <1>12 DEF ShutdownDone, vars
  <2>. QED  BY <2>1, LineKept DEF Live, HasProcess, Ended
<1>. QED
  BY <1>1, <1>2, <1>3, <1>4, <1>5, <1>6, <1>7, <1>8, <1>9, <1>10, <1>11, <1>12
     DEF Next, RunStep, Start, Launch, ProcessStep, Stop

LEMMA LineInit == Init => LineInv
<1> SUFFICES ASSUME Init  PROVE LineInv
  OBVIOUS
<1>1. queue = <<>> /\ LiveRuns = {}
  BY DEF Init, LiveRuns, Live, HasProcess
<1>. QED  BY <1>1, FS_EmptySet DEF LineInv, LineOK, HeadOK

(* A run at the head of the line always waits for a run that lives: for the  *)
(* one on the GPU, or for one of MaxConcurrent.                              *)
THEOREM LineMoves == Spec => []HeadWaitsForAReason
<1>1. TypeOK /\ IInv /\ LineInv => HeadWaitsForAReason
  <2> SUFFICES ASSUME TypeOK, IInv, LineInv, ~closing, queue # <<>>
               PROVE  /\ status[Head(queue)] = "queued"
                      /\ \/ Head(queue) \in GpuRuns /\ gpuBusy /\ GpuSlotHasHolder
                         \/ Cardinality({r \in Runs : Live(r)}) >= MaxConcurrent
    BY DEF HeadWaitsForAReason
  <2>1. Head(queue) = queue[1]
    BY DEF TypeOK
  <2>2. /\ status[queue[1]] = "queued"
        /\ (queue[1] \in GpuRuns /\ gpuBusy) \/ Cardinality(LiveRuns) >= MaxConcurrent
    BY DEF LineInv, HeadOK
  <2>3. GpuSlotHasHolder
    BY DEF IInv
  <2>. QED  BY <2>1, <2>2, <2>3 DEF LiveRuns
<1>2. Spec => []LineInv
  BY LineInit, LineStep, TypeCorrect, InvariantHolds, PTL DEF Spec
<1>. QED  BY <1>1, <1>2, TypeCorrect, InvariantHolds, PTL
=============================================================================
