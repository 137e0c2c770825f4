--------------------------- MODULE RunManagerProps ---------------------------
(***************************************************************************)
(* What must be true of the run manager: safety invariants, action         *)
(* properties, liveness under the fairness of the event loop, and the      *)
(* claims of its comments that the code does not keep.                     *)
(***************************************************************************)
EXTENDS RunManager

Live(r) == HasProcess(r) /\ ~Ended(r)

(* The GPU slot is never leaked: while it is taken, some GPU run has a       *)
(* process and is not over, and its end will free the slot (the phantom run  *)
(* of the comment on launch()).                                              *)
GpuSlotHasHolder == gpuBusy => \E r \in GpuRuns : Live(r)

(* The line never waits for nothing: outside shutdown, when a run is at its *)
(* head, either it needs the GPU and the slot is taken by a run that lives, *)
(* or MaxConcurrent runs have a process and are not over.  Every event that *)
(* lifts a reason to wait must therefore pump, and every way to end a run   *)
(* must free the slot, or the queue sleeps until the next event, or for     *)
(* good.                                                                    *)
HeadWaitsForAReason ==
    ~closing /\ queue # <<>> =>
        /\ status[Head(queue)] = "queued"
        /\ \/ Head(queue) \in GpuRuns /\ gpuBusy /\ GpuSlotHasHolder
           \/ Cardinality({r \in Runs : Live(r)}) >= MaxConcurrent

(* A status of running means a process: no phantom run whose stop() would   *)
(* wait forever for a close event.                                          *)
NoPhantomRun ==
    \A r \in Runs : status[r] = "running" => Live(r) /\ r \notin launching

(* Of the five paths that end a run (close, error, the guard timer, a       *)
(* cancel, a failed launch) exactly one announces the end.                  *)
ExitOnce ==
    \A r \in Runs :
        /\ exits[r] <= 1
        /\ exits[r] = 1 => Ended(r)
        /\ Ended(r) /\ exits[r] = 0 => closed

(* Whoever depends on the end of a run has learnt of it: the timers of       *)
(* stop() are disarmed, and no wait() that the run's status satisfies is     *)
(* still pending, whichever of the five ways to end it took.                 *)
EndIsKnown ==
    \A r \in Runs : Ended(r) =>
        /\ timers[r] = "off"
        /\ \A cond \in waits[r] : status[r] \notin cond

(* The run.json a later server reads (store.ts loadPastRuns) never tells of  *)
(* an end before there is one, nor of another one than was announced: it may *)
(* be missing, torn or still say running, but only when the last saveInfo of *)
(* the run did not take, for want of its files or because the write failed.  *)
RecordIsTrue ==
    \A r \in Runs :
        /\ saved[r] \in {"none", "running", "torn", outcome[r]}
        /\ Ended(r) => saved[r] = outcome[r] \/ r \in unsaved

(* No process is started for a run that is over already: a cancel that       *)
(* arrives while openRun is awaited must win.                                *)
NoSpawnAfterEnd ==
    [][\A r \in Runs : Ended(r) => (HasProcess(r)' <=> HasProcess(r))]_vars

(* The verdict fits what happened, in whatever order a NaN line, stop(), the *)
(* close event and the guard timer came: a run that was sent a signal is     *)
(* neither a success nor a failure of its own, and one that was marked       *)
(* diverged ends diverged, whatever its exit code, or killed.                *)
VerdictFits ==
    [][\A r \in Runs : ~Ended(r) /\ Ended(r)' =>
          /\ sig[r] # "none" => outcome'[r] \in {"killed", "diverged"}
          /\ status[r] = "diverged" => outcome'[r] \in {"killed", "diverged"}]_vars

(* A run waits, lives and ends the way RunLifecycle says, with the outcome   *)
(* that was announced.                                                       *)
LifeOf(r) ==
    IF Ended(r) THEN "over"
    ELSE IF HasProcess(r) THEN "live"
    ELSE IF status[r] = "absent" THEN "new" ELSE "waiting"

Lifecycle == INSTANCE RunLifecycle WITH life <- [r \in Runs |-> LifeOf(r)]

ImplementsLifecycle == Lifecycle!LifeSpec

-----------------------------------------------------------------------------
(* The inductive invariant behind the theorems of RunManagerProofs.  What a  *)
(* run's status, process, launch and end have to do with each other, at      *)
(* every await of every handler.                                             *)
RunInv(r) ==
    /\ r \in collecting => status[r] = "absent"
    /\ r \in launching => status[r] = "queued" \/ Ended(r)
    /\ r \in launching => ~HasProcess(r)
    /\ status[r] \in {"absent", "queued"} => ~HasProcess(r) /\ ~Ended(r)
    /\ status[r] = "running" => HasProcess(r) /\ ~Ended(r)
    /\ status[r] \in Terminal => HasProcess(r) \/ Ended(r)
    /\ timers[r] # "off" => status[r] \in Terminal /\ ~Ended(r)
    /\ exits[r] <= 1
    /\ exits[r] = 1 => Ended(r)
    /\ Ended(r) /\ exits[r] = 0 => closed

IInv ==
    /\ \A r \in Runs : RunInv(r)
    /\ GpuSlotHasHolder

-----------------------------------------------------------------------------
(* Fairness.  The event loop delivers what is ready: a settled await, a      *)
(* fired timer, an error or close event.  Nothing is assumed of users or of  *)
(* the lines a driver prints.  DriversEnd is an assumption on the drivers,   *)
(* which have an iteration budget; a driver may still ignore SIGTERM until   *)
(* then, but nothing survives SIGKILL.                                       *)

LoopIsFair(r) ==
    /\ WF_vars(StartQueued(r))
    /\ WF_vars(Launch(r))
    /\ WF_vars(ChildError(r))
    /\ WF_vars(ChildClose(r))
    /\ WF_vars(HardTimer(r))
    /\ WF_vars(GuardTimer(r))

Exits(r) == \E how \in ExitKinds : ProcessExit(r, how)

KillIsFatal(r) == WF_vars(sig[r] = "kill" /\ Exits(r))

FairSpec ==
    /\ Spec
    /\ \A r \in Runs : LoopIsFair(r) /\ KillIsFatal(r)
    /\ WF_vars(ShutdownDone)

DriversEnd == \A r \in Runs : WF_vars(Exits(r))

EndingSpec == FairSpec /\ DriversEnd

(* shutdown() returns, even with processes that ignore SIGTERM.              *)
ShutdownReturns == closing ~> closed

(* Every run that is accepted is over at some time, when the drivers end.    *)
EveryRunEnds == \A r \in Runs : status[r] = "queued" ~> Ended(r)

-----------------------------------------------------------------------------
(* Claims of the comments and tool descriptions that the code breaks.        *)

(* The single-GPU queue serialises GPU runs: one at a time has a process.    *)
GpuRunsSerialised ==
    \A r, s \in GpuRuns :
        proc[r] = "alive" /\ proc[s] = "alive" => r = s \/ Ended(r) \/ Ended(s)
=============================================================================
