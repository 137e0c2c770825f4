---------------------------- MODULE Checkpoints ----------------------------
(***************************************************************************)
(* The restart files of the transient and steady drivers                   *)
(* (src/rust/src/restart.rs, bin/lowmach.rs): a solver process writes      *)
(* checkpoints while it steps in time, keeps the newest few of its own     *)
(* series, may die at any point, and a later process may resume from any   *)
(* file it finds.  One process at a time works in the output directory.    *)
(*                                                                         *)
(* Data left out: the fields themselves, the header's version and endian   *)
(* words, floating point (times are integers, so the 1e-9 slack of the     *)
(* schedule is exact equality here).                                       *)
(***************************************************************************)
EXTENDS Integers, Sequences

CONSTANTS Jobs,      \* the command lines and cases a person may start
          Single,    \* the file restart.mcr of the command-line route
          Absent,    \* nothing under that name
          Torn,      \* a file read_restart refuses: empty or cut short
          Grain,     \* what format_time_name can tell apart
          MaxTime,   \* bound: the last time any job may reach
          MaxProcs,  \* bound: how many processes are started
          MaxHands   \* bound: how many files a person deletes

ASSUME GrainAssumption == Grain \in Nat \ {0}
ASSUME TimeAssumption == MaxTime \in Nat
ASSUME SingleAssumption == Single \notin Int
ASSUME JobsAssumption ==
  \A j \in Jobs : /\ j.route \in {"series", "single"}
                  /\ j.keep \in Nat /\ j.interval \in Nat
                  /\ j.transient \in BOOLEAN
                  /\ j.dt \in Nat \ {0} /\ j.end \in Nat

VARIABLES disk,      \* what each file of the output directory holds
          job,       \* what the process was asked to do
          pc,        \* "off", "run", "open", "fill" or "prune"
          t,         \* t_phys
          left,      \* steps the loop still has to take
          done,      \* steps this process has taken
          closing,   \* the checkpoint after the loop is under way
          next,      \* Checkpoints::next
          written,   \* Checkpoints::written, oldest first
          target,    \* the file being written, or written last
          ended,     \* how the last process ended
          \* history only, read by no guard
          finished,  \* every file this process finished, in order of the last time
          mine,      \* every file this process created or truncated
          saved,     \* the time of this process's last finished checkpoint
          hands,     \* files a person deleted and nobody wrote again
          procs, removals

proc == <<job, t, left, done, closing, next, target>>
bounds == <<procs, removals>>
vars == <<disk, proc, pc, written, ended, finished, mine, saved, hands, bounds>>

----------------------------------------------------------------------------
\* format_time_name: the time rounded to the digits a label has.
Label(time) == ((time + Grain \div 2) \div Grain) * Grain

Series == {Label(time) : time \in 0..MaxTime}
Files == Series \cup {Single}

Content(mesh, time) == [mesh |-> mesh, time |-> time]
ASSUME ContentAssumption ==
  /\ Absent # Torn
  /\ \A j \in Jobs, time \in 0..MaxTime : Content(j.mesh, time) \notin {Absent, Torn}
Whole(f) == disk[f] \notin {Absent, Torn}

\* read_restart refuses what is missing, torn, or of another mesh.
Readable(f, mesh) == Whole(f) /\ disk[f].mesh = mesh

\* n_steps = round((end - t0) / dt), at least one; the count asked for when steady.
StepsTo(j, t0) ==
  IF j.transient
    THEN LET n == (2 * (j.end - t0) + j.dt) \div (2 * j.dt)
         IN IF n < 1 THEN 1 ELSE n
    ELSE j.end

\* The list without f; it holds every name at most once (Once in CheckpointsProofs).
Without(s, f) ==
  IF \E i \in 1..Len(s) : s[i] = f
    THEN LET k == CHOOSE i \in 1..Len(s) : s[i] = f
         IN [i \in 1..(Len(s) - 1) |-> IF i < k THEN s[i] ELSE s[i + 1]]
    ELSE s
Moved(s, f) == Append(Without(s, f), f)

DueAfter(now) == job.interval > 0 /\ now > next    \* mutant: no slack at the interval

\* Checkpoints::due
Due(now) == job.interval > 0 /\ now >= next

\* Is a checkpoint written after the step that reaches `now`?
DueSeries(now) == job.route = "series" /\ job.transient /\ Due(now)
DueSingle == job.route = "single" /\ job.interval > 0 /\ (done + 1) % job.interval = 0

Init ==
  /\ disk = [f \in Files |-> Absent]
  /\ job \in Jobs /\ pc = "off"
  /\ t = 0 /\ left = 0 /\ done = 0 /\ closing = FALSE /\ next = 0
  /\ written = <<>> /\ target = Single /\ ended = "no"
  /\ finished = <<>> /\ mine = {} /\ saved = 0 /\ hands = {}
  /\ procs = 0 /\ removals = 0

----------------------------------------------------------------------------
(* Starting a process *)

Begin(j, t0) ==
  /\ job' = j /\ pc' = "run"
  /\ t' = t0 /\ left' = StepsTo(j, t0) /\ done' = 0 /\ closing' = FALSE
  /\ next' = t0 + j.interval            \* Checkpoints::start
  /\ written' = <<>> /\ target' = Single /\ ended' = "no"
  /\ finished' = <<>> /\ mine' = {} /\ saved' = t0 /\ hands' = {}

MayStart == pc = "off" /\ procs < MaxProcs

\* The bound on time: the process would not pass it.
InTime(j, t0) == t0 + StepsTo(j, t0) * j.dt <= MaxTime

Start(j) ==
  /\ MayStart /\ procs' = procs + 1
  /\ InTime(j, 0)
  /\ Begin(j, 0)
  /\ UNCHANGED <<disk, removals>>

\* -restartFrom f: read before any field is set up, its time is where the run goes on.
Resume(j, f) ==
  /\ MayStart /\ procs' = procs + 1
  /\ Readable(f, j.mesh)
  /\ j.transient => disk[f].time < j.end
  /\ InTime(j, disk[f].time)
  /\ Begin(j, disk[f].time)
  /\ UNCHANGED <<disk, removals>>

\* A file that cannot be read, or a checkpoint at or past the end: no process goes on.
ResumeRefused(j, f) ==
  /\ MayStart /\ procs' = procs + 1
  /\ Readable(f, j.mesh) => j.transient /\ disk[f].time >= j.end
  /\ ended' = "refused"
  /\ UNCHANGED <<disk, proc, pc, written, finished, mine, saved, hands, removals>>

----------------------------------------------------------------------------
(* The time loop *)

StepOn ==    \* mutant: the loop does not end at n_steps
  /\ pc = "run" /\ ~closing
  /\ t' = t + job.dt
  /\ left' = left - 1 /\ done' = done + 1
  /\ UNCHANGED <<disk, job, closing, next, target, pc, written, ended, finished, mine,
                 saved, hands, bounds>>

Step ==
  /\ pc = "run" /\ left > 0
  /\ LET now == t + (IF job.transient THEN job.dt ELSE 1)
     IN /\ t' = now
        /\ next' = IF DueSeries(now) THEN next + job.interval ELSE next
        /\ target' = IF DueSeries(now) THEN Label(now) ELSE IF DueSingle THEN Single ELSE target
        /\ pc' = IF DueSeries(now) \/ DueSingle THEN "open" ELSE "run"
  /\ left' = left - 1 /\ done' = done + 1
  /\ UNCHANGED <<disk, job, closing, written, ended, finished, mine, saved, hands, bounds>>

\* A rigid body touched down: the loop is left after the step's own checkpoint.
TouchDown ==
  /\ pc = "run" /\ left > 0 /\ done > 0 /\ job.transient
  /\ left' = 0
  /\ UNCHANGED <<disk, job, pc, t, done, closing, next, target, written, ended, finished, mine,
                 saved, hands, bounds>>

\* After the loop: a last checkpoint when the case asked for a series.
Final ==
  /\ pc = "run" /\ left = 0 /\ ~closing /\ job.route = "series"
  /\ target' = Label(t) /\ pc' = "open" /\ closing' = TRUE
  /\ UNCHANGED <<disk, job, t, left, done, next, written, ended, finished, mine, saved,
                 hands, bounds>>

Leave ==
  /\ pc = "run" /\ left = 0
  /\ closing \/ job.route = "single"
  /\ pc' = "off" /\ ended' = "done"
  /\ UNCHANGED <<disk, proc, written, finished, mine, saved, hands, bounds>>

----------------------------------------------------------------------------
(* write_restart and Checkpoints::write *)

CreateAfterPruning ==    \* mutant: the oldest goes before the new one is written
  /\ pc = "open"
  /\ disk' = [f \in Files |->
                CASE f = target -> Torn
                  [] f # target /\ job.keep > 0 /\ Len(written) = job.keep /\ f = Head(written)
                       -> Absent
                  [] OTHER -> disk[f]]
  /\ mine' = mine \cup {target}
  /\ pc' = "fill"
  /\ UNCHANGED <<proc, written, ended, finished, saved, hands, bounds>>

\* File::create: whatever the name held is gone.
Create ==
  /\ pc = "open"
  /\ disk' = [disk EXCEPT ![target] = Torn]
  /\ mine' = mine \cup {target}
  /\ pc' = "fill"
  /\ UNCHANGED <<proc, written, ended, finished, saved, hands, bounds>>

\* The lengths of the fields are tested when the file is already open; the error ends the run.
LengthsRefused ==
  /\ pc = "fill"
  /\ pc' = "off" /\ ended' = "lengths"
  /\ UNCHANGED <<disk, proc, written, finished, mine, saved, hands, bounds>>

\* Every byte is out; in a series the file becomes the newest of `written`.
\* A file that somebody unlinked meanwhile stays unlinked.
Fill ==
  /\ pc = "fill"
  /\ disk' = [disk EXCEPT ![target] = IF @ = Torn THEN Content(job.mesh, t) ELSE @]
  /\ finished' = Moved(finished, target)
  /\ saved' = t
  /\ hands' = IF disk[target] = Torn THEN hands \ {target} ELSE hands
  /\ IF job.route = "series"
       THEN written' = Moved(written, target) /\ pc' = "prune"
       ELSE written' = written /\ pc' = "run"
  /\ UNCHANGED <<proc, ended, mine, bounds>>

Excess == job.keep > 0 /\ Len(written) > job.keep

PruneOldestOnDisk ==    \* mutant: the oldest label in the directory, whose ever it is
  /\ pc = "prune" /\ Excess
  /\ written' = Tail(written)
  /\ disk' = [disk EXCEPT ![CHOOSE f \in Series : disk[f] # Absent
                              /\ \A g \in Series : disk[g] # Absent => f <= g] = Absent]
  /\ UNCHANGED <<proc, pc, ended, finished, mine, saved, hands, bounds>>

\* One turn of prune's loop; a file that is not there is no error.
Prune ==
  /\ pc = "prune" /\ Excess
  /\ written' = Tail(written)
  /\ disk' = [disk EXCEPT ![Head(written)] = Absent]
  /\ UNCHANGED <<proc, pc, ended, finished, mine, saved, hands, bounds>>

\* remove_file fails: the entry is already off the list, and the run ends.
PruneFails ==
  /\ pc = "prune" /\ Excess /\ disk[Head(written)] # Absent
  /\ written' = Tail(written)
  /\ pc' = "off" /\ ended' = "io"
  /\ UNCHANGED <<disk, proc, finished, mine, saved, hands, bounds>>

Pruned ==
  /\ pc = "prune" /\ ~Excess
  /\ pc' = "run"
  /\ UNCHANGED <<disk, proc, written, ended, finished, mine, saved, hands, bounds>>

----------------------------------------------------------------------------
(* What the driver does not decide *)

\* A kill, a power cut of the process, a diverged field, an I/O error: at any point.
Dies ==
  /\ pc # "off"
  /\ pc' = "off" /\ ended' = "killed"
  /\ UNCHANGED <<disk, proc, written, finished, mine, saved, hands, bounds>>

PersonDeletes(f) ==
  /\ removals < MaxHands /\ removals' = removals + 1
  /\ disk[f] # Absent
  /\ disk' = [disk EXCEPT ![f] = Absent]
  /\ hands' = hands \cup {f}
  /\ UNCHANGED <<proc, pc, written, ended, finished, mine, saved, procs>>

ByProgram ==
  \/ \E j \in Jobs : Start(j) \/ \E f \in Files : Resume(j, f) \/ ResumeRefused(j, f)
  \/ Step \/ TouchDown \/ Final \/ Leave
  \/ Create \/ LengthsRefused \/ Fill \/ Prune \/ PruneFails \/ Pruned
  \/ Dies
ByHand == \E f \in Files : PersonDeletes(f)

Next == ByProgram \/ ByHand

Spec == Init /\ [][Next]_vars
============================================================================
