--------------------------- MODULE CheckpointsProps ---------------------------
(***************************************************************************)
(* What a person relies on when a long run dies: the newest checkpoints    *)
(* are there, little work is lost, and no file of somebody else is gone.   *)
(***************************************************************************)
EXTENDS Checkpoints

\* The last n entries of a sequence, or all of it.
Newest(s, n) == SubSeq(s, IF Len(s) > n THEN Len(s) - n + 1 ELSE 1, Len(s))

Kept == IF job.keep = 0 THEN finished ELSE Newest(finished, job.keep)

\* Shapes of the variables.
TypeOK ==
  /\ \A f \in Files :
       disk[f] \notin {Absent, Torn} => disk[f].time \in 0..MaxTime
  /\ job \in Jobs /\ pc \in {"off", "run", "open", "fill", "prune"}
  /\ t \in 0..MaxTime /\ left \in Nat /\ done \in Nat /\ next \in Nat
  /\ closing \in BOOLEAN /\ target \in Files
  /\ written \in Seq(Files) /\ finished \in Seq(Files)
  /\ ended \in {"no", "done", "killed", "refused", "lengths", "io"}
  /\ mine \subseteq Files /\ hands \subseteq Files

(* Whatever moment the process dies at, each of the newest `keep` files it   *)
(* finished is whole on disk and holds the state of its own label, except    *)
(* the one that was being rewritten under that label, and what a person      *)
(* deleted.  The files of a process that ended stay until the next starts.   *)
Durable ==
  job.route = "series" =>
    \A i \in 1..Len(Kept) :
      LET f == Kept[i]
      IN \/ f \in hands
         \/ Whole(f) /\ disk[f].mesh = job.mesh /\ Label(disk[f].time) = f
         \/ disk[f] = Torn /\ f = target

(* `written` is the list of this process's files that are still there: each  *)
(* once, oldest first, never more than `keep` when no write is under way.    *)
SeriesOK ==
  pc = "run" /\ job.route = "series" =>
    /\ written = Kept
    /\ \A f \in Files : Whole(f) /\ f \in mine => \E i \in 1..Len(written) : written[i] = f

(* Between two steps the work that a death would lose is shorter than the    *)
(* interval, whatever the ratio of step to interval, after a resumption too. *)
BoundedLoss ==
  pc = "run" /\ job.route = "series" /\ job.transient /\ job.interval > 0
    => t - saved < job.interval

(* The only files the program removes are ones this very process created:   *)
(* never a checkpoint of an earlier run or of a person.                      *)
ForeignSafe ==
  [][ByProgram => \A f \in Files : disk[f] # Absent /\ disk'[f] = Absent => f \in mine]_vars

(* What the rotation promises: its list is right between two steps, and what *)
(* it removes on the way there is its own.                                   *)
RotationOK == []SeriesOK /\ ForeignSafe
============================================================================
