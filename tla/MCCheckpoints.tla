---------------------------- MODULE MCCheckpoints ----------------------------
(* Restart files on a few jobs, for TLC. *)
EXTENDS CheckpointsProps

Job(route, keep, interval, transient, dt, end, mesh) ==
  [route |-> route, keep |-> keep, interval |-> interval, transient |-> transient,
   dt |-> dt, end |-> end, mesh |-> mesh]

(* Rotations that keep all, one and two; a step as long as the interval,     *)
(* shorter and longer; an end between two steps; a schedule of zero; a       *)
(* steady run; the command-line route; another mesh.                         *)
MCJobs ==
  {Job("series", k, 1, TRUE, 1, 4, "coarse") : k \in {0, 1, 2}}
    \cup {Job("series", 2, 2, TRUE, 1, 5, "coarse"), Job("series", 1, 3, TRUE, 2, 5, "coarse"),
          Job("series", 2, 1, TRUE, 2, 4, "fine"), Job("series", 1, 0, TRUE, 1, 2, "coarse"),
          Job("series", 2, 1, FALSE, 1, 3, "coarse"),
          Job("single", 0, 2, TRUE, 1, 4, "coarse"), Job("single", 0, 1, FALSE, 1, 2, "fine")}
============================================================================
