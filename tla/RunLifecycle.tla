---------------------------- MODULE RunLifecycle ----------------------------
(***************************************************************************)
(* What the run manager of the studio server promises about a run,         *)
(* whatever happens underneath it: a run is submitted once, it may become  *)
(* live once, it is over once, and the outcome announced when it is over   *)
(* is the run's outcome for good.  RunManager implements this module.      *)
(***************************************************************************)
CONSTANT Runs

VARIABLES life,     \* where each run is in its life
          outcome   \* the verdict announced with the end of the run

lifeVars == <<life, outcome>>

Outcomes == {"done", "failed", "killed", "diverged"}

LifeTypeOK ==
    /\ life \in [Runs -> {"new", "waiting", "live", "over"}]
    /\ outcome \in [Runs -> Outcomes \cup {"none"}]

LifeInit ==
    /\ life = [r \in Runs |-> "new"]
    /\ outcome = [r \in Runs |-> "none"]

(* A run is accepted and waits for its turn. *)
Submit(r) ==
    /\ life[r] = "new"
    /\ life' = [life EXCEPT ![r] = "waiting"]
    /\ UNCHANGED outcome

(* A waiting run gets its process. *)
Begin(r) ==
    /\ life[r] = "waiting"
    /\ life' = [life EXCEPT ![r] = "live"]
    /\ UNCHANGED outcome

(* A waiting run is given up: it was cancelled, or it could not start. *)
GiveUp(r, verdict) ==
    /\ life[r] = "waiting"
    /\ verdict \in {"killed", "failed"}
    /\ life' = [life EXCEPT ![r] = "over"]
    /\ outcome' = [outcome EXCEPT ![r] = verdict]

(* A live run is over. *)
End(r, verdict) ==
    /\ life[r] = "live"
    /\ verdict \in Outcomes
    /\ life' = [life EXCEPT ![r] = "over"]
    /\ outcome' = [outcome EXCEPT ![r] = verdict]

(* The server goes down: every run that still waits is cancelled at once. *)
CancelWaiting ==
    /\ life' = [r \in Runs |-> IF life[r] = "waiting" THEN "over" ELSE life[r]]
    /\ outcome' = [r \in Runs |->
                     IF life[r] = "waiting" THEN "killed" ELSE outcome[r]]

LifeNext ==
    \/ \E r \in Runs :
         \/ Submit(r)
         \/ Begin(r)
         \/ \E verdict \in Outcomes : GiveUp(r, verdict) \/ End(r, verdict)
    \/ CancelWaiting

LifeSpec == LifeInit /\ [][LifeNext]_lifeVars
=============================================================================
