---------------------------- MODULE SpmdSolveProps ----------------------------
(***************************************************************************)
(* What makes a distributed solve one solve: the ranks never part.         *)
(***************************************************************************)
EXTENDS SpmdSolve

Phases == {"preflight", "open", "verdict", "setup", "test", "body", "check", "rest",
           "finish", "again"}

\* Shapes of the variables.
TypeOK ==
  /\ world \in Worlds
  /\ \A r \in Ranks :
       /\ at[r].solve \in 1..Len(world.solves) /\ at[r].phase \in Phases
       /\ at[r].outer \in 0..MaxOuter
       /\ at[r].sweeps \in 0..Solve(r).most /\ at[r].it \in 0..Solve(r).most
       /\ Len(solved[r]) <= Len(world.solves)
  /\ inside \in [Ranks -> BOOLEAN] /\ bit \in [Ranks -> BOOLEAN]
  /\ state \in [Ranks -> {"running", "done", "refused", "failed"}]
  /\ errs \in 0..MaxErrs

Shorter(a, b) == IF Len(a) < Len(b) THEN Len(a) ELSE Len(b)

(* Nobody read a wrong flag, or every solve votes on its flags. *)
Trusted == errs = 0 \/ \A i \in 1..Len(world.solves) : world.solves[i].vote

(* The ranks make one sequence of collectives and one of exchanges: what a   *)
(* rank sends in its k-th call is used by its peers at the same place of the *)
(* same solve.  The headers do not say so: all sums have the same length.    *)
OneSequence ==
  Trusted => \A r, q \in Ranks :
    /\ \A k \in 1..Shorter(rounds[r], rounds[q]) : rounds[r][k].place = rounds[q][k].place
    /\ \A k \in 1..Shorter(swaps[r], swaps[q]) : swaps[r][k] = swaps[q][k]

(* Where one rank read another flag than its peers, the vote stops them all: *)
(* nobody finishes a solve in which the votes differed.  Ranks that parted   *)
(* in a solve without a vote may meet again at the same round of different   *)
(* solves, so this is said of trusted runs.                                  *)
NobodyGoesOn ==
  Trusted => \A r, q \in Ranks : \A k \in 1..Shorter(rounds[r], rounds[q]) :
    rounds[r][k].header = "vote" /\ rounds[q][k].header = "vote"
      /\ rounds[r][k].bit # rounds[q][k].bit
      => \A p \in Ranks : Len(solved[p]) < rounds[r][k].place.at.solve

(* A solve that one rank refused before its first message is finished by no  *)
(* other rank, refined or not, unless the ranks parted in a solve before it. *)
NobodySolvesAlone ==
  Trusted => \A r, q \in Ranks : \A i \in 1..Len(world.solves) :
    <<r, i>> \in world.refuses /\ world.solves[i].cells => Len(solved[q]) < i

(* Every rank comes back from its solves, also when another one refused, or  *)
(* parted from it.                                                           *)
EverybodyReturns == <>(\A r \in Ranks : state[r] # "running")
=============================================================================
