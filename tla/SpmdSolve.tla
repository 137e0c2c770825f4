------------------------------ MODULE SpmdSolve ------------------------------
(***************************************************************************)
(* The distributed solvers (rust/src/distsolve/spmd.rs and refine.rs, with *)
(* the exchanges of halo/spmd.rs, the reductions of exactsum/spmd.rs and   *)
(* the V-cycle of amg/distcycle.rs): every rank runs the same loop on its  *)
(* own part and decides by itself, from reduced numbers, when to stop.     *)
(*                                                                         *)
(* What is kept of a solve is the sequence of calls it makes of the        *)
(* transport and every decision between them.  What is left out is the     *)
(* arithmetic: a convergence test is a bit that all ranks read alike,      *)
(* because they reduced the same bytes, unless one of them errs.           *)
(*                                                                         *)
(* The transport is what ThreadComm is shown to do: a collective returns   *)
(* when every rank has entered its own with the same header, an exchange   *)
(* when the matching message of each neighbour is there; a call that the   *)
(* others never answer ends at its deadline, and after an error a rank     *)
(* makes no further call.                                                  *)
(***************************************************************************)
EXTENDS Integers, Sequences, FiniteSets

CONSTANTS Ranks,
          Neighbours,   \* the ranks each shares a cut face with
          Hollow,       \* the ranks that own no cell
          Levels,       \* coarse levels of the distributed V-cycle
          MaxOuter,     \* IR_MAX_OUTER
          Worlds,       \* what is to be solved, and which ranks refuse what
          MaxErrs       \* bound: how often a rank may read another bit than its peers

(* A solve: the method and the settings its calls depend on.                *)
Solves ==
  [method : {"pcg", "pbicgstab", "gamg"},
   exact : BOOLEAN,      \* DistReduce: limbs, or gathered partial sums
   precon : BOOLEAN,     \* the preconditioner is the distributed V-cycle
   lopsided : BOOLEAN,   \* that cycle is not symmetric
   fixed : BOOLEAN,      \* fixed_iters
   every : Nat \ {0},    \* check_interval
   most : Nat,           \* max_iter
   report : BOOLEAN,     \* report_residuals
   vote : BOOLEAN,       \* the flag vote is on
   single : BOOLEAN,     \* the `single` build, whose solves are refined
   cells : BOOLEAN]      \* the whole mesh has cells

ASSUME SolveAssumption ==
  /\ IsFiniteSet(Ranks) /\ Ranks # {}
  /\ Neighbours \in [Ranks -> SUBSET Ranks]
  /\ \A r, q \in Ranks : q \in Neighbours[r] <=> r \in Neighbours[q]
  /\ Hollow \subseteq Ranks
  /\ Levels \in Nat /\ MaxOuter \in Nat /\ MaxErrs \in Nat
  /\ \A w \in Worlds : /\ w.solves \in Seq(Solves) /\ w.solves # <<>>
                       /\ w.refuses \subseteq Ranks \X (1..Len(w.solves))

VARIABLES world,    \* the solves every rank makes in a row
          at,       \* where each rank is in them
          todo,     \* the calls it still makes before its next decision
          inside,   \* whether it waits in the first of them
          bit,      \* what it read at its last decision: does the loop end?
          state,    \* "running", "done", "refused" or "failed"
          truth,    \* what the reduced numbers say, decision by decision
          rounds,   \* history: the collectives each rank entered
          swaps,    \* history: the exchanges it entered
          solved,   \* history: the iterations of each solve it finished
          errs

vars == <<world, at, todo, inside, bit, state, truth, rounds, swaps, solved, errs>>

----------------------------------------------------------------------------
(* The calls of a solve *)

\* An exact reduction gathers its anchor, then its limbs; the other one partial sum.
Reduce(s) == IF s.exact THEN <<"word", "limbs">> ELSE <<"word">>

\* refine's world_exact: always exact.
WorldSum == <<"word", "limbs">>

\* One V-cycle with one product per smoothing: down, the coarsest level gathered, up.
Cycle == [i \in 1..(2 * Levels) |-> "halo"] \o <<"gatherv">> \o [i \in 1..Levels |-> "halo"]

Precondition(s) == IF s.precon THEN Cycle ELSE <<>>

Setup(s) ==
  Reduce(s) \o <<"halo", "halo">> \o Reduce(s) \o Reduce(s)
    \o (IF s.method = "pcg" THEN Precondition(s) \o Reduce(s) ELSE <<>>)

\* One iteration up to its check, the check's own residual, and the rest of it.
Body(s) ==
  CASE s.method = "pcg" -> <<"halo">> \o Reduce(s)
    [] s.method = "pbicgstab" ->
         Reduce(s) \o Precondition(s) \o <<"halo">> \o Reduce(s)
           \o Precondition(s) \o <<"halo">> \o Reduce(s) \o Reduce(s)
    [] OTHER -> Cycle
Check(s) == IF s.method = "gamg" THEN <<"halo">> \o Reduce(s) ELSE Reduce(s)
Rest(s) == IF s.method = "pcg" THEN Precondition(s) \o Reduce(s) ELSE <<>>

FinishUnlessHollow(r, s) ==    \* mutant: nothing to report on a rank without cells
  IF r \in Hollow THEN <<>> ELSE <<"halo">> \o Reduce(s)

\* The true residual, recomputed for the report.
Finish(r, s) == <<"halo">> \o Reduce(s)

FillHalo == <<"halo", "halo", "halo">>
Vote(s) == IF s.vote THEN <<"vote">> ELSE <<>>

\* What the transport compares: one byte, eight, forty, or any length.
IsExchange(call) == call = "halo"

----------------------------------------------------------------------------
(* Where a rank is *)

Solve(r) == world.solves[at[r].solve]
Refined(s) == s.single /\ ~s.fixed /\ s.cells
Checking(s) == Refined(s) \/ ~s.fixed

\* The inner solve of a refinement gets what is left of max_iter and reports nothing.
Most(r) == Solve(r).most - at[r].sweeps
Reports(s) == s.report /\ ~Refined(s)

Decides(r) == state[r] = "running" /\ ~inside[r] /\ todo[r] = <<>>

Start(i) == [solve |-> i, phase |-> "preflight", outer |-> 0, sweeps |-> 0, it |-> 0]

Init ==
  /\ world \in Worlds
  /\ at = [r \in Ranks |-> Start(1)]
  /\ todo = [r \in Ranks |-> <<>>]
  /\ inside = [r \in Ranks |-> FALSE]
  /\ bit = [r \in Ranks |-> FALSE]
  /\ state = [r \in Ranks |-> "running"]
  /\ truth = {}
  /\ rounds = [r \in Ranks |-> <<>>]
  /\ swaps = [r \in Ranks |-> <<>>]
  /\ solved = [r \in Ranks |-> <<>>]
  /\ errs = 0

Go(r, a, calls) ==
  /\ at' = [at EXCEPT ![r] = a]
  /\ todo' = [todo EXCEPT ![r] = calls]
  /\ UNCHANGED state

Stop(r, how) ==
  /\ state' = [state EXCEPT ![r] = how]
  /\ UNCHANGED <<at, todo>>

Phase(r, phase, calls) == Go(r, [at[r] EXCEPT !.phase = phase], calls)

\* The solve returns Ok: on to the next one.
Return(r, iterations) ==
  /\ solved' = [solved EXCEPT ![r] = Append(@, iterations)]
  /\ IF at[r].solve = Len(world.solves)
       THEN Stop(r, "done")
       ELSE Go(r, Start(at[r].solve + 1), <<>>)

----------------------------------------------------------------------------
(* Decisions *)

FitsUnlessRefined(r) ==    \* mutant: the refined route makes no preflight
  Refined(Solve(r)) \/ <<r, at[r].solve>> \notin world.refuses

\* preflight: what one rank can refuse alone is refused before it sends anything.  Without
\* -permissive, under which a missing colouring or cycle is not refused but replaced.
Fits(r) == <<r, at[r].solve>> \notin world.refuses

\* CG needs a symmetric cycle; every rank has the same one.
Lopsided(s) == s.method = "pcg" /\ s.precon /\ s.lopsided

Preflight(r) ==
  LET s == Solve(r)
  IN /\ Decides(r) /\ at[r].phase = "preflight"
     /\ IF ~Fits(r) \/ (~Refined(s) /\ Lopsided(s))
          THEN Stop(r, "refused") /\ UNCHANGED solved
          ELSE IF ~s.cells
          THEN Return(r, 0)
          ELSE /\ IF Refined(s)
                    THEN Phase(r, "open", FillHalo \o WorldSum \o WorldSum \o WorldSum)
                    ELSE Phase(r, "setup", Setup(s))
               /\ UNCHANGED solved
     /\ UNCHANGED <<world, inside, bit, truth, rounds, swaps, errs>>

\* The bit a rank reads where it stands; the first to read it settles it for all.
Reads(r, a, b) ==
  LET known == {x \in truth : x.at = a}
  IN /\ bit' = [bit EXCEPT ![r] = b]
     /\ IF known = {}
          THEN truth' = truth \cup {[at |-> a, bit |-> b]} /\ UNCHANGED errs
          ELSE /\ UNCHANGED truth
               /\ IF \E x \in known : x.bit = b
                    THEN UNCHANGED errs
                    ELSE errs < MaxErrs /\ errs' = errs + 1

VerdictOneMore(r) ==    \* mutant: an outer step too many
  LET a == [at[r] EXCEPT !.phase = "verdict"]
  IN /\ Decides(r) /\ at[r].phase \in {"open", "again"}
     /\ \E b \in BOOLEAN :
          /\ b \/ (at[r].sweeps < Solve(r).most /\ at[r].outer <= MaxOuter)
          /\ Reads(r, a, b)
     /\ Phase(r, "verdict", Vote(Solve(r)))
     /\ UNCHANGED <<world, inside, rounds, swaps, solved>>

\* refine's verdict: it must stop when the sweeps are spent or the outer steps are.
Verdict(r) ==
  LET a == [at[r] EXCEPT !.phase = "verdict"]
  IN /\ Decides(r) /\ at[r].phase \in {"open", "again"}
     /\ \E b \in BOOLEAN :
          /\ b \/ (at[r].sweeps < Solve(r).most /\ at[r].outer < MaxOuter)
          /\ Reads(r, a, b)
     /\ Phase(r, "verdict", Vote(Solve(r)))
     /\ UNCHANGED <<world, inside, rounds, swaps, solved>>

\* The outer loop goes on into the float body, which repeats the preflight, or ends.
Outer(r) ==
  LET s == Solve(r)
  IN /\ Decides(r) /\ at[r].phase = "verdict"
     /\ IF bit[r] THEN Return(r, at[r].sweeps)
        ELSE /\ IF Lopsided(s) THEN Stop(r, "refused") ELSE Phase(r, "setup", Setup(s))
             /\ UNCHANGED solved
     /\ UNCHANGED <<world, inside, bit, truth, rounds, swaps, errs>>

\* convergence_test and the read of the flag.
Test(r) ==
  LET a == [at[r] EXCEPT !.phase = "test"]
  IN /\ Decides(r) /\ Checking(Solve(r))
     /\ at[r].phase = "check" \/ (at[r].phase = "setup" /\ at[r].it = 0)
     /\ \E b \in BOOLEAN : Reads(r, a, b)
     /\ Phase(r, "test", Vote(Solve(r)))
     /\ UNCHANGED <<world, inside, rounds, swaps, solved>>

LeaveLoop(r) ==
  IF Reports(Solve(r)) THEN Phase(r, "finish", Finish(r, Solve(r))) ELSE Phase(r, "finish", <<>>)

NextIteration(r) ==
  IF at[r].it < Most(r)
    THEN Go(r, [at[r] EXCEPT !.phase = "body", !.it = @ + 1], Body(Solve(r)))
    ELSE LeaveLoop(r)

\* The loop of a solver, from one of its decisions to the next.
Loop(r) ==
  LET s == Solve(r)
      p == at[r].phase
  IN /\ Decides(r)
     /\ \/ p = "setup" /\ ~Checking(s) /\ NextIteration(r)
        \/ p = "test" /\ bit[r] /\ LeaveLoop(r)
        \/ p = "test" /\ ~bit[r] /\ at[r].it = 0 /\ NextIteration(r)
        \/ p = "test" /\ ~bit[r] /\ at[r].it > 0 /\ Phase(r, "rest", Rest(s))
        \/ p = "body" /\ Checking(s) /\ at[r].it % s.every = 0 /\ Phase(r, "check", Check(s))
        \/ p = "body" /\ ~(Checking(s) /\ at[r].it % s.every = 0) /\ Phase(r, "rest", Rest(s))
        \/ p = "rest" /\ NextIteration(r)
     /\ UNCHANGED <<world, inside, bit, truth, rounds, swaps, solved, errs>>

\* The float body is over: the solve returns, or the refinement updates its residual.
Done(r) ==
  /\ Decides(r) /\ at[r].phase = "finish"
  /\ IF Refined(Solve(r))
       THEN /\ Go(r, [at[r] EXCEPT !.phase = "again", !.outer = @ + 1,
                                   !.sweeps = @ + at[r].it, !.it = 0], FillHalo \o WorldSum)
            /\ UNCHANGED solved
       ELSE Return(r, at[r].it)
  /\ UNCHANGED <<world, inside, bit, truth, rounds, swaps, errs>>

----------------------------------------------------------------------------
(* Calls *)

\* The place of a call in the program, which no header carries.
Place(r) == [at |-> at[r], left |-> Len(todo[r])]

Round(r) == Len(rounds[r])
Swap(r) == Len(swaps[r])

Enter(r) ==
  /\ state[r] = "running" /\ ~inside[r] /\ todo[r] # <<>>
  /\ inside' = [inside EXCEPT ![r] = TRUE]
  /\ IF IsExchange(Head(todo[r]))
       THEN /\ swaps' = [swaps EXCEPT ![r] = Append(@, Place(r))]
            /\ UNCHANGED rounds
       ELSE /\ rounds' = [rounds EXCEPT ![r] =
                 Append(@, [place |-> Place(r), header |-> Head(todo[r]), bit |-> bit[r]])]
            /\ UNCHANGED swaps
  /\ UNCHANGED <<world, at, todo, bit, state, truth, solved, errs>>

Inside(r) == state[r] = "running" /\ inside[r]

\* The ranks that have not sent what r waits for.
Missing(r) ==
  IF IsExchange(Head(todo[r]))
    THEN {q \in Neighbours[r] : Swap(q) < Swap(r)}
    ELSE {q \in Ranks : Round(q) < Round(r)}

\* R6: the ranks whose header in r's round is another one.
Disagreeing(r) ==
  IF IsExchange(Head(todo[r]))
    THEN {}
    ELSE {q \in Ranks : Round(q) >= Round(r)
                          /\ rounds[q][Round(r)].header # Head(todo[r])}

SplitFromNeighbours(r) ==    \* mutant: the votes of the neighbours only
  /\ Head(todo[r]) = "vote"
  /\ \E q \in Neighbours[r] : rounds[r][Round(r)].bit # rounds[q][Round(r)].bit

\* take_vote: any two ranks voted differently.
Split(r) ==
  /\ Head(todo[r]) = "vote"
  /\ \E p, q \in Ranks : rounds[p][Round(r)].bit # rounds[q][Round(r)].bit

Leave(r) ==
  /\ Inside(r) /\ Missing(r) = {} /\ Disagreeing(r) = {}
  /\ inside' = [inside EXCEPT ![r] = FALSE]
  /\ IF Split(r)
       THEN Stop(r, "refused")
       ELSE Go(r, at[r], Tail(todo[r]))
  /\ UNCHANGED <<world, bit, truth, rounds, swaps, solved, errs>>

Mismatch(r) ==
  /\ Inside(r) /\ Disagreeing(r) # {}
  /\ Stop(r, "failed")
  /\ inside' = [inside EXCEPT ![r] = FALSE]
  /\ UNCHANGED <<world, bit, truth, rounds, swaps, solved, errs>>

WaitForever(r) == FALSE /\ UNCHANGED vars    \* mutant: no deadline

TimeOut(r) ==
  /\ Inside(r) /\ Missing(r) # {}
  /\ Stop(r, "failed")
  /\ inside' = [inside EXCEPT ![r] = FALSE]
  /\ UNCHANGED <<world, bit, truth, rounds, swaps, solved, errs>>

RankStep(r) ==
  \/ Preflight(r) \/ Verdict(r) \/ Outer(r) \/ Test(r) \/ Loop(r) \/ Done(r)
  \/ Enter(r) \/ Leave(r) \/ Mismatch(r) \/ TimeOut(r)

Next == \E r \in Ranks : RankStep(r)

Spec == Init /\ [][Next]_vars

(* Every rank is a running thread, and the clock of a wait runs out.        *)
FairSpec == Spec /\ \A r \in Ranks : WF_vars(RankStep(r))
=============================================================================
