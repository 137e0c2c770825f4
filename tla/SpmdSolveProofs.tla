--------------------------- MODULE SpmdSolveProofs ---------------------------
(***************************************************************************)
(* The distributed solves, for every number of ranks, every partition and  *)
(* every list of solves: types, that the ranks make one sequence of calls, *)
(* and what follows from it for votes and refusals.                        *)
(***************************************************************************)
EXTENDS SpmdSolveProps, SequenceTheorems, TLAPS

-----------------------------------------------------------------------------
(* Types. *)

Calls == {"word", "limbs", "halo", "gatherv", "vote"}

At == [solve : Nat \ {0}, phase : Phases, outer : Nat, sweeps : Nat, it : Nat]

Places == [at : At, left : Nat]

Entries == [place : Places, header : Calls, bit : BOOLEAN]

TypeInv ==
    /\ world \in Worlds
    /\ at \in [Ranks -> At]
    /\ todo \in [Ranks -> Seq(Calls)]
    /\ inside \in [Ranks -> BOOLEAN] /\ bit \in [Ranks -> BOOLEAN]
    /\ state \in [Ranks -> {"running", "done", "refused", "failed"}]
    /\ truth \in SUBSET [at : At, bit : BOOLEAN]
    /\ rounds \in [Ranks -> Seq(Entries)]
    /\ swaps \in [Ranks -> Seq(Places)]
    /\ solved \in [Ranks -> Seq(Nat)]
    /\ errs \in 0..MaxErrs

LEMMA ListIsSeq ==
    ASSUME NEW S, NEW N \in Nat, NEW f \in [1..N -> S]
    PROVE  f \in Seq(S) /\ Len(f) = N
<1>1. f \in Seq(S)
  BY SeqDef
<1>2. Len(f) \in Nat /\ DOMAIN f = 1..Len(f)
  BY <1>1, LenProperties
<1>3. 1..N = 1..Len(f)
  BY <1>2
<1>. QED  BY <1>1, <1>2, <1>3

(* The calls of each part of a solve. *)
LEMMA ReduceType ==
    ASSUME NEW s
    PROVE  Reduce(s) \in Seq(Calls) /\ Len(Reduce(s)) > 0 /\ Reduce(s)[1] = "word"
<1>1. <<"word", "limbs">> \in Seq(Calls) /\ Len(<<"word", "limbs">>) > 0
      /\ <<"word", "limbs">>[1] = "word"
  BY DEF Calls
<1>2. <<"word">> \in Seq(Calls) /\ Len(<<"word">>) > 0 /\ <<"word">>[1] = "word"
  BY DEF Calls
<1>. QED  BY <1>1, <1>2 DEF Reduce

LEMMA HalosType ==
    /\ <<>> \in Seq(Calls) /\ <<"halo">> \in Seq(Calls) /\ <<"halo", "halo">> \in Seq(Calls)
    /\ FillHalo \in Seq(Calls) /\ WorldSum \in Seq(Calls) /\ <<"gatherv">> \in Seq(Calls)
    /\ WorldSum[1] = "word" /\ Len(WorldSum) > 0
BY DEF Calls, FillHalo, WorldSum

LEMMA VoteType ==
    ASSUME NEW s
    PROVE  /\ Vote(s) \in Seq(Calls)
           /\ Vote(s) = <<"vote">> \/ Vote(s) = <<>>
           /\ s.vote => Vote(s) = <<"vote">>
<1>1. <<>> \in Seq(Calls) /\ <<"vote">> \in Seq(Calls)
  BY DEF Calls
<1>. QED  BY <1>1 DEF Vote

LEMMA CycleType == Cycle \in Seq(Calls)
<1> DEFINE a == [i \in 1..(2 * Levels) |-> "halo"]
           b == [i \in 1..Levels |-> "halo"]
<1>1. Levels \in Nat /\ 2 * Levels \in Nat
  BY SolveAssumption
<1>2. a \in [1..(2 * Levels) -> Calls] /\ b \in [1..Levels -> Calls]
  BY DEF Calls
<1>. HIDE DEF a, b
<1>3. a \in Seq(Calls) /\ b \in Seq(Calls)
  BY <1>1, <1>2, ListIsSeq
<1>4. a \o <<"gatherv">> \in Seq(Calls)
  BY <1>3, HalosType, ConcatProperties
<1>5. (a \o <<"gatherv">>) \o b \in Seq(Calls)
  BY <1>3, <1>4, ConcatProperties
<1>. QED  BY <1>5 DEF Cycle, a, b

LEMMA PreconditionType ==
    ASSUME NEW s
    PROVE  Precondition(s) \in Seq(Calls)
BY CycleType, HalosType DEF Precondition

LEMMA SetupType ==
    ASSUME NEW s
    PROVE  Setup(s) \in Seq(Calls) /\ Len(Setup(s)) > 0 /\ Setup(s)[1] = "word"
<1> DEFINE r == Reduce(s)
           h == <<"halo", "halo">>
           e == IF s.method = "pcg" THEN Precondition(s) \o Reduce(s) ELSE <<>>
<1>1. r \in Seq(Calls) /\ h \in Seq(Calls) /\ Len(r) > 0 /\ r[1] = "word"
  BY ReduceType, HalosType
<1>2. e \in Seq(Calls)
  <2>1. Precondition(s) \o Reduce(s) \in Seq(Calls)
    BY <1>1, PreconditionType, ConcatProperties
  <2>. QED  BY <2>1, HalosType
<1>3. Setup(s) = (((r \o h) \o r) \o r) \o e
  BY DEF Setup
<1>. HIDE DEF r, h, e
<1>4. ASSUME NEW a \in Seq(Calls), NEW b \in Seq(Calls), Len(a) > 0, a[1] = "word"
      PROVE  a \o b \in Seq(Calls) /\ Len(a \o b) > 0 /\ (a \o b)[1] = "word"
  <2>1. /\ Len(a) \in Nat /\ Len(b) \in Nat /\ a \o b \in Seq(Calls)
        /\ Len(a \o b) = Len(a) + Len(b)
        /\ \A i \in 1..Len(a) + Len(b) : (a \o b)[i] = IF i <= Len(a) THEN a[i] ELSE b[i - Len(a)]
    BY ConcatProperties
  <2>2. 1 \in 1..Len(a) + Len(b) /\ 1 <= Len(a)
    BY <1>4, <2>1
  <2>. QED  BY <1>4, <2>1, <2>2
<1>5. LET a == r \o h IN a \in Seq(Calls) /\ Len(a) > 0 /\ a[1] = "word"
  BY <1>1, <1>4
<1>6. LET a == (r \o h) \o r IN a \in Seq(Calls) /\ Len(a) > 0 /\ a[1] = "word"
  BY <1>1, <1>4, <1>5
<1>7. LET a == ((r \o h) \o r) \o r IN a \in Seq(Calls) /\ Len(a) > 0 /\ a[1] = "word"
  BY <1>1, <1>4, <1>6
<1>. QED  BY <1>2, <1>3, <1>4, <1>7

LEMMA BodyType ==
    ASSUME NEW s
    PROVE  Body(s) \in Seq(Calls)
<1> DEFINE r == Reduce(s)
           p == Precondition(s)
           h == <<"halo">>
<1>1. r \in Seq(Calls) /\ h \in Seq(Calls) /\ p \in Seq(Calls)
  BY ReduceType, HalosType, PreconditionType
<1>2. \A a, b \in Seq(Calls) : a \o b \in Seq(Calls)
  BY ConcatProperties
<1>3. CASE s.method = "pcg"
  <2>1. Body(s) = h \o r
    BY <1>3 DEF Body
  <2>. QED  BY <1>1, <1>2, <2>1
<1>4. CASE s.method = "pbicgstab"
  <2>1. Body(s) = ((((((r \o p) \o h) \o r) \o p) \o h) \o r) \o r
    BY <1>4 DEF Body
  <2>. HIDE DEF r, p, h
  <2>2. ((r \o p) \o h) \o r \in Seq(Calls)
    BY <1>1, <1>2
  <2>3. ((((r \o p) \o h) \o r) \o p) \o h \in Seq(Calls)
    BY <1>1, <1>2, <2>2
  <2>. QED  BY <1>1, <1>2, <2>1, <2>3
<1>5. CASE s.method \notin {"pcg", "pbicgstab"}
  BY <1>5, CycleType DEF Body
<1>. QED  BY <1>3, <1>4, <1>5

LEMMA PartsType ==
    ASSUME NEW s, NEW r
    PROVE  Check(s) \in Seq(Calls) /\ Rest(s) \in Seq(Calls) /\ Finish(r, s) \in Seq(Calls)
<1>1. Reduce(s) \in Seq(Calls) /\ <<"halo">> \in Seq(Calls) /\ Precondition(s) \in Seq(Calls)
      /\ <<>> \in Seq(Calls)
  BY ReduceType, HalosType, PreconditionType
<1>2. \A a, b \in Seq(Calls) : a \o b \in Seq(Calls)
  BY ConcatProperties
<1>3. <<"halo">> \o Reduce(s) \in Seq(Calls) /\ Precondition(s) \o Reduce(s) \in Seq(Calls)
  BY <1>1, <1>2
<1>. QED  BY <1>1, <1>3 DEF Check, Rest, Finish

(* The opening of a refined solve. *)
Opening == FillHalo \o WorldSum \o WorldSum \o WorldSum

LEMMA OpeningType ==
    /\ Opening \in Seq(Calls) /\ \E j \in 1..Len(Opening) : Opening[j] = "word"
    /\ FillHalo \o WorldSum \in Seq(Calls)
<1> DEFINE f == FillHalo
           w == WorldSum
           a == f \o w
           b == a \o w
           c == b \o w
<1>1. f \in Seq(Calls) /\ w \in Seq(Calls) /\ w[1] = "word" /\ Len(w) > 0
  BY HalosType
<1>2. Opening = c
  BY DEF Opening
<1>. HIDE DEF f, w, c
<1>3. a \in Seq(Calls) /\ Len(a) = Len(f) + Len(w) /\ Len(f) \in Nat /\ Len(w) \in Nat
      /\ \A i \in 1..Len(f) + Len(w) : a[i] = IF i <= Len(f) THEN f[i] ELSE w[i - Len(f)]
  BY <1>1, ConcatProperties
<1>4. Len(f) + 1 \in 1..Len(a) /\ a[Len(f) + 1] = "word"
  <2>1. Len(f) + 1 \in 1..Len(f) + Len(w) /\ ~(Len(f) + 1 <= Len(f)) /\ (Len(f) + 1) - Len(f) = 1
    BY <1>1, <1>3
  <2>. QED  BY <1>1, <1>3, <2>1
<1>. HIDE DEF a
<1>5. ASSUME NEW x \in Seq(Calls), \E j \in 1..Len(x) : x[j] = "word"
      PROVE  x \o w \in Seq(Calls) /\ \E j \in 1..Len(x \o w) : (x \o w)[j] = "word"
  <2>1. /\ Len(x) \in Nat /\ Len(w) \in Nat /\ x \o w \in Seq(Calls)
        /\ Len(x \o w) = Len(x) + Len(w)
        /\ \A i \in 1..Len(x) + Len(w) : (x \o w)[i] = IF i <= Len(x) THEN x[i] ELSE w[i - Len(x)]
    BY <1>1, ConcatProperties
  <2>2. PICK j \in 1..Len(x) : x[j] = "word"
    BY <1>5
  <2>3. j \in 1..Len(x \o w) /\ (x \o w)[j] = "word"
    BY <2>1, <2>2
  <2>. QED  BY <2>1, <2>3
<1>6. b \in Seq(Calls) /\ \E j \in 1..Len(b) : b[j] = "word"
  BY <1>3, <1>4, <1>5
<1>. HIDE DEF b
<1>7. c \in Seq(Calls) /\ \E j \in 1..Len(c) : c[j] = "word"
  BY <1>5, <1>6 DEF c
<1>. QED  BY <1>2, <1>3, <1>7 DEF a, f, w

-----------------------------------------------------------------------------
(* Where a decision leads.  What a rank does next depends on where it is and *)
(* on the bit it read, and on nothing else.                                  *)

To(a, phase, calls) == [at |-> [a EXCEPT !.phase = phase], todo |-> calls]

On(i) == [at |-> Start(i), todo |-> <<>>]

Report(s) == IF Reports(s) THEN <<"halo">> \o Reduce(s) ELSE <<>>

Iterate(a, s) ==
    IF a.it < s.most - a.sweeps
      THEN [at |-> [a EXCEPT !.phase = "body", !.it = @ + 1], todo |-> Body(s)]
      ELSE To(a, "finish", Report(s))

Update(a) ==
    [at |-> [a EXCEPT !.phase = "again", !.outer = @ + 1, !.sweeps = @ + a.it, !.it = 0],
     todo |-> FillHalo \o WorldSum]

Decision(a, b) ==
    LET s == world.solves[a.solve]
    IN CASE a.phase = "preflight" ->
              IF ~s.cells THEN On(a.solve + 1)
              ELSE IF Refined(s) THEN To(a, "open", Opening) ELSE To(a, "setup", Setup(s))
         [] a.phase = "open" -> To(a, "verdict", Vote(s))
         [] a.phase = "again" -> To(a, "verdict", Vote(s))
         [] a.phase = "verdict" -> IF b THEN On(a.solve + 1) ELSE To(a, "setup", Setup(s))
         [] a.phase = "setup" -> IF Checking(s) THEN To(a, "test", Vote(s)) ELSE Iterate(a, s)
         [] a.phase = "test" -> IF b THEN To(a, "finish", Report(s))
                                ELSE IF a.it = 0 THEN Iterate(a, s) ELSE To(a, "rest", Rest(s))
         [] a.phase = "body" -> IF Checking(s) /\ a.it % s.every = 0
                                  THEN To(a, "check", Check(s)) ELSE To(a, "rest", Rest(s))
         [] a.phase = "check" -> To(a, "test", Vote(s))
         [] a.phase = "rest" -> Iterate(a, s)
         [] a.phase = "finish" -> IF Refined(s) THEN Update(a) ELSE On(a.solve + 1)

(* The steps of a rank, by what they do: it turns to another part of its     *)
(* solve, or reads a bit; it enters a call, leaves it or gives up in it.     *)
Turn(r) ==
    /\ Decides(r) /\ UNCHANGED <<world, inside, bit, truth, rounds, swaps, errs>>
    /\ \/ Stop(r, "refused") /\ UNCHANGED solved
       \/ /\ \E n \in Nat : Return(r, n)
          /\ Decision(at[r], bit[r]) = On(at[r].solve + 1)
       \/ /\ Go(r, Decision(at[r], bit[r]).at, Decision(at[r], bit[r]).todo)
          /\ UNCHANGED solved
          /\ at[r].phase = "preflight" => Fits(r)
          /\ Decision(at[r], bit[r]).at.solve = at[r].solve
          /\ Decision(at[r], bit[r]).at.phase \notin {"preflight", "test", "verdict"}

Reading(r) ==
    /\ Decides(r) /\ at[r].phase \in {"open", "again", "check", "setup"}
    /\ Decision(at[r], bit[r]).at.phase \in {"test", "verdict"}
    /\ Decision(at[r], bit[r]).at.solve = at[r].solve
    /\ Decision(at[r], bit[r]).todo = Vote(Solve(r))
    /\ \E b \in BOOLEAN :
         /\ at[r].phase \in {"open", "again"} => b \/ at[r].outer < MaxOuter
         /\ Reads(r, Decision(at[r], bit[r]).at, b)
    /\ Go(r, Decision(at[r], bit[r]).at, Decision(at[r], bit[r]).todo)
    /\ UNCHANGED <<world, inside, rounds, swaps, solved>>

GiveUp(r) ==
    /\ Inside(r) /\ Stop(r, "failed") /\ inside' = [inside EXCEPT ![r] = FALSE]
    /\ UNCHANGED <<world, bit, truth, rounds, swaps, solved, errs>>

LEMMA ToPhase ==
    ASSUME NEW a \in At, NEW p \in Phases, NEW calls
    PROVE  LET d == To(a, p, calls)
           IN /\ d.at = [a EXCEPT !.phase = p] /\ d.todo = calls
              /\ d.at \in At /\ d.at.phase = p /\ d.at.solve = a.solve
<1>1. [a EXCEPT !.phase = p] \in At /\ [a EXCEPT !.phase = p].phase = p
      /\ [a EXCEPT !.phase = p].solve = a.solve
  BY DEF At
<1>. QED  BY <1>1 DEF To

LEMMA ToFields ==
    ASSUME NEW a \in At, NEW p \in Phases, NEW calls, NEW d, d = To(a, p, calls)
    PROVE  d.todo = calls /\ d.at \in At /\ d.at.phase = p /\ d.at.solve = a.solve
<1>1. d.at = [a EXCEPT !.phase = p] /\ d.todo = calls
  BY DEF To
<1>. QED  BY <1>1 DEF At

LEMMA EveryPhase ==
    /\ "preflight" \in Phases /\ "open" \in Phases /\ "again" \in Phases
    /\ "verdict" \in Phases /\ "setup" \in Phases /\ "test" \in Phases
    /\ "body" \in Phases /\ "check" \in Phases /\ "rest" \in Phases /\ "finish" \in Phases
BY DEF Phases

LEMMA PreflightTurns ==
    ASSUME TypeInv, NEW r \in Ranks, Preflight(r)
    PROVE  Turn(r)
<1> DEFINE s == Solve(r)
           a == at[r]
           d == Decision(a, bit[r])
<1>1. a \in At /\ a.phase = "preflight" /\ Decides(r)
      /\ UNCHANGED <<world, inside, bit, truth, rounds, swaps, errs>>
  BY DEF TypeInv, Preflight
<1>2. d = IF ~s.cells THEN On(a.solve + 1)
          ELSE IF Refined(s) THEN To(a, "open", Opening) ELSE To(a, "setup", Setup(s))
  BY <1>1 DEF Decision, Solve
<1>3. CASE ~Fits(r) \/ (~Refined(s) /\ Lopsided(s))
  BY <1>1, <1>3 DEF Preflight, Turn
<1>4. CASE Fits(r) /\ ~(~Refined(s) /\ Lopsided(s)) /\ ~s.cells
  <2>1. Return(r, 0)
    BY <1>4 DEF Preflight
  <2>. QED  BY <1>1, <1>2, <1>4, <2>1 DEF Turn
<1>5. CASE Fits(r) /\ ~(~Refined(s) /\ Lopsided(s)) /\ s.cells
  <2>1. /\ IF Refined(s) THEN Phase(r, "open", Opening) ELSE Phase(r, "setup", Setup(s))
        /\ UNCHANGED solved
    BY <1>5 DEF Preflight, Opening
  <2>2. Go(r, d.at, d.todo)
    BY <1>1, <1>2, <1>5, <2>1, ToPhase, EveryPhase DEF Phase
  <2>3. d = To(a, "open", Opening) \/ d = To(a, "setup", Setup(s))
    BY <1>2, <1>5
  <2>4. d.at.solve = a.solve /\ d.at.phase \in {"open", "setup"}
    <3>. HIDE DEF d
    <3>1. CASE d = To(a, "open", Opening)
      BY <1>1, <3>1, ToFields, EveryPhase
    <3>2. CASE d = To(a, "setup", Setup(s))
      BY <1>1, <3>2, ToFields, EveryPhase
    <3>. QED  BY <2>3, <3>1, <3>2
  <2>. QED  BY <1>1, <1>5, <2>1, <2>2, <2>4 DEF Turn
<1>. QED  BY <1>3, <1>4, <1>5

LEMMA OuterTurns ==
    ASSUME TypeInv, NEW r \in Ranks, Outer(r)
    PROVE  Turn(r)
<1> DEFINE s == Solve(r)
           a == at[r]
           d == Decision(a, bit[r])
<1>1. a \in At /\ a.phase = "verdict" /\ Decides(r)
      /\ UNCHANGED <<world, inside, bit, truth, rounds, swaps, errs>>
  BY DEF TypeInv, Outer
<1>2. d = IF bit[r] THEN On(a.solve + 1) ELSE To(a, "setup", Setup(s))
  BY <1>1 DEF Decision, Solve
<1>3. CASE bit[r]
  <2>1. Return(r, a.sweeps) /\ a.sweeps \in Nat
    BY <1>1, <1>3 DEF Outer, At
  <2>. QED  BY <1>1, <1>2, <1>3, <2>1 DEF Turn
<1>4. CASE ~bit[r] /\ Lopsided(s)
  BY <1>1, <1>4 DEF Outer, Turn
<1>5. CASE ~bit[r] /\ ~Lopsided(s)
  <2>1. Phase(r, "setup", Setup(s)) /\ UNCHANGED solved
    BY <1>5 DEF Outer
  <2>2. Go(r, d.at, d.todo)
    BY <1>1, <1>2, <1>5, <2>1, ToPhase, EveryPhase DEF Phase
  <2>3. d = To(a, "setup", Setup(s))
    BY <1>2, <1>5
  <2>4. d.at.solve = a.solve /\ d.at.phase = "setup"
    <3>. HIDE DEF d
    <3>. QED  BY <1>1, <2>3, ToFields, EveryPhase
  <2>. QED  BY <1>1, <1>5, <2>1, <2>2, <2>4 DEF Turn
<1>. QED  BY <1>3, <1>4, <1>5

LEMMA DoneTurns ==
    ASSUME TypeInv, NEW r \in Ranks, Done(r)
    PROVE  Turn(r)
<1> DEFINE s == Solve(r)
           a == at[r]
           d == Decision(a, bit[r])
<1>1. a \in At /\ a.phase = "finish" /\ Decides(r)
      /\ UNCHANGED <<world, inside, bit, truth, rounds, swaps, errs>>
  BY DEF TypeInv, Done
<1>2. d = IF Refined(s) THEN Update(a) ELSE On(a.solve + 1)
  BY <1>1 DEF Decision, Solve
<1>3. CASE Refined(s)
  <2>1. Go(r, d.at, d.todo) /\ UNCHANGED solved
    BY <1>2, <1>3 DEF Done, Update
  <2>2. d.at.solve = a.solve /\ d.at.phase = "again"
    <3>1. d.at = [a EXCEPT !.phase = "again", !.outer = @ + 1, !.sweeps = @ + a.it, !.it = 0]
      BY <1>2, <1>3 DEF Update
    <3>. QED  BY <1>1, <3>1 DEF At
  <2>. QED  BY <1>1, <2>1, <2>2 DEF Turn
<1>4. CASE ~Refined(s)
  <2>1. Return(r, a.it) /\ a.it \in Nat
    BY <1>1, <1>4 DEF Done, At
  <2>. QED  BY <1>1, <1>2, <1>4, <2>1 DEF Turn
<1>. QED  BY <1>3, <1>4

LEMMA Iterates ==
    ASSUME TypeInv, NEW r \in Ranks, NextIteration(r), NEW d, d = Iterate(at[r], Solve(r))
    PROVE  Go(r, d.at, d.todo) /\ d.at.solve = at[r].solve /\ d.at.phase \in {"body", "finish"}
<1> DEFINE s == Solve(r)
           a == at[r]
<1>1. a \in At
  BY DEF TypeInv
<1>2. CASE a.it < s.most - a.sweeps
  <2>1. d = [at |-> [a EXCEPT !.phase = "body", !.it = @ + 1], todo |-> Body(s)]
    BY <1>2 DEF Iterate
  <2>2. Go(r, [a EXCEPT !.phase = "body", !.it = @ + 1], Body(s))
    BY <1>2 DEF NextIteration, Most
  <2>3. LET v == [a EXCEPT !.phase = "body", !.it = @ + 1]
        IN v.solve = a.solve /\ v.phase = "body"
    BY <1>1 DEF At
  <2>4. d.at = [a EXCEPT !.phase = "body", !.it = @ + 1] /\ d.todo = Body(s)
    BY <2>1
  <2>. QED  BY <2>2, <2>3, <2>4
<1>3. CASE ~(a.it < s.most - a.sweeps)
  <2>1. d = To(a, "finish", Report(s))
    BY <1>3 DEF Iterate
  <2>2. LeaveLoop(r)
    BY <1>3 DEF NextIteration, Most
  <2>3. Go(r, [a EXCEPT !.phase = "finish"], Report(s))
    BY <2>2 DEF LeaveLoop, Phase, Report, Finish
  <2>. QED  BY <1>1, <2>1, <2>3, ToPhase, EveryPhase
<1>. QED  BY <1>2, <1>3

LEMMA LoopTurns ==
    ASSUME TypeInv, NEW r \in Ranks, Loop(r)
    PROVE  Turn(r)
<1> DEFINE s == Solve(r)
           a == at[r]
           p == at[r].phase
           d == Decision(a, bit[r])
<1>1. a \in At /\ Decides(r) /\ UNCHANGED <<world, inside, bit, truth, rounds, swaps, errs>>
      /\ UNCHANGED solved
  BY DEF TypeInv, Loop
<1>2. SUFFICES /\ Go(r, d.at, d.todo) /\ d.at.solve = a.solve
               /\ d.at.phase \notin {"preflight", "test", "verdict"} /\ a.phase # "preflight"
  BY <1>1, <1>2 DEF Turn
<1>3. CASE p = "setup" /\ ~Checking(s) /\ NextIteration(r)
  <2>1. d = Iterate(a, s)
    BY <1>3 DEF Decision, Solve
  <2>. QED  BY <1>3, <2>1, Iterates
<1>4. CASE p = "test" /\ bit[r] /\ LeaveLoop(r)
  <2>1. d = To(a, "finish", Report(s))
    BY <1>4 DEF Decision, Solve
  <2>2. Go(r, [a EXCEPT !.phase = "finish"], Report(s))
    BY <1>4 DEF LeaveLoop, Phase, Report, Finish
  <2>3. d.at = [a EXCEPT !.phase = "finish"] /\ d.todo = Report(s) /\ d.at.solve = a.solve
        /\ d.at.phase = "finish"
    BY <1>1, <2>1, ToPhase, EveryPhase
  <2>. HIDE DEF d
  <2>. QED  BY <1>4, <2>2, <2>3
<1>5. CASE p = "test" /\ ~bit[r] /\ a.it = 0 /\ NextIteration(r)
  <2>1. d = Iterate(a, s)
    BY <1>5 DEF Decision, Solve
  <2>. QED  BY <1>5, <2>1, Iterates
<1>6. CASE p = "test" /\ ~bit[r] /\ a.it > 0 /\ Phase(r, "rest", Rest(s))
  <2>1. d = To(a, "rest", Rest(s))
    <3>1. a.it # 0
      BY <1>1, <1>6 DEF At
    <3>. QED  BY <1>6, <3>1 DEF Decision, Solve
  <2>2. d.at = [a EXCEPT !.phase = "rest"] /\ d.todo = Rest(s) /\ d.at.solve = a.solve
        /\ d.at.phase = "rest"
    BY <1>1, <2>1, ToPhase, EveryPhase
  <2>. QED  BY <1>6, <2>2 DEF Phase
<1>7. CASE p = "body" /\ Checking(s) /\ a.it % s.every = 0 /\ Phase(r, "check", Check(s))
  <2>1. d = To(a, "check", Check(s))
    BY <1>7 DEF Decision, Solve
  <2>2. d.at = [a EXCEPT !.phase = "check"] /\ d.todo = Check(s) /\ d.at.solve = a.solve
        /\ d.at.phase = "check"
    BY <1>1, <2>1, ToPhase, EveryPhase
  <2>. QED  BY <1>7, <2>2 DEF Phase
<1>8. CASE p = "body" /\ ~(Checking(s) /\ a.it % s.every = 0) /\ Phase(r, "rest", Rest(s))
  <2>1. d = To(a, "rest", Rest(s))
    BY <1>8 DEF Decision, Solve
  <2>2. d.at = [a EXCEPT !.phase = "rest"] /\ d.todo = Rest(s) /\ d.at.solve = a.solve
        /\ d.at.phase = "rest"
    BY <1>1, <2>1, ToPhase, EveryPhase
  <2>. QED  BY <1>8, <2>2 DEF Phase
<1>9. CASE p = "rest" /\ NextIteration(r)
  <2>1. d = Iterate(a, s)
    BY <1>9 DEF Decision, Solve
  <2>. QED  BY <1>9, <2>1, Iterates
<1>. QED  BY <1>3, <1>4, <1>5, <1>6, <1>7, <1>8, <1>9 DEF Loop

LEMMA VerdictReads ==
    ASSUME TypeInv, NEW r \in Ranks, Verdict(r)
    PROVE  Reading(r)
<1> DEFINE s == Solve(r)
           a == at[r]
           v == [at[r] EXCEPT !.phase = "verdict"]
           d == Decision(a, bit[r])
<1>1. a \in At /\ Decides(r) /\ a.phase \in {"open", "again"}
      /\ UNCHANGED <<world, inside, rounds, swaps, solved>>
  BY DEF TypeInv, Verdict
<1>2. d = To(a, "verdict", Vote(s))
  BY <1>1 DEF Decision, Solve
<1>3. d.at = v /\ d.todo = Vote(s) /\ d.at.phase = "verdict" /\ d.at.solve = a.solve
  BY <1>1, <1>2, ToPhase, EveryPhase
<1>5. PICK c \in BOOLEAN :
         (c \/ (a.sweeps < s.most /\ a.outer < MaxOuter)) /\ Reads(r, v, c)
  BY DEF Verdict
<1>6. Go(r, v, Vote(s))
  BY DEF Verdict, Phase
<1>. QED  BY <1>1, <1>3, <1>5, <1>6 DEF Reading

LEMMA TestReads ==
    ASSUME TypeInv, NEW r \in Ranks, Test(r)
    PROVE  Reading(r)
<1> DEFINE s == Solve(r)
           a == at[r]
           v == [at[r] EXCEPT !.phase = "test"]
           d == Decision(a, bit[r])
<1>1. a \in At /\ Decides(r) /\ Checking(s) /\ a.phase \in {"check", "setup"}
      /\ UNCHANGED <<world, inside, rounds, swaps, solved>>
  BY DEF TypeInv, Test
<1>2. d = To(a, "test", Vote(s))
  BY <1>1 DEF Decision, Solve
<1>3. d.at = v /\ d.todo = Vote(s) /\ d.at.phase = "test" /\ d.at.solve = a.solve
  BY <1>1, <1>2, ToPhase, EveryPhase
<1>4. PICK b \in BOOLEAN : Reads(r, v, b)
  BY DEF Test
<1>5. Go(r, v, Vote(s))
  BY DEF Test, Phase
<1>. QED  BY <1>1, <1>3, <1>4, <1>5 DEF Reading

LEMMA StepCases ==
    ASSUME TypeInv, [Next]_vars
    PROVE  \/ UNCHANGED vars
           \/ \E r \in Ranks : Turn(r) \/ Reading(r) \/ Enter(r) \/ Leave(r) \/ GiveUp(r)
<1>1. CASE UNCHANGED vars
  BY <1>1
<1>2. CASE Next
  <2>1. PICK r \in Ranks : RankStep(r)
    BY <1>2 DEF Next
  <2>2. Mismatch(r) \/ TimeOut(r) => GiveUp(r)
    BY DEF Mismatch, TimeOut, GiveUp
  <2>. QED  BY <2>1, <2>2, PreflightTurns, OuterTurns, DoneTurns, LoopTurns, VerdictReads,
              TestReads DEF RankStep
<1>. QED  BY <1>1, <1>2

(* A decision leads to a later place: to the next solve, or on in this one.  *)
PhaseRank(p) ==
    CASE p = "preflight" -> 0
      [] p = "open" -> 1
      [] p = "again" -> 2
      [] p = "verdict" -> 3
      [] p = "setup" -> 4
      [] p = "body" -> 5
      [] p = "check" -> 6
      [] p = "test" -> 7
      [] p = "rest" -> 8
      [] p = "finish" -> 9

Later(b, a) ==
    \/ b.solve > a.solve
    \/ b.solve = a.solve /\ b.outer > a.outer
    \/ b.solve = a.solve /\ b.outer = a.outer /\ b.it > a.it
    \/ b.solve = a.solve /\ b.outer = a.outer /\ b.it = a.it
         /\ PhaseRank(b.phase) > PhaseRank(a.phase)

LEMMA RankType ==
    ASSUME NEW p \in Phases
    PROVE  PhaseRank(p) \in Nat
BY DEF Phases, PhaseRank

LEMMA LaterOrder ==
    ASSUME NEW a \in At, NEW b \in At, NEW c \in At
    PROVE  ~Later(a, a) /\ (Later(c, b) /\ Later(b, a) => Later(c, a))
<1>1. PhaseRank(a.phase) \in Nat /\ PhaseRank(b.phase) \in Nat /\ PhaseRank(c.phase) \in Nat
  BY RankType DEF At
<1>2. \A x \in {a, b, c} : x.solve \in Nat /\ x.outer \in Nat /\ x.it \in Nat
  BY DEF At
<1>. QED  BY <1>1, <1>2 DEF Later

LEMMA ToLater ==
    ASSUME NEW a \in At, NEW p \in Phases, NEW calls, NEW d, d = To(a, p, calls),
           PhaseRank(p) > PhaseRank(a.phase)
    PROVE  Later(d.at, a) /\ d.at \in At /\ d.todo = calls /\ d.at.phase = p
           /\ d.at.solve = a.solve
<1>1. d.at = [a EXCEPT !.phase = p] /\ d.todo = calls
  BY DEF To
<1>2. d.at.solve = a.solve /\ d.at.outer = a.outer /\ d.at.it = a.it /\ d.at.phase = p
      /\ d.at \in At
  BY <1>1 DEF At
<1>. QED  BY <1>1, <1>2 DEF Later

LEMMA OnLater ==
    ASSUME NEW a \in At, NEW d, d = On(a.solve + 1)
    PROVE  Later(d.at, a) /\ d.at \in At /\ d.todo \in Seq(Calls) /\ d.at.solve = a.solve + 1
           /\ d.at.phase = "preflight" /\ d.todo = <<>>
<1>1. d.at = Start(a.solve + 1) /\ d.todo = <<>>
  BY DEF On
<1>2. d.at.solve = a.solve + 1 /\ d.at.phase = "preflight" /\ d.at \in At
  BY <1>1, EveryPhase DEF Start, At
<1>3. d.at.solve > a.solve
  BY <1>2 DEF At
<1>. QED  BY <1>1, <1>2, <1>3, HalosType DEF Later

LEMMA IterateLater ==
    ASSUME NEW a \in At, NEW s, NEW d, d = Iterate(a, s), PhaseRank(a.phase) < 9
    PROVE  Later(d.at, a) /\ d.at \in At /\ d.todo \in Seq(Calls) /\ d.at.solve = a.solve
           /\ d.at.phase \in {"body", "finish"}
<1>1. CASE a.it < s.most - a.sweeps
  <2>1. d.at = [a EXCEPT !.phase = "body", !.it = @ + 1] /\ d.todo = Body(s)
    BY <1>1 DEF Iterate
  <2>2. d.at.solve = a.solve /\ d.at.outer = a.outer /\ d.at.it = a.it + 1
        /\ d.at.phase = "body" /\ d.at \in At
    <3>1. d.at = [solve |-> a.solve, phase |-> "body", outer |-> a.outer,
                  sweeps |-> a.sweeps, it |-> a.it + 1]
      BY <2>1 DEF At
    <3>2. a.solve \in Nat \ {0} /\ a.outer \in Nat /\ a.sweeps \in Nat /\ a.it + 1 \in Nat
      BY DEF At
    <3>. QED  BY <3>1, <3>2, EveryPhase DEF At
  <2>3. d.at.it > a.it
    BY <2>2 DEF At
  <2>. QED  BY <2>1, <2>2, <2>3, BodyType DEF Later
<1>2. CASE ~(a.it < s.most - a.sweeps)
  <2>1. d = To(a, "finish", Report(s))
    BY <1>2 DEF Iterate
  <2>2. PhaseRank("finish") > PhaseRank(a.phase)
    <3>1. PhaseRank("finish") = 9
      BY DEF PhaseRank
    <3>. QED  BY <3>1, RankType DEF At
  <2>3. Report(s) \in Seq(Calls)
    BY PartsType, HalosType DEF Report, Finish
  <2>. QED  BY <2>1, <2>2, <2>3, ToLater, EveryPhase
<1>. QED  BY <1>1, <1>2

LEMMA UpdateLater ==
    ASSUME NEW a \in At, NEW d, d = Update(a)
    PROVE  Later(d.at, a) /\ d.at \in At /\ d.todo \in Seq(Calls) /\ d.at.solve = a.solve
           /\ d.at.phase = "again"
<1>1. d.at = [a EXCEPT !.phase = "again", !.outer = @ + 1, !.sweeps = @ + a.it, !.it = 0]
      /\ d.todo = FillHalo \o WorldSum
  BY DEF Update
<1>2. d.at.solve = a.solve /\ d.at.outer = a.outer + 1 /\ d.at.phase = "again" /\ d.at \in At
  <2>1. d.at = [solve |-> a.solve, phase |-> "again", outer |-> a.outer + 1,
                sweeps |-> a.sweeps + a.it, it |-> 0]
    BY <1>1 DEF At
  <2>2. a.solve \in Nat \ {0} /\ a.outer + 1 \in Nat /\ a.sweeps + a.it \in Nat
    BY DEF At
  <2>. QED  BY <2>1, <2>2, EveryPhase DEF At
<1>3. d.at.outer > a.outer
  BY <1>2 DEF At
<1>. QED  BY <1>1, <1>2, <1>3, OpeningType DEF Later

LEMMA DecisionLeads ==
    ASSUME NEW a \in At, NEW b, NEW d, d = Decision(a, b)
    PROVE  /\ Later(d.at, a) /\ d.at \in At /\ d.todo \in Seq(Calls)
           /\ \/ d = On(a.solve + 1) /\ d.at.solve = a.solve + 1 /\ d.at.phase = "preflight"
                 /\ d.todo = <<>>
              \/ d.at.solve = a.solve /\ d.at.phase # "preflight"
           /\ d.at.phase \in {"test", "verdict"} =>
                /\ d.todo = Vote(world.solves[a.solve])
                /\ a.phase \in {"open", "again", "check", "setup"}
           /\ d.at.phase = "verdict" => a.phase \in {"open", "again"}
           /\ a.phase = "preflight" =>
                \/ d.at.solve = a.solve + 1 /\ ~world.solves[a.solve].cells
                \/ d.at.solve = a.solve /\ \E j \in 1..Len(d.todo) : d.todo[j] = "word"
<1> DEFINE s == world.solves[a.solve]
<1>0. /\ PhaseRank("preflight") = 0 /\ PhaseRank("open") = 1 /\ PhaseRank("again") = 2
      /\ PhaseRank("verdict") = 3 /\ PhaseRank("setup") = 4 /\ PhaseRank("body") = 5
      /\ PhaseRank("check") = 6 /\ PhaseRank("test") = 7 /\ PhaseRank("rest") = 8
      /\ PhaseRank("finish") = 9
  BY DEF PhaseRank
<1>t. /\ Vote(s) \in Seq(Calls) /\ Setup(s) \in Seq(Calls) /\ Check(s) \in Seq(Calls)
      /\ Rest(s) \in Seq(Calls) /\ Report(s) \in Seq(Calls) /\ Opening \in Seq(Calls)
  BY VoteType, SetupType, PartsType, OpeningType, HalosType DEF Report, Finish
<1>n. CASE d = On(a.solve + 1) /\ (a.phase = "preflight" => ~s.cells)
  BY <1>n, OnLater
<1>i. CASE d = Iterate(a, s) /\ a.phase \in {"setup", "test", "rest"}
  <2>1. PhaseRank(a.phase) < 9
    BY <1>0, <1>i
  <2>2. Later(d.at, a) /\ d.at \in At /\ d.todo \in Seq(Calls) /\ d.at.solve = a.solve
        /\ d.at.phase \in {"body", "finish"}
    BY <1>i, <2>1, IterateLater
  <2>. QED  BY <1>i, <2>2
<1>u. CASE d = Update(a) /\ a.phase = "finish"
  <2>2. Later(d.at, a) /\ d.at \in At /\ d.todo \in Seq(Calls) /\ d.at.solve = a.solve
        /\ d.at.phase = "again"
    BY <1>u, UpdateLater
  <2>. QED  BY <1>u, <2>2
<1>o. CASE d = To(a, "open", Opening) /\ a.phase = "preflight"
  <2>1. Later(d.at, a) /\ d.at \in At /\ d.todo = Opening /\ d.at.phase = "open"
        /\ d.at.solve = a.solve
    BY <1>o, <1>0, ToLater, EveryPhase
  <2>. QED  BY <1>o, <1>t, <2>1, OpeningType
<1>s. CASE d = To(a, "setup", Setup(s)) /\ a.phase \in {"preflight", "verdict"}
  <2>1. PhaseRank("setup") > PhaseRank(a.phase)
    BY <1>s, <1>0
  <2>2. Later(d.at, a) /\ d.at \in At /\ d.todo = Setup(s) /\ d.at.phase = "setup"
        /\ d.at.solve = a.solve
    BY <1>s, <2>1, ToLater, EveryPhase
  <2>3. 1 \in 1..Len(Setup(s)) /\ Setup(s)[1] = "word"
    BY <1>t, SetupType, LenProperties
  <2>. QED  BY <1>s, <1>t, <2>2, <2>3
<1>v. CASE d = To(a, "verdict", Vote(s)) /\ a.phase \in {"open", "again"}
  <2>1. PhaseRank("verdict") > PhaseRank(a.phase)
    BY <1>v, <1>0
  <2>2. Later(d.at, a) /\ d.at \in At /\ d.todo = Vote(s) /\ d.at.phase = "verdict"
        /\ d.at.solve = a.solve
    BY <1>v, <2>1, ToLater, EveryPhase
  <2>. QED  BY <1>v, <1>t, <2>2
<1>w. CASE d = To(a, "test", Vote(s)) /\ a.phase \in {"setup", "check"}
  <2>1. PhaseRank("test") > PhaseRank(a.phase)
    BY <1>w, <1>0
  <2>2. Later(d.at, a) /\ d.at \in At /\ d.todo = Vote(s) /\ d.at.phase = "test"
        /\ d.at.solve = a.solve
    BY <1>w, <2>1, ToLater, EveryPhase
  <2>. QED  BY <1>w, <1>t, <2>2
<1>c. CASE d = To(a, "check", Check(s)) /\ a.phase = "body"
  <2>2. Later(d.at, a) /\ d.at \in At /\ d.todo = Check(s) /\ d.at.phase = "check"
        /\ d.at.solve = a.solve
    BY <1>c, <1>0, ToLater, EveryPhase
  <2>. QED  BY <1>c, <1>t, <2>2
<1>r. CASE d = To(a, "rest", Rest(s)) /\ a.phase \in {"test", "body"}
  <2>1. PhaseRank("rest") > PhaseRank(a.phase)
    BY <1>r, <1>0
  <2>2. Later(d.at, a) /\ d.at \in At /\ d.todo = Rest(s) /\ d.at.phase = "rest"
        /\ d.at.solve = a.solve
    BY <1>r, <2>1, ToLater, EveryPhase
  <2>. QED  BY <1>r, <1>t, <2>2
<1>f. CASE d = To(a, "finish", Report(s)) /\ a.phase = "test"
  <2>2. Later(d.at, a) /\ d.at \in At /\ d.todo = Report(s) /\ d.at.phase = "finish"
        /\ d.at.solve = a.solve
    BY <1>f, <1>0, ToLater, EveryPhase
  <2>. QED  BY <1>f, <1>t, <2>2
<1>p. a.phase \in Phases
  BY DEF At
<1>q. \/ d = On(a.solve + 1) /\ (a.phase = "preflight" => ~s.cells)
      \/ d = Iterate(a, s) /\ a.phase \in {"setup", "test", "rest"}
      \/ d = Update(a) /\ a.phase = "finish"
      \/ d = To(a, "open", Opening) /\ a.phase = "preflight"
      \/ d = To(a, "setup", Setup(s)) /\ a.phase \in {"preflight", "verdict"}
      \/ d = To(a, "verdict", Vote(s)) /\ a.phase \in {"open", "again"}
      \/ d = To(a, "test", Vote(s)) /\ a.phase \in {"setup", "check"}
      \/ d = To(a, "check", Check(s)) /\ a.phase = "body"
      \/ d = To(a, "rest", Rest(s)) /\ a.phase \in {"test", "body"}
      \/ d = To(a, "finish", Report(s)) /\ a.phase = "test"
  BY <1>p DEF Decision, Phases
<1>. QED  BY <1>q, <1>n, <1>i, <1>u, <1>o, <1>s, <1>v, <1>w, <1>c, <1>r, <1>f

-----------------------------------------------------------------------------
(* Types. *)

LEMMA EmptyType ==
    ASSUME NEW S
    PROVE  <<>> \in Seq(S) /\ Len(<<>>) = 0
OBVIOUS

LEMMA InitType == Init => TypeInv
<1>. SUFFICES ASSUME Init PROVE TypeInv
  OBVIOUS
<1>1. Start(1) \in At
  BY EveryPhase DEF Start, At
<1>2. 0 \in 0..MaxErrs
  BY SolveAssumption
<1>. QED  BY <1>1, <1>2, EmptyType DEF Init, TypeInv

LEMMA TurnType ==
    ASSUME TypeInv, NEW r \in Ranks, Turn(r)
    PROVE  TypeInv'
<1>1. UNCHANGED <<world, inside, bit, truth, rounds, swaps, errs>>
  BY DEF Turn
<1>2. SUFFICES /\ at' \in [Ranks -> At] /\ todo' \in [Ranks -> Seq(Calls)]
               /\ state' \in [Ranks -> {"running", "done", "refused", "failed"}]
               /\ solved' \in [Ranks -> Seq(Nat)]
  BY <1>1, <1>2 DEF TypeInv
<1>. USE DEF TypeInv
<1>3. CASE Stop(r, "refused") /\ UNCHANGED solved
  BY <1>3 DEF Stop
<1>4. CASE \E n \in Nat : Return(r, n)
  <2>1. PICK n \in Nat : Return(r, n)
    BY <1>4
  <2>2. solved' \in [Ranks -> Seq(Nat)]
    <3>1. Append(solved[r], n) \in Seq(Nat)
      BY AppendProperties
    <3>. QED  BY <2>1, <3>1 DEF Return
  <2>3. Start(at[r].solve + 1) \in At
    BY EveryPhase DEF Start, At
  <2>4. CASE at[r].solve = Len(world.solves)
    BY <2>1, <2>2, <2>4 DEF Return, Stop
  <2>5. CASE at[r].solve # Len(world.solves)
    <3>1. at' = [at EXCEPT ![r] = Start(at[r].solve + 1)] /\ todo' = [todo EXCEPT ![r] = <<>>]
          /\ state' = state
      BY <2>1, <2>5 DEF Return, Go
    <3>2. at' \in [Ranks -> At]
      BY <2>3, <3>1
    <3>3. todo' \in [Ranks -> Seq(Calls)]
      BY <3>1, EmptyType
    <3>. QED  BY <2>2, <3>1, <3>2, <3>3
  <2>. QED  BY <2>4, <2>5
<1>5. CASE Go(r, Decision(at[r], bit[r]).at, Decision(at[r], bit[r]).todo) /\ UNCHANGED solved
  <2>1. PICK d : d = Decision(at[r], bit[r])
    OBVIOUS
  <2>2. d.at \in At /\ d.todo \in Seq(Calls)
    BY <2>1, DecisionLeads
  <2>. QED  BY <1>5, <2>1, <2>2 DEF Go
<1>. QED  BY <1>3, <1>4, <1>5 DEF Turn

LEMMA ReadingType ==
    ASSUME TypeInv, NEW r \in Ranks, Reading(r)
    PROVE  TypeInv'
<1>. USE DEF TypeInv
<1>1. PICK d : d = Decision(at[r], bit[r])
  OBVIOUS
<1>2. d.at \in At /\ d.todo \in Seq(Calls)
  BY <1>1, DecisionLeads
<1>3. PICK b \in BOOLEAN : Reads(r, d.at, b)
  BY <1>1 DEF Reading
<1>4. at' \in [Ranks -> At] /\ todo' \in [Ranks -> Seq(Calls)] /\ state' = state
  BY <1>1, <1>2 DEF Reading, Go
<1>5. bit' \in [Ranks -> BOOLEAN] /\ truth' \in SUBSET [at : At, bit : BOOLEAN]
  <2>1. [at |-> d.at, bit |-> b] \in [at : At, bit : BOOLEAN]
    BY <1>2
  <2>2. truth' = truth \/ truth' = truth \cup {[at |-> d.at, bit |-> b]}
    BY <1>3 DEF Reads
  <2>. QED  BY <1>3, <2>1, <2>2 DEF Reads
<1>6. errs' \in 0..MaxErrs
  <2>1. errs' = errs \/ (errs < MaxErrs /\ errs' = errs + 1)
    BY <1>3 DEF Reads
  <2>. QED  BY <2>1, SolveAssumption
<1>7. UNCHANGED <<world, inside, rounds, swaps, solved>>
  BY DEF Reading
<1>. QED  BY <1>4, <1>5, <1>6, <1>7

LEMMA HeadType ==
    ASSUME NEW c \in Seq(Calls), c # <<>>
    PROVE  /\ Head(c) \in Calls /\ Tail(c) \in Seq(Calls) /\ Head(c) = c[1]
           /\ Len(c) \in Nat /\ Len(c) > 0 /\ Len(Tail(c)) = Len(c) - 1
           /\ \A i \in 1..Len(Tail(c)) : Tail(c)[i] = c[i + 1]
BY HeadTailProperties, EmptySeq, LenProperties

LEMMA EnterType ==
    ASSUME TypeInv, NEW r \in Ranks, Enter(r)
    PROVE  TypeInv'
<1>. USE DEF TypeInv
<1>1. UNCHANGED <<world, at, todo, bit, state, truth, solved, errs>>
      /\ inside' = [inside EXCEPT ![r] = TRUE]
  BY DEF Enter
<1>2. Place(r) \in Places
  BY LenProperties DEF Place, Places
<1>3. [place |-> Place(r), header |-> Head(todo[r]), bit |-> bit[r]] \in Entries
  <2>1. Head(todo[r]) \in Calls
    BY HeadType DEF Enter
  <2>. QED  BY <1>2, <2>1 DEF Entries
<1>4. swaps' \in [Ranks -> Seq(Places)] /\ rounds' \in [Ranks -> Seq(Entries)]
  <2>1. CASE IsExchange(Head(todo[r]))
    <3>1. Append(swaps[r], Place(r)) \in Seq(Places)
      BY <1>2, AppendProperties
    <3>. QED  BY <2>1, <3>1 DEF Enter
  <2>2. CASE ~IsExchange(Head(todo[r]))
    <3>1. Append(rounds[r], [place |-> Place(r), header |-> Head(todo[r]), bit |-> bit[r]])
            \in Seq(Entries)
      BY <1>3, AppendProperties
    <3>. QED  BY <2>2, <3>1 DEF Enter
  <2>. QED  BY <2>1, <2>2
<1>. QED  BY <1>1, <1>4

LEMMA LeaveType ==
    ASSUME TypeInv, NEW r \in Ranks, todo[r] # <<>>, Leave(r)
    PROVE  TypeInv'
<1>. USE DEF TypeInv
<1>1. UNCHANGED <<world, bit, truth, rounds, swaps, solved, errs>>
      /\ inside' = [inside EXCEPT ![r] = FALSE]
  BY DEF Leave
<1>2. at' \in [Ranks -> At] /\ todo' \in [Ranks -> Seq(Calls)]
      /\ state' \in [Ranks -> {"running", "done", "refused", "failed"}]
  <2>1. CASE Split(r)
    BY <2>1 DEF Leave, Stop
  <2>2. CASE ~Split(r)
    <3>1. Tail(todo[r]) \in Seq(Calls) /\ at[r] \in At
      BY HeadType
    <3>2. at' = [at EXCEPT ![r] = at[r]] /\ todo' = [todo EXCEPT ![r] = Tail(todo[r])]
          /\ state' = state
      BY <2>2 DEF Leave, Go
    <3>. QED  BY <3>1, <3>2
  <2>. QED  BY <2>1, <2>2
<1>. QED  BY <1>1, <1>2

LEMMA GiveUpType ==
    ASSUME TypeInv, NEW r \in Ranks, GiveUp(r)
    PROVE  TypeInv'
BY DEF TypeInv, GiveUp, Stop

-----------------------------------------------------------------------------
(* What a step changes for its rank, and that it changes nothing for others. *)

Step(r) == Turn(r) \/ Reading(r) \/ Enter(r) \/ Leave(r) \/ GiveUp(r)

LEMMA Others ==
    ASSUME TypeInv, NEW r \in Ranks, Step(r), NEW q \in Ranks, q # r
    PROVE  /\ at'[q] = at[q] /\ todo'[q] = todo[q] /\ inside'[q] = inside[q]
           /\ bit'[q] = bit[q] /\ state'[q] = state[q] /\ rounds'[q] = rounds[q]
           /\ swaps'[q] = swaps[q] /\ solved'[q] = solved[q] /\ world' = world
<1>. USE DEF TypeInv
<1>1. CASE Turn(r)
  <2>1. UNCHANGED <<world, inside, bit, rounds, swaps>>
    BY <1>1 DEF Turn
  <2>2. at'[q] = at[q] /\ todo'[q] = todo[q] /\ state'[q] = state[q] /\ solved'[q] = solved[q]
    BY <1>1 DEF Turn, Stop, Return, Go
  <2>. QED  BY <2>1, <2>2
<1>2. CASE Reading(r)
  <2>1. UNCHANGED <<world, inside, rounds, swaps, solved>>
    BY <1>2 DEF Reading
  <2>2. at'[q] = at[q] /\ todo'[q] = todo[q] /\ state'[q] = state[q] /\ bit'[q] = bit[q]
    BY <1>2 DEF Reading, Reads, Go
  <2>. QED  BY <2>1, <2>2
<1>3. CASE Enter(r)
  BY <1>3 DEF Enter
<1>4. CASE Leave(r)
  BY <1>4 DEF Leave, Stop, Go
<1>5. CASE GiveUp(r)
  BY <1>5 DEF GiveUp, Stop
<1>. QED  BY <1>1, <1>2, <1>3, <1>4, <1>5 DEF Step

LEMMA TurnEffect ==
    ASSUME TypeInv, NEW r \in Ranks, Turn(r), NEW d, d = Decision(at[r], bit[r])
    PROVE  /\ state[r] = "running" /\ ~inside[r] /\ todo[r] = <<>>
           /\ UNCHANGED <<world, inside, bit, truth, rounds, swaps, errs>>
           /\ \/ state'[r] = "refused" /\ at'[r] = at[r] /\ todo'[r] = <<>>
                 /\ solved'[r] = solved[r]
              \/ /\ Len(solved'[r]) = Len(solved[r]) + 1 /\ d = On(at[r].solve + 1)
                 /\ \/ at[r].solve = Len(world.solves) /\ state'[r] = "done"
                       /\ at'[r] = at[r] /\ todo'[r] = <<>>
                    \/ at[r].solve # Len(world.solves) /\ state'[r] = "running"
                       /\ at'[r] = d.at /\ todo'[r] = d.todo
              \/ /\ state'[r] = "running" /\ at'[r] = d.at /\ todo'[r] = d.todo
                 /\ solved'[r] = solved[r] /\ (at[r].phase = "preflight" => Fits(r))
                 /\ d.at.solve = at[r].solve
                 /\ d.at.phase \notin {"preflight", "test", "verdict"}
<1>. USE DEF TypeInv
<1>1. /\ state[r] = "running" /\ ~inside[r] /\ todo[r] = <<>>
      /\ UNCHANGED <<world, inside, bit, truth, rounds, swaps, errs>>
  BY DEF Turn, Decides
<1>2. CASE Stop(r, "refused") /\ UNCHANGED solved
  BY <1>1, <1>2 DEF Stop
<1>3. CASE (\E n \in Nat : Return(r, n)) /\ d = On(at[r].solve + 1)
  <2>1. PICK n \in Nat : Return(r, n)
    BY <1>3
  <2>2. Len(solved'[r]) = Len(solved[r]) + 1
    <3>1. solved'[r] = Append(solved[r], n)
      BY <2>1 DEF Return
    <3>. QED  BY <3>1, AppendProperties
  <2>3. d.at = Start(at[r].solve + 1) /\ d.todo = <<>>
    BY <1>3 DEF On
  <2>4. CASE at[r].solve = Len(world.solves)
    BY <1>1, <1>3, <2>1, <2>2, <2>4 DEF Return, Stop
  <2>5. CASE at[r].solve # Len(world.solves)
    <3>1. at'[r] = d.at /\ todo'[r] = d.todo /\ state'[r] = "running"
      BY <1>1, <2>1, <2>3, <2>5 DEF Return, Go
    <3>. QED  BY <1>1, <1>3, <2>2, <2>5, <3>1
  <2>. QED  BY <2>4, <2>5
<1>4. CASE /\ Go(r, d.at, d.todo) /\ UNCHANGED solved
           /\ (at[r].phase = "preflight" => Fits(r)) /\ d.at.solve = at[r].solve
           /\ d.at.phase \notin {"preflight", "test", "verdict"}
  <2>1. at'[r] = d.at /\ todo'[r] = d.todo /\ state'[r] = "running"
    BY <1>1, <1>4 DEF Go
  <2>. QED  BY <1>1, <1>4, <2>1
<1>. QED  BY <1>2, <1>3, <1>4 DEF Turn

LEMMA ReadingEffect ==
    ASSUME TypeInv, NEW r \in Ranks, Reading(r), NEW d, d = Decision(at[r], bit[r])
    PROVE  /\ state[r] = "running" /\ ~inside[r] /\ todo[r] = <<>>
           /\ at[r].phase \in {"open", "again", "check", "setup"}
           /\ UNCHANGED <<world, inside, rounds, swaps, solved>>
           /\ state'[r] = "running" /\ at'[r] = d.at /\ todo'[r] = d.todo
           /\ d.at.phase \in {"test", "verdict"} /\ d.at.solve = at[r].solve
           /\ d.todo = Vote(Solve(r))
           /\ \E b \in BOOLEAN :
                /\ at[r].phase \in {"open", "again"} => b \/ at[r].outer < MaxOuter
                /\ bit'[r] = b
                /\ \/ /\ \A x \in truth : x.at # d.at
                      /\ truth' = truth \cup {[at |-> d.at, bit |-> b]} /\ errs' = errs
                   \/ /\ truth' = truth /\ \E x \in truth : x.at = d.at
                      /\ \/ errs' = errs + 1
                         \/ errs' = errs /\ \E x \in truth : x.at = d.at /\ x.bit = b
<1>. USE DEF TypeInv
<1>1. /\ state[r] = "running" /\ ~inside[r] /\ todo[r] = <<>>
      /\ at[r].phase \in {"open", "again", "check", "setup"}
      /\ UNCHANGED <<world, inside, rounds, swaps, solved>>
      /\ d.at.phase \in {"test", "verdict"} /\ d.at.solve = at[r].solve
      /\ d.todo = Vote(Solve(r))
  BY DEF Reading, Decides
<1>2. state'[r] = "running" /\ at'[r] = d.at /\ todo'[r] = d.todo
  BY <1>1 DEF Reading, Go
<1>3. PICK b \in BOOLEAN :
         /\ at[r].phase \in {"open", "again"} => b \/ at[r].outer < MaxOuter
         /\ Reads(r, d.at, b)
  BY DEF Reading
<1>4. bit'[r] = b
  BY <1>3 DEF Reads
<1>5. CASE {x \in truth : x.at = d.at} = {}
  BY <1>1, <1>2, <1>3, <1>4, <1>5 DEF Reads
<1>6. CASE {x \in truth : x.at = d.at} # {}
  <2>1. truth' = truth /\ \E x \in truth : x.at = d.at
    BY <1>3, <1>6 DEF Reads
  <2>2. \/ errs' = errs + 1
        \/ errs' = errs /\ \E x \in truth : x.at = d.at /\ x.bit = b
    BY <1>3, <1>6 DEF Reads
  <2>. QED  BY <1>1, <1>2, <1>3, <1>4, <2>1, <2>2
<1>. QED  BY <1>5, <1>6

LEMMA EnterEffect ==
    ASSUME TypeInv, NEW r \in Ranks, Enter(r)
    PROVE  /\ state[r] = "running" /\ ~inside[r] /\ todo[r] # <<>> /\ inside'[r] = TRUE
           /\ UNCHANGED <<world, at, todo, bit, state, truth, solved, errs>>
           /\ IF IsExchange(Head(todo[r]))
                THEN swaps'[r] = Append(swaps[r], Place(r)) /\ rounds' = rounds
                ELSE /\ rounds'[r] = Append(rounds[r],
                          [place |-> Place(r), header |-> Head(todo[r]), bit |-> bit[r]])
                     /\ swaps' = swaps
BY DEF TypeInv, Enter

LEMMA LeaveEffect ==
    ASSUME TypeInv, NEW r \in Ranks, Leave(r)
    PROVE  /\ Inside(r) /\ Missing(r) = {} /\ Disagreeing(r) = {} /\ inside'[r] = FALSE
           /\ UNCHANGED <<world, bit, truth, rounds, swaps, solved, errs>>
           /\ at'[r] = at[r]
           /\ \/ state'[r] = "refused" /\ todo'[r] = todo[r]
              \/ state'[r] = "running" /\ ~Split(r) /\ todo'[r] = Tail(todo[r])
BY DEF TypeInv, Leave, Stop, Go, Inside

LEMMA GiveUpEffect ==
    ASSUME TypeInv, NEW r \in Ranks, GiveUp(r)
    PROVE  /\ Inside(r) /\ inside'[r] = FALSE /\ state'[r] = "failed"
           /\ UNCHANGED <<world, at, todo, bit, truth, rounds, swaps, solved, errs>>
BY DEF TypeInv, GiveUp, Stop

-----------------------------------------------------------------------------
(* What holds of each rank by itself: its counters stay in their bounds, it  *)
(* has finished the solves before the one it is in, its last entry is the    *)
(* call it waits in, it sends nothing of a solve it refuses, and at a test   *)
(* it has read a bit.                                                        *)

Inner == {"setup", "test", "body", "check", "rest", "finish"}

Bounded(r) ==
    LET a == at[r]
        s == Solve(r)
    IN /\ a.solve \in 1..Len(world.solves)
       /\ a.outer <= MaxOuter /\ a.sweeps + a.it <= s.most
       /\ a.phase = "verdict" /\ ~bit[r] => a.outer < MaxOuter
       /\ Refined(s) /\ a.phase \in Inner => a.outer < MaxOuter

Counted(r) ==
    IF state[r] = "done"
      THEN Len(solved[r]) = Len(world.solves) /\ at[r].solve = Len(world.solves)
      ELSE Len(solved[r]) = at[r].solve - 1

Waiting(r) ==
    inside[r] =>
      /\ state[r] = "running" /\ todo[r] # <<>>
      /\ ~IsExchange(Head(todo[r])) =>
           /\ Round(r) > 0
           /\ rounds[r][Round(r)]
                = [place |-> Place(r), header |-> Head(todo[r]), bit |-> bit[r]]
      /\ IsExchange(Head(todo[r])) => Swap(r) > 0 /\ swaps[r][Swap(r)] = Place(r)

Fitting(r) ==
    /\ at[r].phase = "preflight" => todo[r] = <<>>
    /\ at[r].phase # "preflight" => <<r, at[r].solve>> \notin world.refuses
    /\ \A k \in 1..Round(r) : <<r, rounds[r][k].place.at.solve>> \notin world.refuses

Voting(r) ==
    at[r].phase \in {"test", "verdict"} =>
      /\ todo[r] = <<>> \/ todo[r] = <<"vote">>
      /\ \E x \in truth : x.at = at[r]
      /\ state[r] = "running" /\ errs = 0 => \E x \in truth : x.at = at[r] /\ x.bit = bit[r]

RankInv ==
    \A r \in Ranks : Bounded(r) /\ Counted(r) /\ Waiting(r) /\ Fitting(r) /\ Voting(r)

LEMMA WorldType ==
    ASSUME TypeInv
    PROVE  /\ Len(world.solves) \in Nat /\ Len(world.solves) > 0
           /\ \A i \in 1..Len(world.solves) : world.solves[i] \in Solves
<1>1. world.solves \in Seq(Solves) /\ world.solves # <<>>
  BY SolveAssumption DEF TypeInv
<1>. QED  BY <1>1, LenProperties, EmptySeq, ElementOfSeq

LEMMA MostNat ==
    ASSUME NEW s \in Solves
    PROVE  s.most \in Nat
BY DEF Solves

LEMMA DecisionBounds ==
    ASSUME NEW a \in At, NEW b, NEW d, d = Decision(a, b), d.at.solve = a.solve,
           NEW s, s = world.solves[a.solve], s \in Solves,
           a.outer <= MaxOuter, a.sweeps + a.it <= s.most,
           a.phase = "verdict" /\ ~b => a.outer < MaxOuter,
           Refined(s) /\ a.phase \in Inner => a.outer < MaxOuter
    PROVE  /\ d.at.outer <= MaxOuter /\ d.at.sweeps + d.at.it <= s.most
           /\ d.at.phase = "verdict" => d.at.outer = a.outer
           /\ Refined(s) /\ d.at.phase \in Inner => d.at.outer < MaxOuter
<1>0. MaxOuter \in Nat /\ s.most \in Nat /\ a.outer \in Nat /\ a.sweeps \in Nat /\ a.it \in Nat
      /\ a.phase \in Phases
  BY SolveAssumption, MostNat DEF At
<1>1. ASSUME NEW p \in Phases, NEW c, d = To(a, p, c),
             Refined(s) /\ p \in Inner => a.outer < MaxOuter
      PROVE  /\ d.at.outer <= MaxOuter /\ d.at.sweeps + d.at.it <= s.most
             /\ d.at.phase = "verdict" => d.at.outer = a.outer
             /\ Refined(s) /\ d.at.phase \in Inner => d.at.outer < MaxOuter
  <2>1. d.at = [a EXCEPT !.phase = p]
    BY <1>1 DEF To
  <2>2. d.at.outer = a.outer /\ d.at.sweeps = a.sweeps /\ d.at.it = a.it /\ d.at.phase = p
    BY <2>1 DEF At
  <2>. QED  BY <1>1, <2>2
<1>2. ASSUME d = Iterate(a, s), Refined(s) => a.outer < MaxOuter
      PROVE  /\ d.at.outer <= MaxOuter /\ d.at.sweeps + d.at.it <= s.most
             /\ d.at.phase # "verdict"
             /\ Refined(s) /\ d.at.phase \in Inner => d.at.outer < MaxOuter
  <2>1. CASE a.it < s.most - a.sweeps
    <3>1. d.at = [a EXCEPT !.phase = "body", !.it = @ + 1]
      BY <1>2, <2>1 DEF Iterate
    <3>2. d.at.outer = a.outer /\ d.at.sweeps = a.sweeps /\ d.at.it = a.it + 1
          /\ d.at.phase = "body"
      BY <3>1 DEF At
    <3>. QED  BY <1>0, <1>2, <2>1, <3>2
  <2>2. CASE ~(a.it < s.most - a.sweeps)
    <3>1. d = To(a, "finish", Report(s))
      BY <1>2, <2>2 DEF Iterate
    <3>2. d.at.phase = "finish"
      BY <3>1, ToFields, EveryPhase
    <3>. QED  BY <1>1, <1>2, <3>1, <3>2, EveryPhase
  <2>. QED  BY <2>1, <2>2
<1>3. ASSUME d = Update(a), a.outer < MaxOuter
      PROVE  /\ d.at.outer <= MaxOuter /\ d.at.sweeps + d.at.it <= s.most
             /\ d.at.phase # "verdict" /\ d.at.phase \notin Inner
  <2>1. d.at = [a EXCEPT !.phase = "again", !.outer = @ + 1, !.sweeps = @ + a.it, !.it = 0]
    BY <1>3 DEF Update
  <2>2. d.at.outer = a.outer + 1 /\ d.at.sweeps = a.sweeps + a.it /\ d.at.it = 0
        /\ d.at.phase = "again"
    BY <2>1 DEF At
  <2>. QED  BY <1>0, <1>3, <2>2 DEF Inner
<1>4. d # On(a.solve + 1)
  <2>1. CASE d = On(a.solve + 1)
    <3>1. d.at.solve = a.solve + 1
      BY <2>1, OnLater
    <3>2. a.solve \in Nat
      BY DEF At
    <3>. QED  BY <3>1, <3>2
  <2>. QED  BY <2>1
<1>5. \/ d = Iterate(a, s) /\ a.phase \in {"setup", "test", "rest"}
      \/ d = Update(a) /\ Refined(s) /\ a.phase = "finish"
      \/ d = To(a, "open", Opening)
      \/ d = To(a, "setup", Setup(s)) /\ (~Refined(s) \/ (a.phase = "verdict" /\ ~b))
      \/ d = To(a, "verdict", Vote(s))
      \/ d = To(a, "test", Vote(s))
           /\ (a.phase = "setup" \/ a.phase = "check")
      \/ d = To(a, "check", Check(s)) /\ a.phase = "body"
      \/ d = To(a, "rest", Rest(s)) /\ a.phase \in {"test", "body"}
      \/ d = To(a, "finish", Report(s)) /\ a.phase = "test"
  BY <1>0, <1>4 DEF Decision, Phases
<1>6. CASE d = Iterate(a, s) /\ a.phase \in {"setup", "test", "rest"}
  <2>1. Refined(s) => a.outer < MaxOuter
    BY <1>6 DEF Inner
  <2>. QED  BY <1>2, <1>6, <2>1
<1>7. CASE d = Update(a) /\ Refined(s) /\ a.phase = "finish"
  <2>1. a.outer < MaxOuter
    BY <1>7 DEF Inner
  <2>. QED  BY <1>3, <1>7, <2>1
<1>8. CASE d = To(a, "open", Opening)
  BY <1>1, <1>8, EveryPhase DEF Inner
<1>9. CASE d = To(a, "setup", Setup(s)) /\ (~Refined(s) \/ (a.phase = "verdict" /\ ~b))
  BY <1>1, <1>9, EveryPhase
<1>10. CASE d = To(a, "verdict", Vote(s))
  BY <1>1, <1>10, EveryPhase DEF Inner
<1>11. CASE d = To(a, "test", Vote(s)) /\ (a.phase = "setup" \/ a.phase = "check")
  <2>1. Refined(s) => a.outer < MaxOuter
    BY <1>11 DEF Inner
  <2>. QED  BY <1>1, <1>11, <2>1, EveryPhase
<1>12. CASE d = To(a, "check", Check(s)) /\ a.phase = "body"
  <2>1. Refined(s) => a.outer < MaxOuter
    BY <1>12 DEF Inner
  <2>. QED  BY <1>1, <1>12, <2>1, EveryPhase
<1>13. CASE d = To(a, "rest", Rest(s)) /\ a.phase \in {"test", "body"}
  <2>1. Refined(s) => a.outer < MaxOuter
    BY <1>13 DEF Inner
  <2>. QED  BY <1>1, <1>13, <2>1, EveryPhase
<1>14. CASE d = To(a, "finish", Report(s)) /\ a.phase = "test"
  <2>1. Refined(s) => a.outer < MaxOuter
    BY <1>14 DEF Inner
  <2>. QED  BY <1>1, <1>14, <2>1, EveryPhase
<1>. QED  BY <1>5, <1>6, <1>7, <1>8, <1>9, <1>10, <1>11, <1>12, <1>13, <1>14

LEMMA Growth ==
    ASSUME TypeInv, NEW r \in Ranks, Step(r)
    PROVE  world' = world /\ truth \subseteq truth' /\ (errs' = 0 => errs = 0)
<1>0. errs \in Nat
  BY SolveAssumption DEF TypeInv
<1>1. CASE Turn(r)
  BY <1>1 DEF Turn
<1>2. CASE Reading(r)
  <2>1. PICK d : d = Decision(at[r], bit[r])
    OBVIOUS
  <2>2. UNCHANGED world /\ truth \subseteq truth' /\ (errs' = errs \/ errs' = errs + 1)
    BY <1>2, <2>1, ReadingEffect
  <2>. QED  BY <1>0, <2>2
<1>3. CASE Enter(r)
  BY <1>3 DEF Enter
<1>4. CASE Leave(r)
  BY <1>4 DEF Leave
<1>5. CASE GiveUp(r)
  BY <1>5 DEF GiveUp
<1>. QED  BY <1>1, <1>2, <1>3, <1>4, <1>5 DEF Step

LEMMA RankOthers ==
    ASSUME TypeInv, RankInv, NEW r \in Ranks, Step(r), NEW q \in Ranks, q # r
    PROVE  Bounded(q)' /\ Counted(q)' /\ Waiting(q)' /\ Fitting(q)' /\ Voting(q)'
<1>1. /\ at'[q] = at[q] /\ todo'[q] = todo[q] /\ inside'[q] = inside[q]
      /\ bit'[q] = bit[q] /\ state'[q] = state[q] /\ rounds'[q] = rounds[q]
      /\ swaps'[q] = swaps[q] /\ solved'[q] = solved[q] /\ world' = world
  BY Others
<1>2. truth \subseteq truth' /\ (errs' = 0 => errs = 0)
  BY Growth
<1>3. Bounded(q) /\ Counted(q) /\ Waiting(q) /\ Fitting(q) /\ Voting(q)
  BY DEF RankInv
<1>4. Bounded(q)' /\ Counted(q)'
  BY <1>1, <1>3 DEF Bounded, Counted, Solve
<1>5. Waiting(q)'
  BY <1>1, <1>3 DEF Waiting, Round, Swap, Place
<1>6. Fitting(q)'
  BY <1>1, <1>3 DEF Fitting, Round
<1>7. Voting(q)'
  BY <1>1, <1>2, <1>3 DEF Voting
<1>. QED  BY <1>4, <1>5, <1>6, <1>7

LEMMA RankTurn ==
    ASSUME TypeInv, RankInv, NEW r \in Ranks, Turn(r)
    PROVE  Bounded(r)' /\ Counted(r)' /\ Waiting(r)' /\ Fitting(r)' /\ Voting(r)'
<1>1. PICK d : d = Decision(at[r], bit[r])
  OBVIOUS
<1> DEFINE a == at[r]
           s == Solve(r)
<1>2. Bounded(r) /\ Counted(r) /\ Waiting(r) /\ Fitting(r) /\ Voting(r)
  BY DEF RankInv
<1>3. /\ state[r] = "running" /\ ~inside[r] /\ todo[r] = <<>>
      /\ UNCHANGED <<world, inside, bit, truth, rounds, swaps, errs>>
  BY <1>1, TurnEffect
<1>4. a \in At /\ Len(world.solves) \in Nat /\ s \in Solves /\ s = world.solves[a.solve]
  <2>1. a.solve \in 1..Len(world.solves)
    BY <1>2 DEF Bounded
  <2>. QED  BY <2>1, WorldType DEF TypeInv, Solve
<1>5. Waiting(r)'
  BY <1>3 DEF Waiting
<1>6. CASE state'[r] = "refused" /\ at'[r] = at[r] /\ todo'[r] = <<>> /\ solved'[r] = solved[r]
  <2>1. Bounded(r)' /\ Counted(r)'
    BY <1>2, <1>3, <1>6 DEF Bounded, Counted, Solve
  <2>2. Fitting(r)' /\ Voting(r)'
    BY <1>2, <1>3, <1>6 DEF Fitting, Voting, Round
  <2>. QED  BY <1>5, <2>1, <2>2
<1>7. CASE /\ Len(solved'[r]) = Len(solved[r]) + 1 /\ d = On(at[r].solve + 1)
           /\ at[r].solve = Len(world.solves) /\ state'[r] = "done"
           /\ at'[r] = at[r] /\ todo'[r] = <<>>
  <2>1. Bounded(r)'
    BY <1>2, <1>3, <1>7 DEF Bounded, Solve
  <2>2. Counted(r)'
    BY <1>2, <1>3, <1>4, <1>7 DEF Counted
  <2>3. Fitting(r)' /\ Voting(r)'
    BY <1>2, <1>3, <1>7 DEF Fitting, Voting, Round
  <2>. QED  BY <1>5, <2>1, <2>2, <2>3
<1>8. CASE /\ Len(solved'[r]) = Len(solved[r]) + 1 /\ d = On(at[r].solve + 1)
           /\ at[r].solve # Len(world.solves) /\ state'[r] = "running"
           /\ at'[r] = d.at /\ todo'[r] = d.todo
  <2>1. at'[r] = Start(a.solve + 1) /\ todo'[r] = <<>>
    BY <1>8 DEF On
  <2>2. at'[r].solve = a.solve + 1 /\ at'[r].phase = "preflight" /\ at'[r].outer = 0
        /\ at'[r].sweeps = 0 /\ at'[r].it = 0
    BY <2>1 DEF Start
  <2>3. a.solve + 1 \in 1..Len(world.solves)
    BY <1>2, <1>4, <1>8 DEF Bounded
  <2>4. Bounded(r)'
    <3>1. world.solves[a.solve + 1].most \in Nat
      BY <2>3, WorldType, MostNat
    <3>2. Solve(r)' = world.solves[a.solve + 1]
      BY <1>3, <2>2 DEF Solve
    <3>3. at'[r].outer <= MaxOuter /\ at'[r].sweeps + at'[r].it <= Solve(r)'.most
      BY <2>2, <3>1, <3>2, SolveAssumption
    <3>. QED  BY <1>3, <2>2, <2>3, <3>3 DEF Bounded, Inner
  <2>5. Counted(r)'
    <3>1. Len(solved[r]) = a.solve - 1 /\ a.solve \in Nat
      BY <1>2, <1>3, <1>4 DEF Counted, At
    <3>2. Len(solved'[r]) = (a.solve - 1) + 1 /\ at'[r].solve - 1 = a.solve
      BY <1>8, <2>2, <3>1
    <3>3. Len(solved'[r]) = at'[r].solve - 1
      BY <3>1, <3>2
    <3>. QED  BY <1>8, <3>3 DEF Counted
  <2>6. Fitting(r)'
    BY <1>2, <1>3, <2>1, <2>2 DEF Fitting, Round
  <2>7. Voting(r)'
    BY <2>2 DEF Voting
  <2>. QED  BY <1>5, <2>4, <2>5, <2>6, <2>7
<1>9. CASE /\ state'[r] = "running" /\ at'[r] = d.at /\ todo'[r] = d.todo
           /\ solved'[r] = solved[r] /\ (at[r].phase = "preflight" => Fits(r))
           /\ d.at.solve = at[r].solve
           /\ d.at.phase \notin {"preflight", "test", "verdict"}
  <2>1. /\ d.at.outer <= MaxOuter /\ d.at.sweeps + d.at.it <= s.most
        /\ Refined(s) /\ d.at.phase \in Inner => d.at.outer < MaxOuter
    <3>1. /\ a.outer <= MaxOuter /\ a.sweeps + a.it <= s.most
          /\ a.phase = "verdict" /\ ~bit[r] => a.outer < MaxOuter
          /\ Refined(s) /\ a.phase \in Inner => a.outer < MaxOuter
      BY <1>2 DEF Bounded
    <3>. HIDE DEF a, s
    <3>2. d = Decision(a, bit[r]) /\ d.at.solve = a.solve
      BY <1>1, <1>9 DEF a
    <3>. QED  BY <1>4, <3>1, <3>2, DecisionBounds
  <2>2. Bounded(r)'
    <3>1. Solve(r)' = s /\ a.solve \in 1..Len(world.solves)
      BY <1>2, <1>3, <1>9 DEF Bounded, Solve
    <3>. QED  BY <1>3, <1>9, <2>1, <3>1 DEF Bounded
  <2>3. Counted(r)'
    BY <1>2, <1>3, <1>9 DEF Counted
  <2>4. Fitting(r)'
    <3>1. <<r, at[r].solve>> \notin world.refuses
      BY <1>2, <1>9 DEF Fitting, Fits
    <3>. QED  BY <1>2, <1>3, <1>9, <3>1 DEF Fitting, Round
  <2>5. Voting(r)'
    BY <1>9 DEF Voting
  <2>. QED  BY <1>5, <2>2, <2>3, <2>4, <2>5
<1>10. \/ state'[r] = "refused" /\ at'[r] = at[r] /\ todo'[r] = <<>> /\ solved'[r] = solved[r]
       \/ /\ Len(solved'[r]) = Len(solved[r]) + 1 /\ d = On(at[r].solve + 1)
          /\ \/ at[r].solve = Len(world.solves) /\ state'[r] = "done"
                /\ at'[r] = at[r] /\ todo'[r] = <<>>
             \/ at[r].solve # Len(world.solves) /\ state'[r] = "running"
                /\ at'[r] = d.at /\ todo'[r] = d.todo
       \/ /\ state'[r] = "running" /\ at'[r] = d.at /\ todo'[r] = d.todo
          /\ solved'[r] = solved[r] /\ (at[r].phase = "preflight" => Fits(r))
          /\ d.at.solve = at[r].solve
          /\ d.at.phase \notin {"preflight", "test", "verdict"}
  BY <1>1, TurnEffect
<1>. QED  BY <1>6, <1>7, <1>8, <1>9, <1>10

LEMMA RankReading ==
    ASSUME TypeInv, RankInv, NEW r \in Ranks, Reading(r)
    PROVE  Bounded(r)' /\ Counted(r)' /\ Waiting(r)' /\ Fitting(r)' /\ Voting(r)'
<1>1. PICK d : d = Decision(at[r], bit[r])
  OBVIOUS
<1> DEFINE a == at[r]
           s == Solve(r)
<1>2. Bounded(r) /\ Counted(r) /\ Waiting(r) /\ Fitting(r) /\ Voting(r)
  BY DEF RankInv
<1>3. /\ state[r] = "running" /\ ~inside[r] /\ todo[r] = <<>>
      /\ a.phase \in {"open", "again", "check", "setup"}
      /\ UNCHANGED <<world, inside, rounds, swaps, solved>>
      /\ state'[r] = "running" /\ at'[r] = d.at /\ todo'[r] = d.todo
      /\ d.at.phase \in {"test", "verdict"} /\ d.at.solve = a.solve
      /\ d.todo = Vote(s)
  BY <1>1, ReadingEffect
<1>4. PICK b \in BOOLEAN :
         /\ a.phase \in {"open", "again"} => b \/ a.outer < MaxOuter
         /\ bit'[r] = b
         /\ \/ /\ \A x \in truth : x.at # d.at
               /\ truth' = truth \cup {[at |-> d.at, bit |-> b]} /\ errs' = errs
            \/ /\ truth' = truth /\ \E x \in truth : x.at = d.at
               /\ \/ errs' = errs + 1
                  \/ errs' = errs /\ \E x \in truth : x.at = d.at /\ x.bit = b
  BY <1>1, ReadingEffect
<1>5. a \in At /\ s \in Solves /\ s = world.solves[a.solve] /\ a.solve \in 1..Len(world.solves)
  <2>1. a.solve \in 1..Len(world.solves)
    BY <1>2 DEF Bounded
  <2>. QED  BY <2>1, WorldType DEF TypeInv, Solve
<1>6. Bounded(r)'
  <2>1. /\ a.outer <= MaxOuter /\ a.sweeps + a.it <= s.most
        /\ a.phase = "verdict" /\ ~bit[r] => a.outer < MaxOuter
        /\ Refined(s) /\ a.phase \in Inner => a.outer < MaxOuter
    BY <1>2 DEF Bounded
  <2>2. /\ d.at.outer <= MaxOuter /\ d.at.sweeps + d.at.it <= s.most
        /\ d.at.phase = "verdict" => d.at.outer = a.outer
        /\ Refined(s) /\ d.at.phase \in Inner => d.at.outer < MaxOuter
    <3>. HIDE DEF a, s
    <3>1. d = Decision(a, bit[r]) /\ d.at.solve = a.solve
      BY <1>1, <1>3 DEF a
    <3>. QED  BY <1>5, <2>1, <3>1, DecisionBounds
  <2>3. d.at.phase = "verdict" => a.phase \in {"open", "again"}
    BY <1>1, <1>5, DecisionLeads
  <2>4. Solve(r)' = s
    BY <1>3 DEF Solve
  <2>. QED  BY <1>3, <1>4, <1>5, <2>2, <2>3, <2>4 DEF Bounded
<1>7. Counted(r)'
  BY <1>2, <1>3 DEF Counted
<1>8. Waiting(r)'
  BY <1>3 DEF Waiting
<1>9. Fitting(r)'
  BY <1>2, <1>3 DEF Fitting, Round
<1>10. Voting(r)'
  <2>1. todo'[r] = <<>> \/ todo'[r] = <<"vote">>
    BY <1>3, VoteType
  <2>2. errs' = 0 => errs' # errs + 1
    BY SolveAssumption DEF TypeInv
  <2>3. (\E x \in truth' : x.at = d.at)
         /\ (errs' = 0 => \E x \in truth' : x.at = d.at /\ x.bit = b)
    <3>1. CASE truth' = truth \cup {[at |-> d.at, bit |-> b]}
      <4>1. [at |-> d.at, bit |-> b] \in truth'
        BY <3>1
      <4>. QED  BY <4>1
    <3>. QED  BY <1>4, <2>2, <3>1
  <2>. QED  BY <1>3, <1>4, <2>1, <2>3 DEF Voting
<1>. QED  BY <1>6, <1>7, <1>8, <1>9, <1>10

LEMMA RankCalls ==
    ASSUME TypeInv, RankInv, NEW r \in Ranks, Enter(r) \/ Leave(r) \/ GiveUp(r)
    PROVE  Bounded(r)' /\ Counted(r)' /\ Waiting(r)' /\ Fitting(r)' /\ Voting(r)'
<1>2. Bounded(r) /\ Counted(r) /\ Waiting(r) /\ Fitting(r) /\ Voting(r)
  BY DEF RankInv
<1>3. CASE Enter(r)
  <2>1. /\ state[r] = "running" /\ ~inside[r] /\ todo[r] # <<>> /\ inside'[r] = TRUE
        /\ UNCHANGED <<world, at, todo, bit, state, truth, solved, errs>>
    BY <1>3, EnterEffect
  <2>2. Bounded(r)' /\ Counted(r)'
    BY <1>2, <2>1 DEF Bounded, Counted, Solve
  <2>3. Voting(r)'
    BY <1>2, <2>1 DEF Voting
  <2> DEFINE e == [place |-> Place(r), header |-> Head(todo[r]), bit |-> bit[r]]
  <2>4. CASE IsExchange(Head(todo[r]))
    <3>1. swaps'[r] = Append(swaps[r], Place(r)) /\ rounds' = rounds
      BY <1>3, <2>4, EnterEffect
    <3>2. swaps[r] \in Seq(Places) /\ Place(r) \in Places
      BY LenProperties DEF TypeInv, Place, Places
    <3>3. Swap(r)' > 0 /\ swaps'[r][Swap(r)'] = Place(r)
      BY <3>1, <3>2, AppendProperties, LenProperties DEF Swap
    <3>4. Waiting(r)'
      <4>1. Place(r)' = Place(r)
        BY <2>1 DEF Place
      <4>. QED  BY <2>1, <2>4, <3>3, <4>1 DEF Waiting
    <3>5. Fitting(r)'
      BY <1>2, <2>1, <3>1 DEF Fitting, Round
    <3>. QED  BY <2>2, <2>3, <3>4, <3>5
  <2>5. CASE ~IsExchange(Head(todo[r]))
    <3>1. rounds'[r] = Append(rounds[r], e) /\ swaps' = swaps
      BY <1>3, <2>5, EnterEffect
    <3>2. rounds[r] \in Seq(Entries) /\ e \in Entries
      <4>1. Place(r) \in Places
        BY LenProperties DEF TypeInv, Place, Places
      <4>2. Head(todo[r]) \in Calls
        BY <2>1, HeadType DEF TypeInv
      <4>. QED  BY <4>1, <4>2 DEF TypeInv, Entries
    <3>3. /\ Round(r) \in Nat /\ Round(r)' = Round(r) + 1 /\ rounds'[r][Round(r) + 1] = e
          /\ \A k \in 1..Round(r) : rounds'[r][k] = rounds[r][k]
      <4>. HIDE DEF e
      <4>. QED  BY <3>1, <3>2, AppendProperties, LenProperties DEF Round
    <3>4. Waiting(r)'
      <4>1. Place(r)' = Place(r)
        BY <2>1 DEF Place
      <4>. QED  BY <2>1, <2>5, <3>3, <4>1 DEF Waiting
    <3>5. Fitting(r)'
      <4>1. at[r].phase # "preflight" /\ <<r, at[r].solve>> \notin world.refuses
        BY <1>2, <2>1 DEF Fitting
      <4>2. e.place.at.solve = at[r].solve
        BY DEF Place
      <4>3. ASSUME NEW k \in 1..Round(r)'
            PROVE  <<r, rounds'[r][k].place.at.solve>> \notin world.refuses
        <5>1. CASE k \in 1..Round(r)
          BY <1>2, <3>3, <5>1 DEF Fitting
        <5>2. CASE k = Round(r) + 1
          BY <3>3, <4>1, <4>2, <5>2
        <5>. QED  BY <3>3, <5>1, <5>2
      <4>. QED  BY <2>1, <4>1, <4>3 DEF Fitting
    <3>. QED  BY <2>2, <2>3, <3>4, <3>5
  <2>. QED  BY <2>4, <2>5
<1>4. CASE Leave(r)
  <2>1. /\ Inside(r) /\ inside'[r] = FALSE
        /\ UNCHANGED <<world, bit, truth, rounds, swaps, solved, errs>>
        /\ at'[r] = at[r]
        /\ \/ state'[r] = "refused" /\ todo'[r] = todo[r]
           \/ state'[r] = "running" /\ todo'[r] = Tail(todo[r])
    BY <1>4, LeaveEffect
  <2>2. state[r] = "running" /\ todo[r] # <<>> /\ at[r].phase # "preflight"
    BY <1>2, <2>1 DEF Waiting, Fitting, Inside
  <2>3. Bounded(r)' /\ Counted(r)'
    BY <1>2, <2>1, <2>2 DEF Bounded, Counted, Solve
  <2>4. Waiting(r)' /\ Fitting(r)'
    BY <1>2, <2>1, <2>2 DEF Waiting, Fitting, Round
  <2>5. Voting(r)'
    <3>1. Tail(<<"vote">>) = <<>>
      OBVIOUS
    <3>. QED  BY <1>2, <2>1, <2>2, <3>1 DEF Voting
  <2>. QED  BY <2>3, <2>4, <2>5
<1>5. CASE GiveUp(r)
  <2>1. /\ Inside(r) /\ inside'[r] = FALSE /\ state'[r] = "failed"
        /\ UNCHANGED <<world, at, todo, bit, truth, rounds, swaps, solved, errs>>
    BY <1>5, GiveUpEffect
  <2>2. state[r] = "running"
    BY <2>1 DEF Inside
  <2>3. Bounded(r)' /\ Counted(r)'
    BY <1>2, <2>1, <2>2 DEF Bounded, Counted, Solve
  <2>4. Waiting(r)' /\ Fitting(r)' /\ Voting(r)'
    BY <1>2, <2>1, <2>2 DEF Waiting, Fitting, Voting, Round
  <2>. QED  BY <2>3, <2>4
<1>. QED  BY <1>3, <1>4, <1>5

LEMMA RankNext ==
    ASSUME TypeInv, RankInv, [Next]_vars
    PROVE  TypeInv' /\ RankInv'
<1>1. CASE UNCHANGED vars
  <2>1. TypeInv'
    BY <1>1 DEF vars, TypeInv
  <2>2. RankInv'
    BY <1>1 DEF vars, RankInv, Bounded, Counted, Waiting, Fitting, Voting, Solve, Round, Swap,
                Place
  <2>. QED  BY <2>1, <2>2
<1>2. CASE \E r \in Ranks : Step(r)
  <2>1. PICK r \in Ranks : Step(r)
    BY <1>2
  <2>2. Leave(r) => todo[r] # <<>>
    BY DEF Leave, Inside, RankInv, Waiting
  <2>3. TypeInv'
    BY <2>1, <2>2, TurnType, ReadingType, EnterType, LeaveType, GiveUpType DEF Step
  <2>4. ASSUME NEW q \in Ranks
        PROVE  (Bounded(q) /\ Counted(q) /\ Waiting(q) /\ Fitting(q) /\ Voting(q))'
    <3>1. CASE q = r
      BY <2>1, <3>1, RankTurn, RankReading, RankCalls DEF Step
    <3>2. CASE q # r
      BY <2>1, <3>2, RankOthers
    <3>. QED  BY <3>1, <3>2
  <2>. QED  BY <2>3, <2>4 DEF RankInv
<1>. QED  BY <1>1, <1>2, StepCases DEF Step

LEMMA RankInit == Init => RankInv
<1>. SUFFICES ASSUME Init, NEW r \in Ranks
              PROVE  Bounded(r) /\ Counted(r) /\ Waiting(r) /\ Fitting(r) /\ Voting(r)
  BY DEF RankInv
<1>1. TypeInv
  BY InitType
<1>2. at[r] = Start(1) /\ todo[r] = <<>> /\ inside[r] = FALSE /\ state[r] = "running"
      /\ rounds[r] = <<>> /\ solved[r] = <<>>
  BY DEF Init
<1>3. at[r].solve = 1 /\ at[r].phase = "preflight" /\ at[r].outer = 0 /\ at[r].sweeps = 0
      /\ at[r].it = 0
  BY <1>2 DEF Start
<1>4. 1 \in 1..Len(world.solves)
  BY <1>1, WorldType
<1>5. Solve(r).most \in Nat
  BY <1>1, <1>3, <1>4, WorldType, MostNat DEF Solve
<1>6. Bounded(r)
  BY <1>3, <1>4, <1>5, SolveAssumption DEF Bounded, Inner
<1>7. Counted(r)
  BY <1>2, <1>3, EmptyType DEF Counted
<1>8. Fitting(r)
  BY <1>2, <1>3, EmptyType DEF Fitting, Round
<1>. QED  BY <1>2, <1>3, <1>6, <1>7, <1>8 DEF Waiting, Voting

(* Shapes and bounds hold of every number of ranks and every list of solves. *)
THEOREM TypeCorrect == Spec => []TypeOK
<1>1. Init => TypeInv /\ RankInv
  BY InitType, RankInit
<1>2. TypeInv /\ RankInv /\ [Next]_vars => (TypeInv /\ RankInv)'
  BY RankNext
<1>3. TypeInv /\ RankInv => TypeOK
  <2>. SUFFICES ASSUME TypeInv, RankInv PROVE TypeOK
    OBVIOUS
  <2>1. ASSUME NEW r \in Ranks
        PROVE  /\ at[r].solve \in 1..Len(world.solves) /\ at[r].phase \in Phases
               /\ at[r].outer \in 0..MaxOuter
               /\ at[r].sweeps \in 0..Solve(r).most /\ at[r].it \in 0..Solve(r).most
               /\ Len(solved[r]) <= Len(world.solves)
    <3>1. Bounded(r) /\ Counted(r)
      BY DEF RankInv
    <3>2. at[r] \in At
      BY DEF TypeInv
    <3>3. at[r].solve \in 1..Len(world.solves) /\ Len(world.solves) \in Nat
          /\ Solve(r).most \in Nat
      BY <3>1, WorldType, MostNat DEF Bounded, Solve
    <3>4. /\ at[r].phase \in Phases /\ at[r].outer \in Nat /\ at[r].sweeps \in Nat
          /\ at[r].it \in Nat
      BY <3>2 DEF At
    <3>5. at[r].outer <= MaxOuter /\ at[r].sweeps + at[r].it <= Solve(r).most
      BY <3>1 DEF Bounded
    <3>6. Len(solved[r]) <= Len(world.solves)
      BY <3>1, <3>3 DEF Counted
    <3>. QED  BY <3>3, <3>4, <3>5, <3>6, SolveAssumption
  <2>. QED  BY <2>1 DEF TypeInv, TypeOK
<1>. QED  BY <1>1, <1>2, <1>3, PTL DEF Spec

-----------------------------------------------------------------------------
(* The road of a run.  As long as no rank goes on with a wrong bit, all of   *)
(* them pass the same stations in the same order: a station is a place with  *)
(* the calls left there, and the numbers of collectives and of exchanges     *)
(* made on the way.  The next station follows from the last, and from the    *)
(* bit where one is read.                                                    *)

Station == [at : At, todo : Seq(Calls), rn : Nat, sn : Nat]

Meets(n) == n.todo # <<>> /\ ~IsExchange(Head(n.todo))
Trades(n) == n.todo # <<>> /\ IsExchange(Head(n.todo))

AfterCall(n) ==
    [at |-> n.at, todo |-> Tail(n.todo),
     rn |-> IF IsExchange(Head(n.todo)) THEN n.rn ELSE n.rn + 1,
     sn |-> IF IsExchange(Head(n.todo)) THEN n.sn + 1 ELSE n.sn]

AfterDecision(n, b) ==
    [at |-> Decision(n.at, b).at, todo |-> Decision(n.at, b).todo, rn |-> n.rn, sn |-> n.sn]

ReadHere == {"test", "verdict"}

Follows(m, n) ==
    IF n.todo # <<>>
      THEN m = AfterCall(n)
      ELSE \E b \in BOOLEAN :
             /\ n.at.phase \in ReadHere => [at |-> n.at, bit |-> b] \in truth
             /\ m = AfterDecision(n, b)

Sooner(n, m) ==
    /\ Later(m.at, n.at) \/ (m.at = n.at /\ Len(m.todo) < Len(n.todo))
    /\ n.rn <= m.rn /\ n.sn <= m.sn
    /\ Meets(n) => n.rn < m.rn
    /\ Trades(n) => n.sn < m.sn

Linked(p) == \A i \in 1..(Len(p) - 1) : Follows(p[i + 1], p[i])

Ordered(p) == \A i, j \in 1..Len(p) : i < j => Sooner(p[i], p[j])

(* Past its preflight a solve has a sum before it, or behind it.             *)
Summed(p) ==
    \A i \in 1..Len(p) :
      /\ p[i].at.phase # "preflight" =>
           \/ \E l \in 1..Len(p[i].todo) : p[i].todo[l] = "word"
           \/ \E j \in 1..Len(p) : Meets(p[j]) /\ p[j].at.solve = p[i].at.solve
      /\ \A n \in 1..(p[i].at.solve - 1) :
           world.solves[n].cells => \E j \in 1..Len(p) : Meets(p[j]) /\ p[j].at.solve = n

Road(p) ==
    /\ p \in Seq(Station) /\ Len(p) > 0
    /\ Linked(p) /\ Ordered(p) /\ Summed(p)

OneTruth == \A x, y \in truth : x.at = y.at => x = y

LEMMA StationFields ==
    ASSUME NEW n \in Station
    PROVE  n.at \in At /\ n.todo \in Seq(Calls) /\ n.rn \in Nat /\ n.sn \in Nat
BY DEF Station

LEMMA RoadStations ==
    ASSUME NEW p \in Seq(Station)
    PROVE  Len(p) \in Nat /\ \A i \in 1..Len(p) : p[i] \in Station
BY ElementOfSeq, LenProperties

LEMMA AfterCallSooner ==
    ASSUME NEW n \in Station, n.todo # <<>>, NEW m, m = AfterCall(n)
    PROVE  m \in Station /\ Sooner(n, m)
<1>1. n.at \in At /\ n.todo \in Seq(Calls) /\ n.rn \in Nat /\ n.sn \in Nat
  BY StationFields
<1>2. Tail(n.todo) \in Seq(Calls) /\ Len(Tail(n.todo)) = Len(n.todo) - 1 /\ Len(n.todo) \in Nat
  BY <1>1, HeadType
<1>3. m.at = n.at /\ m.todo = Tail(n.todo)
      /\ m.rn = (IF IsExchange(Head(n.todo)) THEN n.rn ELSE n.rn + 1)
      /\ m.sn = (IF IsExchange(Head(n.todo)) THEN n.sn + 1 ELSE n.sn)
  BY DEF AfterCall
<1>4. m \in Station
  BY <1>1, <1>2 DEF AfterCall, Station
<1>5. Len(m.todo) < Len(n.todo)
  BY <1>2, <1>3
<1>. QED  BY <1>1, <1>3, <1>4, <1>5 DEF Sooner, Meets, Trades

LEMMA AfterDecisionSooner ==
    ASSUME NEW n \in Station, n.todo = <<>>, NEW b, NEW m, m = AfterDecision(n, b)
    PROVE  m \in Station /\ Sooner(n, m)
<1>1. n.at \in At /\ n.rn \in Nat /\ n.sn \in Nat
  BY StationFields
<1>2. PICK d : d = Decision(n.at, b)
  OBVIOUS
<1>3. d.at \in At /\ d.todo \in Seq(Calls) /\ Later(d.at, n.at)
  BY <1>1, <1>2, DecisionLeads
<1>4. m = [at |-> d.at, todo |-> d.todo, rn |-> n.rn, sn |-> n.sn]
  BY <1>2 DEF AfterDecision
<1>. QED  BY <1>1, <1>3, <1>4 DEF Station, Sooner, Meets, Trades

LEMMA FollowsSooner ==
    ASSUME NEW n \in Station, NEW m, Follows(m, n)
    PROVE  m \in Station /\ Sooner(n, m)
<1>1. CASE n.todo # <<>>
  BY <1>1, AfterCallSooner DEF Follows
<1>2. CASE n.todo = <<>>
  <2>1. PICK b \in BOOLEAN : m = AfterDecision(n, b)
    BY <1>2 DEF Follows
  <2>. QED  BY <1>2, <2>1, AfterDecisionSooner
<1>. QED  BY <1>1, <1>2

LEMMA SoonerOrder ==
    ASSUME NEW a \in Station, NEW b \in Station, NEW c \in Station, Sooner(a, b), Sooner(b, c)
    PROVE  Sooner(a, c)
<1>1. /\ a.at \in At /\ b.at \in At /\ c.at \in At
      /\ a.rn \in Nat /\ b.rn \in Nat /\ c.rn \in Nat
      /\ a.sn \in Nat /\ b.sn \in Nat /\ c.sn \in Nat
      /\ Len(a.todo) \in Nat /\ Len(b.todo) \in Nat /\ Len(c.todo) \in Nat
  BY StationFields, LenProperties
<1>2. Later(c.at, b.at) /\ Later(b.at, a.at) => Later(c.at, a.at)
  BY <1>1, LaterOrder
<1>3. Later(c.at, a.at) \/ (c.at = a.at /\ Len(c.todo) < Len(a.todo))
  <2>1. Later(b.at, a.at) \/ (b.at = a.at /\ Len(b.todo) < Len(a.todo))
    BY DEF Sooner
  <2>2. Later(c.at, b.at) \/ (c.at = b.at /\ Len(c.todo) < Len(b.todo))
    BY DEF Sooner
  <2>3. CASE Later(b.at, a.at) /\ Later(c.at, b.at)
    BY <1>2, <2>3
  <2>4. CASE Later(b.at, a.at) /\ c.at = b.at
    BY <2>4
  <2>5. CASE b.at = a.at /\ Later(c.at, b.at)
    BY <2>5
  <2>6. CASE b.at = a.at /\ Len(b.todo) < Len(a.todo) /\ c.at = b.at /\ Len(c.todo) < Len(b.todo)
    BY <1>1, <2>6
  <2>. QED  BY <2>1, <2>2, <2>3, <2>4, <2>5, <2>6
<1>4. /\ a.rn <= b.rn /\ a.sn <= b.sn /\ b.rn <= c.rn /\ b.sn <= c.sn
      /\ (Meets(a) => a.rn < b.rn) /\ (Trades(a) => a.sn < b.sn)
  BY DEF Sooner
<1>5. /\ a.rn <= c.rn /\ a.sn <= c.sn
      /\ (Meets(a) => a.rn < c.rn) /\ (Trades(a) => a.sn < c.sn)
  BY <1>1, <1>4
<1>. QED  BY <1>3, <1>5 DEF Sooner

(* A decision away from the tests does not depend on the bit.                *)
LEMMA NoBitNeeded ==
    ASSUME NEW a \in At, a.phase \notin ReadHere, NEW b, NEW c
    PROVE  Decision(a, b) = Decision(a, c)
BY DEF At, Phases, ReadHere, Decision

LEMMA OneFollows ==
    ASSUME OneTruth, NEW n \in Station, NEW m, NEW k, Follows(m, n), Follows(k, n)
    PROVE  m = k
<1>1. CASE n.todo # <<>>
  BY <1>1 DEF Follows
<1>2. CASE n.todo = <<>>
  <2>1. PICK b \in BOOLEAN :
           /\ n.at.phase \in ReadHere => [at |-> n.at, bit |-> b] \in truth
           /\ m = AfterDecision(n, b)
    BY <1>2 DEF Follows
  <2>2. PICK c \in BOOLEAN :
           /\ n.at.phase \in ReadHere => [at |-> n.at, bit |-> c] \in truth
           /\ k = AfterDecision(n, c)
    BY <1>2 DEF Follows
  <2>3. CASE n.at.phase \in ReadHere
    <3>1. [at |-> n.at, bit |-> b].at = [at |-> n.at, bit |-> c].at
      OBVIOUS
    <3>2. [at |-> n.at, bit |-> b] = [at |-> n.at, bit |-> c]
      BY <2>1, <2>2, <2>3, <3>1 DEF OneTruth
    <3>3. b = c
      BY <3>2
    <3>. QED  BY <2>1, <2>2, <3>3
  <2>4. CASE n.at.phase \notin ReadHere
    <3>1. Decision(n.at, b) = Decision(n.at, c)
      BY <2>4, NoBitNeeded, StationFields
    <3>. QED  BY <2>1, <2>2, <3>1 DEF AfterDecision
  <2>. QED  BY <2>3, <2>4
<1>. QED  BY <1>1, <1>2

LEMMA SamePlace ==
    ASSUME NEW p, Road(p), NEW i \in 1..Len(p), NEW j \in 1..Len(p),
           p[i].at = p[j].at, Len(p[i].todo) = Len(p[j].todo)
    PROVE  i = j
<1>1. p[i] \in Station /\ p[j] \in Station /\ Len(p) \in Nat
  BY RoadStations DEF Road
<1>2. ~Later(p[i].at, p[j].at) /\ ~Later(p[j].at, p[i].at)
  BY <1>1, LaterOrder, StationFields
<1>3. Len(p[i].todo) \in Nat /\ Len(p[j].todo) \in Nat
  BY <1>1, StationFields, LenProperties
<1>4. ~Sooner(p[i], p[j]) /\ ~Sooner(p[j], p[i])
  BY <1>2, <1>3 DEF Sooner
<1>5. ~(i < j) /\ ~(j < i)
  BY <1>4 DEF Road, Ordered
<1>. QED  BY <1>1, <1>5

LEMMA SameRound ==
    ASSUME NEW p, Road(p), NEW i \in 1..Len(p), NEW j \in 1..Len(p),
           \/ Meets(p[i]) /\ Meets(p[j]) /\ p[i].rn = p[j].rn
           \/ Trades(p[i]) /\ Trades(p[j]) /\ p[i].sn = p[j].sn
    PROVE  i = j
<1>1. p[i] \in Station /\ p[j] \in Station /\ Len(p) \in Nat
  BY RoadStations DEF Road
<1>2. p[i].rn \in Nat /\ p[j].rn \in Nat /\ p[i].sn \in Nat /\ p[j].sn \in Nat
  BY <1>1, StationFields
<1>3. ~Sooner(p[i], p[j]) /\ ~Sooner(p[j], p[i])
  BY <1>2 DEF Sooner
<1>4. ~(i < j) /\ ~(j < i)
  BY <1>3 DEF Road, Ordered
<1>. QED  BY <1>1, <1>4

(* A station in an earlier solve has been passed.                            *)
LEMMA Passed ==
    ASSUME NEW p, Road(p), NEW i \in 1..Len(p), NEW j \in 1..Len(p),
           Meets(p[i]), p[i].at.solve < p[j].at.solve
    PROVE  p[i].rn < p[j].rn
<1>1. p[i] \in Station /\ p[j] \in Station /\ Len(p) \in Nat
  BY RoadStations DEF Road
<1>2. p[i].at.solve \in Nat /\ p[j].at.solve \in Nat
  BY <1>1, StationFields DEF At
<1>3. i # j
  BY <1>2
<1>4. ~(j < i)
  <2>1. CASE Sooner(p[j], p[i])
    <3>1. Later(p[i].at, p[j].at) \/ p[i].at = p[j].at
      BY <2>1 DEF Sooner
    <3>. QED  BY <1>2, <3>1 DEF Later
  <2>. QED  BY <2>1 DEF Road, Ordered
<1>5. Sooner(p[i], p[j])
  BY <1>1, <1>3, <1>4 DEF Road, Ordered
<1>. QED  BY <1>5 DEF Sooner

(* The road grows at its end only.                                           *)
LEMMA RoadGrows ==
    ASSUME NEW p, Road(p), NEW n, Follows(n, p[Len(p)])
    PROVE  /\ Road(Append(p, n)) /\ Len(Append(p, n)) = Len(p) + 1
           /\ Append(p, n)[Len(p) + 1] = n
           /\ \A i \in 1..Len(p) : Append(p, n)[i] = p[i]
<1> DEFINE L == Len(p)
           m == p[Len(p)]
           q == Append(p, n)
<1>1. p \in Seq(Station) /\ L \in Nat /\ L > 0 /\ L \in 1..L
      /\ \A i \in 1..L : p[i] \in Station
  BY RoadStations DEF Road
<1>2. m \in Station /\ n \in Station /\ Sooner(m, n) /\ Follows(n, m)
  BY <1>1, FollowsSooner
<1>3. q \in Seq(Station) /\ Len(q) = L + 1 /\ q[L + 1] = n /\ \A i \in 1..L : q[i] = p[i]
  BY <1>1, <1>2, AppendProperties
<1>. HIDE DEF q, L, m
<1>4. m = p[L] /\ L = Len(p)
  BY DEF m, L
<1>5. Linked(q)
  <2>. SUFFICES ASSUME NEW i \in 1..L PROVE Follows(q[i + 1], q[i])
    BY <1>1, <1>3 DEF Linked
  <2>1. CASE i < L
    <3>1. i \in 1..(L - 1) /\ i + 1 \in 1..L
      BY <1>1, <2>1
    <3>2. Follows(p[i + 1], p[i])
      BY <1>4, <3>1 DEF Road, Linked
    <3>. QED  BY <1>3, <3>1, <3>2
  <2>2. CASE i = L
    BY <1>2, <1>3, <1>4, <2>2
  <2>. QED  BY <1>1, <2>1, <2>2
<1>6. Ordered(q)
  <2>. SUFFICES ASSUME NEW i \in 1..(L + 1), NEW j \in 1..(L + 1), i < j
                PROVE  Sooner(q[i], q[j])
    BY <1>3 DEF Ordered
  <2>1. i \in 1..L /\ q[i] = p[i]
    BY <1>1, <1>3
  <2>2. CASE j \in 1..L
    BY <1>3, <1>4, <2>1, <2>2 DEF Road, Ordered
  <2>3. CASE j = L + 1 /\ i = L
    BY <1>2, <1>3, <1>4, <2>1, <2>3
  <2>4. CASE j = L + 1 /\ i < L
    <3>1. Sooner(p[i], m)
      BY <1>1, <1>4, <2>1, <2>4 DEF Road, Ordered
    <3>. QED  BY <1>1, <1>2, <1>3, <2>1, <2>4, <3>1, SoonerOrder
  <2>. QED  BY <1>1, <2>1, <2>2, <2>3, <2>4
<1>7. Summed(q)
  <2> DEFINE W(k) == \E j \in 1..L : Meets(p[j]) /\ p[j].at.solve = k
             Past(c, w) == /\ c.at.phase # "preflight" =>
                                (\E l \in 1..Len(c.todo) : c.todo[l] = "word") \/ w
                           /\ \A k \in 1..(c.at.solve - 1) : world.solves[k].cells => W(k)
  <2>1. \A k : W(k) => \E j \in 1..Len(q) : Meets(q[j]) /\ q[j].at.solve = k
    <3>. SUFFICES ASSUME NEW k, NEW j \in 1..L, Meets(p[j]) /\ p[j].at.solve = k
                  PROVE  \E l \in 1..Len(q) : Meets(q[l]) /\ q[l].at.solve = k
      OBVIOUS
    <3>1. j \in 1..Len(q) /\ q[j] = p[j]
      BY <1>1, <1>3
    <3>. QED  BY <3>1
  <2>2. \A i \in 1..L : Past(p[i], W(p[i].at.solve))
    BY <1>4 DEF Road, Summed
  <2>3. Past(m, W(m.at.solve))
    BY <1>1, <1>4, <2>2
  <2>4. Meets(m) => W(m.at.solve)
    BY <1>1, <1>4
  <2>5. m.at \in At /\ n.at \in At /\ m.todo \in Seq(Calls) /\ n.todo \in Seq(Calls)
    BY <1>2, StationFields
  <2>6. Past(n, W(n.at.solve))
    <3>. HIDE DEF W
    <3>1. CASE m.todo # <<>>
      <4>1. n.at = m.at /\ n.todo = Tail(m.todo)
        BY <1>2, <3>1 DEF Follows, AfterCall
      <4>2. ASSUME NEW l \in 1..Len(m.todo), m.todo[l] = "word"
            PROVE  (\E k \in 1..Len(n.todo) : n.todo[k] = "word") \/ W(n.at.solve)
        <5>1. CASE l = 1
          <6>1. Head(m.todo) = "word"
            BY <2>5, <3>1, <4>2, <5>1, HeadType
          <6>2. Meets(m)
            BY <3>1, <6>1 DEF Meets, IsExchange
          <6>. QED  BY <2>4, <4>1, <6>2
        <5>2. CASE l > 1
          <6>1. l - 1 \in 1..Len(n.todo) /\ n.todo[l - 1] = m.todo[(l - 1) + 1]
            BY <2>5, <3>1, <4>1, <5>2, HeadType
          <6>2. (l - 1) + 1 = l
            OBVIOUS
          <6>. QED  BY <4>2, <6>1, <6>2
        <5>. QED  BY <5>1, <5>2
      <4>. QED  BY <2>3, <4>1, <4>2
    <3>2. CASE m.todo = <<>>
      <4>1. PICK b \in BOOLEAN : n = AfterDecision(m, b)
        BY <1>2, <3>2 DEF Follows
      <4>2. PICK d : d = Decision(m.at, b)
        OBVIOUS
      <4>3. n.at = d.at /\ n.todo = d.todo
        BY <4>1, <4>2 DEF AfterDecision
      <4>4. /\ \/ d.at.solve = m.at.solve + 1 /\ d.at.phase = "preflight"
               \/ d.at.solve = m.at.solve /\ d.at.phase # "preflight"
            /\ m.at.phase = "preflight" =>
                 \/ d.at.solve = m.at.solve + 1 /\ ~world.solves[m.at.solve].cells
                 \/ d.at.solve = m.at.solve /\ \E j \in 1..Len(d.todo) : d.todo[j] = "word"
        BY <2>5, <4>2, DecisionLeads
      <4>5. m.at.phase # "preflight" => W(m.at.solve)
        <5>1. ~ \E l \in 1..Len(m.todo) : m.todo[l] = "word"
          BY <3>2, EmptyType
        <5>. QED  BY <2>3, <5>1
      <4>6. m.at.solve \in Nat
        BY <2>5 DEF At
      <4>7. CASE d.at.solve = m.at.solve + 1 /\ d.at.phase = "preflight"
        <5>1. ASSUME NEW k \in 1..(n.at.solve - 1), world.solves[k].cells
              PROVE  W(k)
          <6>1. CASE k = m.at.solve
            BY <4>4, <4>5, <4>6, <4>7, <5>1, <6>1
          <6>2. CASE k \in 1..(m.at.solve - 1)
            BY <2>3, <5>1, <6>2
          <6>. QED  BY <4>3, <4>6, <4>7, <6>1, <6>2
        <5>. QED  BY <4>3, <4>7, <5>1
      <4>8. CASE d.at.solve = m.at.solve /\ d.at.phase # "preflight"
        BY <2>3, <4>3, <4>4, <4>5, <4>6, <4>8
      <4>. QED  BY <4>4, <4>7, <4>8
    <3>. QED  BY <3>1, <3>2
  <2>7. ASSUME NEW i \in 1..Len(q)
        PROVE  Past(q[i], W(q[i].at.solve))
    <3>1. CASE i \in 1..L
      BY <1>3, <2>2, <3>1
    <3>2. CASE i = L + 1
      BY <1>3, <2>6, <3>2
    <3>. QED  BY <1>1, <1>3, <3>1, <3>2
  <2>. HIDE DEF W
  <2>. QED  BY <2>1, <2>7 DEF Summed
<1>8. Road(q)
  BY <1>1, <1>3, <1>5, <1>6, <1>7 DEF Road
<1>. QED  BY <1>3, <1>8 DEF q, L

(* The step from a station leads to the next one, or to a new end.           *)
LEMMA MoveOn ==
    ASSUME OneTruth, NEW p, Road(p), NEW i \in 1..Len(p), NEW n, Follows(n, p[i])
    PROVE  \E q : /\ Road(q) /\ Len(p) <= Len(q)
                  /\ \A l \in 1..Len(p) : q[l] = p[l]
                  /\ \E j \in 1..Len(q) : q[j] = n
                  /\ \A l \in 1..Len(q) : l <= Len(p) \/ (q[l] = n /\ i = Len(p))
<1>1. Len(p) \in Nat /\ p[i] \in Station
  BY RoadStations DEF Road
<1>2. CASE i < Len(p)
  <2>1. i \in 1..(Len(p) - 1) /\ i + 1 \in 1..Len(p)
    BY <1>1, <1>2
  <2>2. Follows(p[i + 1], p[i])
    BY <2>1 DEF Road, Linked
  <2>3. p[i + 1] = n
    BY <1>1, <2>2, OneFollows
  <2>. QED  BY <1>1, <2>1, <2>3
<1>3. CASE i = Len(p)
  <2> DEFINE q == Append(p, n)
  <2>1. /\ Road(q) /\ Len(q) = Len(p) + 1 /\ q[Len(p) + 1] = n
        /\ \A l \in 1..Len(p) : q[l] = p[l]
    BY <1>3, RoadGrows
  <2>. HIDE DEF q
  <2>2. Len(p) + 1 \in 1..Len(q) /\ Len(p) <= Len(q)
    BY <1>1, <2>1
  <2>3. \A l \in 1..Len(q) : l <= Len(p) \/ (q[l] = n /\ i = Len(p))
    BY <1>1, <1>3, <2>1
  <2>. QED  BY <2>1, <2>2, <2>3
<1>4. i < Len(p) \/ i = Len(p)
  <2>1. ASSUME NEW L \in Nat, i \in 1..L
        PROVE  i < L \/ i = L
    BY <2>1
  <2>. QED  BY <1>1, <2>1
<1>. QED  BY <1>2, <1>3, <1>4

(* More truth leaves the road as it is.                                      *)
LEMMA RoadStays ==
    ASSUME NEW p, Road(p), world' = world, truth \subseteq truth'
    PROVE  Road(p)'
<1>1. Linked(p)'
  <2>. SUFFICES ASSUME NEW i \in 1..(Len(p) - 1) PROVE Follows(p[i + 1], p[i])'
    BY DEF Linked
  <2>1. Follows(p[i + 1], p[i])
    BY DEF Road, Linked
  <2>2. \A a, b : Decision(a, b)' = Decision(a, b)
    BY DEF Decision
  <2>3. \A a, b : AfterDecision(a, b)' = AfterDecision(a, b)
    BY <2>2 DEF AfterDecision
  <2>. QED  BY <2>1, <2>3 DEF Follows
<1>2. Ordered(p)'
  BY DEF Road, Ordered
<1>3. Summed(p)'
  BY DEF Road, Summed
<1>. QED  BY <1>1, <1>2, <1>3 DEF Road

-----------------------------------------------------------------------------
(* The ranks on the road: each stands at a station, what it entered it       *)
(* entered at a station, and a round that some station lies behind is one    *)
(* all of them entered, with one header and, in a vote, with one bit.        *)

Spot(r) == IF state[r] = "done" THEN Start(Len(world.solves) + 1) ELSE at[r]

Stands(r, n) ==
    /\ n.at = Spot(r) /\ n.todo = todo[r]
    /\ state[r] = "running" =>
         /\ n.rn = Round(r) - (IF inside[r] /\ Meets(n) THEN 1 ELSE 0)
         /\ n.sn = Swap(r) - (IF inside[r] /\ Trades(n) THEN 1 ELSE 0)

Agree(k) ==
    \A r, q \in Ranks :
      /\ k <= Round(r)
      /\ rounds[r][k].header = "vote" /\ rounds[q][k].header = "vote" =>
           rounds[r][k].bit = rounds[q][k].bit

Met(r, k, n) ==
    /\ Meets(n) /\ n.rn = k - 1
    /\ rounds[r][k].place = [at |-> n.at, left |-> Len(n.todo)]

Traded(r, k, n) ==
    /\ Trades(n) /\ n.sn = k - 1
    /\ swaps[r][k] = [at |-> n.at, left |-> Len(n.todo)]

OnTheRoad(p) ==
    /\ \A r \in Ranks : \E i \in 1..Len(p) : Stands(r, p[i])
    /\ \A r \in Ranks : \A k \in 1..Round(r) : \E i \in 1..Len(p) : Met(r, k, p[i])
    /\ \A r \in Ranks : \A k \in 1..Swap(r) : \E i \in 1..Len(p) : Traded(r, k, p[i])

AgreedBehind(p) == \A i \in 1..Len(p) : \A k \in 1..p[i].rn : Agree(k)

RoadInv == \E p : Road(p) /\ OnTheRoad(p) /\ AgreedBehind(p)

(* Nobody goes on with another bit than the others.                          *)
GoesOnRight ==
    \A r \in Ranks :
      state[r] = "running" /\ at[r].phase \in ReadHere /\ todo[r] = <<>> =>
        \E x \in truth : x.at = at[r] /\ x.bit = bit[r]

(* Where a solve votes, a rank that read the bit first votes for it.         *)
AtVote(y, x) ==
    /\ state[y] = "running" /\ ~inside[y]
    /\ at[y] = x.at /\ todo[y] = <<"vote">> /\ bit[y] = x.bit

Voted(y, x) ==
    \E k \in 1..Round(y) :
      rounds[y][k] = [place |-> [at |-> x.at, left |-> 1], header |-> "vote", bit |-> x.bit]

ReadersVote ==
    \A x \in truth :
      world.solves[x.at.solve].vote => \E y \in Ranks : AtVote(y, x) \/ Voted(y, x)

(* The inductive invariant.                                                 *)
RunInv == TypeInv /\ RankInv /\ OneTruth /\ ReadersVote /\ (Trusted => RoadInv /\ GoesOnRight)

LEMMA OneTruthNext ==
    ASSUME TypeInv, OneTruth, NEW r \in Ranks, Step(r)
    PROVE  OneTruth'
<1>1. CASE Reading(r)
  <2>1. PICK d : d = Decision(at[r], bit[r])
    OBVIOUS
  <2>2. PICK b \in BOOLEAN :
           \/ /\ \A x \in truth : x.at # d.at
              /\ truth' = truth \cup {[at |-> d.at, bit |-> b]}
           \/ truth' = truth
    BY <1>1, <2>1, ReadingEffect
  <2>. QED  BY <2>2 DEF OneTruth
<1>2. CASE ~Reading(r)
  <2>1. truth' = truth
    BY <1>2 DEF Step, Turn, Enter, Leave, GiveUp
  <2>. QED  BY <2>1 DEF OneTruth
<1>. QED  BY <1>1, <1>2

(* What a rank entered stays where it is.                                    *)
LEMMA EntriesStay ==
    ASSUME TypeInv, NEW r \in Ranks, Step(r), NEW q \in Ranks
    PROVE  /\ Round(q) \in Nat /\ Round(q) <= Round(q)'
           /\ \A k \in 1..Round(q) : k \in 1..Round(q)' /\ rounds'[q][k] = rounds[q][k]
           /\ Swap(q) \in Nat /\ Swap(q) <= Swap(q)'
           /\ \A k \in 1..Swap(q) : k \in 1..Swap(q)' /\ swaps'[q][k] = swaps[q][k]
<1>1. rounds[q] \in Seq(Entries) /\ swaps[q] \in Seq(Places) /\ Round(q) \in Nat /\ Swap(q) \in Nat
  BY LenProperties DEF TypeInv, Round, Swap
<1>2. CASE rounds'[q] = rounds[q] /\ swaps'[q] = swaps[q]
  BY <1>1, <1>2 DEF Round, Swap
<1>3. CASE q = r /\ Enter(r)
  <2>1. Place(r) \in Places
    BY LenProperties DEF TypeInv, Place, Places
  <2>2. CASE IsExchange(Head(todo[r]))
    <3>1. swaps'[q] = Append(swaps[q], Place(r)) /\ rounds' = rounds
      BY <1>3, <2>2, EnterEffect
    <3>2. Swap(q)' = Swap(q) + 1 /\ \A k \in 1..Swap(q) : swaps'[q][k] = swaps[q][k]
      BY <1>1, <2>1, <3>1, AppendProperties DEF Swap
    <3>3. Round(q)' = Round(q) /\ rounds'[q] = rounds[q]
      BY <3>1 DEF Round
    <3>. QED  BY <1>1, <3>2, <3>3
  <2>3. CASE ~IsExchange(Head(todo[r]))
    <3> DEFINE e == [place |-> Place(r), header |-> Head(todo[r]), bit |-> bit[r]]
    <3>1. rounds'[q] = Append(rounds[q], e) /\ swaps' = swaps
      BY <1>3, <2>3, EnterEffect
    <3>2. e \in Entries
      <4>1. Head(todo[r]) \in Calls
        BY <1>3, HeadType, EnterEffect DEF TypeInv
      <4>. QED  BY <2>1, <4>1 DEF TypeInv, Entries
    <3>3. Round(q)' = Round(q) + 1 /\ \A k \in 1..Round(q) : rounds'[q][k] = rounds[q][k]
      <4>. HIDE DEF e
      <4>. QED  BY <1>1, <3>1, <3>2, AppendProperties DEF Round
    <3>4. Swap(q)' = Swap(q) /\ swaps'[q] = swaps[q]
      BY <3>1 DEF Swap
    <3>. QED  BY <1>1, <3>3, <3>4
  <2>. QED  BY <2>2, <2>3
<1>4. CASE q # r
  BY <1>2, <1>4, Others
<1>5. CASE q = r /\ ~Enter(r)
  <2>1. rounds' = rounds /\ swaps' = swaps
    BY <1>5 DEF Step, Turn, Reading, Leave, GiveUp
  <2>. QED  BY <1>2, <2>1
<1>. QED  BY <1>3, <1>4, <1>5

LEMMA ReadersNext ==
    ASSUME TypeInv, ReadersVote, NEW r \in Ranks, Step(r)
    PROVE  ReadersVote'
<1>1. world' = world
  BY Growth
<1>2. ASSUME NEW x \in truth, NEW y \in Ranks, Voted(y, x)
      PROVE  Voted(y, x)'
  <2>1. PICK k \in 1..Round(y) :
           rounds[y][k] = [place |-> [at |-> x.at, left |-> 1], header |-> "vote", bit |-> x.bit]
    BY <1>2 DEF Voted
  <2>2. k \in 1..Round(y)' /\ rounds'[y][k] = rounds[y][k]
    BY EntriesStay
  <2>. QED  BY <2>1, <2>2 DEF Voted
<1>3. ASSUME NEW x \in truth, NEW y \in Ranks, AtVote(y, x)
      PROVE  AtVote(y, x)' \/ Voted(y, x)'
  <2>1. CASE y # r
    BY <1>3, <2>1, Others DEF AtVote
  <2>2. CASE y = r
    <3>1. state[r] = "running" /\ ~inside[r] /\ at[r] = x.at /\ todo[r] = <<"vote">>
          /\ bit[r] = x.bit
      BY <1>3, <2>2 DEF AtVote
    <3>2. todo[r] # <<>> /\ Head(todo[r]) = "vote" /\ Len(todo[r]) = 1
      BY <3>1
    <3>3. Enter(r)
      BY <3>1, <3>2 DEF Step, Turn, Reading, Decides, Leave, GiveUp, Inside
    <3> DEFINE e == [place |-> Place(r), header |-> Head(todo[r]), bit |-> bit[r]]
    <3>4. rounds'[r] = Append(rounds[r], e)
      BY <3>2, <3>3, EnterEffect DEF IsExchange
    <3>5. e \in Entries /\ e = [place |-> [at |-> x.at, left |-> 1], header |-> "vote",
                                bit |-> x.bit]
      <4>1. Place(r) = [at |-> x.at, left |-> 1]
        BY <3>1, <3>2 DEF Place
      <4>2. "vote" \in Calls /\ x.at \in At /\ bit[r] \in BOOLEAN
        BY DEF TypeInv, Calls
      <4>. QED  BY <3>1, <3>2, <4>1, <4>2 DEF Entries, Places
    <3>. HIDE DEF e
    <3>6. rounds[r] \in Seq(Entries) /\ Len(rounds[r]) \in Nat
      BY LenProperties DEF TypeInv
    <3>7. Round(r)' = Len(rounds[r]) + 1 /\ rounds'[r][Len(rounds[r]) + 1] = e
      BY <3>4, <3>5, <3>6, AppendProperties DEF Round
    <3>8. Len(rounds[r]) + 1 \in 1..Round(r)'
      BY <3>6, <3>7
    <3>. QED  BY <2>2, <3>5, <3>7, <3>8 DEF Voted
  <2>. QED  BY <2>1, <2>2
<1>4. ASSUME NEW x \in truth, world.solves[x.at.solve].vote
      PROVE  \E y \in Ranks : AtVote(y, x)' \/ Voted(y, x)'
  BY <1>2, <1>3, <1>4 DEF ReadersVote
<1>5. CASE ~Reading(r)
  <2>1. truth' = truth
    BY <1>5 DEF Step, Turn, Enter, Leave, GiveUp
  <2>. QED  BY <1>1, <1>4, <2>1 DEF ReadersVote
<1>6. CASE Reading(r)
  <2>1. PICK d : d = Decision(at[r], bit[r])
    OBVIOUS
  <2>2. PICK b \in BOOLEAN :
           /\ bit'[r] = b
           /\ \/ truth' = truth \cup {[at |-> d.at, bit |-> b]}
              \/ truth' = truth
    BY <1>6, <2>1, ReadingEffect
  <2>3. /\ state'[r] = "running" /\ ~inside[r] /\ inside' = inside /\ at'[r] = d.at
        /\ todo'[r] = Vote(Solve(r)) /\ d.at.solve = at[r].solve
    BY <1>6, <2>1, ReadingEffect
  <2>4. ASSUME NEW x, x = [at |-> d.at, bit |-> b], world.solves[x.at.solve].vote
        PROVE  AtVote(r, x)'
    <3>1. x.at = d.at /\ x.bit = b
      BY <2>4
    <3>2. todo'[r] = <<"vote">>
      BY <2>3, <2>4, <3>1, VoteType DEF Solve
    <3>. QED  BY <2>2, <2>3, <3>1, <3>2 DEF AtVote
  <2>. QED  BY <1>1, <1>4, <2>2, <2>4 DEF ReadersVote
<1>. QED  BY <1>5, <1>6

LEMMA TrustedBefore ==
    ASSUME TypeInv, NEW r \in Ranks, Step(r), Trusted'
    PROVE  Trusted
BY Growth DEF Trusted

LEMMA AgreeStays ==
    ASSUME TypeInv, NEW r \in Ranks, Step(r), NEW k \in Nat \ {0}, Agree(k)
    PROVE  Agree(k)'
<1>. SUFFICES ASSUME NEW x \in Ranks, NEW y \in Ranks
              PROVE  /\ k <= Round(x)'
                     /\ rounds'[x][k].header = "vote" /\ rounds'[y][k].header = "vote" =>
                          rounds'[x][k].bit = rounds'[y][k].bit
  BY DEF Agree
<1>1. k <= Round(x) /\ k <= Round(y) /\ Round(x) \in Nat /\ Round(y) \in Nat
  BY EntriesStay DEF Agree
<1>2. k \in 1..Round(x) /\ k \in 1..Round(y)
  BY <1>1
<1>3. Round(x) <= Round(x)' /\ rounds'[x][k] = rounds[x][k] /\ rounds'[y][k] = rounds[y][k]
      /\ k \in 1..Round(x)'
  BY <1>2, EntriesStay
<1>. QED  BY <1>3 DEF Agree

LEMMA BehindStays ==
    ASSUME TypeInv, NEW r \in Ranks, Step(r), NEW p, Road(p), AgreedBehind(p)
    PROVE  AgreedBehind(p)'
<1>. SUFFICES ASSUME NEW i \in 1..Len(p), NEW k \in 1..p[i].rn PROVE Agree(k)'
  BY DEF AgreedBehind
<1>1. p[i].rn \in Nat
  BY RoadStations, StationFields DEF Road
<1>2. k \in Nat \ {0}
  BY <1>1
<1>. QED  BY <1>2, AgreeStays DEF AgreedBehind

LEMMA StandsOthers ==
    ASSUME TypeInv, NEW r \in Ranks, Step(r), NEW q \in Ranks, q # r, NEW n, Stands(q, n)
    PROVE  Stands(q, n)'
<1>1. /\ at'[q] = at[q] /\ todo'[q] = todo[q] /\ inside'[q] = inside[q]
      /\ state'[q] = state[q] /\ rounds'[q] = rounds[q]
      /\ swaps'[q] = swaps[q] /\ world' = world
  BY Others
<1>. QED  BY <1>1 DEF Stands, Spot, Round, Swap, Meets, Trades

LEMMA EntriesKept ==
    ASSUME TypeInv, NEW r \in Ranks, Step(r), NEW x \in Ranks, NEW n
    PROVE  /\ \A k \in 1..Round(x) : Met(x, k, n) => Met(x, k, n)'
           /\ \A k \in 1..Swap(x) : Traded(x, k, n) => Traded(x, k, n)'
BY EntriesStay DEF Met, Traded, Meets, Trades

(* A rank that moves on without entering a call takes its place on the road, *)
(* which its step may have made longer.                                      *)
LEMMA RoadMoved ==
    ASSUME TypeInv, NEW r \in Ranks, Step(r), rounds' = rounds, swaps' = swaps,
           NEW p, Road(p), OnTheRoad(p), AgreedBehind(p),
           NEW q, Road(q), Len(p) <= Len(q), \A l \in 1..Len(p) : q[l] = p[l],
           NEW j \in 1..Len(q), Stands(r, q[j])',
           \A l \in 1..Len(q) : l <= Len(p) \/ \A k \in 1..q[l].rn : Agree(k)
    PROVE  RoadInv'
<1>1. Len(p) \in Nat /\ Len(q) \in Nat
  BY RoadStations DEF Road
<1>2. \A l \in 1..Len(p) : l \in 1..Len(q)
  BY <1>1
<1>3. Road(q)'
  BY Growth, RoadStays
<1>4. AgreedBehind(q)
  <2>. SUFFICES ASSUME NEW l \in 1..Len(q), NEW k \in 1..q[l].rn PROVE Agree(k)
    BY DEF AgreedBehind
  <2>1. CASE l <= Len(p)
    <3>1. l \in 1..Len(p)
      BY <1>1, <2>1
    <3>. QED  BY <3>1 DEF AgreedBehind
  <2>. QED  BY <2>1
<1>5. AgreedBehind(q)'
  BY <1>4, BehindStays
<1>6. ASSUME NEW x \in Ranks PROVE \E i \in 1..Len(q) : Stands(x, q[i])'
  <2>1. CASE x = r
    BY <2>1
  <2>2. CASE x # r
    <3>1. PICK i \in 1..Len(p) : Stands(x, p[i])
      BY DEF OnTheRoad
    <3>2. Stands(x, q[i]) /\ i \in 1..Len(q)
      BY <1>2, <3>1
    <3>. QED  BY <2>2, <3>2, StandsOthers
  <2>. QED  BY <2>1, <2>2
<1>7. ASSUME NEW x \in Ranks, NEW k \in 1..Round(x)'
      PROVE  \E i \in 1..Len(q) : Met(x, k, q[i])'
  <2>1. k \in 1..Round(x)
    BY DEF Round
  <2>2. PICK i \in 1..Len(p) : Met(x, k, p[i])
    BY <2>1 DEF OnTheRoad
  <2>3. Met(x, k, q[i]) /\ i \in 1..Len(q)
    BY <1>2, <2>2
  <2>. QED  BY <2>1, <2>3, EntriesKept
<1>8. ASSUME NEW x \in Ranks, NEW k \in 1..Swap(x)'
      PROVE  \E i \in 1..Len(q) : Traded(x, k, q[i])'
  <2>1. k \in 1..Swap(x)
    BY DEF Swap
  <2>2. PICK i \in 1..Len(p) : Traded(x, k, p[i])
    BY <2>1 DEF OnTheRoad
  <2>3. Traded(x, k, q[i]) /\ i \in 1..Len(q)
    BY <1>2, <2>2
  <2>. QED  BY <2>1, <2>3, EntriesKept
<1>9. OnTheRoad(q)'
  BY <1>6, <1>7, <1>8 DEF OnTheRoad
<1>. QED  BY <1>3, <1>5, <1>9 DEF RoadInv

LEMMA StandsRunning ==
    ASSUME TypeInv, NEW r \in Ranks, state[r] = "running", NEW n, Stands(r, n)
    PROVE  /\ n.at = at[r] /\ n.todo = todo[r]
           /\ n.rn = Round(r) - (IF inside[r] /\ Meets(n) THEN 1 ELSE 0)
           /\ n.sn = Swap(r) - (IF inside[r] /\ Trades(n) THEN 1 ELSE 0)
           /\ Round(r) \in Nat /\ Swap(r) \in Nat
BY LenProperties DEF Stands, Spot, TypeInv, Round, Swap

LEMMA RoadEnter ==
    ASSUME TypeInv, NEW r \in Ranks, Enter(r),
           NEW p, Road(p), OnTheRoad(p), AgreedBehind(p)
    PROVE  RoadInv'
<1>1. /\ state[r] = "running" /\ ~inside[r] /\ todo[r] # <<>> /\ inside'[r] = TRUE
      /\ UNCHANGED <<world, at, todo, bit, state, truth, solved, errs>>
      /\ IF IsExchange(Head(todo[r]))
           THEN swaps'[r] = Append(swaps[r], Place(r)) /\ rounds' = rounds
           ELSE /\ rounds'[r] = Append(rounds[r],
                     [place |-> Place(r), header |-> Head(todo[r]), bit |-> bit[r]])
                /\ swaps' = swaps
  BY EnterEffect
<1>2. Step(r)
  BY DEF Step
<1>3. Road(p)' /\ AgreedBehind(p)'
  BY <1>2, Growth, RoadStays, BehindStays
<1>4. PICK i \in 1..Len(p) : Stands(r, p[i])
  BY DEF OnTheRoad
<1>5. /\ p[i].at = at[r] /\ p[i].todo = todo[r]
      /\ p[i].rn = Round(r) /\ p[i].sn = Swap(r) /\ Round(r) \in Nat /\ Swap(r) \in Nat
  <2>1. p[i].rn = Round(r) - 0 /\ p[i].sn = Swap(r) - 0
    BY <1>1, <1>4, StandsRunning
  <2>. QED  BY <1>1, <1>4, <2>1, StandsRunning
<1>6. Place(r) = [at |-> p[i].at, left |-> Len(p[i].todo)] /\ Place(r) \in Places
  BY <1>5, LenProperties DEF Place, Places, TypeInv
<1>7. CASE IsExchange(Head(todo[r]))
  <2>1. Round(r)' = Round(r) /\ Swap(r)' = Swap(r) + 1 /\ swaps'[r][Swap(r) + 1] = Place(r)
    <3>1. swaps[r] \in Seq(Places)
      BY DEF TypeInv
    <3>. QED  BY <1>1, <1>6, <1>7, <3>1, AppendProperties DEF Round, Swap
  <2>2. Trades(p[i]) /\ ~Meets(p[i])
    BY <1>1, <1>5, <1>7 DEF Trades, Meets
  <2>3. Stands(r, p[i])'
    <3>1. Swap(r) = (Swap(r) + 1) - 1 /\ Round(r) = Round(r) - 0
      BY <1>5
    <3>. QED  BY <1>1, <1>5, <2>1, <2>2, <3>1 DEF Stands, Spot, Trades, Meets
  <2>0. PICK c : c = Swap(r) + 1
    OBVIOUS
  <2>4. Traded(r, c, p[i])'
    <3>1. p[i].sn = c - 1
      BY <1>5, <2>0
    <3>. QED  BY <1>6, <2>0, <2>1, <2>2, <3>1 DEF Traded, Trades
  <2>5. OnTheRoad(p)'
    <3>1. ASSUME NEW x \in Ranks PROVE \E l \in 1..Len(p) : Stands(x, p[l])'
      BY <1>2, <2>3, StandsOthers DEF OnTheRoad
    <3>2. ASSUME NEW x \in Ranks, NEW k \in 1..Round(x)'
          PROVE  \E l \in 1..Len(p) : Met(x, k, p[l])'
      <4>1. k \in 1..Round(x)
        BY <1>1, <1>7 DEF Round
      <4>. QED  BY <1>2, <4>1, EntriesKept DEF OnTheRoad
    <3>3. ASSUME NEW x \in Ranks, NEW k \in 1..Swap(x)'
          PROVE  \E l \in 1..Len(p) : Traded(x, k, p[l])'
      <4>1. CASE k \in 1..Swap(x)
        BY <1>2, <4>1, EntriesKept DEF OnTheRoad
      <4>2. CASE x = r /\ k = Swap(r) + 1
        BY <2>0, <2>4, <4>2
      <4>3. CASE x # r
        <5>1. swaps'[x] = swaps[x]
          BY <1>2, <4>3, Others
        <5>2. k \in 1..Swap(x)
          BY <5>1 DEF Swap
        <5>. QED  BY <4>1, <5>2
      <4>4. x = r => k \in 1..Swap(x) \/ k = Swap(r) + 1
        BY <1>5, <2>1
      <4>. QED  BY <4>1, <4>2, <4>3, <4>4
    <3>. QED  BY <3>1, <3>2, <3>3 DEF OnTheRoad
  <2>. QED  BY <1>3, <2>5 DEF RoadInv
<1>8. CASE ~IsExchange(Head(todo[r]))
  <2> DEFINE e == [place |-> Place(r), header |-> Head(todo[r]), bit |-> bit[r]]
  <2>1. Swap(r)' = Swap(r) /\ Round(r)' = Round(r) + 1 /\ rounds'[r][Round(r) + 1] = e
    <3>1. rounds[r] \in Seq(Entries) /\ e \in Entries
      <4>1. Head(todo[r]) \in Calls
        BY <1>1, HeadType DEF TypeInv
      <4>. QED  BY <1>6, <4>1 DEF TypeInv, Entries
    <3>2. rounds'[r] = Append(rounds[r], e) /\ swaps' = swaps
      BY <1>1, <1>8
    <3>. HIDE DEF e
    <3>. QED  BY <3>1, <3>2, AppendProperties DEF Round, Swap
  <2>2. Meets(p[i]) /\ ~Trades(p[i])
    BY <1>1, <1>5, <1>8 DEF Trades, Meets
  <2>3. Stands(r, p[i])'
    <3>1. Round(r) = (Round(r) + 1) - 1 /\ Swap(r) = Swap(r) - 0
      BY <1>5
    <3>. QED  BY <1>1, <1>5, <2>1, <2>2, <3>1 DEF Stands, Spot, Trades, Meets
  <2>0. PICK c : c = Round(r) + 1
    OBVIOUS
  <2>4. Met(r, c, p[i])'
    <3>1. p[i].rn = c - 1
      BY <1>5, <2>0
    <3>. QED  BY <1>6, <2>0, <2>1, <2>2, <3>1 DEF Met, Meets
  <2>5. OnTheRoad(p)'
    <3>1. ASSUME NEW x \in Ranks PROVE \E l \in 1..Len(p) : Stands(x, p[l])'
      BY <1>2, <2>3, StandsOthers DEF OnTheRoad
    <3>2. ASSUME NEW x \in Ranks, NEW k \in 1..Swap(x)'
          PROVE  \E l \in 1..Len(p) : Traded(x, k, p[l])'
      <4>1. k \in 1..Swap(x)
        BY <1>1, <1>8 DEF Swap
      <4>. QED  BY <1>2, <4>1, EntriesKept DEF OnTheRoad
    <3>3. ASSUME NEW x \in Ranks, NEW k \in 1..Round(x)'
          PROVE  \E l \in 1..Len(p) : Met(x, k, p[l])'
      <4>1. CASE k \in 1..Round(x)
        BY <1>2, <4>1, EntriesKept DEF OnTheRoad
      <4>2. CASE x = r /\ k = Round(r) + 1
        BY <2>0, <2>4, <4>2
      <4>3. CASE x # r
        <5>1. rounds'[x] = rounds[x]
          BY <1>2, <4>3, Others
        <5>2. k \in 1..Round(x)
          BY <5>1 DEF Round
        <5>. QED  BY <4>1, <5>2
      <4>4. x = r => k \in 1..Round(x) \/ k = Round(r) + 1
        BY <1>5, <2>1
      <4>. QED  BY <4>1, <4>2, <4>3, <4>4
    <3>. QED  BY <3>1, <3>2, <3>3 DEF OnTheRoad
  <2>. QED  BY <1>3, <2>5 DEF RoadInv
<1>. QED  BY <1>7, <1>8

LEMMA RoadTurn ==
    ASSUME TypeInv, RankInv, OneTruth, GoesOnRight, NEW r \in Ranks, Turn(r) \/ Reading(r),
           NEW p, Road(p), OnTheRoad(p), AgreedBehind(p)
    PROVE  RoadInv'
<1>0. Step(r) /\ rounds' = rounds /\ swaps' = swaps /\ inside' = inside /\ world' = world
  BY DEF Step, Turn, Reading
<1>1. PICK d : d = Decision(at[r], bit[r])
  OBVIOUS
<1>2. PICK i \in 1..Len(p) : Stands(r, p[i])
  BY DEF OnTheRoad
<1>3. state[r] = "running" /\ ~inside[r] /\ todo[r] = <<>>
  BY <1>1, TurnEffect, ReadingEffect
<1>4. /\ p[i].at = at[r] /\ p[i].todo = <<>> /\ p[i].rn = Round(r) - 0 /\ p[i].sn = Swap(r) - 0
      /\ Round(r) \in Nat /\ Swap(r) \in Nat
  BY <1>2, <1>3, StandsRunning
<1>5. PICK n : n = AfterDecision(p[i], bit[r])
  OBVIOUS
<1>6. n.at = d.at /\ n.todo = d.todo /\ n.rn = Round(r) /\ n.sn = Swap(r)
  <2>1. n = [at |-> d.at, todo |-> d.todo, rn |-> p[i].rn, sn |-> p[i].sn]
    BY <1>1, <1>4, <1>5 DEF AfterDecision
  <2>2. p[i].rn = Round(r) /\ p[i].sn = Swap(r)
    BY <1>4
  <2>. QED  BY <2>1, <2>2
<1>7. Len(p) \in Nat /\ \A l \in 1..Len(p) : p[l] \in Station
  BY RoadStations DEF Road
<1>8. \A l \in 1..Len(p) : l <= Len(p)
  BY <1>7
<1>9. CASE state'[r] = "refused" /\ at'[r] = at[r] /\ todo'[r] = <<>>
  <2>1. Stands(r, p[i])'
    BY <1>4, <1>9 DEF Stands, Spot
  <2>. QED  BY <1>0, <1>7, <1>8, <2>1, RoadMoved
<1>10. CASE Stands(r, n)'
  <2>1. Follows(n, p[i])
    <3>1. bit[r] \in BOOLEAN
      BY DEF TypeInv
    <3>2. ASSUME at[r].phase \in ReadHere
          PROVE  [at |-> at[r], bit |-> bit[r]] \in truth
      <4>1. PICK x \in truth : x.at = at[r] /\ x.bit = bit[r]
        BY <1>3, <3>2 DEF GoesOnRight
      <4>2. x = [at |-> x.at, bit |-> x.bit]
        BY DEF TypeInv
      <4>. QED  BY <4>1, <4>2
    <3>. QED  BY <1>4, <1>5, <3>1, <3>2 DEF Follows
  <2>2. PICK q : /\ Road(q) /\ Len(p) <= Len(q)
                 /\ \A l \in 1..Len(p) : q[l] = p[l]
                 /\ \E j \in 1..Len(q) : q[j] = n
                 /\ \A l \in 1..Len(q) : l <= Len(p) \/ (q[l] = n /\ i = Len(p))
    BY <2>1, MoveOn
  <2>3. PICK j \in 1..Len(q) : q[j] = n
    BY <2>2
  <2>4. \A k \in 1..n.rn : Agree(k)
    <3>1. n.rn = p[i].rn
      BY <1>4, <1>6
    <3>. QED  BY <3>1 DEF AgreedBehind
  <2>5. Stands(r, q[j])'
    BY <1>10, <2>3
  <2>6. \A l \in 1..Len(q) : l <= Len(p) \/ \A k \in 1..q[l].rn : Agree(k)
    BY <2>2, <2>4
  <2>. QED  BY <1>0, <2>2, <2>5, <2>6, RoadMoved
<1>11. CASE Turn(r)
  <2>1. CASE /\ at[r].solve = Len(world.solves) /\ state'[r] = "done" /\ todo'[r] = <<>>
             /\ d = On(at[r].solve + 1)
    <3>1. d.at = Start(Len(world.solves) + 1) /\ d.todo = <<>>
      BY <2>1 DEF On
    <3>2. Stands(r, n)'
      BY <1>0, <1>6, <2>1, <3>1 DEF Stands, Spot
    <3>. QED  BY <1>10, <3>2
  <2>2. CASE state'[r] = "running" /\ at'[r] = d.at /\ todo'[r] = d.todo
    <3>1. Round(r)' = Round(r) /\ Swap(r)' = Swap(r) /\ ~inside'[r]
      BY <1>0, <1>3 DEF Round, Swap
    <3>2. Round(r) = Round(r) - 0 /\ Swap(r) = Swap(r) - 0
      BY <1>4
    <3>3. Stands(r, n)'
      BY <1>6, <2>2, <3>1, <3>2 DEF Stands, Spot
    <3>. QED  BY <1>10, <3>3
  <2>3. \/ state'[r] = "refused" /\ at'[r] = at[r] /\ todo'[r] = <<>>
        \/ /\ at[r].solve = Len(world.solves) /\ state'[r] = "done" /\ todo'[r] = <<>>
           /\ d = On(at[r].solve + 1)
        \/ state'[r] = "running" /\ at'[r] = d.at /\ todo'[r] = d.todo
    BY <1>1, <1>11, TurnEffect
  <2>. QED  BY <1>9, <2>1, <2>2, <2>3
<1>12. CASE Reading(r)
  <2>1. state'[r] = "running" /\ at'[r] = d.at /\ todo'[r] = d.todo
    BY <1>1, <1>12, ReadingEffect
  <2>2. Round(r)' = Round(r) /\ Swap(r)' = Swap(r) /\ ~inside'[r]
    BY <1>0, <1>3 DEF Round, Swap
  <2>3. Round(r) = Round(r) - 0 /\ Swap(r) = Swap(r) - 0
    BY <1>4
  <2>4. Stands(r, n)'
    BY <1>6, <2>1, <2>2, <2>3 DEF Stands, Spot
  <2>. QED  BY <1>10, <2>4
<1>. QED  BY <1>11, <1>12

LEMMA RoadLeave ==
    ASSUME TypeInv, RankInv, OneTruth, NEW r \in Ranks, Leave(r) \/ GiveUp(r),
           NEW p, Road(p), OnTheRoad(p), AgreedBehind(p)
    PROVE  RoadInv'
<1>0. Step(r) /\ rounds' = rounds /\ swaps' = swaps /\ world' = world /\ Inside(r)
  BY DEF Step, Leave, GiveUp
<1>1. state[r] = "running" /\ inside[r] /\ todo[r] # <<>>
  BY <1>0 DEF Inside, RankInv, Waiting
<1>2. PICK i \in 1..Len(p) : Stands(r, p[i])
  BY DEF OnTheRoad
<1>3. /\ p[i].at = at[r] /\ p[i].todo = todo[r]
      /\ p[i].rn = Round(r) - (IF Meets(p[i]) THEN 1 ELSE 0)
      /\ p[i].sn = Swap(r) - (IF Trades(p[i]) THEN 1 ELSE 0)
      /\ Round(r) \in Nat /\ Swap(r) \in Nat
  BY <1>1, <1>2, StandsRunning
<1>4. Len(p) \in Nat /\ \A l \in 1..Len(p) : p[l] \in Station
  BY RoadStations DEF Road
<1>5. \A l \in 1..Len(p) : l <= Len(p)
  BY <1>4
<1>6. CASE state'[r] \in {"refused", "failed"} /\ at'[r] = at[r] /\ todo'[r] = todo[r]
  <2>1. Stands(r, p[i])'
    BY <1>3, <1>6 DEF Stands, Spot
  <2>. QED  BY <1>0, <1>4, <1>5, <2>1, RoadMoved
<1>7. CASE Leave(r) /\ state'[r] = "running" /\ ~Split(r) /\ todo'[r] = Tail(todo[r])
  <2>1. at'[r] = at[r] /\ inside'[r] = FALSE /\ Missing(r) = {} /\ Disagreeing(r) = {}
    BY <1>7, LeaveEffect
  <2>2. PICK n : n = AfterCall(p[i])
    OBVIOUS
  <2>3. /\ n.at = at[r] /\ n.todo = Tail(todo[r])
        /\ n.rn = Round(r) /\ n.sn = Swap(r)
    <3>1. /\ n.at = at[r] /\ n.todo = Tail(todo[r])
          /\ n.rn = (IF IsExchange(Head(todo[r])) THEN p[i].rn ELSE p[i].rn + 1)
          /\ n.sn = (IF IsExchange(Head(todo[r])) THEN p[i].sn + 1 ELSE p[i].sn)
      BY <1>3, <2>2 DEF AfterCall
    <3>2. CASE IsExchange(Head(todo[r]))
      <4>1. p[i].rn = Round(r) - 0 /\ p[i].sn = Swap(r) - 1
        BY <1>1, <1>3, <3>2 DEF Meets, Trades
      <4>. QED  BY <1>3, <3>1, <3>2, <4>1
    <3>3. CASE ~IsExchange(Head(todo[r]))
      <4>1. p[i].rn = Round(r) - 1 /\ p[i].sn = Swap(r) - 0
        BY <1>1, <1>3, <3>3 DEF Meets, Trades
      <4>. QED  BY <1>3, <3>1, <3>3, <4>1
    <3>. QED  BY <3>2, <3>3
  <2>4. Stands(r, n)'
    <3>1. Round(r)' = Round(r) /\ Swap(r)' = Swap(r)
      BY <1>0 DEF Round, Swap
    <3>2. Round(r) = Round(r) - 0 /\ Swap(r) = Swap(r) - 0
      BY <1>3
    <3>. QED  BY <1>7, <2>1, <2>3, <3>1, <3>2 DEF Stands, Spot
  <2>5. Follows(n, p[i])
    BY <1>1, <1>3, <2>2 DEF Follows
  <2>6. PICK q : /\ Road(q) /\ Len(p) <= Len(q)
                 /\ \A l \in 1..Len(p) : q[l] = p[l]
                 /\ \E j \in 1..Len(q) : q[j] = n
                 /\ \A l \in 1..Len(q) : l <= Len(p) \/ (q[l] = n /\ i = Len(p))
    BY <2>5, MoveOn
  <2>7. PICK j \in 1..Len(q) : q[j] = n
    BY <2>6
  <2>8. ASSUME NEW k \in 1..n.rn
        PROVE  Agree(k)
    <3>1. CASE k \in 1..p[i].rn
      BY <3>1 DEF AgreedBehind
    <3>2. CASE k \notin 1..p[i].rn
      <4>1. ~IsExchange(Head(todo[r])) /\ k = Round(r)
        <5>1. Meets(p[i])
          BY <1>3, <2>3, <3>2
        <5>2. p[i].rn = Round(r) - 1
          BY <1>3, <5>1
        <5>. QED  BY <1>3, <2>3, <3>2, <5>1, <5>2 DEF Meets
      <4>2. \A x \in Ranks : ~(Round(x) < Round(r))
        BY <2>1, <4>1 DEF Missing
      <4>3. \A x \in Ranks : Round(x) \in Nat
        BY <1>0, EntriesStay
      <4>4. \A x \in Ranks : Round(x) >= Round(r) /\ Round(r) <= Round(x)
        BY <4>2, <4>3
      <4>5. \A x \in Ranks : rounds[x][k].header = Head(todo[r])
        BY <2>1, <4>1, <4>4 DEF Disagreeing
      <4>6. Head(todo[r]) = "vote" =>
              \A x, y \in Ranks : rounds[x][k].bit = rounds[y][k].bit
        BY <1>7, <4>1 DEF Split
      <4>. QED  BY <4>1, <4>4, <4>5, <4>6 DEF Agree
    <3>. QED  BY <3>1, <3>2
  <2>9. Stands(r, q[j])'
    BY <2>4, <2>7
  <2>10. \A l \in 1..Len(q) : l <= Len(p) \/ \A k \in 1..q[l].rn : Agree(k)
    BY <2>6, <2>8
  <2>. QED  BY <1>0, <2>6, <2>9, <2>10, RoadMoved
<1>8. CASE Leave(r)
  BY <1>6, <1>7, <1>8, LeaveEffect
<1>9. CASE GiveUp(r)
  BY <1>6, <1>9, GiveUpEffect
<1>. QED  BY <1>8, <1>9

(* In a vote all of them voted the bit of the first that read it.            *)
LEMMA VoteIsRight ==
    ASSUME TypeInv, RankInv, ReadersVote, RoadInv, NEW r \in Ranks,
           Inside(r), Missing(r) = {}, ~Split(r), at[r].phase \in ReadHere,
           Solve(r).vote
    PROVE  \E x \in truth : x.at = at[r] /\ x.bit = bit[r]
<1>1. PICK p : Road(p) /\ OnTheRoad(p)
  BY DEF RoadInv
<1>2. state[r] = "running" /\ inside[r] /\ todo[r] = <<"vote">>
  BY DEF Inside, RankInv, Waiting, Voting, ReadHere
<1>3. todo[r] # <<>> /\ Head(todo[r]) = "vote" /\ Len(todo[r]) = 1
      /\ ~IsExchange(Head(todo[r]))
  BY <1>2 DEF IsExchange
<1>4. PICK x \in truth : x.at = at[r]
  BY DEF RankInv, Voting, ReadHere
<1>5. PICK i \in 1..Len(p) : Stands(r, p[i])
  BY <1>1 DEF OnTheRoad
<1>6. /\ p[i].at = at[r] /\ p[i].todo = todo[r] /\ Meets(p[i]) /\ p[i].rn = Round(r) - 1
      /\ Round(r) \in Nat
  <2>1. p[i].at = at[r] /\ p[i].todo = todo[r] /\ Round(r) \in Nat
    BY <1>2, <1>5, StandsRunning
  <2>2. Meets(p[i])
    BY <1>3, <2>1 DEF Meets
  <2>. QED  BY <1>2, <1>5, <2>1, <2>2, StandsRunning
<1>7. rounds[r][Round(r)].bit = bit[r]
  <2>1. rounds[r][Round(r)] = [place |-> Place(r), header |-> Head(todo[r]), bit |-> bit[r]]
    BY <1>2, <1>3 DEF RankInv, Waiting
  <2>. QED  BY <2>1
<1>8. PICK y \in Ranks : AtVote(y, x) \/ Voted(y, x)
  BY <1>4 DEF ReadersVote, Solve
<1>9. Round(y) \in Nat
  BY LenProperties DEF TypeInv, Round
<1>10. CASE AtVote(y, x)
  <2>1. state[y] = "running" /\ ~inside[y] /\ at[y] = at[r] /\ todo[y] = todo[r]
    BY <1>2, <1>4, <1>10 DEF AtVote
  <2>2. PICK j \in 1..Len(p) : Stands(y, p[j])
    BY <1>1 DEF OnTheRoad
  <2>3. p[j].at = at[r] /\ p[j].todo = todo[r] /\ p[j].rn = Round(y) - 0
    BY <2>1, <2>2, StandsRunning
  <2>4. i = j
    BY <1>1, <1>6, <2>3, SamePlace
  <2>5. Round(y) < Round(r)
    BY <1>6, <1>9, <2>3, <2>4
  <2>6. y \in Missing(r)
    BY <1>3, <2>5 DEF Missing
  <2>. QED  BY <2>6
<1>11. CASE Voted(y, x)
  <2>1. PICK k \in 1..Round(y) :
           rounds[y][k] = [place |-> [at |-> x.at, left |-> 1], header |-> "vote", bit |-> x.bit]
    BY <1>11 DEF Voted
  <2>2. PICK j \in 1..Len(p) : Met(y, k, p[j])
    BY <1>1 DEF OnTheRoad
  <2>3. [at |-> p[j].at, left |-> Len(p[j].todo)] = [at |-> x.at, left |-> 1]
        /\ p[j].rn = k - 1
    BY <2>1, <2>2 DEF Met
  <2>4. p[j].at = x.at /\ Len(p[j].todo) = 1
    BY <2>3
  <2>5. i = j
    BY <1>1, <1>3, <1>4, <1>6, <2>4, SamePlace
  <2>6. k = Round(r)
    BY <1>6, <1>9, <2>3, <2>5
  <2>7. rounds[y][Round(r)].bit = x.bit
    BY <2>1, <2>6
  <2>8. rounds[y][Round(r)].bit = rounds[r][Round(r)].bit
    BY <1>3 DEF Split
  <2>. QED  BY <1>4, <1>7, <2>7, <2>8
<1>. QED  BY <1>8, <1>10, <1>11

LEMMA GoesOnNext ==
    ASSUME TypeInv, RankInv, RankInv', ReadersVote, RoadInv, GoesOnRight,
           NEW r \in Ranks, Step(r), Trusted'
    PROVE  GoesOnRight'
<1>. SUFFICES ASSUME NEW q \in Ranks, state'[q] = "running", at'[q].phase \in ReadHere,
                     todo'[q] = <<>>
              PROVE  \E x \in truth' : x.at = at'[q] /\ x.bit = bit'[q]
  BY DEF GoesOnRight
<1>1. truth \subseteq truth' /\ world' = world
  BY Growth
<1>2. CASE q # r
  <2>1. state[q] = "running" /\ at'[q] = at[q] /\ todo[q] = <<>> /\ bit'[q] = bit[q]
    BY <1>2, Others
  <2>. QED  BY <1>1, <2>1 DEF GoesOnRight
<1>3. errs' = 0 => \E x \in truth' : x.at = at'[q] /\ x.bit = bit'[q]
  BY DEF RankInv, Voting, ReadHere
<1>4. at'[q].solve \in 1..Len(world.solves)
  BY <1>1 DEF RankInv, Bounded
<1>5. CASE world.solves[at'[q].solve].vote /\ q = r
  <2>1. PICK d : d = Decision(at[r], bit[r])
    OBVIOUS
  <2>2. CASE Turn(r)
    <3>2. at[r] \in At
      BY DEF TypeInv
    <3>3. d = On(at[r].solve + 1) => d.at.phase = "preflight"
      BY <3>2, OnLater
    <3>4. at'[r] = d.at
      BY <1>5, <2>1, <2>2, TurnEffect
    <3>5. at'[r].phase \notin ReadHere
      BY <2>1, <2>2, <3>3, <3>4, <1>5, TurnEffect DEF ReadHere
    <3>. QED  BY <1>5, <3>5
  <2>3. CASE Reading(r)
    <3>1. at'[r] = d.at /\ todo'[r] = Vote(Solve(r)) /\ d.at.solve = at[r].solve
      BY <2>1, <2>3, ReadingEffect
    <3>2. todo'[r] = <<"vote">>
      BY <1>5, <3>1, VoteType DEF Solve
    <3>. QED  BY <1>5, <3>2
  <2>4. CASE Enter(r)
    BY <1>5, <2>4, EnterEffect
  <2>5. CASE Leave(r)
    <3>1. /\ Inside(r) /\ Missing(r) = {} /\ ~Split(r) /\ at'[r] = at[r] /\ bit' = bit
          /\ truth' = truth
      BY <1>5, <2>5, LeaveEffect
    <3>2. Solve(r).vote
      BY <1>5, <3>1 DEF Solve
    <3>. QED  BY <1>5, <3>1, <3>2, VoteIsRight
  <2>6. CASE GiveUp(r)
    BY <1>5, <2>6, GiveUpEffect
  <2>. QED  BY <2>2, <2>3, <2>4, <2>5, <2>6 DEF Step
<1>6. CASE ~world.solves[at'[q].solve].vote
  <2>1. errs' = 0
    BY <1>1, <1>4, <1>6 DEF Trusted
  <2>. QED  BY <1>3, <2>1
<1>. QED  BY <1>2, <1>5, <1>6

LEMMA RunInit == Init => RunInv
<1>. SUFFICES ASSUME Init PROVE RunInv
  OBVIOUS
<1>1. TypeInv /\ RankInv
  BY InitType, RankInit
<1>2. OneTruth /\ ReadersVote
  BY DEF Init, OneTruth, ReadersVote
<1>3. GoesOnRight
  BY DEF Init, Start, GoesOnRight, ReadHere
<1>4. PICK n : n = [at |-> Start(1), todo |-> <<>>, rn |-> 0, sn |-> 0]
  OBVIOUS
<1>5. n \in Station /\ n.at = Start(1) /\ n.todo = <<>> /\ n.rn = 0 /\ n.sn = 0
  <2>1. Start(1) \in At
    BY EveryPhase DEF Start, At
  <2>2. <<>> \in Seq(Calls)
    BY EmptyType
  <2>. QED  BY <1>4, <2>1, <2>2 DEF Station
<1> DEFINE p == <<n>>
<1>6. p \in Seq(Station) /\ Len(p) = 1 /\ p[1] = n
  BY <1>5
<1>. HIDE DEF p
<1>7. Linked(p) /\ Ordered(p)
  BY <1>6 DEF Linked, Ordered
<1>8. Summed(p)
  <2>1. \A i \in 1..Len(p) : i = 1 /\ p[i].at.phase = "preflight" /\ p[i].at.solve = 1
    BY <1>5, <1>6 DEF Start
  <2>2. \A k : k \notin 1..(1 - 1)
    OBVIOUS
  <2>. QED  BY <2>1, <2>2 DEF Summed
<1>9. AgreedBehind(p)
  BY <1>5, <1>6 DEF AgreedBehind
<1>10. OnTheRoad(p)
  <2>1. ASSUME NEW r \in Ranks
        PROVE  Stands(r, p[1]) /\ Round(r) = 0 /\ Swap(r) = 0
    <3>1. /\ at[r] = Start(1) /\ todo[r] = <<>> /\ inside[r] = FALSE /\ state[r] = "running"
          /\ rounds[r] = <<>> /\ swaps[r] = <<>>
      BY DEF Init
    <3>2. Round(r) = 0 /\ Swap(r) = 0
      BY <3>1, EmptyType DEF Round, Swap
    <3>. QED  BY <1>5, <1>6, <3>1, <3>2 DEF Stands, Spot
  <2>2. 1 \in 1..Len(p)
    BY <1>6
  <2>. QED  BY <2>1, <2>2 DEF OnTheRoad
<1>11. RoadInv
  BY <1>6, <1>7, <1>8, <1>9, <1>10 DEF RoadInv, Road
<1>. QED  BY <1>1, <1>2, <1>3, <1>11 DEF RunInv

LEMMA RunNext == RunInv /\ [Next]_vars => RunInv'
<1>. SUFFICES ASSUME RunInv, [Next]_vars PROVE RunInv'
  OBVIOUS
<1>1. TypeInv /\ RankInv /\ OneTruth /\ ReadersVote
  BY DEF RunInv
<1>2. TypeInv' /\ RankInv'
  BY <1>1, RankNext
<1>3. CASE UNCHANGED vars
  <2>0. /\ world' = world /\ at' = at /\ todo' = todo /\ inside' = inside /\ bit' = bit
        /\ state' = state /\ truth' = truth /\ rounds' = rounds /\ swaps' = swaps
        /\ solved' = solved /\ errs' = errs
    BY <1>3 DEF vars
  <2>1. OneTruth' /\ ReadersVote'
    <3>1. OneTruth'
      BY <1>1, <2>0 DEF OneTruth
    <3>2. \A y, x : AtVote(y, x)' = AtVote(y, x) /\ Voted(y, x)' = Voted(y, x)
      BY <2>0 DEF AtVote, Voted, Round
    <3>. QED  BY <1>1, <2>0, <3>1, <3>2 DEF ReadersVote
  <2>2. Trusted' => Trusted
    BY <1>3 DEF vars, Trusted
  <2>3. ASSUME RoadInv PROVE RoadInv'
    <3>1. PICK p : Road(p) /\ OnTheRoad(p) /\ AgreedBehind(p)
      BY <2>3 DEF RoadInv
    <3>2. Road(p)'
      BY <1>3, <3>1, RoadStays DEF vars
    <3>3. OnTheRoad(p)'
      <4>1. \A r, n : Stands(r, n)' = Stands(r, n)
        BY <2>0 DEF Stands, Spot, Round, Swap, Meets, Trades
      <4>2. \A r, k, n : Met(r, k, n)' = Met(r, k, n) /\ Traded(r, k, n)' = Traded(r, k, n)
        BY <2>0 DEF Met, Traded, Meets, Trades
      <4>3. \A r : Round(r)' = Round(r) /\ Swap(r)' = Swap(r)
        BY <2>0 DEF Round, Swap
      <4>. QED  BY <3>1, <4>1, <4>2, <4>3 DEF OnTheRoad
    <3>4. AgreedBehind(p)'
      <4>1. \A k : Agree(k)' = Agree(k)
        BY <2>0 DEF Agree, Round
      <4>. QED  BY <3>1, <4>1 DEF AgreedBehind
    <3>. QED  BY <3>2, <3>3, <3>4 DEF RoadInv
  <2>4. GoesOnRight => GoesOnRight'
    BY <1>3 DEF vars, GoesOnRight
  <2>. QED  BY <1>2, <2>1, <2>2, <2>3, <2>4 DEF RunInv
<1>4. CASE \E r \in Ranks : Step(r)
  <2>1. PICK r \in Ranks : Step(r)
    BY <1>4
  <2>2. OneTruth' /\ ReadersVote'
    BY <1>1, <2>1, OneTruthNext, ReadersNext
  <2>3. ASSUME Trusted' PROVE RoadInv' /\ GoesOnRight'
    <3>1. RoadInv /\ GoesOnRight
      BY <1>1, <2>1, <2>3, TrustedBefore DEF RunInv
    <3>2. GoesOnRight'
      BY <1>1, <1>2, <2>1, <2>3, <3>1, GoesOnNext
    <3>3. PICK p : Road(p) /\ OnTheRoad(p) /\ AgreedBehind(p)
      BY <3>1 DEF RoadInv
    <3>4. RoadInv'
      BY <1>1, <2>1, <3>1, <3>3, RoadEnter, RoadTurn, RoadLeave DEF Step
    <3>. QED  BY <3>2, <3>4
  <2>. QED  BY <1>2, <2>2, <2>3 DEF RunInv
<1>. QED  BY <1>1, <1>3, <1>4, StepCases DEF Step

LEMMA RunAlways == Spec => []RunInv
BY RunInit, RunNext, PTL DEF Spec

(* What the k-th call of a rank is does not depend on the rank.  A sum, a    *)
(* vote or an exchange is used where its peers sent it, although no header   *)
(* says so.                                                                  *)
THEOREM OneSequenceOfCalls == Spec => []OneSequence
<1>1. ASSUME RunInv PROVE OneSequence
  <2>. SUFFICES ASSUME Trusted, NEW r \in Ranks, NEW q \in Ranks
                PROVE  /\ \A k \in 1..Shorter(rounds[r], rounds[q]) :
                            rounds[r][k].place = rounds[q][k].place
                       /\ \A k \in 1..Shorter(swaps[r], swaps[q]) : swaps[r][k] = swaps[q][k]
    BY DEF OneSequence
  <2>1. TypeInv /\ RoadInv
    BY <1>1 DEF RunInv
  <2>2. PICK p : Road(p) /\ OnTheRoad(p)
    BY <2>1 DEF RoadInv
  <2>3. /\ Len(rounds[r]) \in Nat /\ Len(rounds[q]) \in Nat
        /\ Len(swaps[r]) \in Nat /\ Len(swaps[q]) \in Nat
    BY <2>1, LenProperties DEF TypeInv
  <2>4. ASSUME NEW k \in 1..Shorter(rounds[r], rounds[q])
        PROVE  rounds[r][k].place = rounds[q][k].place
    <3>1. k \in 1..Round(r) /\ k \in 1..Round(q)
      BY <2>3 DEF Shorter, Round
    <3>2. PICK i \in 1..Len(p) : Met(r, k, p[i])
      BY <2>2, <3>1 DEF OnTheRoad
    <3>3. PICK j \in 1..Len(p) : Met(q, k, p[j])
      BY <2>2, <3>1 DEF OnTheRoad
    <3>4. i = j
      BY <2>2, <3>2, <3>3, SameRound DEF Met
    <3>. QED  BY <3>2, <3>3, <3>4 DEF Met
  <2>5. ASSUME NEW k \in 1..Shorter(swaps[r], swaps[q])
        PROVE  swaps[r][k] = swaps[q][k]
    <3>1. k \in 1..Swap(r) /\ k \in 1..Swap(q)
      BY <2>3 DEF Shorter, Swap
    <3>2. PICK i \in 1..Len(p) : Traded(r, k, p[i])
      BY <2>2, <3>1 DEF OnTheRoad
    <3>3. PICK j \in 1..Len(p) : Traded(q, k, p[j])
      BY <2>2, <3>1 DEF OnTheRoad
    <3>4. i = j
      BY <2>2, <3>2, <3>3, SameRound DEF Traded
    <3>. QED  BY <3>2, <3>3, <3>4 DEF Traded
  <2>. QED  BY <2>4, <2>5
<1>. QED  BY <1>1, RunAlways, PTL

(* A rank that has finished a solve stands beyond it.                        *)
LEMMA StandsBeyond ==
    ASSUME TypeInv, RankInv, NEW x \in Ranks, NEW n, Stands(x, n), NEW i \in Nat,
           ~(Len(solved[x]) < i)
    PROVE  i < n.at.solve /\ n.at.solve \in Nat
<1>1. Counted(x) /\ Bounded(x) /\ n.at = Spot(x)
  BY DEF RankInv, Stands
<1>2. Len(solved[x]) \in Nat /\ Len(world.solves) \in Nat /\ at[x].solve \in Nat
  <2>1. solved[x] \in Seq(Nat) /\ at[x] \in At
    BY DEF TypeInv
  <2>. QED  BY <2>1, WorldType, LenProperties DEF At
<1>3. CASE state[x] = "done"
  <2>1. n.at.solve = Len(world.solves) + 1 /\ Len(solved[x]) = Len(world.solves)
    BY <1>1, <1>3 DEF Spot, Start, Counted
  <2>. QED  BY <1>2, <2>1
<1>4. CASE state[x] # "done"
  <2>1. n.at.solve = at[x].solve /\ Len(solved[x]) = at[x].solve - 1
    BY <1>1, <1>4 DEF Spot, Counted
  <2>. QED  BY <1>2, <2>1
<1>. QED  BY <1>3, <1>4

(* Where votes differ, nobody finishes the solve they were cast in.          *)
THEOREM SplitVotesStop == Spec => []NobodyGoesOn
<1>1. ASSUME RunInv PROVE NobodyGoesOn
  <2>. SUFFICES ASSUME Trusted, NEW r \in Ranks, NEW q \in Ranks,
                       NEW k \in 1..Shorter(rounds[r], rounds[q]),
                       rounds[r][k].header = "vote" /\ rounds[q][k].header = "vote",
                       rounds[r][k].bit # rounds[q][k].bit,
                       NEW x \in Ranks,
                       ~(Len(solved[x]) < rounds[r][k].place.at.solve)
                PROVE  FALSE
    BY DEF NobodyGoesOn
  <2>1. TypeInv /\ RankInv /\ RoadInv
    BY <1>1 DEF RunInv
  <2>2. PICK p : Road(p) /\ OnTheRoad(p) /\ AgreedBehind(p)
    BY <2>1 DEF RoadInv
  <2>3. Len(rounds[r]) \in Nat /\ Len(rounds[q]) \in Nat
    BY <2>1, LenProperties DEF TypeInv
  <2>4. k \in 1..Round(r)
    BY <2>3 DEF Shorter, Round
  <2>5. PICK i \in 1..Len(p) : Met(r, k, p[i])
    BY <2>2, <2>4 DEF OnTheRoad
  <2>6. PICK m \in 1..Len(p) : Stands(x, p[m])
    BY <2>2 DEF OnTheRoad
  <2>7. p[i] \in Station /\ p[m] \in Station
    BY <2>2, RoadStations DEF Road
  <2>8. p[i].at.solve = rounds[r][k].place.at.solve /\ p[i].rn = k - 1 /\ Meets(p[i])
    BY <2>5 DEF Met
  <2>9. p[i].at.solve \in Nat /\ p[i].rn \in Nat /\ p[m].rn \in Nat
    BY <2>7, StationFields DEF At
  <2>10. p[i].at.solve < p[m].at.solve
    BY <2>1, <2>6, <2>8, <2>9, StandsBeyond
  <2>11. p[i].rn < p[m].rn
    BY <2>2, <2>8, <2>10, Passed
  <2>12. k \in 1..p[m].rn
    BY <2>8, <2>9, <2>11
  <2>. QED  BY <2>2, <2>12 DEF AgreedBehind, Agree
<1>. QED  BY <1>1, RunAlways, PTL

(* No rank finishes a solve that another one refused.                        *)
THEOREM RefusalsStop == Spec => []NobodySolvesAlone
<1>1. ASSUME RunInv PROVE NobodySolvesAlone
  <2>. SUFFICES ASSUME Trusted, NEW r \in Ranks, NEW x \in Ranks,
                       NEW i \in 1..Len(world.solves),
                       <<r, i>> \in world.refuses, world.solves[i].cells,
                       ~(Len(solved[x]) < i)
                PROVE  FALSE
    BY DEF NobodySolvesAlone
  <2>1. TypeInv /\ RankInv /\ RoadInv
    BY <1>1 DEF RunInv
  <2>2. PICK p : Road(p) /\ OnTheRoad(p) /\ AgreedBehind(p)
    BY <2>1 DEF RoadInv
  <2>3. PICK m \in 1..Len(p) : Stands(x, p[m])
    BY <2>2 DEF OnTheRoad
  <2>4. i \in Nat /\ i > 0
    BY <2>1, WorldType
  <2>5. i < p[m].at.solve /\ p[m].at.solve \in Nat
    BY <2>1, <2>3, <2>4, StandsBeyond
  <2>6. i \in 1..(p[m].at.solve - 1)
    BY <2>4, <2>5
  <2>7. PICK j \in 1..Len(p) : Meets(p[j]) /\ p[j].at.solve = i
    BY <2>2, <2>6 DEF Road, Summed
  <2>8. p[j] \in Station /\ p[m] \in Station
    BY <2>2, RoadStations DEF Road
  <2>9. p[j].rn \in Nat /\ p[m].rn \in Nat
    BY <2>8, StationFields
  <2>10. p[j].rn < p[m].rn
    BY <2>2, <2>5, <2>7, Passed
  <2>11. PICK k : k = p[j].rn + 1
    OBVIOUS
  <2>12. k \in 1..p[m].rn /\ k \in Nat /\ k > 0
    BY <2>9, <2>10, <2>11
  <2>13. k <= Round(r)
    BY <2>2, <2>12 DEF AgreedBehind, Agree
  <2>14. k \in 1..Round(r)
    BY <2>1, <2>12, <2>13, LenProperties DEF TypeInv, Round
  <2>15. PICK l \in 1..Len(p) : Met(r, k, p[l])
    BY <2>2, <2>14 DEF OnTheRoad
  <2>16. p[l].rn = p[j].rn
    BY <2>9, <2>11, <2>15 DEF Met
  <2>17. l = j
    BY <2>2, <2>7, <2>15, <2>16, SameRound DEF Met
  <2>18. rounds[r][k].place.at.solve = i
    BY <2>7, <2>15, <2>17 DEF Met
  <2>19. <<r, rounds[r][k].place.at.solve>> \notin world.refuses
    BY <2>1, <2>14 DEF RankInv, Fitting
  <2>. QED  BY <2>18, <2>19
<1>. QED  BY <1>1, RunAlways, PTL
=============================================================================
