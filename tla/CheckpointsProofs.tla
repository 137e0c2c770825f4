-------------------------- MODULE CheckpointsProofs --------------------------
(***************************************************************************)
(* The restart files for every set of jobs and every bound: types, the     *)
(* inductive invariant of the list, the schedule and the files, and what   *)
(* follows from it at any moment a process may die.                        *)
(***************************************************************************)
EXTENDS CheckpointsProps, SequenceTheorems, TLAPS

-----------------------------------------------------------------------------
(* Lists of files. *)

(* Each name once. *)
Once(s) == \A i, k \in 1..Len(s) : s[i] = s[k] => i = k

Listed(s, f) == \E i \in 1..Len(s) : s[i] = f

(* w is the newer end of s. *)
EndOf(w, s) ==
    /\ Len(w) <= Len(s)
    /\ \A i \in 1..Len(w) : w[i] = s[Len(s) - Len(w) + i]

(* All but the last of m are entries of s other than f, no further from the  *)
(* end there.                                                                *)
FromOld(m, s, f) ==
    \A i \in 1..(Len(m) - 1) :
        m[i] # f /\ \E j \in 1..Len(s) : m[i] = s[j] /\ Len(s) - j <= Len(m) - i

(* A name that is not there is only put at the end. *)
LEMMA MovedNew ==
    ASSUME NEW S, NEW s \in Seq(S), NEW f \in S, ~Listed(s, f)
    PROVE  /\ Moved(s, f) \in Seq(S)
           /\ Len(Moved(s, f)) = Len(s) + 1
           /\ \A i \in 1..Len(s) : Moved(s, f)[i] = s[i]
           /\ Moved(s, f)[Len(s) + 1] = f
<1>1. Without(s, f) = s
  BY DEF Without, Listed
<1>. QED  BY <1>1, AppendProperties DEF Moved

(* A name that is there is taken out of its place and put at the end. *)
LEMMA MovedOld ==
    ASSUME NEW S, NEW s \in Seq(S), NEW f \in S, Once(s), NEW k \in 1..Len(s), s[k] = f
    PROVE  /\ Moved(s, f) \in Seq(S)
           /\ Len(Moved(s, f)) = Len(s)
           /\ \A i \in 1..Len(s) :
                Moved(s, f)[i] = IF i < k THEN s[i] ELSE IF i < Len(s) THEN s[i + 1] ELSE f
<1> DEFINE u == [i \in 1..(Len(s) - 1) |-> IF i < k THEN s[i] ELSE s[i + 1]]
<1>1. Without(s, f) = u
  <2>1. (CHOOSE i \in 1..Len(s) : s[i] = f) = k
    BY DEF Once
  <2>. QED  BY <2>1 DEF Without
<1>2. /\ Len(s) \in Nat /\ Len(s) - 1 \in Nat
      /\ \A i \in 1..(Len(s) - 1) : u[i] \in S
  OBVIOUS
<1>3. u \in Seq(S) /\ Len(u) = Len(s) - 1
  BY <1>2
<1>4. \A i \in 1..(Len(s) - 1) : u[i] = IF i < k THEN s[i] ELSE s[i + 1]
  OBVIOUS
<1>. HIDE DEF u
<1>5. /\ Append(u, f) \in Seq(S)
      /\ Len(Append(u, f)) = Len(s)
      /\ \A i \in 1..(Len(s) - 1) : Append(u, f)[i] = u[i]
      /\ Append(u, f)[Len(s)] = f
  BY <1>2, <1>3, AppendProperties
<1>6. ASSUME NEW i \in 1..Len(s)
      PROVE  Append(u, f)[i] = IF i < k THEN s[i] ELSE IF i < Len(s) THEN s[i + 1] ELSE f
  <2>1. CASE i = Len(s)
    BY <1>5, <2>1
  <2>2. CASE i # Len(s)
    <3>1. i \in 1..(Len(s) - 1)
      BY <1>2, <2>2
    <3>. QED  BY <1>4, <1>5, <3>1
  <2>. QED  BY <2>1, <2>2
<1>. QED  BY <1>1, <1>5, <1>6 DEF Moved

(* Moving keeps each name once, and lists what was listed and the name. *)
LEMMA MovedList ==
    ASSUME NEW S, NEW s \in Seq(S), NEW f \in S, Once(s)
    PROVE  /\ Moved(s, f) \in Seq(S)
           /\ Once(Moved(s, f))
           /\ Len(Moved(s, f)) > 0
           /\ Moved(s, f)[Len(Moved(s, f))] = f
           /\ \A g : Listed(s, g) => Listed(Moved(s, f), g)
           /\ FromOld(Moved(s, f), s, f)
<1> DEFINE m == Moved(s, f)
<1>1. CASE ~Listed(s, f)
  <2>1. /\ m \in Seq(S)
        /\ Len(m) = Len(s) + 1
        /\ \A i \in 1..Len(s) : m[i] = s[i]
        /\ m[Len(s) + 1] = f
    BY <1>1, MovedNew
  <2>2. \A i \in 1..Len(s) : s[i] # f
    BY <1>1 DEF Listed
  <2>. HIDE DEF m
  <2>3. Once(m)
    BY <2>1, <2>2 DEF Once
  <2>4. \A g : Listed(s, g) => Listed(m, g)
    BY <2>1 DEF Listed
  <2>5. FromOld(m, s, f)
    BY <2>1, <2>2 DEF FromOld
  <2>. QED  BY <2>1, <2>3, <2>4, <2>5 DEF m
<1>2. CASE Listed(s, f)
  <2>1. PICK k \in 1..Len(s) : s[k] = f
    BY <1>2 DEF Listed
  <2>2. /\ m \in Seq(S)
        /\ Len(m) = Len(s)
        /\ \A i \in 1..Len(s) :
             m[i] = IF i < k THEN s[i] ELSE IF i < Len(s) THEN s[i + 1] ELSE f
    BY <2>1, MovedOld
  <2>3. \A i \in 1..Len(s) : s[i] = f => i = k
    BY <2>1 DEF Once
  <2>. HIDE DEF m
  <2>4. Once(m)
    <3> SUFFICES ASSUME NEW i \in 1..Len(s), NEW j \in 1..Len(s), m[i] = m[j]  PROVE i = j
      BY <2>2 DEF Once
    <3>1. CASE i < Len(s) /\ j < Len(s)
      BY <2>2, <3>1 DEF Once
    <3>2. CASE i = Len(s) \/ j = Len(s)
      BY <2>1, <2>2, <2>3, <3>2
    <3>. QED  BY <3>1, <3>2
  <2>5. ASSUME NEW g, Listed(s, g)  PROVE Listed(m, g)
    <3>1. PICK i \in 1..Len(s) : s[i] = g
      BY <2>5 DEF Listed
    <3>2. CASE i < k
      BY <2>2, <3>1, <3>2 DEF Listed
    <3>3. CASE i = k
      <4>1. Len(s) \in 1..Len(s) /\ m[Len(s)] = f
        BY <2>2
      <4>. QED  BY <2>1, <2>2, <3>1, <3>3, <4>1 DEF Listed
    <3>4. CASE i > k
      <4>1. i - 1 \in 1..Len(s) /\ ~(i - 1 < k) /\ i - 1 < Len(s) /\ (i - 1) + 1 = i
        BY <3>4
      <4>2. m[i - 1] = s[i]
        BY <2>2, <4>1
      <4>. QED  BY <2>2, <3>1, <4>1, <4>2 DEF Listed
    <3>. QED  BY <3>2, <3>3, <3>4
  <2>6. ASSUME NEW i \in 1..(Len(m) - 1)
        PROVE  m[i] # f /\ \E j \in 1..Len(s) : m[i] = s[j] /\ Len(s) - j <= Len(m) - i
    <3>1. CASE i < k
      <4>1. i \in 1..Len(s) /\ m[i] = s[i] /\ i # k
        BY <2>2, <3>1
      <4>2. Len(s) - i < Len(m) - i \/ Len(m) = Len(s)
        BY <2>2
      <4>. QED  BY <2>2, <2>3, <4>1
    <3>2. CASE i >= k
      <4>1. i + 1 \in 1..Len(s) /\ m[i] = s[i + 1] /\ i + 1 # k
        BY <2>2, <3>2
      <4>. QED  BY <2>2, <2>3, <4>1
    <3>. QED  BY <3>1, <3>2
  <2>7. FromOld(m, s, f)
    BY <2>6 DEF FromOld
  <2>. QED  BY <2>1, <2>2, <2>4, <2>5, <2>7 DEF m
<1>. QED  BY <1>1, <1>2

(* Moving a name in a list and in its newer end leaves the one the newer end *)
(* of the other, and does not let it fall behind.                            *)
LEMMA MovedEnd ==
    ASSUME NEW S, NEW s \in Seq(S), NEW w \in Seq(S), NEW f \in S, Once(s), EndOf(w, s)
    PROVE  /\ EndOf(Moved(w, f), Moved(s, f))
           /\ Len(w) <= Len(Moved(w, f)) /\ Len(Moved(w, f)) <= Len(w) + 1
           /\ Len(w) = Len(s) => Len(Moved(w, f)) = Len(Moved(s, f))
           /\ \A g : Listed(w, g) => Listed(s, g)
<1> DEFINE mw == Moved(w, f)
           ms == Moved(s, f)
           d == Len(s) - Len(w)
<1>0. /\ Len(w) \in Nat /\ Len(s) \in Nat /\ d \in Nat
      /\ \A i \in 1..Len(w) : d + i \in 1..Len(s) /\ w[i] = s[d + i]
  BY DEF EndOf
<1>1. Once(w)
  <2> SUFFICES ASSUME NEW i \in 1..Len(w), NEW k \in 1..Len(w), w[i] = w[k]  PROVE i = k
    BY DEF Once
  <2>1. d + i \in 1..Len(s) /\ d + k \in 1..Len(s) /\ s[d + i] = s[d + k]
    BY <1>0
  <2>2. d + i = d + k
    BY <2>1 DEF Once
  <2>. QED  BY <1>0, <2>2
<1>2. \A g : Listed(w, g) => Listed(s, g)
  BY <1>0 DEF Listed
<1>3. CASE Listed(w, f)
  <2>1. PICK k \in 1..Len(w) : w[k] = f
    BY <1>3 DEF Listed
  <2>2. d + k \in 1..Len(s) /\ s[d + k] = f
    BY <1>0, <2>1
  <2>3. /\ Len(mw) = Len(w)
        /\ \A i \in 1..Len(w) :
             mw[i] = IF i < k THEN w[i] ELSE IF i < Len(w) THEN w[i + 1] ELSE f
    BY <1>1, <2>1, MovedOld
  <2>4. /\ Len(ms) = Len(s)
        /\ \A i \in 1..Len(s) :
             ms[i] = IF i < d + k THEN s[i] ELSE IF i < Len(s) THEN s[i + 1] ELSE f
    BY <2>2, MovedOld
  <2>. HIDE DEF mw, ms
  <2>5. ASSUME NEW i \in 1..Len(w)  PROVE mw[i] = ms[d + i]
    <3>1. /\ d + i \in 1..Len(s)
          /\ i < k <=> d + i < d + k
          /\ i < Len(w) <=> d + i < Len(s)
          /\ i < Len(w) => i + 1 \in 1..Len(w) /\ d + (i + 1) = (d + i) + 1
      BY <1>0
    <3>2. w[i] = s[d + i] /\ (i < Len(w) => w[i + 1] = s[(d + i) + 1])
      BY <1>0, <3>1
    <3>3. /\ mw[i] = IF i < k THEN w[i] ELSE IF i < Len(w) THEN w[i + 1] ELSE f
          /\ ms[d + i] = IF d + i < d + k THEN s[d + i]
                         ELSE IF d + i < Len(s) THEN s[(d + i) + 1] ELSE f
      BY <2>3, <2>4, <3>1
    <3>. HIDE DEF d
    <3>. QED  BY <3>1, <3>2, <3>3
  <2>. QED  BY <1>0, <1>2, <2>3, <2>4, <2>5 DEF EndOf, mw, ms
<1>4. CASE ~Listed(w, f)
  <2>1. /\ Len(mw) = Len(w) + 1
        /\ \A i \in 1..Len(w) : mw[i] = w[i]
        /\ mw[Len(w) + 1] = f
    BY <1>4, MovedNew
  <2>2. CASE ~Listed(s, f)
    <3>1. /\ Len(ms) = Len(s) + 1
          /\ \A i \in 1..Len(s) : ms[i] = s[i]
          /\ ms[Len(s) + 1] = f
      BY <2>2, MovedNew
    <3>. HIDE DEF mw, ms
    <3>2. ASSUME NEW i \in 1..Len(mw)  PROVE mw[i] = ms[Len(ms) - Len(mw) + i]
      <4>1. Len(ms) - Len(mw) + i = d + i
        BY <1>0, <2>1, <3>1
      <4>2. CASE i = Len(mw)
        BY <1>0, <2>1, <3>1, <4>1, <4>2
      <4>3. CASE i # Len(mw)
        <5>1. i \in 1..Len(w)
          BY <1>0, <2>1, <4>3
        <5>. QED  BY <1>0, <2>1, <3>1, <4>1, <5>1
      <4>. QED  BY <4>2, <4>3
    <3>. QED  BY <1>0, <1>2, <2>1, <3>1, <3>2 DEF EndOf, mw, ms
  <2>3. CASE Listed(s, f)
    <3>1. PICK k \in 1..Len(s) : s[k] = f
      BY <2>3 DEF Listed
    <3>2. k <= d
      <4>1. SUFFICES ASSUME k > d  PROVE FALSE
        BY <1>0
      <4>2. k - d \in 1..Len(w) /\ d + (k - d) = k
        BY <1>0, <4>1
      <4>3. w[k - d] = s[k]
        BY <1>0, <4>2
      <4>. QED  BY <1>4, <3>1, <4>2, <4>3 DEF Listed
    <3>3. /\ Len(ms) = Len(s)
          /\ \A i \in 1..Len(s) :
               ms[i] = IF i < k THEN s[i] ELSE IF i < Len(s) THEN s[i + 1] ELSE f
      BY <3>1, MovedOld
    <3>. HIDE DEF mw, ms
    <3>4. ASSUME NEW i \in 1..Len(mw)  PROVE mw[i] = ms[Len(ms) - Len(mw) + i]
      <4>1. Len(ms) - Len(mw) + i = (d + i) - 1 /\ (d + i) - 1 \in 1..Len(s) /\ ~((d + i) - 1 < k)
        BY <1>0, <2>1, <3>2, <3>3
      <4>2. CASE i = Len(mw)
        BY <1>0, <2>1, <3>3, <4>1, <4>2
      <4>3. CASE i # Len(mw)
        <5>1. i \in 1..Len(w) /\ (d + i) - 1 < Len(s) /\ ((d + i) - 1) + 1 = d + i
          BY <1>0, <2>1, <4>3
        <5>2. mw[i] = s[d + i]
          BY <1>0, <2>1, <5>1
        <5>3. ms[(d + i) - 1] = s[d + i]
          BY <3>3, <4>1, <5>1
        <5>. QED  BY <4>1, <5>2, <5>3
      <4>. QED  BY <4>2, <4>3
    <3>5. Len(mw) <= Len(ms) /\ Len(w) # Len(s)
      BY <1>0, <2>1, <3>2, <3>3
    <3>. QED  BY <1>0, <1>2, <2>1, <3>4, <3>5 DEF EndOf, mw, ms
  <2>. QED  BY <2>2, <2>3
<1>. QED  BY <1>3, <1>4

(* Two lists of one length that are both the newer end of a third are equal. *)
LEMMA SameEnd ==
    ASSUME NEW S, NEW s, NEW v \in Seq(S), NEW w \in Seq(S),
           EndOf(v, s), EndOf(w, s), Len(v) = Len(w)
    PROVE  v = w
BY SeqEqual DEF EndOf

(* The newest n entries are the newer end of a list, n of it or all. *)
LEMMA NewestEnd ==
    ASSUME NEW S, NEW s \in Seq(S), NEW n \in Nat \ {0}
    PROVE  /\ Newest(s, n) \in Seq(S)
           /\ EndOf(Newest(s, n), s)
           /\ Len(Newest(s, n)) = IF Len(s) > n THEN n ELSE Len(s)
<1> DEFINE b == IF Len(s) > n THEN Len(s) - n + 1 ELSE 1
           u == SubSeq(s, b, Len(s))
<1>1. /\ Len(s) \in Nat /\ b \in Nat \ {0} /\ b <= Len(s) + 1
      /\ \A i \in b..Len(s) : s[i] \in S
  OBVIOUS
<1>2. Newest(s, n) = u
  BY DEF Newest
<1>3. Len(s) - b + 1 = IF Len(s) > n THEN n ELSE Len(s)
  OBVIOUS
<1>. HIDE DEF b
<1>4. /\ u \in Seq(S)
      /\ Len(u) = IF b <= Len(s) THEN Len(s) - b + 1 ELSE 0
      /\ \A i \in 1..(Len(s) - b + 1) : u[i] = s[b + i - 1]
  BY <1>1, SubSeqProperties
<1>. HIDE DEF u
<1>5. Len(u) = Len(s) - b + 1
  BY <1>1, <1>4
<1>6. ASSUME NEW i \in 1..Len(u)  PROVE u[i] = s[Len(s) - Len(u) + i]
  <2>1. Len(s) - Len(u) + i = b + i - 1
    BY <1>1, <1>5
  <2>. QED  BY <1>4, <1>5, <2>1
<1>7. EndOf(u, s)
  BY <1>1, <1>5, <1>6 DEF EndOf
<1>. QED  BY <1>2, <1>3, <1>4, <1>5, <1>7
-----------------------------------------------------------------------------
(* Types, and the bound on time. *)

Contents == {Content(j.mesh, time) : j \in Jobs, time \in 0..MaxTime}

TimeOK ==
    /\ disk \in [Files -> {Absent, Torn} \cup Contents]
    /\ t + left * job.dt <= MaxTime
    /\ saved \in 0..t

TypeInv == TypeOK /\ TimeOK

(* What the number of steps, the labels and the contents are. *)
LEMMA StepsType ==
    ASSUME NEW j \in Jobs, NEW t0 \in Nat
    PROVE  StepsTo(j, t0) \in Nat
<1>1. j.dt \in Nat \ {0} /\ j.end \in Nat
  BY JobsAssumption
<1>2. ASSUME NEW a \in Int, NEW b \in Nat \ {0}  PROVE a \div b \in Int
  BY <1>2
<1>3. 2 * (j.end - t0) + j.dt \in Int /\ 2 * j.dt \in Nat \ {0}
  BY <1>1
<1>4. (2 * (j.end - t0) + j.dt) \div (2 * j.dt) \in Int
  BY <1>2, <1>3
<1> DEFINE n == (2 * (j.end - t0) + j.dt) \div (2 * j.dt)
<1>. HIDE DEF n
<1>5. n \in Int
  BY <1>4 DEF n
<1>. QED  BY <1>1, <1>5 DEF StepsTo, n

LEMMA LabelType ==
    ASSUME NEW time \in 0..MaxTime
    PROVE  Label(time) \in Files
BY DEF Files, Series

LEMMA ContentType ==
    ASSUME NEW c \in Contents
    PROVE  c \notin {Absent, Torn} /\ c.time \in 0..MaxTime
BY ContentAssumption DEF Contents, Content

LEMMA MovedType ==
    ASSUME NEW S, NEW s \in Seq(S), NEW f \in S
    PROVE  Moved(s, f) \in Seq(S)
<1>1. Without(s, f) \in Seq(S)
  <2>1. CASE ~\E i \in 1..Len(s) : s[i] = f
    BY <2>1 DEF Without
  <2>2. CASE \E i \in 1..Len(s) : s[i] = f
    <3> DEFINE k == CHOOSE i \in 1..Len(s) : s[i] = f
               u == [i \in 1..(Len(s) - 1) |-> IF i < k THEN s[i] ELSE s[i + 1]]
    <3>1. Without(s, f) = u
      BY <2>2 DEF Without
    <3>. HIDE DEF k
    <3>2. Len(s) - 1 \in Nat /\ \A i \in 1..(Len(s) - 1) : u[i] \in S
      BY <2>2
    <3>. QED  BY <3>1, <3>2
  <2>. QED  BY <2>1, <2>2
<1>. HIDE DEF Without
<1>. QED  BY <1>1, AppendProperties DEF Moved

(* One step of the loop stays inside the bound. *)
LEMMA StepInTime ==
    ASSUME NEW n \in Nat \ {0}, NEW d \in Nat \ {0}, NEW x \in Nat, NEW max \in Nat,
           x + n * d <= max, NEW e \in {1, d}
    PROVE  /\ x + e + (n - 1) * d <= max
           /\ x + e \in 0..max
           /\ 0 * d = 0 /\ x + 0 * d <= max
<1>1. (n - 1) * d = n * d - d /\ (n - 1) * d \in Nat /\ n * d \in Nat
  OBVIOUS
<1>2. e \in Nat /\ e <= d
  OBVIOUS
<1>. QED  BY <1>1, <1>2

(* The steps that write nothing and do not let time pass. *)
LEMMA TypeKept ==
    ASSUME TypeInv, UNCHANGED <<disk, proc, finished, mine, saved, hands>>,
           written' \in Seq(Files), pc' \in {"off", "run", "open", "fill", "prune"},
           ended' \in {"no", "done", "killed", "refused", "lengths", "io"}
    PROVE  TypeInv'
BY DEF TypeInv, TypeOK, TimeOK, proc

LEMMA BeginType ==
    ASSUME TypeInv, NEW j \in Jobs, NEW t0 \in Nat, Begin(j, t0), InTime(j, t0), disk' = disk
    PROVE  TypeInv'
<1>1. StepsTo(j, t0) \in Nat
  BY StepsType
<1>2. j.interval \in Nat /\ j.dt \in Nat \ {0}
  BY JobsAssumption
<1> DEFINE n == StepsTo(j, t0)
<1>3. n \in Nat /\ t0 + n * j.dt <= MaxTime /\ left' = n
  BY <1>1 DEF InTime, Begin
<1>. HIDE DEF n
<1>4. t0 \in 0..MaxTime
  <2>1. n * j.dt \in Nat
    BY <1>2, <1>3
  <2>. QED  BY <1>3, <2>1, TimeAssumption
<1>5. TimeOK'
  BY <1>3 DEF Begin, TypeInv, TimeOK
<1>6. <<>> \in Seq(Files) /\ Single \in Files
  BY DEF Files
<1>7. next' \in Nat
  <2>1. next' = t0 + j.interval
    BY DEF Begin
  <2>. QED  BY <1>2, <2>1
<1>8. /\ job' = j /\ pc' = "run" /\ t' = t0 /\ done' = 0 /\ closing' = FALSE
      /\ written' = <<>> /\ target' = Single /\ ended' = "no"
      /\ finished' = <<>> /\ mine' = {} /\ hands' = {}
  BY DEF Begin
<1>. QED  BY <1>3, <1>4, <1>5, <1>6, <1>7, <1>8 DEF TypeInv, TypeOK

LEMMA TypeStep == TypeInv /\ [Next]_vars => TypeInv'
<1> SUFFICES ASSUME TypeInv, [Next]_vars  PROVE TypeInv'
  OBVIOUS
<1>. USE DEF proc, bounds
<1>0. /\ job \in Jobs /\ t \in 0..MaxTime /\ left \in Nat
      /\ job.dt \in Nat \ {0} /\ job.interval \in Nat /\ t + left * job.dt <= MaxTime
      /\ written \in Seq(Files)
  BY JobsAssumption DEF TypeInv, TypeOK, TimeOK
<1>1. ASSUME NEW j \in Jobs, Start(j)  PROVE TypeInv'
  <2>. HIDE DEF proc
  <2>. QED  BY <1>1, BeginType DEF Start
<1>2. ASSUME NEW j \in Jobs, NEW f \in Files, Resume(j, f)  PROVE TypeInv'
  <2>1. disk[f].time \in 0..MaxTime
    BY <1>2 DEF Resume, Readable, Whole, TypeInv, TypeOK
  <2> DEFINE t0 == disk[f].time
  <2>2. t0 \in Nat /\ Begin(j, t0) /\ InTime(j, t0) /\ disk' = disk
    BY <1>2, <2>1 DEF Resume
  <2>. HIDE DEF t0
  <2>. QED  BY <2>2, BeginType
<1>3. CASE Step
  <2> DEFINE now == t + (IF job.transient THEN job.dt ELSE 1)
  <2>1. /\ now \in 0..MaxTime /\ now + (left - 1) * job.dt <= MaxTime
        /\ left - 1 \in Nat
    <3>1. left \in Nat \ {0}
      BY <1>0, <1>3 DEF Step
    <3> DEFINE e == IF job.transient THEN job.dt ELSE 1
    <3>2. e \in {1, job.dt}
      OBVIOUS
    <3>. HIDE DEF e
    <3>3. t \in Nat
      BY <1>0
    <3>4. t + e + (left - 1) * job.dt <= MaxTime /\ t + e \in 0..MaxTime
      BY <1>0, <3>1, <3>2, <3>3, TimeAssumption, StepInTime
    <3>. QED  BY <3>1, <3>4 DEF e
  <2>2. /\ t' = now /\ left' = left - 1 /\ done' = done + 1
        /\ next' \in {next, next + job.interval}
        /\ target' \in {target, Label(now), Single}
        /\ pc' \in {"open", "run"}
        /\ UNCHANGED <<disk, job, closing, written, ended, finished, mine, saved, hands>>
    BY <1>3 DEF Step
  <2>3. Label(now) \in Files /\ Single \in Files
    BY <2>1, LabelType DEF Files
  <2>. HIDE DEF now
  <2>4. now >= t
    BY <1>0 DEF now
  <2>5. TimeOK'
    BY <1>0, <2>1, <2>2, <2>4 DEF TypeInv, TimeOK
  <2>6. t' \in 0..MaxTime /\ left' \in Nat /\ done' \in Nat /\ next' \in Nat
    <3>1. next \in Nat /\ done \in Nat
      BY DEF TypeInv, TypeOK
    <3>. QED  BY <1>0, <2>1, <2>2, <3>1
  <2>7. target' \in Files /\ pc' \in {"off", "run", "open", "fill", "prune"}
    <3>1. target \in Files
      BY DEF TypeInv, TypeOK
    <3>. QED  BY <2>2, <2>3, <3>1
  <2>8. TypeOK'
    BY <2>2, <2>6, <2>7 DEF TypeInv, TypeOK
  <2>. QED  BY <2>5, <2>8 DEF TypeInv
<1>4. CASE TouchDown
  <2>1. t + 0 * job.dt <= MaxTime
    BY <1>0
  <2>. QED  BY <1>4, <2>1 DEF TouchDown, TypeInv, TypeOK, TimeOK
<1>5. CASE Final
  <2>1. Label(t) \in Files
    BY <1>0, LabelType
  <2>. QED  BY <1>5, <2>1 DEF Final, TypeInv, TypeOK, TimeOK
<1>6. CASE Create
  BY <1>6, ContentType DEF Create, TypeInv, TypeOK, TimeOK
<1>7. CASE Fill
  <2>1. Content(job.mesh, t) \in Contents
    BY <1>0 DEF Contents
  <2>2. /\ disk' = [disk EXCEPT ![target] = IF @ = Torn THEN Content(job.mesh, t) ELSE @]
        /\ finished' = Moved(finished, target) /\ saved' = t
        /\ hands' \in {hands, hands \ {target}}
        /\ pc' \in {"prune", "run"} /\ written' \in {written, Moved(written, target)}
        /\ UNCHANGED <<proc, ended, mine>>
    BY <1>7 DEF Fill
  <2>3. Moved(finished, target) \in Seq(Files) /\ Moved(written, target) \in Seq(Files)
    BY MovedType DEF TypeInv, TypeOK
  <2>4. disk' \in [Files -> {Absent, Torn} \cup Contents]
    BY <2>1, <2>2 DEF TypeInv, TimeOK
  <2>5. \A f \in Files : disk'[f] \notin {Absent, Torn} => disk'[f].time \in 0..MaxTime
    BY <2>4, ContentType
  <2>6. TimeOK'
    BY <1>0, <2>2, <2>4 DEF TypeInv, TimeOK
  <2>. QED  BY <2>2, <2>3, <2>5, <2>6 DEF TypeInv, TypeOK
<1>8. CASE Prune
  <2>1. written # <<>> /\ Head(written) \in Files /\ Tail(written) \in Seq(Files)
    BY <1>0, <1>8, JobsAssumption DEF Prune, Excess
  <2>. QED  BY <1>8, <2>1 DEF Prune, TypeInv, TypeOK, TimeOK
<1>9. CASE PruneFails
  <2>1. Tail(written) \in Seq(Files)
    BY <1>0, <1>9, JobsAssumption DEF PruneFails, Excess
  <2>2. /\ UNCHANGED <<disk, proc, finished, mine, saved, hands>>
        /\ written' = Tail(written) /\ pc' = "off" /\ ended' = "io"
    BY <1>9 DEF PruneFails
  <2>. QED  BY <2>1, <2>2, TypeKept
<1>10. CASE Leave \/ LengthsRefused \/ Pruned \/ Dies
            \/ (\E j \in Jobs, f \in Files : ResumeRefused(j, f)) \/ UNCHANGED vars
  <2>1. /\ UNCHANGED <<disk, proc, finished, mine, saved, hands, written>>
        /\ pc' \in {pc, "off", "run"}
        /\ ended' \in {ended, "done", "lengths", "killed", "refused"}
    BY <1>10 DEF Leave, LengthsRefused, Pruned, Dies, ResumeRefused, vars
  <2>. QED  BY <2>1, TypeKept DEF TypeInv, TypeOK
<1>11. ASSUME NEW f \in Files, PersonDeletes(f)  PROVE TypeInv'
  BY <1>11, ContentType DEF PersonDeletes, TypeInv, TypeOK, TimeOK
<1>. QED
  BY <1>1, <1>2, <1>3, <1>4, <1>5, <1>6, <1>7, <1>8, <1>9, <1>10, <1>11
     DEF Next, ByProgram, ByHand

LEMMA TypeInit == Init => TypeInv
<1> SUFFICES ASSUME Init  PROVE TypeInv
  OBVIOUS
<1>1. job \in Jobs /\ job.dt \in Nat
  BY JobsAssumption DEF Init
<1>2. 0 + 0 * job.dt = 0 /\ Single \in Files /\ <<>> \in Seq(Files)
  BY <1>1 DEF Files
<1>3. TimeOK
  BY <1>1, <1>2, TimeAssumption DEF Init, TimeOK
<1>4. \A f \in Files : disk[f] = Absent
  BY DEF Init
<1>5. /\ t = 0 /\ left = 0 /\ done = 0 /\ next = 0 /\ pc = "off" /\ target = Single
      /\ written = <<>> /\ finished = <<>> /\ ended = "no" /\ mine = {} /\ hands = {}
  BY DEF Init
<1>6. closing \in BOOLEAN
  BY DEF Init
<1>7. t \in 0..MaxTime /\ mine \subseteq Files /\ hands \subseteq Files
  BY <1>5, TimeAssumption
<1>. QED  BY <1>1, <1>2, <1>3, <1>4, <1>5, <1>6, <1>7 DEF TypeInv, TypeOK

(* Types, and time inside its bound. *)
THEOREM TypeCorrect == Spec => []TypeOK
<1>1. TypeInv => TypeOK
  BY DEF TypeInv
<1>. QED  BY <1>1, TypeInit, TypeStep, PTL DEF Spec
-----------------------------------------------------------------------------
(* The inductive invariant. *)

(* While a process rotates its series, its list is the newer end of what it  *)
(* finished, no shorter than the rotation allows; every file on the list is  *)
(* its own, and every whole file of its own is on the list.                  *)
ListInv ==
    pc # "off" /\ job.route = "series" =>
        /\ EndOf(written, finished)
        /\ job.keep = 0 \/ Len(written) < job.keep => Len(written) = Len(finished)
        /\ pc # "prune" /\ job.keep > 0 => Len(written) <= job.keep
        /\ \A i \in 1..Len(written) : written[i] \in mine
        /\ \A f \in mine : Whole(f) => Listed(written, f)

(* The file under way carries the label of now; once it is truncated it is   *)
(* torn, unless somebody deleted it.                                         *)
TargetInv ==
    /\ pc \in {"open", "fill", "prune"} /\ job.route = "series" => target = Label(t)
    /\ pc = "fill" => /\ target \in mine
                      /\ disk[target] = Torn \/ (disk[target] = Absent /\ target \in hands)
    /\ pc = "prune" => job.route = "series" /\ saved = t
    /\ pc # "off" /\ job.route = "single" => written = <<>>

(* The next write falls due at most one interval after the last.             *)
ScheduleInv ==
    pc # "off" /\ job.route = "series" /\ job.transient /\ job.interval > 0 =>
        /\ next <= (IF pc \in {"open", "fill"} THEN t ELSE saved) + job.interval
        /\ pc = "run" => t = saved \/ t < next

Holds(f) == Whole(f) /\ disk[f].mesh = job.mesh /\ Label(disk[f].time) = f

FileOK(f) ==
    \/ f \in hands
    \/ Holds(f)
    \/ disk[f] = Torn /\ f = target /\ pc \in {"off", "fill"}

(* The newest `keep` files. *)
FileInv ==
    job.route = "series" =>
        \A i \in 1..Len(finished) :
            job.keep = 0 \/ Len(finished) - i < job.keep => FileOK(finished[i])

IInv == Once(finished) /\ ListInv /\ TargetInv /\ ScheduleInv /\ FileInv

LEMMA BeginInv ==
    ASSUME NEW j \in Jobs, NEW t0 \in Nat, Begin(j, t0)
    PROVE  IInv'
<1>1. /\ job' = j /\ pc' = "run" /\ t' = t0 /\ next' = t0 + j.interval
      /\ written' = <<>> /\ finished' = <<>> /\ mine' = {} /\ saved' = t0
  BY DEF Begin
<1>0. j.interval \in Nat /\ j.keep \in Nat
  BY JobsAssumption
<1>2. Once(finished)' /\ ListInv' /\ FileInv'
  <2>1. Once(<<>>) /\ EndOf(<<>>, <<>>)
    BY DEF Once, EndOf
  <2>2. FileInv'
    BY <1>1 DEF FileInv
  <2>3. ListInv'
    <3>1. \A i \in 1..Len(<<>>) : FALSE
      OBVIOUS
    <3>2. Len(<<>>) <= job'.keep
      BY <1>0, <1>1
    <3>. QED  BY <1>1, <2>1, <3>1, <3>2 DEF ListInv
  <2>. QED  BY <1>1, <2>1, <2>2, <2>3
<1>3. TargetInv' /\ ScheduleInv'
  BY <1>0, <1>1 DEF TargetInv, ScheduleInv
<1>. QED  BY <1>2, <1>3 DEF IInv

(* A process that is gone leaves the files as they are. *)
LEMMA OffInv ==
    ASSUME IInv, UNCHANGED <<disk, proc, finished, hands>>, pc' = "off"
    PROVE  IInv'
BY DEF IInv, ListInv, TargetInv, ScheduleInv, FileInv, FileOK, Holds, Whole, Once, proc

(* The file is written: it holds the state of its label, unless somebody     *)
(* deleted it meanwhile; the other files are as they were.                   *)
LEMMA FillInv ==
    ASSUME TypeInv, IInv, Fill
    PROVE  IInv'
<1> DEFINE new == Content(job.mesh, t)
<1>0. /\ written \in Seq(Files) /\ finished \in Seq(Files) /\ target \in Files
      /\ t \in 0..MaxTime /\ job \in Jobs /\ pc = "fill"
      /\ disk \in [Files -> {Absent, Torn} \cup Contents]
      /\ mine \subseteq Files
  BY DEF TypeInv, TypeOK, TimeOK, Fill
<1>1. /\ disk' = [disk EXCEPT ![target] = IF @ = Torn THEN new ELSE @]
      /\ finished' = Moved(finished, target) /\ saved' = t
      /\ hands' = IF disk[target] = Torn THEN hands \ {target} ELSE hands
      /\ job.route = "series" => written' = Moved(written, target) /\ pc' = "prune"
      /\ job.route # "series" => written' = written /\ pc' = "run"
      /\ UNCHANGED <<job, t, next, target, mine>>
  BY DEF Fill, proc
<1>2. Once(finished) /\ Once(finished')
  BY <1>0, <1>1, MovedList DEF IInv
<1>3. /\ new \notin {Absent, Torn} /\ new.mesh = job.mesh /\ new.time = t
      /\ Absent # Torn
  BY <1>0, ContentAssumption DEF Content
<1>4. /\ target \in mine
      /\ disk[target] = Torn \/ (disk[target] = Absent /\ target \in hands)
  BY <1>0 DEF IInv, TargetInv
<1>5. \A f \in Files \ {target} : disk'[f] = disk[f] /\ (f \in hands => f \in hands')
  BY <1>0, <1>1
<1>6. \/ disk'[target] = new
      \/ disk'[target] = Absent /\ target \in hands'
  BY <1>0, <1>1, <1>3, <1>4
<1>7. TargetInv'
  <2>1. job.route = "series" => target = Label(t)
    BY <1>0 DEF IInv, TargetInv
  <2>2. job.route = "single" => written = <<>>
    BY <1>0 DEF IInv, TargetInv
  <2>. QED  BY <1>1, <2>1, <2>2 DEF TargetInv
<1>8. ScheduleInv'
  BY <1>0, <1>1 DEF IInv, ScheduleInv
<1>9. ASSUME job.route = "series"  PROVE ListInv' /\ FileInv'
  <2> DEFINE w == Moved(written, target)
             s == Moved(finished, target)
  <2>0. EndOf(written, finished) /\ Once(written)
    BY <1>0, <1>2, <1>9 DEF IInv, ListInv, EndOf, Once
  <2>1. /\ EndOf(w, s)
        /\ Len(written) <= Len(w)
        /\ Len(written) = Len(finished) => Len(w) = Len(s)
    BY <1>0, <1>2, <2>0, MovedEnd
  <2>2. /\ w \in Seq(Files) /\ Len(w) > 0 /\ w[Len(w)] = target
        /\ \A g : Listed(written, g) => Listed(w, g)
        /\ FromOld(w, written, target)
    <3>1. written \in Seq(Files) /\ target \in Files
      BY <1>0
    <3>. QED  BY <2>0, <3>1, MovedList
  <2>3. /\ s \in Seq(Files) /\ Len(s) > 0 /\ s[Len(s)] = target
        /\ FromOld(s, finished, target)
    <3>1. finished \in Seq(Files) /\ target \in Files
      BY <1>0
    <3>. QED  BY <1>2, <3>1, MovedList
  <2>4. written' = w /\ finished' = s /\ pc' = "prune"
    BY <1>1, <1>9
  <2>. HIDE DEF w, s, new
  <2>5. job.keep \in Nat
    BY <1>0, JobsAssumption
  <2>6. job.keep = 0 \/ Len(w) < job.keep => Len(w) = Len(s)
    <3>1. job.keep = 0 \/ Len(written) < job.keep => Len(written) = Len(finished)
      BY <1>0, <1>9 DEF IInv, ListInv
    <3>. QED  BY <1>0, <2>1, <2>2, <2>5, <3>1
  <2>7. ASSUME NEW i \in 1..Len(w)  PROVE w[i] \in mine
    <3>1. CASE i = Len(w)
      BY <1>4, <2>2, <3>1
    <3>2. CASE i # Len(w)
      <4>1. i \in 1..(Len(w) - 1)
        BY <2>2, <3>2
      <4>2. PICK j \in 1..Len(written) : w[i] = written[j]
        BY <2>2, <4>1 DEF FromOld
      <4>. QED  BY <1>0, <1>9, <4>2 DEF IInv, ListInv
    <3>. QED  BY <3>1, <3>2
  <2>8. ASSUME NEW f \in mine, Whole(f)'  PROVE Listed(w, f)
    <3>1. CASE f = target
      <4>1. Len(w) \in 1..Len(w)
        BY <2>2
      <4>. QED  BY <2>2, <3>1, <4>1 DEF Listed
    <3>2. CASE f # target
      <4>1. Whole(f)
        BY <1>0, <1>5, <2>8, <3>2 DEF Whole
      <4>. QED  BY <1>0, <1>9, <2>2, <4>1 DEF IInv, ListInv
    <3>. QED  BY <3>1, <3>2
  <2>9. ListInv'
    BY <1>1, <2>1, <2>4, <2>6, <2>7, <2>8 DEF ListInv
  <2>10. ASSUME NEW i \in 1..Len(s), job.keep = 0 \/ Len(s) - i < job.keep,
                NEW f, f = s[i]
         PROVE  FileOK(f)'
    <3>1. CASE i = Len(s)
      <4>1. f = target /\ f = Label(t)
        BY <1>0, <1>9, <2>3, <2>10, <3>1 DEF IInv, TargetInv
      <4>. HIDE DEF Label
      <4>2. CASE disk'[f] = new
        <5>1. Whole(f)' /\ disk'[f].mesh = job.mesh /\ disk'[f].time = t
          BY <1>3, <4>2 DEF Whole
        <5>. QED  BY <1>1, <4>1, <5>1 DEF FileOK, Holds
      <4>3. CASE f \in hands'
        BY <4>3 DEF FileOK
      <4>. QED  BY <1>6, <4>1, <4>2, <4>3
    <3>2. CASE i # Len(s)
      <4>1. i \in 1..(Len(s) - 1)
        BY <2>3, <3>2
      <4>2. PICK j \in 1..Len(finished) : /\ s[i] = finished[j]
                                          /\ Len(finished) - j <= Len(s) - i
        BY <2>3, <4>1 DEF FromOld
      <4>3. job.keep = 0 \/ Len(finished) - j < job.keep
        BY <1>0, <2>3, <2>5, <2>10, <4>2
      <4>4. f # target /\ f \in Files
        BY <2>3, <2>10, <4>1 DEF FromOld
      <4>5. FileOK(f)
        BY <1>9, <2>10, <4>2, <4>3 DEF IInv, FileInv
      <4>6. disk'[f] = disk[f] /\ (f \in hands => f \in hands')
        BY <1>5, <4>4
      <4>7. f \in hands \/ Holds(f)
        BY <4>4, <4>5 DEF FileOK
      <4>. QED  BY <1>1, <4>6, <4>7 DEF FileOK, Holds, Whole
    <3>. QED  BY <3>1, <3>2
  <2>11. FileInv'
    BY <1>1, <2>4, <2>10 DEF FileInv
  <2>. QED  BY <2>9, <2>11
<1>10. ASSUME job.route # "series"  PROVE ListInv' /\ FileInv'
  BY <1>1, <1>10 DEF ListInv, FileInv
<1>. QED  BY <1>2, <1>7, <1>8, <1>9, <1>10 DEF IInv

(* The oldest of the list goes: it is not among the newest `keep`. *)
LEMMA PruneInv ==
    ASSUME TypeInv, IInv, Prune
    PROVE  IInv'
<1>0. /\ written \in Seq(Files) /\ finished \in Seq(Files) /\ pc = "prune"
      /\ job.keep \in Nat \ {0} /\ Len(written) > job.keep
      /\ disk \in [Files -> {Absent, Torn} \cup Contents]
      /\ mine \subseteq Files
      /\ job.route = "series" /\ saved = t
  BY JobsAssumption DEF TypeInv, TypeOK, TimeOK, Prune, Excess, IInv, TargetInv
<1> DEFINE n == Len(written)
           m == Len(finished)
           u == Tail(written)
<1>h. PICK h \in Files : h = written[1]
  BY <1>0
<1>1. /\ disk' = [disk EXCEPT ![h] = Absent]
      /\ written' = u
      /\ UNCHANGED <<job, t, next, target, pc, finished, mine, saved, hands>>
  BY <1>0, <1>h DEF Prune, proc
<1>2. /\ n \in Nat /\ m \in Nat /\ n <= m /\ n > 1
      /\ \A i \in 1..n : written[i] = finished[m - n + i] /\ m - n + i \in 1..m
      /\ \A i \in 1..n : written[i] \in mine
      /\ \A f \in mine : Whole(f) => Listed(written, f)
  BY <1>0 DEF IInv, ListInv, EndOf
<1>3. Len(u) = n - 1 /\ \A i \in 1..(n - 1) : u[i] = written[i + 1]
  BY <1>0, <1>2
<1>. HIDE DEF u
<1>4. disk'[h] = Absent /\ \A f \in Files \ {h} : disk'[f] = disk[f]
  BY <1>0, <1>1
<1>5. ~Whole(h)'
  BY <1>4 DEF Whole
<1>6. EndOf(u, finished)
  <2>1. ASSUME NEW i \in 1..Len(u)  PROVE u[i] = finished[m - Len(u) + i]
    <3>1. i + 1 \in 1..n /\ i \in 1..(n - 1) /\ m - Len(u) + i = m - n + (i + 1)
      BY <1>2, <1>3
    <3>. QED  BY <1>2, <1>3, <3>1
  <2>. QED  BY <1>2, <1>3, <2>1 DEF EndOf
<1>7. ASSUME NEW i \in 1..Len(u)  PROVE u[i] \in mine
  <2>1. i + 1 \in 1..n /\ i \in 1..(n - 1)
    BY <1>2, <1>3
  <2>. QED  BY <1>2, <1>3, <2>1
<1>8. ASSUME NEW f \in mine, Whole(f)'  PROVE Listed(u, f)
  <2>1. f # h /\ Whole(f)
    <3>1. f # h /\ f \in Files
      BY <1>0, <1>5, <1>8
    <3>. QED  BY <1>4, <1>8, <3>1 DEF Whole
  <2>2. PICK i \in 1..n : written[i] = f
    BY <1>2, <2>1 DEF Listed
  <2>9. i # 1
    BY <1>h, <2>1, <2>2
  <2>3. i - 1 \in 1..(n - 1) /\ (i - 1) + 1 = i
    BY <1>2, <2>9
  <2>4. u[i - 1] = f
    BY <1>3, <2>2, <2>3
  <2>. QED  BY <1>3, <2>3, <2>4 DEF Listed
<1>9. ListInv'
  BY <1>0, <1>1, <1>2, <1>3, <1>6, <1>7, <1>8 DEF ListInv
<1>10. TargetInv'
  BY <1>0, <1>1 DEF IInv, TargetInv
<1>11. ScheduleInv'
  BY <1>0, <1>1 DEF IInv, ScheduleInv
<1>12. ASSUME NEW i \in 1..m, m - i < job.keep, NEW f, f = finished[i]
       PROVE  FileOK(f)'
  <2>1. f # h
    <3>1. m - n + 1 \in 1..m /\ h = finished[m - n + 1] /\ i # m - n + 1
      BY <1>0, <1>2, <1>h, <1>12
    <3>. QED  BY <1>12, <3>1 DEF IInv, Once
  <2>2. f \in Files /\ FileOK(f)
    BY <1>0, <1>12 DEF IInv, FileInv
  <2>4. disk'[f] = disk[f]
    BY <1>4, <2>1, <2>2
  <2>. QED  BY <1>1, <2>2, <2>4 DEF FileOK, Holds, Whole
<1>13. FileInv'
  BY <1>0, <1>1, <1>12 DEF FileInv
<1>14. Once(finished)'
  BY <1>1 DEF IInv
<1>. QED  BY <1>9, <1>10, <1>11, <1>13, <1>14 DEF IInv

LEMMA Invariance == TypeInv /\ IInv /\ [Next]_vars => IInv'
<1> SUFFICES ASSUME TypeInv, IInv, [Next]_vars  PROVE IInv'
  OBVIOUS
<1>0. /\ job \in Jobs /\ t \in Nat /\ next \in Nat /\ saved \in 0..t
      /\ job.dt \in Nat \ {0} /\ job.interval \in Nat /\ job.keep \in Nat
      /\ job.route \in {"series", "single"}
      /\ disk \in [Files -> {Absent, Torn} \cup Contents]
      /\ mine \subseteq Files /\ target \in Files /\ finished \in Seq(Files)
      /\ written \in Seq(Files)
  BY JobsAssumption DEF TypeInv, TypeOK, TimeOK
<1>1. ASSUME NEW j \in Jobs, Start(j)  PROVE IInv'
  BY <1>1, BeginInv DEF Start
<1>2. ASSUME NEW j \in Jobs, NEW f \in Files, Resume(j, f)  PROVE IInv'
  <2> DEFINE t0 == disk[f].time
  <2>1. t0 \in Nat /\ Begin(j, t0)
    BY <1>2 DEF Resume, Readable, Whole, TypeInv, TypeOK
  <2>. HIDE DEF t0
  <2>. QED  BY <2>1, BeginInv
<1>3. CASE Step \/ TouchDown \/ Final
  <2>1. /\ UNCHANGED <<disk, job, written, finished, mine, saved, hands>>
        /\ pc = "run" /\ pc' \in {"run", "open"}
    BY <1>3 DEF Step, TouchDown, Final
  <2>2. Once(finished)' /\ ListInv'
    BY <2>1 DEF IInv, ListInv, Whole
  <2>3. TargetInv' /\ ScheduleInv'
    <3>1. CASE Step
      <4> DEFINE now == t + (IF job.transient THEN job.dt ELSE 1)
      <4>1. /\ t' = now
            /\ next' = IF DueSeries(now) THEN next + job.interval ELSE next
            /\ target' = IF DueSeries(now) THEN Label(now)
                         ELSE IF DueSingle THEN Single ELSE target
            /\ pc' = IF DueSeries(now) \/ DueSingle THEN "open" ELSE "run"
        BY <3>1 DEF Step
      <4>2. now \in Nat /\ (job.transient => now = t + job.dt)
        BY <1>0
      <4>. HIDE DEF now
      <4>3. TargetInv'
        BY <2>1, <4>1 DEF IInv, TargetInv, DueSeries, DueSingle
      <4>4. ASSUME job.route = "series", job.transient, job.interval > 0
            PROVE  ScheduleInv'
        <5>1. /\ next <= saved + job.interval
              /\ DueSeries(now) <=> now >= next
              /\ ~DueSingle
          BY <2>1, <4>4 DEF IInv, ScheduleInv, DueSeries, DueSingle, Due
        <5>2. CASE now >= next
          BY <1>0, <2>1, <4>1, <4>2, <5>1, <5>2 DEF ScheduleInv
        <5>3. CASE now < next
          BY <1>0, <2>1, <4>1, <4>2, <5>1, <5>3 DEF ScheduleInv
        <5>. QED  BY <1>0, <4>2, <5>2, <5>3
      <4>5. CASE ~(job.route = "series" /\ job.transient /\ job.interval > 0)
        <5>1. job' = job
          BY <2>1
        <5>. QED  BY <4>3, <4>5, <5>1 DEF ScheduleInv
      <4>. QED  BY <4>3, <4>4, <4>5
    <3>2. CASE TouchDown
      BY <2>1, <3>2 DEF TouchDown, IInv, TargetInv, ScheduleInv
    <3>3. CASE Final
      <4>1. /\ target' = Label(t) /\ pc' = "open" /\ UNCHANGED <<t, next>>
            /\ job.route = "series"
        BY <3>3 DEF Final
      <4>2. TargetInv'
        BY <2>1, <4>1 DEF TargetInv
      <4>3. ScheduleInv'
        BY <1>0, <2>1, <4>1 DEF IInv, ScheduleInv
      <4>. QED  BY <4>2, <4>3
    <3>. QED  BY <1>3, <3>1, <3>2, <3>3
  <2>4. FileInv'
    BY <2>1 DEF IInv, FileInv, FileOK, Holds, Whole
  <2>. QED  BY <2>2, <2>3, <2>4 DEF IInv
<1>4. CASE Create
  <2>1. /\ disk' = [disk EXCEPT ![target] = Torn]
        /\ mine' = mine \cup {target}
        /\ pc = "open" /\ pc' = "fill"
        /\ UNCHANGED <<job, t, next, target, written, finished, saved, hands>>
    BY <1>4 DEF Create, proc
  <2>2. disk'[target] = Torn /\ \A f \in Files \ {target} : disk'[f] = disk[f]
    BY <1>0, <2>1
  <2>3. ListInv'
    <3>1. \A f \in mine' : Whole(f)' => f \in mine /\ Whole(f)
      BY <1>0, <2>1, <2>2 DEF Whole
    <3>. QED  BY <2>1, <3>1 DEF IInv, ListInv
  <2>4. TargetInv' /\ ScheduleInv'
    BY <2>1, <2>2 DEF IInv, TargetInv, ScheduleInv
  <2>5. \A f \in Files : FileOK(f) => FileOK(f)'
    BY <2>1, <2>2 DEF FileOK, Holds, Whole
  <2>6. FileInv'
    BY <1>0, <2>1, <2>5 DEF IInv, FileInv
  <2>7. Once(finished)'
    BY <2>1 DEF IInv
  <2>. QED  BY <2>3, <2>4, <2>6, <2>7 DEF IInv
<1>5. CASE Pruned
  <2>1. /\ pc = "prune" /\ pc' = "run" /\ ~Excess
        /\ UNCHANGED <<disk, job, t, next, target, written, finished, mine, saved, hands>>
    BY <1>5 DEF Pruned, proc
  <2>2. job.keep > 0 => Len(written) <= job.keep
    BY <1>0, <2>1 DEF Excess
  <2>3. saved = t
    BY <2>1 DEF IInv, TargetInv
  <2>4. Once(finished)' /\ ListInv'
    BY <2>1, <2>2 DEF IInv, ListInv, Whole
  <2>5. TargetInv' /\ ScheduleInv'
    BY <2>1, <2>3 DEF IInv, TargetInv, ScheduleInv
  <2>6. FileInv'
    BY <2>1 DEF IInv, FileInv, FileOK, Holds, Whole
  <2>. QED  BY <2>4, <2>5, <2>6 DEF IInv
<1>6. ASSUME NEW f \in Files, PersonDeletes(f)  PROVE IInv'
  <2>1. /\ disk' = [disk EXCEPT ![f] = Absent]
        /\ hands' = hands \cup {f}
        /\ UNCHANGED <<job, t, next, target, pc, written, finished, mine, saved>>
    BY <1>6 DEF PersonDeletes, proc
  <2>2. disk'[f] = Absent /\ \A g \in Files \ {f} : disk'[g] = disk[g]
    BY <1>0, <2>1
  <2>3. \A g \in Files : /\ Whole(g)' => Whole(g)
                         /\ FileOK(g) => FileOK(g)'
    BY <2>1, <2>2 DEF FileOK, Holds, Whole
  <2>4. Once(finished)' /\ ListInv'
    BY <1>0, <2>1, <2>3 DEF IInv, ListInv
  <2>5. TargetInv' /\ ScheduleInv'
    BY <1>0, <2>1, <2>2 DEF IInv, TargetInv, ScheduleInv
  <2>6. FileInv'
    BY <1>0, <2>1, <2>3 DEF IInv, FileInv
  <2>. QED  BY <2>4, <2>5, <2>6 DEF IInv
<1>7. CASE Leave \/ LengthsRefused \/ PruneFails \/ Dies
            \/ (\E j \in Jobs, f \in Files : ResumeRefused(j, f))
  <2>1. UNCHANGED <<disk, proc, finished, hands>> /\ pc' = "off"
    BY <1>7 DEF Leave, LengthsRefused, PruneFails, Dies, ResumeRefused, MayStart
  <2>. QED  BY <2>1, OffInv
<1>8. CASE UNCHANGED vars
  BY <1>8 DEF IInv, ListInv, TargetInv, ScheduleInv, FileInv, FileOK, Holds, Whole, Once,
              vars, proc
<1>. QED
  BY <1>1, <1>2, <1>3, <1>4, <1>5, <1>6, <1>7, <1>8, FillInv, PruneInv
     DEF Next, ByProgram, ByHand

LEMMA InvInit == Init => IInv
BY DEF Init, IInv, Once, ListInv, TargetInv, ScheduleInv, FileInv

LEMMA Invariant == Spec => [](TypeInv /\ IInv)
BY TypeInit, TypeStep, InvInit, Invariance, PTL DEF Spec
-----------------------------------------------------------------------------
(* What follows. *)

(* What is kept is the newer end of what was finished. *)
LEMMA KeptEnd ==
    ASSUME TypeInv
    PROVE  /\ Kept \in Seq(Files)
           /\ EndOf(Kept, finished)
           /\ Len(Kept) = IF job.keep > 0 /\ Len(finished) > job.keep
                            THEN job.keep ELSE Len(finished)
<1>1. finished \in Seq(Files) /\ job.keep \in Nat
  BY JobsAssumption DEF TypeInv, TypeOK
<1>2. CASE job.keep = 0
  BY <1>1, <1>2 DEF Kept, EndOf
<1>3. CASE job.keep # 0
  <2>1. Kept = Newest(finished, job.keep) /\ job.keep \in Nat \ {0}
    BY <1>1, <1>3 DEF Kept
  <2>. QED  BY <1>1, <2>1, NewestEnd
<1>. QED  BY <1>2, <1>3

(* The newest `keep` files are whole at every moment, and hold the state of  *)
(* their labels.                                                             *)
THEOREM NewestAreDurable == Spec => []Durable
<1>1. TypeInv /\ IInv => Durable
  <2> SUFFICES ASSUME TypeInv, IInv, job.route = "series", NEW i \in 1..Len(Kept)
               PROVE  \/ Kept[i] \in hands
                      \/ /\ Whole(Kept[i]) /\ disk[Kept[i]].mesh = job.mesh
                         /\ Label(disk[Kept[i]].time) = Kept[i]
                      \/ disk[Kept[i]] = Torn /\ Kept[i] = target
    BY DEF Durable
  <2>1. finished \in Seq(Files) /\ job.keep \in Nat
    BY JobsAssumption DEF TypeInv, TypeOK
  <2>2. /\ Kept \in Seq(Files)
        /\ EndOf(Kept, finished)
        /\ Len(Kept) = IF job.keep > 0 /\ Len(finished) > job.keep
                         THEN job.keep ELSE Len(finished)
    BY KeptEnd
  <2> DEFINE k == Len(finished) - Len(Kept) + i
  <2>3. /\ k \in 1..Len(finished) /\ Kept[i] = finished[k]
        /\ job.keep = 0 \/ Len(finished) - k < job.keep
    BY <2>1, <2>2 DEF EndOf
  <2>. HIDE DEF k
  <2>4. FileOK(finished[k])
    BY <2>3 DEF IInv, FileInv
  <2>. QED  BY <2>3, <2>4 DEF FileOK, Holds
<1>. QED  BY <1>1, Invariant, PTL

(* Between two steps the list is exactly the newest `keep` files, and no     *)
(* whole file of the process is off it.                                      *)
THEOREM ListIsSeries == Spec => []SeriesOK
<1>1. TypeInv /\ IInv => SeriesOK
  <2> SUFFICES ASSUME TypeInv, IInv, pc = "run", job.route = "series"
               PROVE  /\ written = Kept
                      /\ \A f \in Files : Whole(f) /\ f \in mine =>
                           \E i \in 1..Len(written) : written[i] = f
    BY DEF SeriesOK
  <2>1. /\ finished \in Seq(Files) /\ written \in Seq(Files) /\ job.keep \in Nat
    BY JobsAssumption DEF TypeInv, TypeOK
  <2>2. /\ Kept \in Seq(Files)
        /\ EndOf(Kept, finished)
        /\ Len(Kept) = IF job.keep > 0 /\ Len(finished) > job.keep
                         THEN job.keep ELSE Len(finished)
    BY KeptEnd
  <2>3. /\ EndOf(written, finished)
        /\ job.keep = 0 \/ Len(written) < job.keep => Len(written) = Len(finished)
        /\ job.keep > 0 => Len(written) <= job.keep
        /\ \A f \in mine : Whole(f) => Listed(written, f)
    BY DEF IInv, ListInv
  <2>4. Len(written) = Len(Kept)
    BY <2>1, <2>2, <2>3 DEF EndOf
  <2>5. written = Kept
    <3>. HIDE DEF Kept
    <3>. QED  BY <2>1, <2>2, <2>3, <2>4, SameEnd
  <2>. QED  BY <2>3, <2>5 DEF Listed
<1>. QED  BY <1>1, Invariant, PTL

(* A death between two steps loses less than an interval of work.            *)
THEOREM LossIsBounded == Spec => []BoundedLoss
<1>1. TypeInv /\ IInv => BoundedLoss
  <2>1. TypeInv => t \in Nat /\ saved \in Nat /\ next \in Nat /\ job.interval \in Nat
    BY JobsAssumption DEF TypeInv, TypeOK, TimeOK
  <2>. QED  BY <2>1 DEF IInv, ScheduleInv, BoundedLoss
<1>. QED  BY <1>1, Invariant, PTL

(* The program removes nothing but files of this very process.               *)
THEOREM RemovesOnlyItsOwn == Spec => ForeignSafe
<1> DEFINE Safe == ByProgram =>
              \A f \in Files : disk[f] # Absent /\ disk'[f] = Absent => f \in mine
<1>1. TypeInv /\ IInv /\ [Next]_vars => [Safe]_vars
  <2> SUFFICES ASSUME TypeInv, IInv, ByProgram,
                      NEW f \in Files, disk[f] # Absent, disk'[f] = Absent
               PROVE  f \in mine
    OBVIOUS
  <2>0. /\ disk \in [Files -> {Absent, Torn} \cup Contents] /\ target \in Files
        /\ written \in Seq(Files) /\ job \in Jobs /\ t \in 0..MaxTime
        /\ Content(job.mesh, t) # Absent /\ Torn # Absent
    BY ContentAssumption DEF TypeInv, TypeOK, TimeOK
  <2>1. CASE Create
    BY <2>0, <2>1 DEF Create
  <2>2. CASE Fill
    <3>1. target \in mine
      BY <2>2 DEF Fill, IInv, TargetInv
    <3>. HIDE DEF Content
    <3>. QED  BY <2>0, <2>2, <3>1 DEF Fill
  <2>3. CASE Prune
    <3>1. pc = "prune" /\ written # <<>> /\ disk' = [disk EXCEPT ![Head(written)] = Absent]
      BY <2>0, <2>3, JobsAssumption DEF Prune, Excess
    <3>2. Head(written) = written[1] /\ 1 \in 1..Len(written)
      BY <2>0, <3>1
    <3>3. written[1] \in mine
      BY <3>1, <3>2 DEF IInv, ListInv, TargetInv
    <3>. QED  BY <2>0, <3>1, <3>2, <3>3
  <2>4. ASSUME disk' = disk  PROVE FALSE
    BY <2>4
  <2>. QED
    BY <2>1, <2>2, <2>3, <2>4
       DEF ByProgram, Start, Resume, ResumeRefused, Step, TouchDown, Final, Leave,
           LengthsRefused, PruneFails, Pruned, Dies
<1>. QED  BY <1>1, Invariant, PTL DEF Spec, ForeignSafe

(* The rotation keeps its list right and removes nothing of anybody else.    *)
THEOREM RotationIsSound == Spec => RotationOK
<1>. QED  BY ListIsSeries, RemovesOnlyItsOwn, PTL DEF RotationOK
=============================================================================
