--------------------------- MODULE RunStreamProofs ---------------------------
(***************************************************************************)
(* The stream of one run to one tab, for every ring, batch and number of   *)
(* connections: types, and that the only lines a tab misses are the ones   *)
(* the ring of the server has dropped.                                     *)
(***************************************************************************)
EXTENDS RunStreamProps, SequenceTheorems, Counting

-----------------------------------------------------------------------------
(* Numbers. *)

LEMMA MaxPair ==
    ASSUME NEW a \in Int, NEW b \in Int
    PROVE  Max({a, b}) \in {a, b} /\ Max({a, b}) >= a /\ Max({a, b}) >= b
<1>1. \E x \in {a, b} : \A y \in {a, b} : x >= y
  <2>1. CASE a >= b
    BY <2>1
  <2>2. CASE ~(a >= b)
    BY <2>2
  <2>. QED  BY <2>1, <2>2
<1>2. Max({a, b}) \in {a, b} /\ \A y \in {a, b} : Max({a, b}) >= y
  BY <1>1 DEF Max
<1>. QED  BY <1>2

LEMMA MinPair ==
    ASSUME NEW a \in Int, NEW b \in Int
    PROVE  Min({a, b}) \in {a, b} /\ Min({a, b}) <= a /\ Min({a, b}) <= b
<1>1. \E x \in {a, b} : \A y \in {a, b} : x <= y
  <2>1. CASE a <= b
    BY <2>1
  <2>2. CASE ~(a <= b)
    BY <2>2
  <2>. QED  BY <2>1, <2>2
<1>2. Min({a, b}) \in {a, b} /\ \A y \in {a, b} : Min({a, b}) <= y
  BY <1>1 DEF Min
<1>. QED  BY <1>2

(* The number of the batch a line is in, and its place there. *)
LEMMA InBatch ==
    ASSUME NEW B \in Nat \ {0}, NEW x \in Nat
    PROVE  /\ x \div B \in Nat
           /\ (x \div B) * B <= x /\ x < (x \div B) * B + B
OBVIOUS

(* The number of batches. *)
LEMMA Batches ==
    ASSUME NEW B \in Nat \ {0}, NEW N \in Nat
    PROVE  /\ (N + B - 1) \div B \in Nat
           /\ N <= ((N + B - 1) \div B) * B
           /\ \A i \in 1..((N + B - 1) \div B) : (i - 1) * B < N
<1> DEFINE K == (N + B - 1) \div B
<1>1. K \in Nat /\ K * B <= N + B - 1 /\ N + B - 1 < K * B + B
  BY InBatch
<1>. HIDE DEF K
<1>2. ASSUME NEW i \in 1..K  PROVE (i - 1) * B < N
  <2>1. (i - 1) * B <= (K - 1) * B
    BY <1>1
  <2>2. (K - 1) * B = K * B - B
    BY <1>1
  <2>3. (i - 1) * B \in Int /\ K * B \in Int
    BY <1>1
  <2>. QED  BY <1>1, <2>1, <2>2, <2>3
<1>3. K * B \in Int
  BY <1>1
<1>. QED  BY <1>1, <1>2, <1>3 DEF K

-----------------------------------------------------------------------------
(* Lines and frames. *)

(* The lines of the first n frames. *)
LinesOf(d, n) ==
    {y \in 1..MaxLines : \E i \in 1..n : \E j \in 1..Len(d[i].lines) : d[i].lines[j] = y}

(* Before each of these lines come all those that are held, but for those    *)
(* that were seen already.                                                   *)
Gapless(lines, seen, held) ==
    \A k \in 1..Len(lines) : \A y \in held..(lines[k] - 1) :
        y \in seen \/ \E j \in 1..(k - 1) : lines[j] = y

NoHoles(s, held) ==
    \A i \in 1..Len(s) :
        LET before == IF i = 1 THEN 0 ELSE s[i - 1]
        IN /\ before < s[i]
           /\ s[i] # before + 1 => s[i] <= held

(* Frames whose lines come without a gap; only a frame of the log has lines. *)
FramesOK(d, seen, held) ==
    \A i \in 1..Len(d) :
        /\ d[i].t # "run.log" => d[i].lines = <<>>
        /\ Gapless(d[i].lines, seen \cup LinesOf(d, i - 1), held)

LEMMA GaplessMore ==
    ASSUME NEW lines, NEW seen, NEW more, NEW held \in Int, NEW later \in Int,
           Gapless(lines, seen, held), seen \subseteq more, held <= later,
           \A k \in 1..Len(lines) : lines[k] \in Int
    PROVE  Gapless(lines, more, later)
<1> SUFFICES ASSUME NEW k \in 1..Len(lines), NEW y \in later..(lines[k] - 1)
             PROVE  y \in more \/ \E j \in 1..(k - 1) : lines[j] = y
  BY DEF Gapless
<1>1. y \in held..(lines[k] - 1)
  OBVIOUS
<1>. QED  BY <1>1 DEF Gapless

LEMMA LastType ==
    ASSUME NEW s \in LineSeq
    PROVE  /\ LastSeq(s) \in Nat /\ LastSeq(s) <= MaxLines
           /\ s # <<>> => Len(s) \in 1..Len(s) /\ LastSeq(s) = s[Len(s)]
           /\ s = <<>> => LastSeq(s) = 0
BY EmptySeq, RingAssumption DEF LastSeq, Last, LineSeq

(* One line: taken when it is new. *)
LEMMA TakeLineOK ==
    ASSUME NEW have \in LineSeq, NEW n \in 1..MaxLines, NEW held \in Int,
           NoHoles(have, held),
           LastSeq(have) + 1 >= n \/ n <= held
    PROVE  /\ TakeLine(have, n) \in LineSeq
           /\ NoHoles(TakeLine(have, n), held)
           /\ LastSeq(TakeLine(have, n)) >= LastSeq(have)
           /\ LastSeq(TakeLine(have, n)) >= n
<1>0. have \in Seq(1..MaxLines) /\ MaxLines \in Nat
  BY RingAssumption DEF LineSeq
<1>1. LastSeq(have) \in Nat
  BY LastType
<1>2. CASE ~(n > LastSeq(have))
  BY <1>1, <1>2 DEF TakeLine
<1>3. CASE n > LastSeq(have)
  <2> DEFINE s == Append(have, n)
  <2>1. TakeLine(have, n) = s
    BY <1>3 DEF TakeLine
  <2>2. /\ s \in Seq(1..MaxLines) /\ s # <<>> /\ Len(s) = Len(have) + 1 /\ Len(have) \in Nat
        /\ \A i \in 1..Len(have) : s[i] = have[i]
        /\ s[Len(have) + 1] = n
    BY <1>0, AppendProperties
  <2>. HIDE DEF s
  <2>3. LastSeq(s) = n
    BY <2>2 DEF LastSeq, Last
  <2>4. NoHoles(s, held)
    <3> SUFFICES ASSUME NEW i \in 1..Len(s)
                 PROVE  LET before == IF i = 1 THEN 0 ELSE s[i - 1]
                        IN before < s[i] /\ (s[i] # before + 1 => s[i] <= held)
      BY DEF NoHoles
    <3>1. CASE i <= Len(have)
      <4>1. s[i] = have[i] /\ (i # 1 => s[i - 1] = have[i - 1])
        BY <2>2, <3>1
      <4>. QED  BY <2>2, <3>1, <4>1 DEF NoHoles
    <3>2. CASE i = Len(have) + 1
      <4>1. s[i] = n
        BY <2>2, <3>2
      <4>2. (IF i = 1 THEN 0 ELSE s[i - 1]) = LastSeq(have)
        <5>1. CASE have = <<>>
          BY <3>2, <5>1 DEF LastSeq
        <5>2. CASE have # <<>>
          <6>1. Len(have) \in 1..Len(have) /\ i # 1 /\ i - 1 = Len(have)
            BY <2>2, <3>2, <5>2, <1>0, EmptySeq
          <6>. QED  BY <2>2, <5>2, <6>1 DEF LastSeq, Last
        <5>. QED  BY <5>1, <5>2
      <4>. QED  BY <1>1, <1>3, <4>1, <4>2
    <3>. QED  BY <2>2, <3>1, <3>2
  <2>. QED  BY <1>1, <1>3, <2>1, <2>2, <2>3, <2>4 DEF LineSeq
<1>. QED  BY <1>2, <1>3

(* A list of lines is taken line by line. *)
LEMMA PushLogsSteps ==
    ASSUME NEW have \in LineSeq, NEW lines \in LineSeq
    PROVE  \E t \in [0..Len(lines) -> LineSeq] :
             /\ t[0] = have
             /\ \A k \in 1..Len(lines) : t[k] = TakeLine(t[k - 1], lines[k])
             /\ PushLogs(have, lines) = t[Len(lines)]
<1> DEFINE N == Len(lines)
           F(g) == g = [k \in 0..N |-> IF k = 0 THEN have ELSE TakeLine(g[k - 1], lines[k])]
           t == CHOOSE g : F(g)
<1>0. /\ N \in Nat /\ MaxLines \in Nat
      /\ \A k \in 1..N : lines[k] \in 1..MaxLines
  BY RingAssumption DEF LineSeq
<1>1. \A s \in LineSeq, n \in 1..MaxLines : TakeLine(s, n) \in LineSeq
  BY AppendProperties DEF TakeLine, LineSeq
<1>2. \E g : F(g)
  <2> DEFINE step == [k \in 1..N |-> [s \in LineSeq |-> TakeLine(s, lines[k])]]
  <2>1. step \in [1..N -> [LineSeq -> LineSeq]]
    BY <1>0, <1>1
  <2>2. \A k \in 1..N, s \in LineSeq : step[k][s] = TakeLine(s, lines[k])
    OBVIOUS
  <2>. HIDE DEF step
  <2>3. PICK f \in [0..N -> LineSeq] : f[0] = have /\ \A k \in 1..N : f[k] = step[k][f[k - 1]]
    <3>1. PICK f : IsFold(f, N, LineSeq, have, step)
      <4>. HIDE DEF N
      <4>. QED  BY <1>0, <2>1, FoldExists
    <3>. QED  BY <3>1 DEF IsFold
  <2>4. \A k \in 1..N : f[k] = TakeLine(f[k - 1], lines[k])
    <3>1. \A k \in 1..N : f[k - 1] \in LineSeq
      BY <1>0
    <3>. QED  BY <2>2, <2>3, <3>1
  <2>5. F(f)
    BY <1>0, <2>3, <2>4
  <2>. QED  BY <2>5
<1>3. PushLogs(have, lines) = t[N]
  BY DEF PushLogs
<1>4. F(t)
  <2>. HIDE DEF F
  <2>. QED  BY <1>2
<1>5. t[0] = have /\ \A k \in 1..N : t[k] = TakeLine(t[k - 1], lines[k])
  <2>. HIDE DEF t
  <2>. QED  BY <1>0, <1>4
<1>. HIDE DEF t, F
<1>6. t \in [0..N -> LineSeq]
  <2> DEFINE P == {n \in 0..N : t[n] \in LineSeq}
  <2>1. 0 \in P
    BY <1>0, <1>5
  <2>2. ASSUME NEW n \in 0..(N - 1), n \in P  PROVE n + 1 \in P
    <3>1. n + 1 \in 1..N /\ (n + 1) - 1 = n
      BY <1>0
    <3>2. t[n + 1] = TakeLine(t[n], lines[n + 1])
      BY <1>5, <3>1
    <3>. QED  BY <1>0, <1>1, <2>2, <3>1, <3>2
  <2>3. \A n \in 0..N : t[n] \in LineSeq
    <3>. HIDE DEF P, N
    <3>1. \A n \in 0..N : n \in P
      BY <1>0, <2>1, <2>2, EveryPlace
    <3>. QED  BY <3>1 DEF P
  <2>4. t = [k \in 0..N |-> t[k]]
    <3>1. t = [k \in 0..N |-> IF k = 0 THEN have ELSE TakeLine(t[k - 1], lines[k])]
      BY <1>4 DEF F
    <3>. HIDE DEF N
    <3>. QED  BY <3>1
  <2>. QED  BY <2>3, <2>4
<1>. QED  BY <1>3, <1>5, <1>6

(* A list of lines: taken without a hole when it comes without a gap. *)
LEMMA PushLogsOK ==
    ASSUME NEW have \in LineSeq, NEW lines \in LineSeq, NEW held \in Int, NEW seen,
           NoHoles(have, held), Gapless(lines, seen, held),
           \A y \in seen : y \in Int /\ y <= LastSeq(have)
    PROVE  /\ PushLogs(have, lines) \in LineSeq
           /\ NoHoles(PushLogs(have, lines), held)
           /\ LastSeq(PushLogs(have, lines)) >= LastSeq(have)
           /\ \A j \in 1..Len(lines) : lines[j] <= LastSeq(PushLogs(have, lines))
<1> DEFINE N == Len(lines)
<1>0. /\ N \in Nat /\ MaxLines \in Nat
      /\ \A k \in 1..N : lines[k] \in 1..MaxLines
  BY RingAssumption DEF LineSeq
<1>3. PICK t \in [0..N -> LineSeq] :
        /\ t[0] = have
        /\ \A k \in 1..N : t[k] = TakeLine(t[k - 1], lines[k])
        /\ PushLogs(have, lines) = t[N]
  BY PushLogsSteps
<1>5. t[0] = have /\ \A k \in 1..N : t[k] = TakeLine(t[k - 1], lines[k])
  BY <1>3
<1> DEFINE Good(n) == /\ t[n] \in LineSeq
                      /\ NoHoles(t[n], held)
                      /\ LastSeq(t[n]) >= LastSeq(have)
                      /\ \A j \in 1..n : lines[j] <= LastSeq(t[n])
           P == {n \in 0..N : Good(n)}
<1>6. 0 \in P
  BY <1>0, <1>5, LastType
<1>7. ASSUME NEW n \in 0..(N - 1), n \in P  PROVE n + 1 \in P
  <2>1. /\ n + 1 \in 1..N /\ t[n + 1] = TakeLine(t[n], lines[n + 1])
        /\ lines[n + 1] \in 1..MaxLines
    BY <1>0, <1>5
  <2>2. Good(n)
    BY <1>7
  <2>3. LastSeq(t[n]) \in Nat /\ LastSeq(have) \in Nat
    BY <2>2, LastType
  <2>4. LastSeq(t[n]) + 1 >= lines[n + 1] \/ lines[n + 1] <= held
    <3> SUFFICES ASSUME lines[n + 1] > held, lines[n + 1] - 1 > LastSeq(t[n])
                 PROVE  FALSE
      BY <2>1, <2>3
    <3>1. lines[n + 1] - 1 \in held..(lines[n + 1] - 1)
      BY <2>1
    <3>2. lines[n + 1] - 1 \in seen \/ \E j \in 1..n : lines[j] = lines[n + 1] - 1
      BY <2>1, <3>1 DEF Gapless
    <3>. QED  BY <2>1, <2>2, <2>3, <3>2
  <2>5. /\ t[n + 1] \in LineSeq
        /\ NoHoles(t[n + 1], held)
        /\ LastSeq(t[n + 1]) >= LastSeq(t[n])
        /\ LastSeq(t[n + 1]) >= lines[n + 1]
    BY <2>1, <2>2, <2>4, TakeLineOK
  <2>6. LastSeq(t[n + 1]) \in Nat
    BY <2>5, LastType
  <2>7. \A j \in 1..(n + 1) : lines[j] <= LastSeq(t[n + 1])
    <3>1. \A j \in 1..n : lines[j] \in Int
      BY <1>0
    <3>. QED  BY <2>2, <2>3, <2>5, <2>6, <3>1
  <2>. QED  BY <2>1, <2>2, <2>3, <2>5, <2>6, <2>7
<1>8. N \in P
  <2>. HIDE DEF P, N
  <2>1. \A n \in 0..N : n \in P
    BY <1>0, <1>6, <1>7, EveryPlace
  <2>. QED  BY <1>0, <2>1
<1>. QED  BY <1>3, <1>8


-----------------------------------------------------------------------------
(* The ring and the replay. *)

LEMMA ListIsSeq ==
    ASSUME NEW S, NEW N \in Nat, NEW f \in [1..N -> S]
    PROVE  f \in Seq(S) /\ Len(f) = N
<1>1. f \in Seq(S)
  BY SeqDef
<1>2. Len(f) \in Nat /\ DOMAIN f = 1..Len(f)
  BY <1>1, LenProperties
<1>3. 1..N = 1..Len(f)
  BY <1>2
<1>. QED  BY <1>1, <1>2, <1>3

(* A piece of a list. *)
LEMMA Piece ==
    ASSUME NEW S, NEW s \in Seq(S), NEW m \in Nat \ {0}, NEW n \in Nat,
           m <= n + 1, n <= Len(s)
    PROVE  /\ SubSeq(s, m, n) \in Seq(S)
           /\ Len(SubSeq(s, m, n)) = n - m + 1
           /\ \A i \in 1..(n - m + 1) : SubSeq(s, m, n)[i] = s[m + i - 1]
<1>1. \A i \in m..n : s[i] \in S
  OBVIOUS
<1>2. m \in Int /\ n \in Int
  OBVIOUS
<1>3. /\ SubSeq(s, m, n) \in Seq(S)
      /\ Len(SubSeq(s, m, n)) = IF m <= n THEN n - m + 1 ELSE 0
      /\ \A i \in 1..(n - m + 1) : SubSeq(s, m, n)[i] = s[m + i - 1]
  BY <1>1, <1>2, SubSeqProperties
<1>. QED  BY <1>3

LEMMA HeldType ==
    ASSUME printed \in 0..MaxLines
    PROVE  FirstHeld \in 1..(MaxLines + 1)
<1>0. printed \in Nat /\ printed <= MaxLines /\ LogRing \in Nat /\ LogRing > 0 /\ MaxLines \in Nat
  BY RingAssumption
<1>1. Max({1, printed - LogRing + 1}) \in {1, printed - LogRing + 1}
      /\ Max({1, printed - LogRing + 1}) >= 1
  <2>1. 1 \in Int /\ printed - LogRing + 1 \in Int
    BY <1>0
  <2>. QED  BY <2>1, MaxPair
<1>. QED  BY <1>0, <1>1 DEF FirstHeld

LEMMA FromOK ==
    ASSUME printed \in 0..MaxLines, NEW n \in Nat
    PROVE  \E a \in {n, FirstHeld}, N \in Nat :
             /\ a >= n /\ a >= FirstHeld
             /\ From(n) \in LineSeq
             /\ Len(From(n)) = N
             /\ \A i \in 1..N : From(n)[i] = a + i - 1
             /\ \A y \in a..printed : y - a + 1 \in 1..N
<1> DEFINE a == Max({n, FirstHeld})
           N == Max({0, printed - a + 1})
<1>1. FirstHeld \in 1..(MaxLines + 1) /\ MaxLines \in Nat
  BY HeldType, RingAssumption
<1>2. a \in {n, FirstHeld} /\ a >= n /\ a >= FirstHeld /\ a \in Nat \ {0}
  <2>1. n \in Int /\ FirstHeld \in Int
    BY <1>1
  <2>2. a \in {n, FirstHeld} /\ a >= n /\ a >= FirstHeld
    BY <2>1, MaxPair
  <2>. QED  BY <1>1, <2>2
<1>3. From(n) = [i \in 1..N |-> a + i - 1]
  BY DEF From
<1>. HIDE DEF a
<1>4. N \in {0, printed - a + 1} /\ N >= 0 /\ N >= printed - a + 1
  <2>1. 0 \in Int /\ printed - a + 1 \in Int
    BY <1>2
  <2>. QED  BY <2>1, MaxPair
<1>. HIDE DEF N
<1>5. N \in Nat /\ \A i \in 1..N : a + i - 1 \in 1..MaxLines
  BY <1>1, <1>2, <1>4
<1>6. From(n) \in [1..N -> 1..MaxLines]
  BY <1>3, <1>5
<1>7. From(n) \in LineSeq /\ Len(From(n)) = N
  BY <1>5, <1>6, ListIsSeq DEF LineSeq
<1>8. \A i \in 1..N : From(n)[i] = a + i - 1
  BY <1>3
<1>9. \A y \in a..printed : y - a + 1 \in 1..N
  BY <1>2, <1>4
<1>. QED  BY <1>2, <1>5, <1>7, <1>8, <1>9

(* The frames of a replay: they come without a gap after the lines before    *)
(* the asked one, and bring all that are held from there on.                 *)
LEMMA ReplayOK ==
    ASSUME printed \in 0..MaxLines, run \in Statuses, NEW n \in Nat, NEW seen,
           1..(n - 1) \subseteq seen
    PROVE  /\ Replay(n) \in Seq(Frame)
           /\ FramesOK(Replay(n), seen, FirstHeld)
           /\ \A y \in FirstHeld..printed :
                y \in seen \/ y \in LinesOf(Replay(n), Len(Replay(n)))
<1>0. /\ FirstHeld \in 1..(MaxLines + 1) /\ MaxLines \in Nat
      /\ ReplayBatch \in Nat \ {0} /\ printed \in Nat /\ printed <= MaxLines
  BY HeldType, RingAssumption
<1>1. PICK a \in {n, FirstHeld}, N \in Nat :
             /\ a >= n /\ a >= FirstHeld
             /\ From(n) \in LineSeq
             /\ Len(From(n)) = N
             /\ \A i \in 1..N : From(n)[i] = a + i - 1
             /\ \A y \in a..printed : y - a + 1 \in 1..N
  BY FromOK
<1>a. a \in Nat
  BY <1>0, <1>1
<1> DEFINE lines == From(n)
           B == ReplayBatch
           K == (N + B - 1) \div B
           top(i) == Min({i * B, N})
           frame(i) == SubSeq(lines, (i - 1) * B + 1, top(i))
           body == [i \in 1..K |-> LogFrame(frame(i))]
           R == body \o <<Updated(run)>>
<1>2. Replay(n) = R
  BY <1>1 DEF Replay
<1>3. /\ K \in Nat
      /\ N <= K * B
      /\ \A i \in 1..K : (i - 1) * B < N
  BY <1>0, Batches
<1>. HIDE DEF K
<1>4. ASSUME NEW i \in 1..K
      PROVE  /\ i * B \in Nat /\ (i - 1) * B \in Nat /\ i * B = (i - 1) * B + B
             /\ top(i) \in Nat /\ top(i) <= N /\ top(i) <= i * B
             /\ top(i) = N \/ top(i) = i * B
             /\ (i - 1) * B < N /\ (i - 1) * B < top(i)
  <2>1. i * B \in Nat /\ (i - 1) * B \in Nat /\ i * B = (i - 1) * B + B
    BY <1>0, <1>3
  <2>2. top(i) \in {i * B, N} /\ top(i) <= N /\ top(i) <= i * B
    <3> DEFINE x == i * B
    <3>1. x \in Int /\ N \in Int
      BY <2>1
    <3>. HIDE DEF x
    <3>2. Min({x, N}) \in {x, N} /\ Min({x, N}) <= x /\ Min({x, N}) <= N
      BY <3>1, MinPair
    <3>. QED  BY <3>2 DEF x
  <2>. QED  BY <1>0, <1>3, <2>1, <2>2
<1>. HIDE DEF top
<1>5. ASSUME NEW i \in 1..K
      PROVE  /\ frame(i) \in LineSeq
             /\ Len(frame(i)) = top(i) - (i - 1) * B
             /\ \A k \in 1..Len(frame(i)) : frame(i)[k] = a + (i - 1) * B + k - 1
  <2> DEFINE m == (i - 1) * B + 1
             M == top(i)
  <2>1. m \in 1..(N + 1) /\ m \in Nat /\ M \in Nat /\ M <= N /\ m <= M
    BY <1>4
  <2>2. lines \in Seq(1..MaxLines) /\ Len(lines) = N /\ \A p \in 1..N : lines[p] = a + p - 1
    BY <1>1 DEF LineSeq
  <2>. HIDE DEF m, M, lines
  <2>3. /\ SubSeq(lines, m, M) \in Seq(1..MaxLines)
        /\ Len(SubSeq(lines, m, M)) = M - m + 1
        /\ \A k \in 1..(M - m + 1) : SubSeq(lines, m, M)[k] = lines[m + k - 1]
    <3> DEFINE T == 1..MaxLines
    <3>1. m \in Nat \ {0} /\ M \in Nat /\ m <= M + 1 /\ M <= Len(lines)
      BY <2>1, <2>2
    <3>2. lines \in Seq(T)
      BY <2>2
    <3>. HIDE DEF T
    <3>3. /\ SubSeq(lines, m, M) \in Seq(T)
          /\ Len(SubSeq(lines, m, M)) = M - m + 1
          /\ \A k \in 1..(M - m + 1) : SubSeq(lines, m, M)[k] = lines[m + k - 1]
      BY ONLY <3>1, <3>2, Piece
    <3>. QED  BY <3>3 DEF T
  <2>4. \A k \in 1..(M - m + 1) : m + k - 1 \in 1..N
    BY <2>1
  <2>5. \A k \in 1..(M - m + 1) : SubSeq(lines, m, M)[k] = a + (m + k - 1) - 1
    BY <2>2, <2>3, <2>4
  <2>. QED  BY <1>4, <2>1, <2>3, <2>5, <1>a DEF m, M, LineSeq
<1>. HIDE DEF frame
<1>6. \A i \in 1..K : /\ LogFrame(frame(i)) \in Frame /\ LogFrame(frame(i)).lines = frame(i)
                      /\ LogFrame(frame(i)).t = "run.log"
  BY <1>5 DEF LogFrame, Frame, Statuses
<1>7. /\ body \in Seq(Frame) /\ Len(body) = K
      /\ \A i \in 1..K : body[i].lines = frame(i) /\ body[i].t = "run.log"
  <2>1. body \in [1..K -> Frame]
    BY <1>6
  <2>2. \A i \in 1..K : body[i].lines = frame(i) /\ body[i].t = "run.log"
    BY <1>6
  <2>. HIDE DEF body
  <2>. QED  BY <1>3, <2>1, <2>2, ListIsSeq
<1>. HIDE DEF body
<1>8. Updated(run) \in Frame /\ Updated(run).lines = <<>>
  BY RingAssumption DEF Updated, Frame, LineSeq
<1>9. /\ R \in Seq(Frame) /\ Len(R) = K + 1
      /\ \A i \in 1..K : R[i].lines = frame(i) /\ R[i].t = "run.log"
      /\ R[K + 1].lines = <<>>
  <2>1. <<Updated(run)>> \in Seq(Frame) /\ Len(<<Updated(run)>>) = 1
        /\ <<Updated(run)>>[1] = Updated(run)
    BY <1>8
  <2>2. R \in Seq(Frame) /\ Len(R) = K + 1
    BY <1>3, <1>7, <2>1, ConcatProperties
  <2>3. \A i \in 1..K : R[i] = body[i]
    BY <1>3, <1>7, <2>1, ConcatProperties
  <2>4. R[K + 1] = Updated(run)
    BY <1>3, <1>7, <2>1, ConcatProperties
  <2>. QED  BY <1>7, <1>8, <2>2, <2>3, <2>4
<1>. HIDE DEF R
<1>10. ASSUME NEW p \in 1..N, NEW i \in 0..K, p <= i * B
       PROVE  a + p - 1 \in 1..MaxLines => a + p - 1 \in LinesOf(R, i)
  <2> DEFINE i0 == (p - 1) \div B + 1
             j == p - (i0 - 1) * B
  <2>1. (p - 1) \div B \in Nat /\ ((p - 1) \div B) * B <= p - 1
        /\ p - 1 < ((p - 1) \div B) * B + B
    BY <1>0, InBatch
  <2>2. i0 \in Nat \ {0} /\ i0 - 1 = (p - 1) \div B
    BY <2>1
  <2>. HIDE DEF i0
  <2>3. (i0 - 1) * B \in Nat /\ (i0 - 1) * B <= p - 1 /\ p - 1 < (i0 - 1) * B + B
        /\ i * B \in Nat
    BY <1>0, <2>1, <2>2
  <2>4. i0 <= i
    <3>1. SUFFICES ASSUME i <= i0 - 1  PROVE FALSE
      BY <2>2
    <3>2. i * B <= (i0 - 1) * B
      BY <1>0, <2>2, <3>1
    <3>. QED  BY <1>10, <2>3, <3>2
  <2>5. i0 \in 1..K /\ i0 \in 1..i
    BY <1>3, <2>2, <2>4
  <2>6. j \in 1..Len(frame(i0))
    <3>1. /\ Len(frame(i0)) = top(i0) - (i0 - 1) * B
          /\ top(i0) \in Nat /\ (top(i0) = N \/ top(i0) = i0 * B)
          /\ i0 * B = (i0 - 1) * B + B
      BY <1>4, <1>5, <2>5
    <3>2. p \in Nat /\ p <= N /\ j \in Nat /\ j > 0
      BY <2>3
    <3>3. j <= Len(frame(i0))
      BY <1>0, <2>3, <3>1, <3>2
    <3>. QED  BY <1>0, <2>3, <3>1, <3>2, <3>3
  <2>7. frame(i0)[j] = a + p - 1
    <3>1. frame(i0)[j] = a + (i0 - 1) * B + j - 1
      BY <1>5, <2>5, <2>6
    <3>. QED  BY <2>3, <3>1, <1>a
  <2>. HIDE DEF j
  <2>. QED  BY <1>9, <2>5, <2>6, <2>7 DEF LinesOf
<1>11. FramesOK(R, seen, FirstHeld)
  <2>0. \A i \in 1..Len(R) : R[i].t # "run.log" => R[i].lines = <<>>
    BY <1>3, <1>9
  <2> SUFFICES ASSUME NEW i \in 1..Len(R), NEW k \in 1..Len(R[i].lines),
                      NEW y \in FirstHeld..(R[i].lines[k] - 1)
               PROVE  y \in seen \cup LinesOf(R, i - 1)
                      \/ \E j \in 1..(k - 1) : R[i].lines[j] = y
    BY <2>0 DEF FramesOK, Gapless
  <2>1. i \in 1..K
    BY <1>3, <1>9
  <2>2. R[i].lines = frame(i)
    BY <1>9, <2>1
  <2>3. PICK e \in Nat :
          /\ e = (i - 1) * B /\ Len(frame(i)) \in Nat /\ e + Len(frame(i)) <= N
          /\ \A j \in 1..Len(frame(i)) : frame(i)[j] = a + e + j - 1
    <3>1. /\ Len(frame(i)) = top(i) - (i - 1) * B
          /\ \A j \in 1..Len(frame(i)) : frame(i)[j] = a + (i - 1) * B + j - 1
          /\ (i - 1) * B \in Nat /\ (i - 1) * B < top(i)
          /\ top(i) \in Nat /\ top(i) <= N
      BY <1>4, <1>5, <2>1
    <3> DEFINE e == (i - 1) * B
    <3>2. e \in Nat /\ Len(frame(i)) = top(i) - e /\ e < top(i)
          /\ \A j \in 1..Len(frame(i)) : frame(i)[j] = a + e + j - 1
      BY <3>1
    <3>. HIDE DEF e
    <3>3. Len(frame(i)) \in Nat /\ e + Len(frame(i)) <= N
      BY <3>1, <3>2
    <3>4. e = (i - 1) * B
      BY DEF e
    <3>. QED  BY <3>2, <3>3, <3>4
  <2>4. /\ k \in 1..Len(frame(i)) /\ frame(i)[k] = a + e + k - 1
        /\ y \in Nat \ {0} /\ y < a + e + k - 1
        /\ frame(i)[k] \in 1..MaxLines
    <3>1. k \in 1..Len(frame(i)) /\ R[i].lines[k] = frame(i)[k]
      BY <2>2
    <3>2. frame(i)[k] = a + e + k - 1
      BY <2>3, <3>1
    <3>3. frame(i) \in Seq(1..MaxLines)
      BY <1>5, <2>1 DEF LineSeq
    <3>4. frame(i)[k] \in 1..MaxLines
      BY <3>1, <3>3, ElementOfSeq
    <3>5. y \in FirstHeld..(frame(i)[k] - 1)
      BY <3>1
    <3>6. FirstHeld \in Nat \ {0} /\ a + e + k - 1 \in Int
      BY <1>0, <1>a, <2>3, <3>2, <3>4
    <3>7. y \in FirstHeld..(a + e + k - 1 - 1)
      BY <3>2, <3>5
    <3>. QED  BY <3>1, <3>2, <3>4, <3>6, <3>7
  <2>5. CASE y < a
    <3>1. a = n
      BY <1>0, <1>1, <2>5
    <3>2. y \in 1..(n - 1)
      BY <2>4, <2>5, <3>1
    <3>. QED  BY <3>2
  <2>6. CASE y >= a /\ y - a + 1 > e
    <3> DEFINE j == y - a + 1 - e
    <3>1. j \in 1..(k - 1) /\ j \in 1..Len(frame(i)) /\ a + e + j - 1 = y
      <4>1. /\ k \in Nat /\ k <= Len(frame(i)) /\ y \in Nat /\ y < a + e + k - 1
            /\ Len(frame(i)) \in Nat
        BY <2>3, <2>4
      <4>2. j \in Nat /\ j >= 1 /\ j <= k - 1 /\ a + e + j - 1 = y
        BY <2>6, <1>a, <4>1
      <4>. HIDE DEF j
      <4>. QED  BY <4>1, <4>2
    <3>. HIDE DEF j
    <3>2. frame(i)[j] = y
      BY <2>3, <3>1
    <3>. QED  BY <2>2, <3>1, <3>2
  <2>7. CASE y >= a /\ y - a + 1 <= e
    <3> DEFINE p == y - a + 1
    <3>1. p \in 1..N /\ a + p - 1 = y
      BY <2>3, <2>4, <2>7, <1>a
    <3>2. y \in 1..MaxLines
      BY <2>3, <2>4, <1>0, <1>a
    <3>3. i - 1 \in 0..K /\ p <= (i - 1) * B
      BY <2>1, <2>3, <2>7, <1>3
    <3>. HIDE DEF p
    <3>4. a + p - 1 \in LinesOf(R, i - 1)
      BY <1>10, <3>1, <3>2, <3>3
    <3>. QED  BY <3>1, <3>4
  <2>. QED  BY <2>4, <2>3, <2>5, <2>6, <2>7, <1>a
<1>12. ASSUME NEW y \in FirstHeld..printed
       PROVE  y \in seen \/ y \in LinesOf(R, Len(R))
  <2>1. CASE y < a
    <3>1. a = n /\ y \in 1..(n - 1)
      BY <1>0, <1>1, <2>1
    <3>. QED  BY <3>1
  <2>2. CASE y >= a
    <3> DEFINE p == y - a + 1
    <3>1. p \in 1..N /\ a + p - 1 = y /\ y \in 1..MaxLines
      BY <1>0, <1>1, <2>2, <1>a
    <3>2. K \in 0..K /\ p <= K * B
      <4>1. K * B \in Nat
        BY <1>0, <1>3
      <4>. QED  BY <1>3, <3>1, <4>1
    <3>. HIDE DEF p
    <3>3. y \in LinesOf(R, K)
      BY <1>10, <3>1, <3>2
    <3>. QED  BY <1>3, <1>9, <3>3 DEF LinesOf
  <2>. QED  BY <2>1, <2>2, <1>0, <1>a
<1>. QED  BY <1>2, <1>9, <1>11, <1>12

-----------------------------------------------------------------------------
(* Frames put behind others, and frames taken. *)

LEMMA LinesGrow ==
    ASSUME NEW d, NEW i \in Int, NEW j \in Int, i <= j
    PROVE  LinesOf(d, i) \subseteq LinesOf(d, j)
<1>1. \A k \in 1..i : k \in 1..j
  OBVIOUS
<1>. QED  BY <1>1 DEF LinesOf

LEMMA LinesAgree ==
    ASSUME NEW d, NEW e, NEW i \in Int, \A k \in 1..i : d[k] = e[k]
    PROVE  LinesOf(d, i) = LinesOf(e, i)
BY DEF LinesOf

(* The lines of two lists of frames, one behind the other. *)
LEMMA LinesBehind ==
    ASSUME NEW d \in Seq(Frame), NEW r \in Seq(Frame), NEW i \in 0..Len(r)
    PROVE  LinesOf(d \o r, Len(d) + i) = LinesOf(d, Len(d)) \cup LinesOf(r, i)
<1> DEFINE dr == d \o r
           m == Len(d)
<1>1. /\ m \in Nat /\ Len(r) \in Nat
      /\ \A k \in 1..m : dr[k] = d[k]
      /\ \A k \in 1..Len(r) : dr[m + k] = r[k]
  BY ConcatProperties
<1>. HIDE DEF dr, m
<1>2. ASSUME NEW y \in LinesOf(dr, m + i)  PROVE y \in LinesOf(d, m) \cup LinesOf(r, i)
  <2>1. PICK k \in 1..(m + i) : \E j \in 1..Len(dr[k].lines) : dr[k].lines[j] = y
    BY <1>2 DEF LinesOf
  <2>2. CASE k \in 1..m
    BY <1>1, <2>1, <2>2 DEF LinesOf
  <2>3. CASE k - m \in 1..i
    <3>1. k - m \in 1..Len(r) /\ m + (k - m) = k
      BY <1>1, <2>3
    <3>2. dr[k] = r[k - m]
      BY <1>1, <3>1
    <3>. QED  BY <2>1, <2>3, <3>2 DEF LinesOf
  <2>. QED  BY <1>1, <2>1, <2>2, <2>3
<1>3. ASSUME NEW y \in LinesOf(d, m)  PROVE y \in LinesOf(dr, m + i)
  <2>1. PICK k \in 1..m : \E j \in 1..Len(d[k].lines) : d[k].lines[j] = y
    BY <1>3 DEF LinesOf
  <2>2. k \in 1..(m + i) /\ dr[k] = d[k]
    BY <1>1
  <2>. QED  BY <2>1, <2>2 DEF LinesOf
<1>4. ASSUME NEW y \in LinesOf(r, i)  PROVE y \in LinesOf(dr, m + i)
  <2>1. PICK k \in 1..i : \E j \in 1..Len(r[k].lines) : r[k].lines[j] = y
    BY <1>4 DEF LinesOf
  <2>2. m + k \in 1..(m + i) /\ dr[m + k] = r[k]
    BY <1>1
  <2>. QED  BY <2>1, <2>2 DEF LinesOf
<1>5. LinesOf(dr, m + i) = LinesOf(d, m) \cup LinesOf(r, i)
  BY <1>2, <1>3, <1>4
<1>. QED  BY <1>5 DEF dr, m

LEMMA FramesBehind ==
    ASSUME NEW d \in Seq(Frame), NEW r \in Seq(Frame), NEW seen, NEW held,
           FramesOK(d, seen, held),
           FramesOK(r, seen \cup LinesOf(d, Len(d)), held)
    PROVE  FramesOK(d \o r, seen, held)
<1> DEFINE dr == d \o r
           m == Len(d)
<1>1. /\ m \in Nat /\ Len(r) \in Nat /\ Len(dr) = m + Len(r)
      /\ \A k \in 1..m : dr[k] = d[k]
      /\ \A k \in 1..Len(r) : dr[m + k] = r[k]
  BY ConcatProperties
<1>2. \A i \in 0..Len(r) : LinesOf(dr, m + i) = LinesOf(d, m) \cup LinesOf(r, i)
  BY LinesBehind
<1>3. FramesOK(r, seen \cup LinesOf(d, m), held)
  OBVIOUS
<1>. HIDE DEF dr, m
<1>4. SUFFICES ASSUME NEW i \in 1..Len(dr)
               PROVE  /\ dr[i].t # "run.log" => dr[i].lines = <<>>
                      /\ Gapless(dr[i].lines, seen \cup LinesOf(dr, i - 1), held)
  BY DEF FramesOK, dr
<1>5. CASE i \in 1..m
  <2>1. dr[i] = d[i] /\ i \in 1..Len(d) /\ i - 1 \in Int
    BY <1>1, <1>5 DEF m
  <2>2. \A k \in 1..(i - 1) : dr[k] = d[k]
    <3>1. m \in Nat /\ \A k \in 1..m : dr[k] = d[k]
      BY <1>1
    <3>2. \A k \in 1..(i - 1) : k \in 1..m
      BY <1>5, <3>1
    <3>. QED  BY <3>1, <3>2
  <2>3. LinesOf(dr, i - 1) = LinesOf(d, i - 1)
    BY <2>1, <2>2, LinesAgree
  <2>4. /\ d[i].t # "run.log" => d[i].lines = <<>>
        /\ Gapless(d[i].lines, seen \cup LinesOf(d, i - 1), held)
    BY <2>1 DEF FramesOK
  <2>. QED  BY <2>1, <2>3, <2>4
<1>6. CASE i - m \in 1..Len(r)
  <2>1. PICK k \in 1..Len(r) : i = m + k
    <3>1. i = m + (i - m)
      BY <1>1
    <3>. QED  BY <1>6, <3>1
  <2>2. dr[i] = r[k] /\ k - 1 \in 0..Len(r) /\ i - 1 = m + (k - 1)
    BY <1>1, <2>1
  <2>3. LinesOf(dr, i - 1) = LinesOf(d, m) \cup LinesOf(r, k - 1)
    BY <1>2, <2>2
  <2>4. /\ r[k].t # "run.log" => r[k].lines = <<>>
        /\ Gapless(r[k].lines, (seen \cup LinesOf(d, m)) \cup LinesOf(r, k - 1), held)
    BY <1>3 DEF FramesOK
  <2>5. (seen \cup LinesOf(d, m)) \cup LinesOf(r, k - 1) = seen \cup LinesOf(dr, i - 1)
    BY <2>3
  <2>. QED  BY <2>2, <2>4, <2>5
<1>. QED  BY <1>1, <1>5, <1>6

(* The first frames. *)
LEMMA FramesFirst ==
    ASSUME NEW d \in Seq(Frame), NEW n \in 0..Len(d), NEW seen, NEW held,
           FramesOK(d, seen, held)
    PROVE  /\ SubSeq(d, 1, n) \in Seq(Frame) /\ Len(SubSeq(d, 1, n)) = n
           /\ FramesOK(SubSeq(d, 1, n), seen, held)
           /\ LinesOf(SubSeq(d, 1, n), n) = LinesOf(d, n)
<1> DEFINE p == SubSeq(d, 1, n)
<1>1. p \in Seq(Frame) /\ Len(p) = n /\ \A i \in 1..n : p[i] = d[i]
  <2>1. 1 \in Nat \ {0} /\ n \in Nat /\ 1 <= n + 1 /\ n <= Len(d)
    BY LenProperties
  <2>2. /\ p \in Seq(Frame) /\ Len(p) = n - 1 + 1
        /\ \A i \in 1..(n - 1 + 1) : p[i] = d[1 + i - 1]
    BY <2>1, Piece
  <2>. HIDE DEF p
  <2>. QED  BY <2>1, <2>2
<1>. HIDE DEF p
<1>2. ASSUME NEW i \in 1..n
      PROVE  /\ p[i].t # "run.log" => p[i].lines = <<>>
             /\ Gapless(p[i].lines, seen \cup LinesOf(p, i - 1), held)
  <2>1. i \in 1..Len(d) /\ p[i] = d[i] /\ i - 1 \in Int
    BY <1>1, LenProperties
  <2>2. \A k \in 1..(i - 1) : p[k] = d[k]
    BY <1>1
  <2>3. LinesOf(p, i - 1) = LinesOf(d, i - 1)
    BY <2>1, <2>2, LinesAgree
  <2>. QED  BY <2>1, <2>3 DEF FramesOK
<1>3. LinesOf(p, n) = LinesOf(d, n)
  BY <1>1, LinesAgree
<1>4. FramesOK(p, seen, held)
  BY <1>1, <1>2 DEF FramesOK
<1>. QED  BY <1>1, <1>3, <1>4 DEF p

(* The frames that are left when the first ones are seen. *)
LEMMA FramesLeft ==
    ASSUME NEW d \in Seq(Frame), NEW n \in 0..Len(d), NEW seen, NEW held \in Int,
           FramesOK(d, seen, held), NEW more, seen \cup LinesOf(d, n) \subseteq more
    PROVE  /\ SubSeq(d, n + 1, Len(d)) \in Seq(Frame)
           /\ FramesOK(SubSeq(d, n + 1, Len(d)), more, held)
           /\ LinesOf(d, Len(d)) \subseteq
                more \cup LinesOf(SubSeq(d, n + 1, Len(d)), Len(SubSeq(d, n + 1, Len(d))))
<1> DEFINE q == SubSeq(d, n + 1, Len(d))
           m == Len(d)
<1>1. m \in Nat /\ n \in Nat /\ n <= m
  BY LenProperties
<1>2. q \in Seq(Frame) /\ Len(q) = m - n /\ \A i \in 1..(m - n) : q[i] = d[n + i]
  <2>1. n + 1 \in Nat \ {0} /\ m \in Nat /\ n + 1 <= m + 1 /\ m <= Len(d)
    BY <1>1
  <2>2. /\ q \in Seq(Frame) /\ Len(q) = m - (n + 1) + 1
        /\ \A i \in 1..(m - (n + 1) + 1) : q[i] = d[n + 1 + i - 1]
    BY <2>1, Piece
  <2>. HIDE DEF q
  <2>3. m - (n + 1) + 1 = m - n /\ \A i \in 1..(m - n) : n + 1 + i - 1 = n + i
    BY <1>1
  <2>. QED  BY <2>2, <2>3
<1>. HIDE DEF q
<1>3. ASSUME NEW i \in 0..(m - n), NEW y \in LinesOf(d, n + i)
      PROVE  y \in more \cup LinesOf(q, i)
  <2>1. PICK k \in 1..(n + i) : \E j \in 1..Len(d[k].lines) : d[k].lines[j] = y
    BY <1>3 DEF LinesOf
  <2>2. CASE k <= n
    <3>1. k \in 1..n
      BY <2>2
    <3>. QED  BY <2>1, <3>1 DEF LinesOf
  <2>3. CASE k > n
    <3>1. PICK l \in 1..i : k = n + l
      <4>1. k - n \in 1..i /\ k = n + (k - n)
        BY <1>1, <2>3
      <4>. QED  BY <4>1
    <3>2. l \in 1..(m - n)
      BY <1>1
    <3>3. q[l] = d[k]
      BY <1>2, <3>1, <3>2
    <3>. QED  BY <2>1, <3>3 DEF LinesOf
  <2>. QED  BY <1>1, <2>2, <2>3
<1>4. ASSUME NEW i \in 1..Len(q), NEW k \in 1..Len(q[i].lines),
             NEW y \in held..(q[i].lines[k] - 1)
      PROVE  y \in more \cup LinesOf(q, i - 1) \/ \E j \in 1..(k - 1) : q[i].lines[j] = y
  <2>1. i \in 1..(m - n) /\ q[i] = d[n + i] /\ n + i \in 1..Len(d)
        /\ (n + i) - 1 = n + (i - 1) /\ i - 1 \in 0..(m - n)
    BY <1>1, <1>2
  <2>2. Gapless(d[n + i].lines, seen \cup LinesOf(d, (n + i) - 1), held)
    BY <2>1 DEF FramesOK
  <2>3. y \in seen \/ y \in LinesOf(d, n + (i - 1)) \/ \E j \in 1..(k - 1) : q[i].lines[j] = y
    BY <2>1, <2>2 DEF Gapless
  <2>. QED  BY <1>3, <2>1, <2>3
<1>5. FramesOK(q, more, held)
  <2>1. ASSUME NEW i \in 1..Len(q)  PROVE q[i].t # "run.log" => q[i].lines = <<>>
    <3>1. q[i] = d[n + i] /\ n + i \in 1..Len(d)
      BY <1>1, <1>2
    <3>. QED  BY <3>1 DEF FramesOK
  <2>. QED  BY <1>4, <2>1 DEF FramesOK, Gapless
<1>6. LinesOf(d, m) \subseteq more \cup LinesOf(q, Len(q))
  <2>1. m - n \in 0..(m - n) /\ n + (m - n) = m
    BY <1>1
  <2>. QED  BY <1>2, <1>3, <2>1
<1>. QED  BY <1>2, <1>5, <1>6 DEF q, m
-----------------------------------------------------------------------------
(* What the store makes of a batch of frames. *)

Store == [shown : LineSeq, status : Statuses, hello : BOOLEAN, started : BOOLEAN]

LEMMA PushLogsType ==
    ASSUME NEW have \in LineSeq, NEW lines \in LineSeq
    PROVE  PushLogs(have, lines) \in LineSeq
<1>1. PICK t \in [0..Len(lines) -> LineSeq] : PushLogs(have, lines) = t[Len(lines)]
  BY PushLogsSteps
<1>2. Len(lines) \in 0..Len(lines)
  BY LenProperties DEF LineSeq
<1>. QED  BY <1>1, <1>2

LEMMA ApplyFrameCases ==
    ASSUME NEW s \in Store, NEW f \in Frame
    PROVE  /\ ApplyFrame(s, f) \in Store
           /\ f.lines \in LineSeq
           /\ f.t = "run.log" => ApplyFrame(s, f).shown = PushLogs(s.shown, f.lines)
           /\ f.t # "run.log" => ApplyFrame(s, f).shown = s.shown
<1>1. /\ f.lines \in LineSeq /\ f.status \in Statuses
      /\ f.t \in {"hello", "run.started", "run.updated", "run.exit", "run.log"}
  BY DEF Frame
<1>2. s.shown \in LineSeq /\ s.status \in Statuses
  BY DEF Store
<1>3. PushLogs(s.shown, f.lines) \in LineSeq
  BY <1>1, <1>2, PushLogsType
<1>4. CASE f.t = "run.log"
  <2>1. ApplyFrame(s, f) = [s EXCEPT !.shown = PushLogs(s.shown, f.lines)]
    BY <1>4 DEF ApplyFrame
  <2>. QED  BY <1>1, <1>3, <1>4, <2>1 DEF Store
<1>5. CASE f.t = "hello"
  <2>1. ApplyFrame(s, f) = [s EXCEPT !.status = IF f.status = "none" THEN s.status ELSE f.status,
                                     !.hello = TRUE]
    BY <1>5 DEF ApplyFrame
  <2>. QED  BY <1>1, <1>2, <1>5, <2>1 DEF Store
<1>6. CASE f.t = "run.started"
  <2>1. ApplyFrame(s, f) = [s EXCEPT !.status = f.status, !.started = TRUE]
    BY <1>6 DEF ApplyFrame
  <2>. QED  BY <1>1, <1>6, <2>1 DEF Store
<1>7. CASE f.t \notin {"run.log", "hello", "run.started"}
  <2>1. ApplyFrame(s, f) = [s EXCEPT !.status = f.status]
    BY <1>7 DEF ApplyFrame
  <2>. QED  BY <1>1, <1>7, <2>1 DEF Store
<1>. QED  BY <1>4, <1>5, <1>6, <1>7

(* A batch of frames is applied frame by frame. *)
LEMMA AppliedSteps ==
    ASSUME shown \in LineSeq, status \in Statuses, NEW frames \in Seq(Frame)
    PROVE  \E t \in [0..Len(frames) -> Store] :
             /\ t[0].shown = shown
             /\ \A k \in 1..Len(frames) : t[k] = ApplyFrame(t[k - 1], frames[k])
             /\ Applied(frames) = t[Len(frames)]
<1> DEFINE N == Len(frames)
           base == [shown |-> shown, status |-> status, hello |-> FALSE, started |-> FALSE]
           F(g) == g = [k \in 0..N |-> IF k = 0 THEN base ELSE ApplyFrame(g[k - 1], frames[k])]
           t == CHOOSE g : F(g)
<1>0. N \in Nat /\ \A k \in 1..N : frames[k] \in Frame
  OBVIOUS
<1>1. base \in Store /\ base.shown = shown
  BY DEF Store
<1>2. \A s \in Store, f \in Frame : ApplyFrame(s, f) \in Store
  BY ApplyFrameCases
<1>3. Applied(frames) = t[N]
  BY DEF Applied
<1>. HIDE DEF base
<1>4. \E g : F(g)
  <2> DEFINE step == [k \in 1..N |-> [s \in Store |-> ApplyFrame(s, frames[k])]]
  <2>1. step \in [1..N -> [Store -> Store]]
    BY <1>0, <1>2
  <2>2. \A k \in 1..N, s \in Store : step[k][s] = ApplyFrame(s, frames[k])
    OBVIOUS
  <2>. HIDE DEF step
  <2>3. PICK f \in [0..N -> Store] : f[0] = base /\ \A k \in 1..N : f[k] = step[k][f[k - 1]]
    <3>1. PICK f : IsFold(f, N, Store, base, step)
      <4>. HIDE DEF N
      <4>. QED  BY <1>0, <1>1, <2>1, FoldExists
    <3>. QED  BY <3>1 DEF IsFold
  <2>4. \A k \in 1..N : f[k] = ApplyFrame(f[k - 1], frames[k])
    <3>1. \A k \in 1..N : f[k - 1] \in Store
      BY <1>0
    <3>. QED  BY <2>2, <2>3, <3>1
  <2>5. F(f)
    BY <1>0, <2>3, <2>4
  <2>. QED  BY <2>5
<1>5. F(t)
  <2>. HIDE DEF F
  <2>. QED  BY <1>4
<1>6. t[0] = base /\ \A k \in 1..N : t[k] = ApplyFrame(t[k - 1], frames[k])
  <2>. HIDE DEF t
  <2>. QED  BY <1>0, <1>5
<1>. HIDE DEF t, F
<1>7. t \in [0..N -> Store]
  <2> DEFINE P == {n \in 0..N : t[n] \in Store}
  <2>1. 0 \in P
    BY <1>0, <1>1, <1>6
  <2>2. ASSUME NEW n \in 0..(N - 1), n \in P  PROVE n + 1 \in P
    <3>1. n + 1 \in 1..N /\ (n + 1) - 1 = n
      BY <1>0
    <3>2. t[n + 1] = ApplyFrame(t[n], frames[n + 1])
      BY <1>6, <3>1
    <3>. QED  BY <1>0, <1>2, <2>2, <3>1, <3>2
  <2>3. \A n \in 0..N : t[n] \in Store
    <3>. HIDE DEF P, N
    <3>1. \A n \in 0..N : n \in P
      BY <1>0, <2>1, <2>2, EveryPlace
    <3>. QED  BY <3>1 DEF P
  <2>4. t = [k \in 0..N |-> t[k]]
    <3>1. t = [k \in 0..N |-> IF k = 0 THEN base ELSE ApplyFrame(t[k - 1], frames[k])]
      BY <1>5 DEF F
    <3>. HIDE DEF N
    <3>. QED  BY <3>1
  <2>. QED  BY <2>3, <2>4
<1>. QED  BY <1>1, <1>3, <1>6, <1>7

(* Frames that come without a gap are taken without a hole. *)
LEMMA AppliedOK ==
    ASSUME shown \in LineSeq, status \in Statuses, NEW frames \in Seq(Frame), NEW held \in Int,
           NoHoles(shown, held), FramesOK(frames, 1..LastSeq(shown), held)
    PROVE  /\ Applied(frames) \in Store
           /\ NoHoles(Applied(frames).shown, held)
           /\ LastSeq(Applied(frames).shown) >= LastSeq(shown)
           /\ \A y \in LinesOf(frames, Len(frames)) : y <= LastSeq(Applied(frames).shown)
<1> DEFINE N == Len(frames)
<1>1. PICK t \in [0..N -> Store] :
        /\ t[0].shown = shown
        /\ \A k \in 1..N : t[k] = ApplyFrame(t[k - 1], frames[k])
        /\ Applied(frames) = t[N]
  BY AppliedSteps
<1>2. N \in Nat /\ MaxLines \in Nat /\ \A k \in 1..N : frames[k] \in Frame
  BY RingAssumption
<1>3. LastSeq(shown) \in Nat
  BY LastType
<1> DEFINE Good(n) == /\ t[n] \in Store
                      /\ NoHoles(t[n].shown, held)
                      /\ LastSeq(t[n].shown) >= LastSeq(shown)
                      /\ \A y \in LinesOf(frames, n) : y <= LastSeq(t[n].shown)
           P == {n \in 0..N : Good(n)}
<1>4. 0 \in P
  <2>1. LinesOf(frames, 0) = {}
    BY DEF LinesOf
  <2>. QED  BY <1>1, <1>2, <1>3, <2>1
<1>5. ASSUME NEW n \in 0..(N - 1), n \in P  PROVE n + 1 \in P
  <2> DEFINE f == frames[n + 1]
             s == t[n]
             sn == t[n + 1]
  <2>1. n + 1 \in 1..N /\ f \in Frame /\ (n + 1) - 1 = n /\ n \in Nat
    BY <1>2
  <2>2. sn = ApplyFrame(s, f)
    BY <1>1, <2>1
  <2>3. s \in Store /\ NoHoles(s.shown, held) /\ LastSeq(s.shown) >= LastSeq(shown)
        /\ \A y \in LinesOf(frames, n) : y <= LastSeq(s.shown)
    BY <1>5
  <2>4. /\ sn \in Store /\ f.lines \in LineSeq
        /\ f.t = "run.log" => sn.shown = PushLogs(s.shown, f.lines)
        /\ f.t # "run.log" => sn.shown = s.shown
    <3>. HIDE DEF f, s, sn
    <3>. QED  BY <2>1, <2>2, <2>3, ApplyFrameCases
  <2>5. s.shown \in LineSeq /\ sn.shown \in LineSeq
    BY <2>3, <2>4 DEF Store
  <2>6. LastSeq(s.shown) \in Nat /\ LastSeq(sn.shown) \in Nat
    BY <2>5, LastType
  <2>7. LinesOf(frames, n + 1) \subseteq LinesOf(frames, n) \cup Range(f.lines)
    <3> SUFFICES ASSUME NEW y \in LinesOf(frames, n + 1), y \notin LinesOf(frames, n)
                 PROVE  y \in Range(f.lines)
      OBVIOUS
    <3>1. PICK i \in 1..(n + 1) : \E j \in 1..Len(frames[i].lines) : frames[i].lines[j] = y
      BY DEF LinesOf
    <3>2. i = n + 1
      <4>1. i \notin 1..n
        BY <3>1 DEF LinesOf
      <4>. QED  BY <2>1, <4>1
    <3>3. PICK j \in 1..Len(f.lines) : f.lines[j] = y
      BY <3>1, <3>2
    <3>4. DOMAIN f.lines = 1..Len(f.lines)
      BY <2>4, LenProperties DEF LineSeq
    <3>. QED  BY <3>3, <3>4 DEF Range
  <2>. HIDE DEF f, s, sn
  <2>8. CASE f.t = "run.log"
    <3> DEFINE seen == 1..LastSeq(shown) \cup LinesOf(frames, n)
               have == s.shown
               lines == f.lines
    <3>1. Gapless(lines, seen, held)
      BY <2>1 DEF FramesOK, f
    <3>2. \A y \in seen : y \in Int /\ y <= LastSeq(have)
      <4>1. \A y \in LinesOf(frames, n) : y \in Int
        BY <1>2 DEF LinesOf
      <4>. QED  BY <1>3, <2>3, <2>6, <4>1
    <3>3. have \in LineSeq /\ lines \in LineSeq /\ NoHoles(have, held)
          /\ sn.shown = PushLogs(have, lines)
      BY <2>3, <2>4, <2>5, <2>8
    <3>. HIDE DEF seen, have, lines
    <3>4. /\ NoHoles(sn.shown, held)
          /\ LastSeq(sn.shown) >= LastSeq(have)
          /\ \A j \in 1..Len(lines) : lines[j] <= LastSeq(sn.shown)
      BY <3>1, <3>2, <3>3, PushLogsOK
    <3>5. \A y \in Range(lines) : y <= LastSeq(sn.shown)
      <4>1. DOMAIN lines = 1..Len(lines)
        BY <3>3, LenProperties DEF LineSeq
      <4>. QED  BY <3>4, <4>1 DEF Range
    <3>6. \A y \in LinesOf(frames, n) : y \in Int
      BY <1>2 DEF LinesOf
    <3>7. \A y \in LinesOf(frames, n + 1) : y <= LastSeq(sn.shown)
      BY <2>3, <2>6, <2>7, <3>4, <3>5, <3>6 DEF have, lines
    <3>8. LastSeq(sn.shown) >= LastSeq(shown)
      BY <1>3, <2>3, <2>6, <3>4 DEF have
    <3>. QED  BY <2>1, <2>4, <3>4, <3>7, <3>8, <1>2 DEF sn
  <2>9. CASE f.t # "run.log"
    <3>1. sn.shown = s.shown
      BY <2>4, <2>9
    <3>2. f.lines = <<>>
      BY <2>1, <2>9 DEF FramesOK, f
    <3>3. Range(f.lines) = {}
      BY <3>2 DEF Range
    <3>. QED  BY <2>1, <2>3, <2>4, <2>7, <3>1, <3>3, <1>2 DEF sn, s
  <2>. QED  BY <2>8, <2>9
<1>6. N \in P
  <2>. HIDE DEF P, N
  <2>1. \A n \in 0..N : n \in P
    BY <1>2, <1>4, <1>5, EveryPlace
  <2>. QED  BY <1>2, <2>1
<1>. QED  BY <1>1, <1>6

-----------------------------------------------------------------------------
(* Types. *)

Request == [t : {"run.subscribe", "run.unsubscribe"}, from : 0..(MaxLines + 1)]

Fetch == Statuses \union {"asked", "empty"}

TypeInv == TypeOK /\ up \in Seq(Request) /\ fetches \in Seq(Fetch)

(* No request asks for more than what comes after the last line. *)
Asks(frames, last) ==
    \A i \in 1..Len(frames) : frames[i].t = "run.subscribe" => frames[i].from <= last + 1

LEMMA SentType ==
    ASSUME TypeInv, NEW frames \in Seq(Frame)
    PROVE  Sent(frames) \in Seq(Frame)
<1>1. down \in Seq(Frame)
  BY DEF TypeInv, TypeOK
<1>. QED  BY <1>1, ConcatProperties DEF Sent

LEMMA OneFrame ==
    ASSUME NEW S, NEW f \in S
    PROVE  <<f>> \in Seq(S) /\ Len(<<f>>) = 1 /\ <<f>>[1] = f
OBVIOUS

LEMMA RequestType ==
    ASSUME NEW last \in 0..MaxLines
    PROVE  /\ <<Subscribe(last + 1)>> \in Seq(Request) /\ Asks(<<Subscribe(last + 1)>>, last)
           /\ <<Unsubscribe>> \in Seq(Request) /\ Asks(<<Unsubscribe>>, last)
           /\ <<>> \in Seq(Request) /\ Asks(<<>>, last)
<1>0. MaxLines \in Nat
  BY RingAssumption
<1>1. Subscribe(last + 1) \in Request /\ Subscribe(last + 1).from <= last + 1
  BY <1>0 DEF Subscribe, Request
<1>2. Unsubscribe \in Request /\ Unsubscribe.t # "run.subscribe"
  BY <1>0 DEF Unsubscribe, Request
<1>3. <<Subscribe(last + 1)>> \in Seq(Request) /\ Asks(<<Subscribe(last + 1)>>, last)
  BY <1>1, OneFrame DEF Asks
<1>4. <<Unsubscribe>> \in Seq(Request) /\ Asks(<<Unsubscribe>>, last)
  BY <1>2, OneFrame DEF Asks
<1>5. <<>> \in Seq(Request) /\ Asks(<<>>, last)
  BY DEF Asks
<1>. QED  BY <1>3, <1>4, <1>5

(* Requests behind requests. *)
LEMMA AsksBehind ==
    ASSUME NEW a \in Seq(Request), NEW b \in Seq(Request), NEW last,
           Asks(a, last), Asks(b, last)
    PROVE  a \o b \in Seq(Request) /\ Asks(a \o b, last)
<1> DEFINE ab == a \o b
           m == Len(a)
<1>1. /\ ab \in Seq(Request) /\ m \in Nat /\ Len(b) \in Nat /\ Len(ab) = m + Len(b)
      /\ \A k \in 1..m : ab[k] = a[k]
      /\ \A k \in 1..Len(b) : ab[m + k] = b[k]
  BY ConcatProperties
<1>. HIDE DEF ab, m
<1>2. ASSUME NEW i \in 1..Len(ab), ab[i].t = "run.subscribe"
      PROVE  ab[i].from <= last + 1
  <2>1. CASE i \in 1..m
    BY <1>1, <1>2, <2>1 DEF Asks, m
  <2>2. CASE i - m \in 1..Len(b)
    <3>1. ab[i] = b[i - m]
      <4>1. m + (i - m) = i
        BY <1>1
      <4>. QED  BY <1>1, <2>2, <4>1
    <3>. QED  BY <1>2, <2>2, <3>1 DEF Asks
  <2>. QED  BY <1>1, <2>1, <2>2
<1>3. Asks(ab, last)
  BY <1>2 DEF Asks
<1>. QED  BY <1>1, <1>3 DEF ab

LEMMA PostedOK ==
    ASSUME TypeInv, NEW frames \in Seq(Request), NEW last, Asks(up, last), Asks(frames, last)
    PROVE  Posted(frames) \in Seq(Request) /\ Asks(Posted(frames), last)
<1>1. up \in Seq(Request)
  BY DEF TypeInv
<1>2. up \o frames \in Seq(Request) /\ Asks(up \o frames, last)
  BY <1>1, AsksBehind
<1>. QED  BY <1>1, <1>2 DEF Posted

LEMMA PostedType ==
    ASSUME TypeInv, NEW frames \in Seq(Request)
    PROVE  Posted(frames) \in Seq(Request)
<1>1. up \in Seq(Request)
  BY DEF TypeInv
<1>2. up \o frames \in Seq(Request)
  BY <1>1, ConcatProperties
<1>. QED  BY <1>1, <1>2 DEF Posted

LEMMA SyncOK ==
    ASSUME NEW st, NEW shows, NEW sub \in BOOLEAN, NEW last \in 0..MaxLines
    PROVE  /\ Sync(st, shows, sub, last).sub \in BOOLEAN
           /\ Sync(st, shows, sub, last).frames \in Seq(Request)
           /\ Asks(Sync(st, shows, sub, last).frames, last)
<1> DEFINE s == Sync(st, shows, sub, last)
<1>1. \/ s = [sub |-> sub, frames |-> <<>>]
      \/ s = [sub |-> ~sub, frames |-> <<Unsubscribe>>]
      \/ s = [sub |-> ~sub, frames |-> <<Subscribe(last + 1)>>]
  BY DEF Sync
<1>. HIDE DEF s
<1>2. /\ s.sub \in BOOLEAN
      /\ s.frames \in {<<>>, <<Unsubscribe>>, <<Subscribe(last + 1)>>}
  <2>1. CASE s = [sub |-> sub, frames |-> <<>>]
    BY <2>1
  <2>2. CASE s = [sub |-> ~sub, frames |-> <<Unsubscribe>>]
    <3>1. s.sub = ~sub /\ s.frames = <<Unsubscribe>>
      BY <2>2
    <3>. QED  BY <3>1
  <2>3. CASE s = [sub |-> ~sub, frames |-> <<Subscribe(last + 1)>>]
    <3>1. s.sub = ~sub /\ s.frames = <<Subscribe(last + 1)>>
      BY <2>3
    <3>. QED  BY <3>1
  <2>. QED  BY <1>1, <2>1, <2>2, <2>3
<1>. QED  BY <1>2, RequestType DEF s

LEMMA FrameTypes ==
    ASSUME NEW s \in Statuses
    PROVE  Hello(s) \in Frame /\ Updated(s) \in Frame /\ Started \in Frame /\ Exit \in Frame
BY DEF Hello, Updated, Started, Exit, Frame, LineSeq, Statuses

LEMMA AppliedType ==
    ASSUME shown \in LineSeq, status \in Statuses, NEW frames \in Seq(Frame)
    PROVE  Applied(frames) \in Store
<1>1. PICK t \in [0..Len(frames) -> Store] : Applied(frames) = t[Len(frames)]
  BY AppliedSteps
<1>2. Len(frames) \in 0..Len(frames)
  BY LenProperties
<1>. QED  BY <1>1, <1>2

(* What a batch of frames leaves behind, written out. *)
LEMMA GiveToStoreOK ==
    ASSUME TypeInv, NEW frames \in Seq(Frame), GiveToStore(frames)
    PROVE  /\ shown' = Applied(frames).shown
           /\ shown' \in LineSeq /\ status' \in Statuses
           /\ subscribed' \in BOOLEAN /\ overtaken' \in BOOLEAN
           /\ fetches' \in Seq(Fetch)
           /\ \E req \in Seq(Request) :
                 Asks(req, LastSeq(Applied(frames).shown)) /\ up' = Posted(req)
<1> DEFINE s == Applied(frames)
           last == LastSeq(s.shown)
           sync == IF s.hello
                     THEN Sync(s.status, displayed, ForgetsSubscription(subscribed), last)
                     ELSE [sub |-> subscribed, frames |-> <<>>]
           first == IF s.started THEN <<Subscribe(last + 1)>> ELSE <<>>
<1>1. shown \in LineSeq /\ status \in Statuses /\ subscribed \in BOOLEAN
      /\ overtaken \in BOOLEAN /\ fetches \in Seq(Fetch)
  BY DEF TypeInv, TypeOK
<1>2. s \in Store
  BY <1>1, AppliedType
<1>3. /\ shown' = s.shown /\ status' = s.status
      /\ subscribed' = (sync.sub \/ (s.started /\ ~s.hello))
      /\ up' = Posted(first \o sync.frames)
      /\ overtaken' = (overtaken /\ s.status # "done")
      /\ fetches' = IF s.hello THEN [fetches EXCEPT ![Len(fetches)] = "asked"] ELSE fetches
  BY DEF GiveToStore
<1>. HIDE DEF s
<1>4. s.shown \in LineSeq /\ s.status \in Statuses /\ s.hello \in BOOLEAN /\ s.started \in BOOLEAN
  BY <1>2 DEF Store
<1>5. last \in 0..MaxLines
  BY <1>4, LastType, RingAssumption
<1>. HIDE DEF last
<1>6. sync.sub \in BOOLEAN /\ sync.frames \in Seq(Request) /\ Asks(sync.frames, last)
  <2>1. CASE s.hello
    <3>1. ForgetsSubscription(subscribed) \in BOOLEAN
      BY DEF ForgetsSubscription
    <3>2. sync = Sync(s.status, displayed, ForgetsSubscription(subscribed), last)
      BY <2>1
    <3>. HIDE DEF sync
    <3>. QED  BY <1>5, <3>1, <3>2, SyncOK
  <2>2. CASE ~s.hello
    <3>1. sync.sub = subscribed /\ sync.frames = <<>>
      BY <2>2
    <3>. HIDE DEF sync
    <3>. QED  BY <1>1, <1>5, <3>1, RequestType
  <2>. QED  BY <2>1, <2>2
<1>7. first \in Seq(Request) /\ Asks(first, last)
  BY <1>5, RequestType
<1>. HIDE DEF sync, first
<1>8. first \o sync.frames \in Seq(Request) /\ Asks(first \o sync.frames, last)
  BY <1>6, <1>7, AsksBehind
<1>9. fetches' \in Seq(Fetch)
  <2>1. "asked" \in Fetch
    BY DEF Fetch
  <2>2. [fetches EXCEPT ![Len(fetches)] = "asked"] \in Seq(Fetch)
    <3>1. CASE Len(fetches) \in 1..Len(fetches)
      BY <1>1, <2>1, <3>1, ExceptSeq
    <3>2. CASE Len(fetches) \notin 1..Len(fetches)
      <4>1. fetches \in [1..Len(fetches) -> Fetch]
        BY <1>1, LenProperties
      <4>2. [fetches EXCEPT ![Len(fetches)] = "asked"] = fetches
        BY <3>2, <4>1
      <4>. QED  BY <1>1, <4>2
    <3>. QED  BY <3>1, <3>2
  <2>. QED  BY <1>1, <1>3, <2>2
<1>10. subscribed' \in BOOLEAN /\ overtaken' \in BOOLEAN
  BY <1>1, <1>3, <1>4, <1>6
<1>11. shown' \in LineSeq /\ status' \in Statuses
  BY <1>3, <1>4
<1>. QED  BY <1>3, <1>8, <1>9, <1>10, <1>11 DEF last, s

LEMMA TypeInit == Init => TypeInv
<1> SUFFICES ASSUME Init  PROVE TypeInv
  OBVIOUS
<1>1. MaxLines \in Nat
  BY RingAssumption
<1>2. fetches \in Seq(Fetch) /\ \A k \in 1..Len(fetches) : fetches[k] \in Fetch
  <2>1. fetches = <<"none">> /\ "none" \in Fetch
    BY DEF Init, Fetch, Statuses
  <2>2. fetches \in Seq(Fetch)
    BY <2>1, OneFrame
  <2>. QED  BY <2>2, ElementOfSeq
<1>a. \A k \in 1..Len(fetches) : fetches[k] \in Statuses \union {"asked", "empty"}
  BY <1>2 DEF Fetch
<1>3. down = <<>> /\ up = <<>> /\ batch = <<>> /\ shown = <<>>
  BY DEF Init
<1>4. down \in Seq(Frame) /\ up \in Seq(Request) /\ batch \in LineSeq /\ shown \in LineSeq
      /\ \A i \in 1..Len(up) : FALSE
  BY <1>3 DEF LineSeq
<1>5. run \in Statuses /\ printed \in 0..MaxLines /\ link \in {"down", "half", "up"}
      /\ status \in Statuses /\ ending \in {"no", "due", "told"}
  BY <1>1 DEF Init, Statuses
<1>6. /\ follows \in BOOLEAN /\ subscribed \in BOOLEAN
      /\ displayed \in BOOLEAN /\ overtaken \in BOOLEAN
  BY Zenon DEF Init
<1>. QED  BY <1>a, <1>2, <1>4, <1>5, <1>6 DEF TypeInv, TypeOK

(* The clauses of the type invariant that speak of the elements of a list    *)
(* follow from the type of the list.                                         *)
LEMMA TypeOfLists ==
    ASSUME up' \in Seq(Request), fetches' \in Seq(Fetch)
    PROVE  /\ \A i \in 1..Len(up') : /\ up'[i].t \in {"run.subscribe", "run.unsubscribe"}
                                     /\ up'[i].from \in 0..(MaxLines + 1)
           /\ \A k \in 1..Len(fetches') : fetches'[k] \in Statuses \union {"asked", "empty"}
<1>1. ASSUME NEW i \in 1..Len(up')
      PROVE  /\ up'[i].t \in {"run.subscribe", "run.unsubscribe"}
             /\ up'[i].from \in 0..(MaxLines + 1)
  <2>1. up'[i] \in Request
    BY ElementOfSeq
  <2>. QED  BY <2>1 DEF Request
<1>2. ASSUME NEW k \in 1..Len(fetches')  PROVE fetches'[k] \in Fetch
  BY ElementOfSeq
<1>. QED  BY <1>1, <1>2 DEF Fetch

LEMMA TypeStep == TypeInv /\ [Next]_vars => TypeInv'
<1> SUFFICES ASSUME TypeInv, [Next]_vars
             PROVE  /\ run' \in Statuses /\ printed' \in 0..MaxLines
                    /\ link' \in {"down", "half", "up"} /\ down' \in Seq(Frame)
                    /\ up' \in Seq(Request)
                    /\ follows' \in BOOLEAN /\ batch' \in LineSeq
                    /\ shown' \in LineSeq /\ status' \in Statuses
                    /\ subscribed' \in BOOLEAN /\ displayed' \in BOOLEAN /\ overtaken' \in BOOLEAN
                    /\ fetches' \in Seq(Fetch) /\ ending' \in {"no", "due", "told"}
  BY TypeOfLists DEF TypeInv, TypeOK
<1>0. /\ run \in Statuses /\ printed \in 0..MaxLines
      /\ link \in {"down", "half", "up"} /\ down \in Seq(Frame)
      /\ up \in Seq(Request)
      /\ follows \in BOOLEAN /\ batch \in LineSeq
      /\ shown \in LineSeq /\ status \in Statuses
      /\ subscribed \in BOOLEAN /\ displayed \in BOOLEAN /\ overtaken \in BOOLEAN
      /\ fetches \in Seq(Fetch) /\ MaxLines \in Nat
      /\ ending \in {"no", "due", "told"}
  BY RingAssumption DEF TypeInv, TypeOK
<1>a. LastSeq(shown) \in 0..MaxLines
  BY <1>0, LastType
<1>b. <<>> \in LineSeq /\ <<>> \in Seq(Request)
  BY DEF LineSeq
<1>1. CASE StartRun
  <2>1. <<Started>> \in Seq(Frame)
    BY <1>0, FrameTypes, OneFrame
  <2>2. Sent(<<Started>>) \in Seq(Frame)
    BY <2>1, SentType
  <2>. QED  BY <1>0, <1>1, <2>2 DEF StartRun, tab, Statuses
<1>2. CASE PrintLine
  <2>1. printed + 1 \in 1..MaxLines
    BY <1>0, <1>2 DEF PrintLine
  <2>2. Append(batch, printed + 1) \in LineSeq
    BY <1>0, <2>1, AppendProperties DEF LineSeq
  <2>3. \A s \in Statuses : Sent(<<Updated(s)>>) \in Seq(Frame)
    <3>1. \A s \in Statuses : <<Updated(s)>> \in Seq(Frame)
      BY FrameTypes, OneFrame
    <3>. QED  BY <3>1, SentType
  <2>4. /\ printed' = printed + 1
        /\ batch' = batch \/ batch' = Append(batch, printed + 1)
        /\ run' = run \/ run' = "done"
        /\ down' = down \/ down' = Sent(<<Updated(run')>>)
        /\ UNCHANGED <<ending, follows, link, up, tab>>
    BY <1>2 DEF PrintLine
  <2>5. run' \in Statuses /\ printed' \in 0..MaxLines /\ batch' \in LineSeq
        /\ down' \in Seq(Frame)
    <3>1. run' \in Statuses
      BY <1>0, <2>4 DEF Statuses
    <3>2. printed' \in 0..MaxLines
      BY <1>0, <2>1, <2>4
    <3>. QED  BY <1>0, <2>2, <2>3, <2>4, <3>1, <3>2
  <2>. QED  BY <1>0, <2>4, <2>5 DEF tab
<1>3. CASE EndRun
  <2>1. <<Exit>> \in Seq(Frame)
    BY <1>0, FrameTypes, OneFrame
  <2>2. Sent(<<Exit>>) \in Seq(Frame)
    BY <2>1, SentType
  <2>. QED  BY <1>0, <1>3, <2>2 DEF EndRun, tab, Statuses
<1>4. CASE FlushBatch
  <2>1. LogFrame(batch) \in Frame
    BY <1>0 DEF LogFrame, Frame, Statuses
  <2>2. <<LogFrame(batch)>> \in Seq(Frame)
    BY <2>1, OneFrame
  <2>3. Sent(<<LogFrame(batch)>>) \in Seq(Frame)
    BY <2>2, SentType
  <2>. QED  BY <1>0, <1>4, <1>b, <2>3 DEF FlushBatch, tab
<1>5. CASE ReadSubscribe
  <2>1. up # <<>> /\ Head(up) \in Request /\ Tail(up) \in Seq(Request)
    BY <1>0, <1>5, HeadTailProperties DEF ReadSubscribe
  <2>2. Head(up).from \in Nat
    BY <1>0, <2>1 DEF Request
  <2>3. 1..(Head(up).from - 1) \subseteq 1..(Head(up).from - 1)
    OBVIOUS
  <2>4. Replay(Head(up).from) \in Seq(Frame)
    BY <1>0, <2>2, <2>3, ReplayOK
  <2>5. Sent(Replay(Head(up).from)) \in Seq(Frame)
    BY <2>4, SentType
  <2>. QED  BY <1>0, <1>5, <2>1, <2>5 DEF ReadSubscribe, tab
<1>6. CASE ReadUnsubscribe
  <2>1. Tail(up) \in Seq(Request)
    BY <1>0, <1>6, HeadTailProperties DEF ReadUnsubscribe
  <2>. QED  BY <1>0, <1>6, <2>1 DEF ReadUnsubscribe, tab
<1>7. CASE Flush
  <2>1. PICK n \in 1..Len(down) :
          /\ GiveToStore(SubSeq(down, 1, n))
          /\ down' = SubSeq(down, n + 1, Len(down))
    BY <1>7 DEF Flush
  <2>2. Len(down) \in Nat /\ n \in Nat /\ n <= Len(down)
    BY <1>0
  <2> DEFINE frames == SubSeq(down, 1, n)
  <2>3. frames \in Seq(Frame)
    <3>1. 1 \in Nat \ {0} /\ 1 <= n + 1
      BY <2>2
    <3>. QED  BY <1>0, <2>2, <3>1, Piece
  <2>4. down' \in Seq(Frame)
    <3>1. n + 1 \in Nat \ {0} /\ n + 1 <= Len(down) + 1 /\ Len(down) <= Len(down)
      BY <2>2
    <3>. QED  BY <1>0, <2>1, <2>2, <3>1, Piece
  <2>5. GiveToStore(frames)
    BY <2>1
  <2>. HIDE DEF frames
  <2>6. /\ shown' \in LineSeq /\ status' \in Statuses
        /\ subscribed' \in BOOLEAN /\ overtaken' \in BOOLEAN
        /\ fetches' \in Seq(Fetch)
    BY <2>3, <2>5, GiveToStoreOK
  <2>7. up' \in Seq(Request)
    <3>1. PICK req \in Seq(Request) : up' = Posted(req)
      BY <2>3, <2>5, GiveToStoreOK
    <3>. QED  BY <3>1, PostedType
  <2>. QED  BY <1>0, <1>7, <2>4, <2>6, <2>7 DEF Flush, server
<1>8. CASE NoticeClose
  BY <1>0, <1>8 DEF NoticeClose, server, tab
<1>9. CASE Connect
  <2>1. Hello(run) \in Frame
    BY <1>0, FrameTypes
  <2>2. Append(down, Hello(run)) \in Seq(Frame)
    BY <1>0, <2>1, AppendProperties
  <2>3. "none" \in Fetch
    BY DEF Fetch, Statuses
  <2>4. Append(fetches, "none") \in Seq(Fetch)
    BY <1>0, <2>3, AppendProperties
  <2>. QED  BY <1>0, <1>9, <1>b, <2>2, <2>4 DEF Connect
<1>10. ASSUME NEW k \in 1..Len(fetches), AnswerFetch(k)
       PROVE  fetches' \in Seq(Fetch)
  <2>1. (IF run = "none" THEN "empty" ELSE run) \in Fetch
    BY <1>0 DEF Fetch
  <2>. QED  BY <1>0, <1>10, <2>1, ExceptSeq DEF AnswerFetch
<1>11. CASE \E k \in 1..Len(fetches) : AnswerFetch(k)
  BY <1>0, <1>10, <1>11 DEF AnswerFetch, server, wire
<1>12. ASSUME NEW k \in 1..Len(fetches), Reconcile(k)
       PROVE  /\ fetches' \in Seq(Fetch) /\ status' \in Statuses
              /\ subscribed' \in BOOLEAN /\ overtaken' \in BOOLEAN /\ up' \in Seq(Request)
  <2> DEFINE st == IF fetches[k] = "empty" THEN status ELSE fetches[k]
             sync == Sync(st, displayed, subscribed, LastSeq(shown))
  <2>1. "none" \in Fetch /\ st \in Statuses
    BY <1>0, <1>12 DEF Fetch, Statuses, Reconcile
  <2>. HIDE DEF st
  <2>2. sync.sub \in BOOLEAN /\ sync.frames \in Seq(Request)
    BY <1>0, <1>a, SyncOK
  <2>3. /\ fetches' = [fetches EXCEPT ![k] = "none"]
        /\ status' = st
        /\ overtaken' = ((overtaken \/ (status = "done" /\ subscribed)) /\ st # "done")
        /\ subscribed' = sync.sub /\ up' = Posted(sync.frames)
    BY <1>12 DEF Reconcile, st
  <2>. HIDE DEF sync
  <2>4. fetches' \in Seq(Fetch)
    BY <1>0, <2>1, <2>3, ExceptSeq
  <2>5. up' \in Seq(Request)
    BY <2>2, <2>3, PostedType
  <2>. QED  BY <1>0, <2>1, <2>2, <2>3, <2>4, <2>5
<1>13. CASE \E k \in 1..Len(fetches) : Reconcile(k)
  BY <1>0, <1>12, <1>13 DEF Reconcile, server
<1>14. ASSUME NEW k \in 1..Len(fetches), FetchFails(k)
       PROVE  fetches' \in Seq(Fetch)
  <2>1. "none" \in Fetch
    BY DEF Fetch, Statuses
  <2>. QED  BY <1>0, <1>14, <2>1, ExceptSeq DEF FetchFails
<1>15. CASE \E k \in 1..Len(fetches) : FetchFails(k)
  BY <1>0, <1>14, <1>15 DEF FetchFails, server, wire
<1>16. CASE Break
  <2>1. PICK n \in 0..Len(down) : down' = SubSeq(down, 1, n)
    BY <1>16 DEF Break
  <2>2. down' \in Seq(Frame)
    <3>1. 1 \in Nat \ {0} /\ n \in Nat /\ 1 <= n + 1 /\ n <= Len(down)
      BY <1>0
    <3>. QED  BY <1>0, <2>1, <3>1, Piece
  <2>. QED  BY <1>0, <1>16, <1>b, <2>2 DEF Break, tab
<1>17. CASE Look
  <2> DEFINE sync == Sync(status, ~displayed, subscribed, LastSeq(shown))
  <2>1. sync.sub \in BOOLEAN /\ sync.frames \in Seq(Request)
    BY <1>0, <1>a, SyncOK
  <2>2. subscribed' = sync.sub /\ up' = Posted(sync.frames) /\ displayed' = ~displayed
    BY <1>17 DEF Look
  <2>. HIDE DEF sync
  <2>3. up' \in Seq(Request)
    BY <2>1, <2>2, PostedType
  <2>. QED  BY <1>0, <1>17, <2>1, <2>2, <2>3 DEF Look, server
<1>18. CASE UNCHANGED vars
  BY <1>0, <1>18 DEF vars, server, wire, tab
<1>19. CASE StopRun
  BY <1>0, <1>19 DEF StopRun, wire, tab, Statuses
<1>. QED
  BY <1>1, <1>2, <1>3, <1>4, <1>5, <1>6, <1>7, <1>8, <1>9, <1>11, <1>13, <1>15, <1>16,
     <1>17, <1>18, <1>19
     DEF Next, Hub, Client, Http

(* Every variable keeps the values the code gives it.                        *)
THEOREM TypeCorrect == Spec => []TypeOK
<1>1. TypeInv => TypeOK
  BY DEF TypeInv
<1>. QED  BY <1>1, TypeInit, TypeStep, PTL DEF Spec

-----------------------------------------------------------------------------
(* The inductive invariant.  What the tab has seen, and what it will have    *)
(* when the frames under way have come, leave no hole; the waiting batch     *)
(* begins where those end; a tab that is followed will come to have every    *)
(* line that is held; and it asks from no later than its next line.          *)

Seen == 1..LastSeq(shown)

OnTheWay == Seen \cup LinesOf(down, Len(down))

FramesInv == FramesOK(down, Seen, FirstHeld)

BatchInv == Gapless(batch, OnTheWay, FirstHeld)

FollowInv ==
    follows => \A y \in FirstHeld..printed :
                   y \in OnTheWay \/ \E j \in 1..Len(batch) : batch[j] = y

AskInv == Asks(up, LastSeq(shown))

LinkInv == link # "up" => batch = <<>> /\ ~follows /\ up = <<>>

StreamInv ==
    OnlyTheRingLoses /\ FramesInv /\ BatchInv /\ FollowInv /\ AskInv /\ LinkInv

LEMMA HolesAre == OnlyTheRingLoses <=> NoHoles(shown, FirstHeld)
BY DEF OnlyTheRingLoses, NoHoles

LEMMA SeenType ==
    ASSUME TypeInv
    PROVE  /\ LastSeq(shown) \in 0..MaxLines
           /\ OnTheWay \subseteq 1..MaxLines
           /\ FirstHeld \in 1..(MaxLines + 1) /\ MaxLines \in Nat
           /\ down \in Seq(Frame) /\ batch \in LineSeq /\ shown \in LineSeq
           /\ up \in Seq(Request)
           /\ printed \in 0..MaxLines
<1>1. shown \in LineSeq /\ printed \in 0..MaxLines /\ MaxLines \in Nat
      /\ down \in Seq(Frame) /\ batch \in LineSeq /\ up \in Seq(Request)
  BY RingAssumption DEF TypeInv, TypeOK
<1>2. LastSeq(shown) \in 0..MaxLines
  BY <1>1, LastType
<1>3. Seen \subseteq 1..MaxLines
  BY <1>1, <1>2 DEF Seen
<1>4. OnTheWay \subseteq 1..MaxLines
  BY <1>3 DEF OnTheWay, LinesOf
<1>5. FirstHeld \in 1..(MaxLines + 1)
  BY <1>1, HeldType
<1>. QED  BY <1>1, <1>2, <1>4, <1>5

(* A frame without lines fits behind any. *)
LEMMA QuietFrame ==
    ASSUME NEW f \in Frame, f.lines = <<>>, NEW seen, NEW held
    PROVE  <<f>> \in Seq(Frame) /\ FramesOK(<<f>>, seen, held)
<1>1. <<f>> \in Seq(Frame) /\ Len(<<f>>) = 1 /\ <<f>>[1] = f
  BY OneFrame
<1>. QED  BY <1>1 DEF FramesOK, Gapless

(* Frames that come without a gap after those under way are sent. *)
LEMMA SentOK ==
    ASSUME TypeInv, FramesInv, NEW frames \in Seq(Frame),
           FramesOK(frames, OnTheWay, FirstHeld)
    PROVE  /\ FramesOK(Sent(frames), Seen, FirstHeld)
           /\ OnTheWay \subseteq Seen \cup LinesOf(Sent(frames), Len(Sent(frames)))
           /\ link = "up" => LinesOf(frames, Len(frames)) \subseteq
                               Seen \cup LinesOf(Sent(frames), Len(Sent(frames)))
<1>1. CASE link # "up"
  BY <1>1 DEF Sent, FramesInv, OnTheWay
<1>2. CASE link = "up"
  <2> DEFINE dr == down \o frames
             d == down
             m == Len(down)
             held == FirstHeld
             seen == Seen
  <2>1. Sent(frames) = dr
    BY <1>2 DEF Sent
  <2>2. d \in Seq(Frame) /\ FramesOK(d, seen, held)
        /\ FramesOK(frames, seen \cup LinesOf(d, Len(d)), held)
    BY SeenType DEF FramesInv, OnTheWay
  <2>3. FramesOK(dr, seen, held)
    <3>. HIDE DEF seen, held, d
    <3>1. FramesOK(d \o frames, seen, held)
      BY <2>2, FramesBehind
    <3>. QED  BY <3>1 DEF d
  <2>4. Len(frames) \in 0..Len(frames) /\ Len(dr) = m + Len(frames)
    BY <2>2, ConcatProperties, LenProperties
  <2>5. LinesOf(dr, m + Len(frames)) = LinesOf(d, m) \cup LinesOf(frames, Len(frames))
    <3>1. LinesOf(d \o frames, Len(d) + Len(frames)) = LinesOf(d, Len(d)) \cup LinesOf(frames, Len(frames))
      <4>. HIDE DEF d
      <4>. QED  BY <2>2, <2>4, LinesBehind
    <3>. QED  BY <3>1
  <2>. QED  BY <2>1, <2>3, <2>4, <2>5 DEF OnTheWay
<1>. QED  BY <1>1, <1>2

(* Steps that leave the server's lines and the store as they are. *)
LEMMA SameStore ==
    ASSUME TypeInv, StreamInv, UNCHANGED <<printed, shown, batch>>, follows' => follows,
           FramesOK(down', Seen, FirstHeld), OnTheWay \subseteq Seen \cup LinesOf(down', Len(down')),
           Asks(up', LastSeq(shown)), LinkInv'
    PROVE  StreamInv'
<1>1. FirstHeld' = FirstHeld /\ Seen' = Seen /\ OnTheWay' = Seen \cup LinesOf(down', Len(down'))
  BY DEF FirstHeld, Seen, OnTheWay
<1>2. OnlyTheRingLoses'
  <2>1. NoHoles(shown', FirstHeld')
    BY <1>1, HolesAre DEF StreamInv
  <2>. QED  BY <2>1 DEF OnlyTheRingLoses, NoHoles
<1>3. FramesInv'
  BY <1>1 DEF FramesInv
<1>4. BatchInv'
  <2> DEFINE way == OnTheWay
             more == Seen \cup LinesOf(down', Len(down'))
             held == FirstHeld
             b == batch
  <2>1. \A k \in 1..Len(b) : b[k] \in Int
    BY SeenType, ElementOfSeq DEF LineSeq
  <2>2. held \in Int /\ held <= held /\ way \subseteq more /\ Gapless(b, way, held)
    BY SeenType DEF StreamInv, BatchInv
  <2>3. Gapless(b, more, held)
    <3>. HIDE DEF way, more, held, b
    <3>. QED  BY <2>1, <2>2, GaplessMore
  <2>. QED  BY <1>1, <2>3 DEF BatchInv
<1>5. FollowInv'
  BY <1>1 DEF StreamInv, FollowInv
<1>6. AskInv'
  BY DEF AskInv
<1>. QED  BY <1>2, <1>3, <1>4, <1>5, <1>6 DEF StreamInv

LEMMA StreamInit == Init => StreamInv
<1> SUFFICES ASSUME Init  PROVE StreamInv
  OBVIOUS
<1>1. down = <<>> /\ up = <<>> /\ batch = <<>> /\ shown = <<>> /\ link = "up"
  BY DEF Init
<1>2. ~follows
  BY Zenon DEF Init
<1>3. \A i \in 1..Len(<<>>) : FALSE
  OBVIOUS
<1>4. OnlyTheRingLoses
  BY <1>1, <1>3 DEF OnlyTheRingLoses
<1>5. FramesInv /\ BatchInv /\ AskInv
  BY <1>1, <1>3 DEF FramesInv, FramesOK, BatchInv, Gapless, AskInv, Asks
<1>6. FollowInv /\ LinkInv
  BY <1>1, <1>2 DEF FollowInv, LinkInv
<1>. QED  BY <1>4, <1>5, <1>6 DEF StreamInv

LEMMA SentQuiet ==
    ASSUME TypeInv, StreamInv, NEW f \in Frame, f.lines = <<>>
    PROVE  /\ FramesOK(Sent(<<f>>), Seen, FirstHeld)
           /\ OnTheWay \subseteq Seen \cup LinesOf(Sent(<<f>>), Len(Sent(<<f>>)))
<1>1. <<f>> \in Seq(Frame) /\ FramesOK(<<f>>, OnTheWay, FirstHeld)
  BY QuietFrame
<1>. QED  BY <1>1, SentOK DEF StreamInv

LEMMA PrintLineStep ==
    ASSUME TypeInv, StreamInv, PrintLine
    PROVE  StreamInv'
<1> DEFINE way == OnTheWay
           wide == OnTheWay'
           seen == Seen
           held == FirstHeld
           later == FirstHeld'
           d == down'
           b == batch
<1>0. /\ printed' = printed + 1
      /\ batch' = IF follows THEN Append(batch, printed + 1) ELSE batch
      /\ UNCHANGED <<follows, link, up, shown>>
      /\ d = down \/ \E s \in Statuses : d = Sent(<<Updated(s)>>)
  <2>1. run \in Statuses /\ "done" \in Statuses
    BY DEF TypeInv, TypeOK, Statuses
  <2>. QED  BY <2>1 DEF PrintLine, tab
<1>1. printed \in Nat /\ LogRing \in Nat \ {0}
  BY SeenType, RingAssumption
<1>2. held \in Int /\ later \in Int /\ held <= later
  <2> DEFINE x == printed - LogRing + 1
             y == printed' - LogRing + 1
  <2>1. 1 \in Int /\ x \in Int /\ y \in Int /\ x <= y
    BY <1>0, <1>1
  <2>2. held = Max({1, x}) /\ later = Max({1, y})
    BY DEF FirstHeld, Max
  <2>. HIDE DEF x, y, held, later
  <2>3. Max({1, x}) \in {1, x} /\ Max({1, x}) >= 1 /\ Max({1, x}) >= x
    BY <2>1, MaxPair
  <2>4. Max({1, y}) \in {1, y} /\ Max({1, y}) >= 1 /\ Max({1, y}) >= y
    BY <2>1, MaxPair
  <2>. QED  BY <2>1, <2>2, <2>3, <2>4
<1>3. /\ d \in Seq(Frame) /\ FramesOK(d, seen, held)
      /\ Seen' = seen /\ way \subseteq wide
  <2>1. Seen' = seen /\ wide = seen \cup LinesOf(d, Len(d))
    BY <1>0 DEF Seen, OnTheWay
  <2>2. CASE d = down
    BY <2>1, <2>2, SeenType DEF StreamInv, FramesInv, OnTheWay
  <2>3. ASSUME NEW s \in Statuses, d = Sent(<<Updated(s)>>)
        PROVE  d \in Seq(Frame) /\ FramesOK(d, seen, held) /\ Seen' = seen /\ way \subseteq wide
    <3> DEFINE f == Updated(s)
    <3>1. f \in Frame /\ f.lines = <<>>
      BY FrameTypes DEF Updated
    <3>. HIDE DEF f
    <3>2. <<f>> \in Seq(Frame)
      BY <3>1, OneFrame
    <3>3. d = Sent(<<f>>)
      BY <2>3 DEF f
    <3>. HIDE DEF d
    <3>. QED  BY <2>1, <3>1, <3>2, <3>3, SentQuiet, SentType
  <2>. QED  BY <1>0, <2>2, <2>3
<1>4. /\ \A k \in 1..Len(b) : b[k] \in Int
      /\ \A i \in 1..Len(d) : \A k \in 1..Len(d[i].lines) : d[i].lines[k] \in Int
  <2>1. \A k \in 1..Len(b) : b[k] \in Int
    BY SeenType, ElementOfSeq DEF LineSeq
  <2>2. ASSUME NEW i \in 1..Len(d), NEW k \in 1..Len(d[i].lines)  PROVE d[i].lines[k] \in Int
    <3>1. d[i] \in Frame
      BY <1>3, ElementOfSeq
    <3>2. d[i].lines \in Seq(1..MaxLines)
      BY <3>1 DEF Frame, LineSeq
    <3>3. d[i].lines[k] \in 1..MaxLines
      BY <3>2, ElementOfSeq
    <3>. QED  BY <3>3
  <2>. QED  BY <2>1, <2>2
<1>5. OnlyTheRingLoses'
  <2>1. NoHoles(shown, held)
    BY HolesAre DEF StreamInv
  <2>2. NoHoles(shown, later)
    <3>1. \A i \in 1..Len(shown) : shown[i] \in Int
      BY SeenType, ElementOfSeq DEF LineSeq
    <3>. HIDE DEF held, later
    <3>. QED  BY <1>2, <2>1, <3>1 DEF NoHoles
  <2>3. NoHoles(shown', FirstHeld')
    BY <1>0, <2>2
  <2>. QED  BY <2>3 DEF OnlyTheRingLoses, NoHoles
<1>6. FramesInv'
  <2>1. ASSUME NEW i \in 1..Len(d)
        PROVE  /\ d[i].t # "run.log" => d[i].lines = <<>>
               /\ Gapless(d[i].lines, seen \cup LinesOf(d, i - 1), later)
    <3> DEFINE lines == d[i].lines
               s == seen \cup LinesOf(d, i - 1)
    <3>1. (d[i].t # "run.log" => lines = <<>>) /\ Gapless(lines, s, held)
      BY <1>3 DEF FramesOK
    <3>2. \A k \in 1..Len(lines) : lines[k] \in Int
      BY <1>4
    <3>3. Gapless(lines, s, later)
      <4>1. s \subseteq s
        OBVIOUS
      <4>. HIDE DEF lines, s, held, later
      <4>. QED  BY <1>2, <3>1, <3>2, <4>1, GaplessMore
    <3>. QED  BY <3>1, <3>3
  <2>2. FramesOK(d, seen, later)
    <3>. HIDE DEF d, seen, later
    <3>. QED  BY <2>1 DEF FramesOK
  <2>. QED  BY <1>0, <1>3, <2>2 DEF FramesInv
<1>7. Gapless(b, wide, later)
  <2>1. Gapless(b, way, held)
    BY DEF StreamInv, BatchInv
  <2>. HIDE DEF b, way, wide, held, later
  <2>. QED  BY <1>2, <1>3, <1>4, <2>1, GaplessMore
<1>8. CASE ~follows
  <2>1. batch' = b /\ ~follows'
    BY <1>0, <1>8
  <2>2. BatchInv' /\ FollowInv'
    BY <1>3, <1>7, <2>1 DEF BatchInv, FollowInv
  <2>. QED  BY <1>0, <1>5, <1>6, <2>1, <2>2 DEF StreamInv, AskInv, LinkInv
<1>9. CASE follows
  <2> DEFINE c == Append(b, printed + 1)
             n == Len(b)
  <2>1. /\ batch' = c /\ n \in Nat /\ Len(c) = n + 1
        /\ \A k \in 1..n : c[k] = b[k]
        /\ c[n + 1] = printed + 1
    <3>1. b \in Seq(Int) /\ printed + 1 \in Int
      BY SeenType, <1>1 DEF LineSeq
    <3>. QED  BY <1>0, <1>9, <3>1, AppendProperties
  <2>2. \A y \in held..printed : y \in wide \/ \E j \in 1..n : b[j] = y
    BY <1>3, <1>9 DEF StreamInv, FollowInv
  <2>. HIDE DEF c, n
  <2>3. \A y \in later..printed : y \in wide \/ \E j \in 1..n : c[j] = y
    <3>1. \A y \in later..printed : y \in held..printed
      <4>. HIDE DEF held, later
      <4>. QED  BY <1>1, <1>2
    <3>. HIDE DEF held, later, wide, b
    <3>. QED  BY <2>1, <2>2, <3>1
  <2>4. Gapless(c, wide, later)
    <3> SUFFICES ASSUME NEW k \in 1..Len(c), NEW y \in later..(c[k] - 1)
                 PROVE  y \in wide \/ \E j \in 1..(k - 1) : c[j] = y
      BY DEF Gapless
    <3>. HIDE DEF later, wide
    <3>1. CASE k \in 1..n
      <4>1. c[k] = b[k] /\ k \in 1..Len(b)
        BY <2>1, <3>1 DEF n
      <4>2. y \in wide \/ \E j \in 1..(k - 1) : b[j] = y
        BY <1>7, <4>1 DEF Gapless
      <4>3. \A j \in 1..(k - 1) : c[j] = b[j]
        BY <2>1, <3>1
      <4>. QED  BY <4>2, <4>3
    <3>2. CASE k = n + 1
      <4>1. c[k] - 1 = printed /\ k - 1 = n
        BY <1>1, <2>1, <3>2
      <4>2. y \in later..printed
        BY <4>1
      <4>. QED  BY <2>3, <4>1, <4>2
    <3>. QED  BY <2>1, <3>1, <3>2
  <2>5. \A y \in later..(printed + 1) : y \in wide \/ \E j \in 1..(n + 1) : c[j] = y
    <3> SUFFICES ASSUME NEW y \in later..(printed + 1)
                 PROVE  y \in wide \/ \E j \in 1..(n + 1) : c[j] = y
      OBVIOUS
    <3>. HIDE DEF later, wide, held
    <3>1. CASE y = printed + 1
      BY <2>1, <3>1
    <3>2. CASE y \in later..printed
      <4>1. \A j \in 1..n : j \in 1..(n + 1)
        BY <2>1
      <4>. QED  BY <2>3, <3>2, <4>1
    <3>. QED  BY <1>1, <1>2, <3>1, <3>2
  <2>6. BatchInv'
    BY <1>3, <2>1, <2>4 DEF BatchInv
  <2>7. FollowInv'
    BY <1>0, <1>3, <2>1, <2>5 DEF FollowInv
  <2>8. AskInv' /\ LinkInv'
    BY <1>0, <1>9 DEF StreamInv, AskInv, LinkInv
  <2>. QED  BY <1>5, <1>6, <2>6, <2>7, <2>8 DEF StreamInv
<1>. QED  BY <1>8, <1>9

LEMMA FlushBatchStep ==
    ASSUME TypeInv, StreamInv, FlushBatch
    PROVE  StreamInv'
<1> DEFINE f == LogFrame(batch)
           way == OnTheWay
           held == FirstHeld
           sent == Sent(<<f>>)
<1>1. /\ batch # <<>> /\ batch' = <<>> /\ down' = sent
      /\ UNCHANGED <<printed, follows, link, up, shown>>
  BY DEF FlushBatch, tab
<1>2. link = "up"
  BY <1>1 DEF StreamInv, LinkInv
<1>3. /\ f \in Frame /\ f.lines = batch /\ f.t = "run.log"
  BY SeenType DEF LogFrame, Frame, Statuses
<1>4. <<f>> \in Seq(Frame) /\ Len(<<f>>) = 1 /\ <<f>>[1] = f
  BY <1>3, OneFrame
<1>5. FramesOK(<<f>>, way, held)
  <2>1. Gapless(batch, way, held)
    BY DEF StreamInv, BatchInv
  <2>2. way \cup LinesOf(<<f>>, 0) = way
    BY DEF LinesOf
  <2>. HIDE DEF f, way, held
  <2>3. Gapless(<<f>>[1].lines, way \cup LinesOf(<<f>>, 0), held)
    BY <1>3, <1>4, <2>1, <2>2
  <2>4. \A i \in 1..Len(<<f>>) : i = 1 /\ i - 1 = 0
    BY <1>4
  <2>5. <<f>>[1].t # "run.log" => <<f>>[1].lines = <<>>
    BY <1>3, <1>4
  <2>. QED  BY <2>3, <2>4, <2>5 DEF FramesOK
<1>6. /\ FramesOK(sent, Seen, held)
      /\ way \subseteq Seen \cup LinesOf(sent, Len(sent))
      /\ LinesOf(<<f>>, 1) \subseteq Seen \cup LinesOf(sent, Len(sent))
  <2>. HIDE DEF f
  <2>. QED  BY <1>2, <1>4, <1>5, SentOK DEF StreamInv
<1>7. \A j \in 1..Len(batch) : batch[j] \in LinesOf(<<f>>, 1)
  <2>1. \A j \in 1..Len(batch) : batch[j] \in 1..MaxLines
    BY SeenType, ElementOfSeq DEF LineSeq
  <2>. HIDE DEF f
  <2>. QED  BY <1>3, <1>4, <2>1 DEF LinesOf
<1>8. /\ FirstHeld' = held /\ Seen' = Seen
      /\ OnTheWay' = Seen \cup LinesOf(sent, Len(sent))
  BY <1>1 DEF FirstHeld, Seen, OnTheWay
<1>. HIDE DEF f, sent
<1>9. OnlyTheRingLoses'
  <2>1. NoHoles(shown', FirstHeld')
    BY <1>1, <1>8, HolesAre DEF StreamInv
  <2>. QED  BY <2>1 DEF OnlyTheRingLoses, NoHoles
<1>10. FramesInv' /\ BatchInv'
  BY <1>1, <1>6, <1>8 DEF FramesInv, BatchInv, Gapless
<1>11. FollowInv'
  <2>1. ASSUME follows, NEW y \in held..printed  PROVE y \in OnTheWay'
    <3>1. y \in way \/ \E j \in 1..Len(batch) : batch[j] = y
      BY <2>1 DEF StreamInv, FollowInv
    <3>. QED  BY <1>6, <1>7, <1>8, <3>1
  <2>. QED  BY <1>1, <1>8, <2>1 DEF FollowInv
<1>12. AskInv' /\ LinkInv'
  BY <1>1 DEF StreamInv, AskInv, LinkInv
<1>. QED  BY <1>9, <1>10, <1>11, <1>12 DEF StreamInv

(* What is left of the requests. *)
LEMMA AsksTail ==
    ASSUME TypeInv, NEW last, Asks(up, last), up # <<>>
    PROVE  /\ Tail(up) \in Seq(Request) /\ Asks(Tail(up), last)
           /\ Head(up) \in Request
           /\ Head(up).t = "run.subscribe" => Head(up).from <= last + 1
<1>1. /\ Head(up) \in Request /\ Tail(up) \in Seq(Request)
      /\ Len(Tail(up)) = Len(up) - 1 /\ Len(up) \in Nat
      /\ \A i \in 1..Len(Tail(up)) : Tail(up)[i] = up[i + 1]
  BY SeenType, HeadTailProperties
<1>2. Len(up) # 0 /\ Head(up) = up[1]
  BY SeenType, EmptySeq
<1>3. 1 \in 1..Len(up) /\ \A i \in 1..Len(Tail(up)) : i + 1 \in 1..Len(up)
  BY <1>1, <1>2
<1>4. Asks(Tail(up), last)
  BY <1>1, <1>3 DEF Asks
<1>. QED  BY <1>1, <1>2, <1>3, <1>4 DEF Asks

LEMMA ReadSubscribeStep ==
    ASSUME TypeInv, StreamInv, ReadSubscribe
    PROVE  StreamInv'
<1> DEFINE n == Head(up).from
           r == Replay(n)
           way == OnTheWay
           held == FirstHeld
           sent == Sent(r)
           last == LastSeq(shown)
<1>1. /\ link = "up" /\ up # <<>> /\ Head(up).t = "run.subscribe"
      /\ up' = Tail(up) /\ follows' = TRUE /\ down' = sent
      /\ UNCHANGED <<printed, batch, link, shown>>
  BY DEF ReadSubscribe, tab
<1>2. Asks(up, last)
  BY DEF StreamInv, AskInv
<1>3. Asks(Tail(up), last) /\ Head(up) \in Request /\ n <= last + 1
  <2>. HIDE DEF last
  <2>. QED  BY <1>1, <1>2, AsksTail
<1>4. n \in Nat /\ last \in 0..MaxLines /\ MaxLines \in Nat
  BY <1>3, SeenType DEF Request
<1>5. 1..(n - 1) \subseteq way
  <2>1. \A y \in 1..(n - 1) : y \in 1..last
    <3>. HIDE DEF n, last
    <3>. QED  BY <1>3, <1>4
  <2>. QED  BY <2>1 DEF OnTheWay, Seen
<1>6. run \in Statuses /\ printed \in 0..MaxLines
  BY DEF TypeInv, TypeOK
<1>7. /\ r \in Seq(Frame) /\ FramesOK(r, way, held)
      /\ \A y \in held..printed : y \in way \/ y \in LinesOf(r, Len(r))
  <2>. HIDE DEF n, way
  <2>. QED  BY <1>4, <1>5, <1>6, ReplayOK
<1>8. /\ FramesOK(sent, Seen, held)
      /\ way \subseteq Seen \cup LinesOf(sent, Len(sent))
      /\ LinesOf(r, Len(r)) \subseteq Seen \cup LinesOf(sent, Len(sent))
  <2>. HIDE DEF r
  <2>. QED  BY <1>1, <1>7, SentOK DEF StreamInv
<1>9. /\ FirstHeld' = held /\ Seen' = Seen
      /\ OnTheWay' = Seen \cup LinesOf(sent, Len(sent))
  BY <1>1 DEF FirstHeld, Seen, OnTheWay
<1>. HIDE DEF r, sent, n
<1>10. OnlyTheRingLoses'
  <2>1. NoHoles(shown', FirstHeld')
    BY <1>1, <1>9, HolesAre DEF StreamInv
  <2>. QED  BY <2>1 DEF OnlyTheRingLoses, NoHoles
<1>11. FramesInv'
  BY <1>1, <1>8, <1>9 DEF FramesInv
<1>12. BatchInv'
  <2> DEFINE more == Seen \cup LinesOf(sent, Len(sent))
             b == batch
  <2>1. \A k \in 1..Len(b) : b[k] \in Int
    BY SeenType, ElementOfSeq DEF LineSeq
  <2>2. held \in Int /\ held <= held /\ way \subseteq more /\ Gapless(b, way, held)
    BY SeenType, <1>8 DEF StreamInv, BatchInv
  <2>3. Gapless(b, more, held)
    <3>. HIDE DEF way, more, held, b
    <3>. QED  BY <2>1, <2>2, GaplessMore
  <2>. QED  BY <1>1, <1>9, <2>3 DEF BatchInv
<1>13. FollowInv'
  <2>1. \A y \in held..printed : y \in OnTheWay'
    BY <1>7, <1>8, <1>9
  <2>. QED  BY <1>1, <1>9, <2>1 DEF FollowInv
<1>14. AskInv' /\ LinkInv'
  BY <1>1, <1>3 DEF AskInv, LinkInv
<1>. QED  BY <1>10, <1>11, <1>12, <1>13, <1>14 DEF StreamInv

LEMMA BreakStep ==
    ASSUME TypeInv, StreamInv, Break
    PROVE  StreamInv'
<1> DEFINE d == down
           held == FirstHeld
           seen == Seen
<1>1. /\ up' = <<>> /\ follows' = FALSE /\ batch' = <<>> /\ link' = "half"
      /\ UNCHANGED <<printed, shown>>
  BY DEF Break, tab
<1>2. PICK n \in 0..Len(down) : down' = SubSeq(down, 1, n)
  BY DEF Break
<1>3. d \in Seq(Frame) /\ FramesOK(d, seen, held) /\ n \in 0..Len(d)
  BY <1>2, SeenType DEF StreamInv, FramesInv
<1>4. FramesOK(SubSeq(d, 1, n), seen, held)
  <2>. HIDE DEF d, held, seen
  <2>. QED  BY <1>3, FramesFirst
<1>5. FirstHeld' = held /\ Seen' = seen
  BY <1>1 DEF FirstHeld, Seen
<1>6. OnlyTheRingLoses'
  <2>1. NoHoles(shown', FirstHeld')
    BY <1>1, <1>5, HolesAre DEF StreamInv
  <2>. QED  BY <2>1 DEF OnlyTheRingLoses, NoHoles
<1>7. FramesInv'
  BY <1>2, <1>4, <1>5 DEF FramesInv
<1>8. BatchInv' /\ AskInv' /\ FollowInv' /\ LinkInv'
  <2>1. \A i \in 1..Len(<<>>) : FALSE
    OBVIOUS
  <2>. QED  BY <1>1, <2>1 DEF BatchInv, Gapless, AskInv, Asks, FollowInv, LinkInv
<1>. QED  BY <1>6, <1>7, <1>8 DEF StreamInv

(* The frames up to a paint: the store takes their lines, and asks, if it    *)
(* asks, from its new last line on.                                          *)
LEMMA FlushStep ==
    ASSUME TypeInv, StreamInv, Flush
    PROVE  StreamInv'
<1> DEFINE d == down
           held == FirstHeld
           last == LastSeq(shown)
           more == LastSeq(shown')
<1>1. PICK n \in 1..Len(down) :
        /\ GiveToStore(SubSeq(down, 1, n))
        /\ down' = SubSeq(down, n + 1, Len(down))
  BY DEF Flush
<1>2. UNCHANGED <<printed, follows, batch, link>>
  BY DEF Flush, server
<1> DEFINE frames == SubSeq(d, 1, n)
           left == SubSeq(d, n + 1, Len(d))
           s == Applied(frames)
<1>3. d \in Seq(Frame) /\ FramesOK(d, 1..last, held) /\ n \in 0..Len(d) /\ held \in Int
      /\ shown \in LineSeq /\ status \in Statuses
  <2>1. n \in 0..Len(d)
    BY SeenType, LenProperties
  <2>. QED  BY <2>1, SeenType DEF StreamInv, FramesInv, Seen, TypeInv, TypeOK
<1>4. /\ frames \in Seq(Frame) /\ Len(frames) = n
      /\ FramesOK(frames, 1..last, held)
      /\ LinesOf(frames, n) = LinesOf(d, n)
  <2>. HIDE DEF d, held, last
  <2>. QED  BY <1>3, FramesFirst
<1>5. GiveToStore(frames)
  BY <1>1
<1>. HIDE DEF frames
<1>6. /\ s \in Store /\ NoHoles(s.shown, held)
      /\ LastSeq(s.shown) >= last
      /\ \A y \in LinesOf(frames, Len(frames)) : y <= LastSeq(s.shown)
  <2>1. NoHoles(shown, held)
    BY HolesAre DEF StreamInv
  <2>. HIDE DEF held
  <2>. QED  BY <1>3, <1>4, <2>1, AppliedOK
<1>7. /\ shown' = s.shown /\ shown' \in LineSeq
      /\ \E req \in Seq(Request) : Asks(req, LastSeq(s.shown)) /\ up' = Posted(req)
  BY <1>4, <1>5, GiveToStoreOK
<1>. HIDE DEF s
<1>8. more = LastSeq(s.shown) /\ more \in 0..MaxLines /\ last \in 0..MaxLines /\ more >= last
      /\ MaxLines \in Nat
  <2>1. s.shown \in LineSeq
    BY <1>7
  <2>2. LastSeq(s.shown) \in 0..MaxLines
    BY <2>1, LastType, RingAssumption
  <2>. QED  BY <1>6, <1>7, <2>2, SeenType
<1>9. 1..last \cup LinesOf(d, n) \subseteq 1..more
  <2>1. LinesOf(d, n) \subseteq 1..MaxLines
    BY DEF LinesOf
  <2>2. \A y \in LinesOf(d, n) : y <= more
    BY <1>4, <1>6, <1>8
  <2>. HIDE DEF last, more, d
  <2>. QED  BY <1>8, <2>1, <2>2
<1>10. /\ FramesOK(left, 1..more, held)
       /\ LinesOf(d, Len(d)) \subseteq 1..more \cup LinesOf(left, Len(left))
  <2>. HIDE DEF d, held, last, more
  <2>. QED  BY <1>3, <1>9, FramesLeft
<1>11. down' = left
  BY <1>1
<1>. HIDE DEF left
<1>12. FirstHeld' = held /\ Seen' = 1..more /\ OnTheWay' = 1..more \cup LinesOf(left, Len(left))
  BY <1>2, <1>11 DEF FirstHeld, Seen, OnTheWay
<1>13. OnTheWay \subseteq OnTheWay'
  <2>1. OnTheWay = 1..last \cup LinesOf(d, Len(d))
    BY DEF OnTheWay, Seen
  <2>. QED  BY <1>9, <1>10, <1>12, <2>1
<1>14. OnlyTheRingLoses'
  <2>1. NoHoles(shown', FirstHeld')
    BY <1>6, <1>7, <1>12
  <2>. QED  BY <2>1 DEF OnlyTheRingLoses, NoHoles
<1>15. FramesInv'
  BY <1>10, <1>11, <1>12 DEF FramesInv
<1>16. BatchInv'
  <2> DEFINE b == batch
             way == OnTheWay
             wide == 1..more \cup LinesOf(left, Len(left))
  <2>1. \A k \in 1..Len(b) : b[k] \in Int
    BY SeenType, ElementOfSeq DEF LineSeq
  <2>2. held \in Int /\ held <= held /\ way \subseteq wide /\ Gapless(b, way, held)
    BY SeenType, <1>12, <1>13 DEF StreamInv, BatchInv
  <2>3. Gapless(b, wide, held)
    <3>. HIDE DEF way, wide, held, b
    <3>. QED  BY <2>1, <2>2, GaplessMore
  <2>. QED  BY <1>2, <1>12, <2>3 DEF BatchInv
<1>17. FollowInv'
  BY <1>2, <1>12, <1>13 DEF StreamInv, FollowInv
<1>18. AskInv' /\ LinkInv'
  <2>1. PICK req \in Seq(Request) : Asks(req, more) /\ up' = Posted(req)
    BY <1>7, <1>8
  <2>2. Asks(up, more)
    <3>1. Asks(up, last)
      BY DEF StreamInv, AskInv
    <3>2. \A i \in 1..Len(up) : up[i].from \in Int
      <4>1. \A i \in 1..Len(up) : up[i] \in Request
        BY SeenType, ElementOfSeq
      <4>. QED  BY <1>8, <4>1 DEF Request
    <3>. HIDE DEF last, more
    <3>. QED  BY <1>8, <3>1, <3>2 DEF Asks
  <2>3. Asks(up', more)
    <3>. HIDE DEF more
    <3>. QED  BY <2>1, <2>2, PostedOK
  <2>4. LinkInv'
    <3>1. link # "up" => up' = up
      BY <2>1 DEF Posted
    <3>. QED  BY <1>2, <3>1 DEF StreamInv, LinkInv
  <2>. QED  BY <2>3, <2>4 DEF AskInv
<1>. QED  BY <1>14, <1>15, <1>16, <1>17, <1>18 DEF StreamInv

LEMMA StreamStep == TypeInv /\ StreamInv /\ [Next]_vars => StreamInv'
<1> SUFFICES ASSUME TypeInv, StreamInv, [Next]_vars  PROVE StreamInv'
  OBVIOUS
<1> DEFINE last == LastSeq(shown)
<1>0. /\ FramesOK(down, Seen, FirstHeld)
      /\ OnTheWay \subseteq Seen \cup LinesOf(down, Len(down))
      /\ Asks(up, last) /\ LinkInv
      /\ up \in Seq(Request) /\ last \in 0..MaxLines /\ run \in Statuses
      /\ down \in Seq(Frame) /\ subscribed \in BOOLEAN
  BY SeenType DEF StreamInv, FramesInv, OnTheWay, AskInv, TypeInv, TypeOK
<1>. HIDE DEF last
(* What a step posts keeps the requests in bounds, and nothing is posted on  *)
(* a dead socket.                                                            *)
<1>a. ASSUME NEW st, NEW shows, up' = Posted(Sync(st, shows, subscribed, last).frames),
             UNCHANGED <<link, follows, batch>>
      PROVE  Asks(up', last) /\ LinkInv'
  <2> DEFINE req == Sync(st, shows, subscribed, last).frames
  <2>1. req \in Seq(Request) /\ Asks(req, last)
    BY <1>0, SyncOK
  <2>2. up' = Posted(req)
    BY <1>a
  <2>. HIDE DEF req
  <2>3. Asks(up', last)
    BY <1>0, <2>1, <2>2, PostedOK
  <2>4. link # "up" => up' = up
    BY <2>2 DEF Posted
  <2>. QED  BY <1>0, <1>a, <2>3, <2>4 DEF LinkInv
<1>1. CASE StartRun
  <2>1. Started \in Frame /\ Started.lines = <<>>
    BY <1>0, FrameTypes DEF Started
  <2>2. down' = Sent(<<Started>>) /\ UNCHANGED <<printed, shown, batch, follows, up, link>>
    BY <1>1 DEF StartRun, tab
  <2>3. /\ FramesOK(down', Seen, FirstHeld)
        /\ OnTheWay \subseteq Seen \cup LinesOf(down', Len(down'))
    BY <2>1, <2>2, SentQuiet
  <2>. QED  BY <1>0, <2>2, <2>3, SameStore DEF LinkInv, last
<1>2. CASE PrintLine
  BY <1>2, PrintLineStep
<1>3. CASE EndRun
  <2>1. Exit \in Frame /\ Exit.lines = <<>>
    BY <1>0, FrameTypes DEF Exit
  <2>2. down' = Sent(<<Exit>>) /\ UNCHANGED <<printed, shown, batch, follows, up, link>>
    BY <1>3 DEF EndRun, tab
  <2>3. /\ FramesOK(down', Seen, FirstHeld)
        /\ OnTheWay \subseteq Seen \cup LinesOf(down', Len(down'))
    BY <2>1, <2>2, SentQuiet
  <2>. QED  BY <1>0, <2>2, <2>3, SameStore DEF LinkInv, last
<1>4. CASE FlushBatch
  BY <1>4, FlushBatchStep
<1>5. CASE ReadSubscribe
  BY <1>5, ReadSubscribeStep
<1>6. CASE ReadUnsubscribe
  <2>1. /\ link = "up" /\ up # <<>> /\ up' = Tail(up) /\ follows' = FALSE
        /\ UNCHANGED <<printed, shown, batch, link, down>>
    BY <1>6 DEF ReadUnsubscribe, tab
  <2>2. Asks(Tail(up), last)
    BY <1>0, <2>1, AsksTail
  <2>. QED  BY <1>0, <2>1, <2>2, SameStore DEF LinkInv, last
<1>7. CASE Flush
  BY <1>7, FlushStep
<1>8. CASE NoticeClose
  <2>1. link = "half" /\ UNCHANGED <<printed, shown, batch, follows, down, up>>
    BY <1>8 DEF NoticeClose, server, tab
  <2>. QED  BY <1>0, <2>1, SameStore DEF LinkInv, last
<1>9. CASE Connect
  <2> DEFINE f == Hello(run)
  <2>1. /\ link = "down" /\ link' = "up" /\ down' = Append(down, f) /\ up' = <<>>
        /\ follows' = FALSE /\ batch' = <<>> /\ UNCHANGED <<printed, shown>>
    BY <1>9 DEF Connect
  <2>2. batch = <<>> /\ ~follows
    BY <1>0, <2>1 DEF LinkInv
  <2>3. f \in Frame /\ f.lines = <<>>
    BY <1>0, FrameTypes DEF Hello
  <2>. HIDE DEF f
  <2>4. <<f>> \in Seq(Frame) /\ FramesOK(<<f>>, OnTheWay, FirstHeld)
    BY <2>3, QuietFrame
  <2>5. down' = down \o <<f>>
    BY <1>0, <2>1, <2>3, AppendIsConcat
  <2>6. FramesOK(down', Seen, FirstHeld)
    <3> DEFINE d == down
               seen == Seen
               held == FirstHeld
    <3>1. FramesOK(d, seen, held) /\ FramesOK(<<f>>, seen \cup LinesOf(d, Len(d)), held)
          /\ d \in Seq(Frame)
      BY <1>0, <2>4 DEF OnTheWay
    <3>2. FramesOK(d \o <<f>>, seen, held)
      <4>. HIDE DEF d, seen, held
      <4>. QED  BY <2>4, <3>1, FramesBehind
    <3>. QED  BY <2>5, <3>2
  <2>7. OnTheWay \subseteq Seen \cup LinesOf(down', Len(down'))
    <3> DEFINE d == down
    <3>1. LinesOf(d \o <<f>>, Len(d) + 1) = LinesOf(d, Len(d)) \cup LinesOf(<<f>>, 1)
      <4>1. d \in Seq(Frame) /\ 1 \in 0..Len(<<f>>)
        BY <1>0
      <4>. HIDE DEF d
      <4>. QED  BY <2>4, <4>1, LinesBehind
    <3>2. Len(d \o <<f>>) = Len(d) + 1
      BY <1>0, <2>4, ConcatProperties
    <3>. QED  BY <2>5, <3>1, <3>2 DEF OnTheWay
  <2>8. Asks(up', last) /\ LinkInv'
    BY <2>1 DEF Asks, LinkInv
  <2>. QED  BY <2>1, <2>2, <2>6, <2>7, <2>8, SameStore DEF last
<1>10. CASE \E k \in 1..Len(fetches) : AnswerFetch(k)
  <2>1. UNCHANGED <<printed, shown, batch, follows, down, up, link>>
    BY <1>10 DEF AnswerFetch, server, wire
  <2>. QED  BY <1>0, <2>1, SameStore DEF LinkInv, last
<1>11. CASE \E k \in 1..Len(fetches) : Reconcile(k)
  <2>1. PICK k \in 1..Len(fetches) : Reconcile(k)
    BY <1>11
  <2>2. UNCHANGED <<printed, shown, batch, follows, down, link>>
    BY <2>1 DEF Reconcile, server
  <2>3. \E st : up' = Posted(Sync(st, displayed, subscribed, last).frames)
    BY <2>1 DEF Reconcile, last
  <2>4. Asks(up', last) /\ LinkInv'
    BY <1>a, <2>2, <2>3
  <2>. QED  BY <1>0, <2>2, <2>4, SameStore DEF last
<1>12. CASE \E k \in 1..Len(fetches) : FetchFails(k)
  <2>1. UNCHANGED <<printed, shown, batch, follows, down, up, link>>
    BY <1>12 DEF FetchFails, server, wire
  <2>. QED  BY <1>0, <2>1, SameStore DEF LinkInv, last
<1>13. CASE Break
  BY <1>13, BreakStep
<1>14. CASE Look
  <2>1. UNCHANGED <<printed, shown, batch, follows, down, link>>
    BY <1>14 DEF Look, server
  <2>2. up' = Posted(Sync(status, ~displayed, subscribed, last).frames)
    BY <1>14 DEF Look, last
  <2>3. Asks(up', last) /\ LinkInv'
    BY <1>a, <2>1, <2>2
  <2>. QED  BY <1>0, <2>1, <2>3, SameStore DEF last
<1>15. CASE UNCHANGED vars
  <2>1. UNCHANGED <<printed, shown, batch, follows, down, up, link>>
    BY <1>15 DEF vars, server, wire, tab
  <2>. QED  BY <1>0, <2>1, SameStore DEF LinkInv, last
<1>16. CASE StopRun
  <2>1. UNCHANGED <<printed, shown, batch, follows, down, up, link>>
    BY <1>16 DEF StopRun, wire, tab
  <2>. QED  BY <1>0, <2>1, SameStore DEF LinkInv, last
<1>. QED
  BY <1>1, <1>2, <1>3, <1>4, <1>5, <1>6, <1>7, <1>8, <1>9, <1>10, <1>11, <1>12, <1>13,
     <1>14, <1>15, <1>16
     DEF Next, Hub, Client, Http

(* Whatever replays, batches, reconnections and changes of the screen there  *)
(* were, the lines a tab shows are in order, none is there twice, and only   *)
(* lines that the ring of the server has dropped are missing among them.     *)
THEOREM StreamHasNoHoles == Spec => []OnlyTheRingLoses
<1>1. StreamInv => OnlyTheRingLoses
  BY DEF StreamInv
<1>. QED  BY <1>1, TypeInit, TypeStep, StreamInit, StreamStep, PTL DEF Spec
=============================================================================
