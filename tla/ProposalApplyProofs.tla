------------------------- MODULE ProposalApplyProofs -------------------------
(***************************************************************************)
(* The application of proposals, for every set of proposals and calls and  *)
(* any number of deaths of the server.  The invariant says what a call     *)
(* under way may still rely on: that whoever ran beside it is known, and   *)
(* that a proposal with an entry in the log is never authorised again.     *)
(***************************************************************************)
EXTENDS ProposalApplyProps, TLAPS

\* The calls that may still commit.
Pending == {"before", "check", "commit"}

\* A call has a proposal from the moment it is made, and keeps it; one that is past its
\* before-effects has its run, when its action starts one.
CallsOK ==
  \A c \in Calls :
    /\ pc[c] = "idle" => target[c] = Nothing
    /\ pc[c] # "idle" => target[c] \in Proposals
    /\ pc[c] \in Pending \union {"after"} => state[target[c]] # "none"
    /\ pc[c] \in {"check", "commit"} /\ Kind[target[c]] = "startRun" => c \in started

\* An entry is that of a call which has committed, and its proposal is over.
LogOK ==
  \A i \in 1..Len(log) :
    /\ pc[log[i].call] \in {"after", "done", "dead"}
    /\ state[log[i].proposal] \in {"applied", "effected", "gone"}

\* Two calls under way know of each other, and a call that may still commit knows of
\* whoever applied its proposal.
OverlapOK ==
  /\ \A c, d \in UnderWay : c # d => {c, d} \in overlap
  /\ \A c \in Calls : \A i \in 1..Len(log) :
       pc[c] \in Pending /\ log[i].proposal = target[c] => {log[i].call, c} \in overlap

\* A checked scaling still finds the value that it names, or knows who changed it.
ScalingOK ==
  \A c \in Calls :
    pc[c] = "commit" /\ Kind[target[c]] = "scaleFanCurve" =>
      \/ rows[Row[target[c]]] = from[target[c]]
      \/ \E j \in 1..Len(log) : log[j].key = Row[target[c]] /\ {log[j].call, c} \in overlap

IInv == TypeOK /\ CallsOK /\ LogOK /\ OverlapOK /\ ScalingOK
             /\ OnceUnlessOverlapped /\ FromUnlessOverlapped

(* The store before the first call satisfies the invariant.                  *)
THEOREM InitOK == Init => IInv
<1>. SUFFICES ASSUME Init PROVE IInv
  OBVIOUS
<1>1. TypeOK /\ CallsOK
  BY ProposalAssumption DEF Init, TypeOK, CallsOK, Keys, Pending
<1>2. Len(log) = 0 /\ UnderWay = {}
  BY DEF Init, UnderWay
<1>3. LogOK /\ OverlapOK /\ ScalingOK
  BY <1>1, <1>2 DEF Init, LogOK, OverlapOK, ScalingOK, CallsOK, Pending
<1>4. OnceUnlessOverlapped /\ FromUnlessOverlapped
  BY <1>2 DEF OnceUnlessOverlapped, FromUnlessOverlapped, Times
<1>. QED  BY <1>1, <1>3, <1>4 DEF IInv

\* The types, and what a call under way has, are kept by every step.
LEMMA CallsStep ==
    ASSUME TypeOK, CallsOK, [Next]_vars
    PROVE  TypeOK' /\ CallsOK'
<1>. USE ProposalAssumption DEF TypeOK, CallsOK, Pending
<1>1. ASSUME NEW p \in Proposals, Propose(p) PROVE TypeOK' /\ CallsOK'
  BY <1>1 DEF Propose, Keys
<1>2. ASSUME NEW p \in Proposals, Expire(p) PROVE TypeOK' /\ CallsOK'
  BY <1>2 DEF Expire
<1>3. ASSUME NEW c \in Calls, NEW p \in Proposals, Call(c, p) PROVE TypeOK' /\ CallsOK'
  BY <1>3 DEF Call, Refuses
<1>4. ASSUME NEW c \in Calls, Before(c) PROVE TypeOK' /\ CallsOK'
  BY <1>4 DEF Before
<1>5. ASSUME NEW c \in Calls, Check(c) PROVE TypeOK' /\ CallsOK'
  BY <1>5 DEF Check
<1>6. ASSUME NEW c \in Calls, Commit(c) PROVE TypeOK' /\ CallsOK'
  <2>1. target[c] \in Proposals /\ KeyOf(c) \in Keys
    BY <1>6 DEF Commit, KeyOf, Keys
  <2>2. Entry(c) \in Entries
    BY <2>1 DEF Entry, Entries
  <2>3. \A d \in Calls : KeyOf(c) = d => d = c /\ c \in started
    BY <1>6, <2>1 DEF Commit, KeyOf
  <2>4. CASE Written(c) /\ state' = [state EXCEPT ![target[c]] = "applied"]
                       /\ pc' = [pc EXCEPT ![c] = "after"]
    <3>1. log' \in Seq(Entries)
      BY <2>2, <2>4 DEF Written
    <3>2. rows' \in [Keys -> Calls \union {Nothing}]
      BY <2>1, <2>4 DEF Written
    <3>3. \A d \in Calls : rows'[d] # Nothing => d \in started
      BY <2>1, <2>3, <2>4 DEF Written, Keys
    <3>4. /\ state' \in [Proposals -> {"none", "gone", "rendered", "rejected", "authorised",
                                       "applied", "effected"}]
          /\ pc' \in [Calls -> {"idle", "before", "check", "commit", "after", "done",
                                "failed", "dead"}]
      BY <2>1, <2>4
    <3>5. UNCHANGED <<from, expired, target, started>>
      BY <1>6 DEF Commit
    <3>6. TypeOK'
      BY <3>1, <3>2, <3>3, <3>4, <3>5
    <3>7. CallsOK'
      BY <1>6, <2>1, <2>4, <3>5 DEF Commit
    <3>. QED  BY <3>6, <3>7
  <2>5. CASE pc' = [pc EXCEPT ![c] = "failed"] /\ UNCHANGED <<state, rows, log>>
    BY <1>6, <2>5 DEF Commit
  <2>. QED  BY <1>6, <2>4, <2>5 DEF Commit
<1>7. ASSUME NEW c \in Calls, After(c) PROVE TypeOK' /\ CallsOK'
  BY <1>7 DEF After
<1>8. CASE Die
  BY <1>8 DEF Die, UnderWay
<1>9. CASE UNCHANGED vars
  BY <1>9 DEF vars, Keys
<1>. QED  BY <1>1, <1>2, <1>3, <1>4, <1>5, <1>6, <1>7, <1>8, <1>9 DEF Next

LEMMA PairCommutes == ASSUME NEW x, NEW y PROVE {x, y} = {y, x}
  OBVIOUS

LEMMA EntryTypes ==
    ASSUME TypeOK
    PROVE  \A i \in 1..Len(log) : /\ log[i].call \in Calls /\ log[i].proposal \in Proposals
                                  /\ log[i].key \in Keys
<1>. TAKE i \in 1..Len(log)
<1>1. log[i] \in Entries
  BY DEF TypeOK
<1>. QED  BY <1>1 DEF Entries

\* What a step can do to the log: nothing, or one call that was about to commit appends its
\* entry.
LEMMA LogSteps ==
    ASSUME TypeOK, CallsOK, [Next]_vars
    PROVE  \/ /\ UNCHANGED log
              /\ rows' = rows
           \/ \E c \in Calls :
                /\ pc[c] = "commit" /\ pc' = [pc EXCEPT ![c] = "after"]
                /\ state' = [state EXCEPT ![target[c]] = "applied"]
                /\ Written(c)
                /\ UNCHANGED <<from, target, overlap>>
<1>1. ASSUME NEW c \in Calls, Commit(c)
      PROVE  \/ UNCHANGED log /\ rows' = rows
             \/ /\ pc[c] = "commit" /\ pc' = [pc EXCEPT ![c] = "after"]
                /\ state' = [state EXCEPT ![target[c]] = "applied"]
                /\ Written(c)
                /\ UNCHANGED <<from, target, overlap>>
  BY <1>1 DEF Commit
<1>2. CASE ~ \E c \in Calls : Commit(c)
  BY <1>2 DEF Next, vars, Propose, Expire, Call, Before, Check, After, Die
<1>. QED  BY <1>1, <1>2

\* No proposal with an entry becomes applicable again, and no call that has one goes back.
LEMMA LogStep ==
    ASSUME TypeOK, CallsOK, LogOK, [Next]_vars
    PROVE  LogOK'
<1>. USE DEF LogOK
<1>1. \A i \in 1..Len(log) : log[i].call \in Calls /\ log[i].proposal \in Proposals
  BY EntryTypes
<1>2. ASSUME NEW p \in Proposals, Propose(p) PROVE LogOK'
  BY <1>1, <1>2 DEF Propose, TypeOK
<1>3. ASSUME NEW p \in Proposals, Expire(p) PROVE LogOK'
  BY <1>1, <1>3 DEF Expire
<1>4. ASSUME NEW c \in Calls, NEW p \in Proposals, Call(c, p) PROVE LogOK'
  BY <1>1, <1>4 DEF Call, TypeOK
<1>5. ASSUME NEW c \in Calls, Before(c) PROVE LogOK'
  BY <1>1, <1>5 DEF Before, TypeOK
<1>6. ASSUME NEW c \in Calls, Check(c) PROVE LogOK'
  BY <1>1, <1>6 DEF Check, TypeOK
<1>7. ASSUME NEW c \in Calls, Commit(c) PROVE LogOK'
  <2>1. target[c] \in Proposals
    BY <1>7 DEF Commit, CallsOK
  <2>2. CASE Written(c) /\ state' = [state EXCEPT ![target[c]] = "applied"]
                       /\ pc' = [pc EXCEPT ![c] = "after"]
    <3>1. /\ Len(log') = Len(log) + 1
          /\ \A i \in 1..Len(log) : log'[i] = log[i]
          /\ log'[Len(log) + 1] = Entry(c)
      BY <2>2 DEF Written, TypeOK
    <3>2. ASSUME NEW i \in 1..Len(log)
          PROVE  /\ pc'[log'[i].call] \in {"after", "done", "dead"}
                 /\ state'[log'[i].proposal] \in {"applied", "effected", "gone"}
      BY <1>1, <2>1, <2>2, <3>1 DEF TypeOK
    <3>3. /\ pc'[log'[Len(log) + 1].call] \in {"after", "done", "dead"}
          /\ state'[log'[Len(log) + 1].proposal] \in {"applied", "effected", "gone"}
      BY <2>1, <2>2, <3>1 DEF TypeOK, Entry
    <3>4. Len(log) \in Nat
      BY DEF TypeOK
    <3>. QED  BY <3>1, <3>2, <3>3, <3>4
  <2>3. CASE pc' = [pc EXCEPT ![c] = "failed"] /\ UNCHANGED <<state, rows, log>>
    BY <1>1, <1>7, <2>3 DEF Commit, TypeOK
  <2>. QED  BY <1>7, <2>2, <2>3 DEF Commit
<1>8. ASSUME NEW c \in Calls, After(c) PROVE LogOK'
  BY <1>1, <1>8 DEF After, TypeOK, CallsOK, Pending
<1>9. CASE Die
  BY <1>1, <1>9 DEF Die, TypeOK, UnderWay
<1>10. CASE UNCHANGED vars
  BY <1>10 DEF vars
<1>. QED  BY <1>2, <1>3, <1>4, <1>5, <1>6, <1>7, <1>8, <1>9, <1>10 DEF Next

\* A call under way is one that was already under way, or one that is made now and whose
\* proposal has no entry.
LEMMA PendingSteps ==
    ASSUME TypeOK, CallsOK, LogOK, [Next]_vars, NEW c \in Calls, pc'[c] \in Pending
    PROVE  \/ pc[c] \in Pending /\ target'[c] = target[c]
           \/ log' = log /\ \A i \in 1..Len(log) : log[i].proposal # target'[c]
  BY DEF Next, vars, Propose, Expire, Call, Before, Check, Commit, After, Die, TypeOK,
         LogOK, Pending, Refuses

\* Two calls under way after a step either were so before it, or one of them is made by it.
LEMMA UnderWaySteps ==
    ASSUME TypeOK, [Next]_vars
    PROVE  /\ overlap \subseteq overlap'
           /\ \A c, d \in UnderWay' : c # d => {c, d} \in overlap' \/ {c, d} \subseteq UnderWay
<1>1. ASSUME NEW x \in Calls, NEW p \in Proposals, Call(x, p)
      PROVE  /\ overlap \subseteq overlap'
             /\ \A c, d \in UnderWay' :
                  c # d => {c, d} \in overlap' \/ {c, d} \subseteq UnderWay
  <2>1. CASE Refuses(state[p], p)
    BY <1>1, <2>1 DEF Call, UnderWay, TypeOK
  <2>2. CASE ~Refuses(state[p], p)
    <3>1. overlap' = overlap \union {{x, d} : d \in UnderWay}
      BY <1>1, <2>2 DEF Call
    <3>2. \A c \in UnderWay' : c = x \/ c \in UnderWay
      BY <1>1 DEF Call, UnderWay, TypeOK
    <3>3. ASSUME NEW c \in UnderWay', NEW d \in UnderWay', c # d
          PROVE  {c, d} \in overlap' \/ {c, d} \subseteq UnderWay
      <4>1. CASE c = x
        BY <3>1, <3>2, <3>3, <4>1
      <4>2. CASE d = x
        <5>1. c \in UnderWay
          BY <3>2, <3>3, <4>2
        <5>2. {x, c} \in overlap'
          BY <3>1, <5>1
        <5>. QED  BY <4>2, <5>2, PairCommutes
      <4>3. CASE c # x /\ d # x
        BY <3>2, <4>3
      <4>. QED  BY <4>1, <4>2, <4>3
    <3>. QED  BY <3>1, <3>3
  <2>. QED  BY <2>1, <2>2
<1>2. CASE ~ \E c \in Calls, p \in Proposals : Call(c, p)
  <2>1. overlap' = overlap
    BY <1>2 DEF Next, vars, Propose, Expire, Before, Check, Commit, After, Die
  <2>2. UnderWay' \subseteq UnderWay
    BY <1>2 DEF Next, vars, Propose, Expire, Before, Check, Commit, After, Die, UnderWay, TypeOK
  <2>. QED  BY <2>1, <2>2
<1>. QED  BY <1>1, <1>2

LEMMA OverlapStep ==
    ASSUME TypeOK, CallsOK, LogOK, OverlapOK, [Next]_vars
    PROVE  OverlapOK'
<1>1. \A c, d \in UnderWay' : c # d => {c, d} \in overlap'
  BY UnderWaySteps DEF OverlapOK
<1>2. ASSUME NEW c \in Calls, NEW i \in 1..Len(log'),
             pc'[c] \in Pending, log'[i].proposal = target'[c]
      PROVE  {log'[i].call, c} \in overlap'
  <2>1. (pc[c] \in Pending /\ target'[c] = target[c]) \/
        (log' = log /\ \A j \in 1..Len(log) : log[j].proposal # target'[c])
    BY <1>2, PendingSteps
  <2>2. CASE log' = log
    BY <1>2, <2>1, <2>2, UnderWaySteps DEF OverlapOK
  <2>3. ASSUME NEW d \in Calls, pc[d] = "commit", pc' = [pc EXCEPT ![d] = "after"],
               Written(d), UNCHANGED overlap
        PROVE  {log'[i].call, c} \in overlap'
    <3>1. /\ Len(log') = Len(log) + 1 /\ Len(log) \in Nat
          /\ \A j \in 1..Len(log) : log'[j] = log[j]
          /\ log'[Len(log) + 1] = Entry(d)
      BY <2>3 DEF Written, TypeOK
    <3>2. pc[c] \in Pending /\ target'[c] = target[c]
      BY <2>1, <3>1
    <3>3. CASE i \in 1..Len(log)
      BY <1>2, <2>3, <3>1, <3>2, <3>3 DEF OverlapOK
    <3>4. CASE i = Len(log) + 1
      <4>1. log'[i].call = d
        BY <3>1, <3>4 DEF Entry
      <4>2. c # d
        BY <1>2, <2>3 DEF Pending, TypeOK
      <4>3. c \in UnderWay /\ d \in UnderWay
        BY <2>3, <3>2 DEF UnderWay, Pending
      <4>. QED  BY <2>3, <4>1, <4>2, <4>3 DEF OverlapOK
    <3>. QED  BY <3>1, <3>3, <3>4
  <2>. QED  BY <2>2, <2>3, LogSteps
<1>. QED  BY <1>1, <1>2 DEF OverlapOK

\* The pair of the caller and whoever changed the row is known before the change, and what
\* a proposal names is fixed once it is made.
LEMMA ScalingStep ==
    ASSUME TypeOK, CallsOK, LogOK, OverlapOK, ScalingOK, [Next]_vars
    PROVE  ScalingOK'
<1>. SUFFICES ASSUME NEW c \in Calls, pc'[c] = "commit", Kind[target'[c]] = "scaleFanCurve"
              PROVE  \/ rows'[Row[target'[c]]] = from'[target'[c]]
                     \/ \E j \in 1..Len(log') : /\ log'[j].key = Row[target'[c]]
                                                /\ {log'[j].call, c} \in overlap'
  BY DEF ScalingOK
<1>1. /\ pc[c] \in {"check", "commit"} /\ target'[c] = target[c]
      /\ pc[c] = "check" => Matches(c) /\ UNCHANGED <<log, rows, from>>
  BY DEF Next, vars, Propose, Expire, Call, Before, Check, Commit, After, Die, TypeOK
<1>2. target[c] \in Proposals /\ state[target[c]] # "none"
  BY <1>1 DEF CallsOK, Pending
<1>3. from'[target[c]] = from[target[c]]
  BY <1>2 DEF Next, vars, Propose, Expire, Call, Before, Check, Commit, After, Die, TypeOK
<1>4. CASE pc[c] = "check"
  BY <1>1, <1>2, <1>3, <1>4 DEF Matches
<1>5. CASE pc[c] = "commit" /\ log' = log /\ rows' = rows
  <2>1. overlap \subseteq overlap'
    BY UnderWaySteps
  <2>. QED  BY <1>1, <1>3, <1>5, <2>1 DEF ScalingOK
<1>6. ASSUME pc[c] = "commit", NEW d \in Calls, pc[d] = "commit",
             pc' = [pc EXCEPT ![d] = "after"], Written(d), UNCHANGED overlap
      PROVE  \/ rows'[Row[target'[c]]] = from'[target'[c]]
             \/ \E j \in 1..Len(log') : /\ log'[j].key = Row[target'[c]]
                                        /\ {log'[j].call, c} \in overlap'
  <2>1. /\ Len(log') = Len(log) + 1 /\ Len(log) \in Nat
        /\ \A j \in 1..Len(log) : log'[j] = log[j]
        /\ log'[Len(log) + 1] = Entry(d)
    BY <1>6 DEF Written, TypeOK
  <2>2. CASE KeyOf(d) = Row[target[c]]
    <3>1. log'[Len(log) + 1].key = Row[target[c]] /\ log'[Len(log) + 1].call = d
      BY <2>1, <2>2 DEF Entry
    <3>2. c # d
      BY <1>6 DEF TypeOK
    <3>3. {d, c} \in overlap
      BY <1>6, <3>2 DEF OverlapOK, UnderWay
    <3>4. Len(log) + 1 \in 1..Len(log')
      BY <2>1
    <3>5. \E j \in 1..Len(log') : log'[j].key = Row[target[c]] /\ {log'[j].call, c} \in overlap
      BY <3>1, <3>3, <3>4
    <3>. QED  BY <1>1, <1>6, <3>5
  <2>3. CASE KeyOf(d) # Row[target[c]]
    <3>1. Row[target[c]] \in Keys
      BY <1>2 DEF Keys
    <3>2. rows'[Row[target[c]]] = rows[Row[target[c]]]
      BY <1>6, <2>3, <3>1 DEF Written, TypeOK
    <3>3. CASE rows[Row[target[c]]] = from[target[c]]
      BY <1>1, <1>3, <3>2, <3>3
    <3>4. CASE \E j \in 1..Len(log) : log[j].key = Row[target[c]] /\ {log[j].call, c} \in overlap
      <4>1. PICK j \in 1..Len(log) : log[j].key = Row[target[c]] /\ {log[j].call, c} \in overlap
        BY <3>4
      <4>2. j \in 1..Len(log') /\ log'[j] = log[j]
        BY <2>1
      <4>3. log'[j].key = Row[target[c]] /\ {log'[j].call, c} \in overlap
        BY <4>1, <4>2
      <4>. QED  BY <1>1, <1>6, <4>2, <4>3
    <3>. QED  BY <1>1, <1>6, <3>3, <3>4 DEF ScalingOK
  <2>. QED  BY <2>2, <2>3
<1>. QED  BY <1>1, <1>4, <1>5, <1>6, LogSteps

\* The one new entry is told from every earlier one by the call that made it.
LEMMA OnceStep ==
    ASSUME TypeOK, CallsOK, OverlapOK, OnceUnlessOverlapped, [Next]_vars
    PROVE  OnceUnlessOverlapped'
<1>. USE DEF OnceUnlessOverlapped, Times
<1>1. overlap \subseteq overlap'
  BY UnderWaySteps
<1>2. CASE log' = log
  BY <1>1, <1>2
<1>3. ASSUME NEW c \in Calls, pc[c] = "commit", Written(c)
      PROVE  OnceUnlessOverlapped'
  <2> DEFINE n == Len(log) + 1
  <2>1. /\ Len(log') = n /\ Len(log) \in Nat
        /\ \A j \in 1..Len(log) : log'[j] = log[j]
        /\ log'[n].call = c /\ log'[n].proposal = target[c]
    BY <1>3 DEF Written, TypeOK, Entry
  <2>2. ASSUME NEW i \in 1..Len(log), log[i].proposal = target[c]
        PROVE  {log'[i].call, log'[n].call} \in overlap'
    BY <1>1, <1>3, <2>1, <2>2 DEF OverlapOK, Pending
  <2>3. ASSUME NEW p \in Proposals, NEW i \in Times(p)', NEW j \in Times(p)'
        PROVE  i = j \/ {log'[i].call, log'[j].call} \in overlap'
    <3>1. CASE i \in 1..Len(log) /\ j \in 1..Len(log)
      BY <1>1, <2>1, <2>3, <3>1
    <3>2. CASE i \in 1..Len(log) /\ j = n
      BY <2>1, <2>2, <2>3, <3>2
    <3>3. CASE i = n /\ j \in 1..Len(log)
      <4>1. {log'[j].call, log'[n].call} \in overlap'
        BY <2>1, <2>2, <2>3, <3>3
      <4>. QED  BY <3>3, <4>1, PairCommutes
    <3>4. i \in 1..n /\ j \in 1..n
      BY <2>1, <2>3
    <3>. QED  BY <2>1, <3>1, <3>2, <3>3, <3>4
  <2>. QED  BY <2>3
<1>. QED  BY <1>2, <1>3, LogSteps

LEMMA FromStep ==
    ASSUME TypeOK, CallsOK, LogOK, ScalingOK, FromUnlessOverlapped, [Next]_vars
    PROVE  FromUnlessOverlapped'
<1>1. overlap \subseteq overlap'
  BY UnderWaySteps
<1>2. \A i \in 1..Len(log) : from'[log[i].proposal] = from[log[i].proposal]
  <2>1. \A i \in 1..Len(log) : log[i].proposal \in Proposals /\ state[log[i].proposal] # "none"
    BY EntryTypes DEF LogOK
  <2>2. \A p \in Proposals : state[p] # "none" => from'[p] = from[p]
    BY DEF Next, vars, Propose, Expire, Call, Before, Check, Commit, After, Die, TypeOK
  <2>. QED  BY <2>1, <2>2
<1>3. CASE log' = log
  BY <1>1, <1>2, <1>3 DEF FromUnlessOverlapped
<1>4. ASSUME NEW c \in Calls, pc[c] = "commit", Written(c), UNCHANGED <<from, target>>
      PROVE  FromUnlessOverlapped'
  <2> DEFINE n == Len(log) + 1
  <2>1. /\ Len(log') = n /\ Len(log) \in Nat
        /\ \A j \in 1..Len(log) : log'[j] = log[j]
        /\ log'[n] = Entry(c)
    BY <1>4 DEF Written, TypeOK
  <2>2. ASSUME NEW i \in 1..Len(log)
        PROVE  \/ Kind[log'[i].proposal] # "scaleFanCurve"
               \/ log'[i].before = from'[log'[i].proposal]
               \/ \E j \in 1..(i - 1) : /\ log'[j].key = log'[i].key
                                        /\ {log'[i].call, log'[j].call} \in overlap'
    <3>1. \A j \in 1..(i - 1) : log'[j] = log[j]
      BY <2>1
    <3>. QED  BY <1>1, <1>2, <2>1, <3>1 DEF FromUnlessOverlapped
  <2>3. \/ Kind[log'[n].proposal] # "scaleFanCurve"
        \/ log'[n].before = from'[log'[n].proposal]
        \/ \E j \in 1..(n - 1) : /\ log'[j].key = log'[n].key
                                 /\ {log'[n].call, log'[j].call} \in overlap'
    <3>1. CASE Kind[target[c]] # "scaleFanCurve"
      BY <2>1, <3>1 DEF Entry
    <3>2. CASE Kind[target[c]] = "scaleFanCurve"
      <4>1. KeyOf(c) = Row[target[c]]
        BY <3>2 DEF KeyOf
      <4>2. /\ log'[n].before = rows[Row[target[c]]] /\ log'[n].key = Row[target[c]]
            /\ log'[n].call = c /\ log'[n].proposal = target[c]
        BY <2>1, <4>1 DEF Entry
      <4>3. CASE rows[Row[target[c]]] = from[target[c]]
        BY <1>4, <4>2, <4>3
      <4>4. ASSUME NEW j \in 1..Len(log), log[j].key = Row[target[c]],
                   {log[j].call, c} \in overlap
            PROVE  \E k \in 1..(n - 1) : /\ log'[k].key = log'[n].key
                                         /\ {log'[n].call, log'[k].call} \in overlap'
        <5>1. j \in 1..(n - 1) /\ log'[j] = log[j]
          BY <2>1
        <5>2. {c, log[j].call} \in overlap'
          BY <1>1, <4>4, PairCommutes
        <5>. QED  BY <4>2, <4>4, <5>1, <5>2
      <4>. QED  BY <1>4, <3>2, <4>3, <4>4 DEF ScalingOK
    <3>. QED  BY <3>1, <3>2
  <2>4. \A i \in 1..Len(log') : i \in 1..Len(log) \/ i = n
    BY <2>1
  <2> HIDE DEF n
  <2>. QED  BY <2>2, <2>3, <2>4 DEF FromUnlessOverlapped
<1>. QED  BY <1>3, <1>4, LogSteps

(* The invariant holds whichever calls run in between (applyProposal).       *)
THEOREM Invariant == Spec => []IInv
<1>1. IInv /\ [Next]_vars => IInv'
  BY CallsStep, LogStep, OverlapStep, ScalingStep, OnceStep, FromStep DEF IInv
<1>. QED  BY <1>1, InitOK, PTL DEF Spec

\* The variables keep their types, and only an action that starts runs has started one.
THEOREM TypesHold == Spec => []TypeOK
<1>1. IInv => TypeOK
  BY DEF IInv
<1>. QED  BY <1>1, Invariant, PTL

\* A retry, a late call or a new server never applies a proposal that was applied: two
\* applications come only of calls that were under way together.
THEOREM AppliedOnceUnlessOverlapped == Spec => []OnceUnlessOverlapped
<1>1. IInv => OnceUnlessOverlapped
  BY DEF IInv
<1>. QED  BY <1>1, Invariant, PTL

\* A scaling that is applied scales the value that a person saw, unless another application
\* to that row was under way with it.
THEOREM ScalesWhatWasSeen == Spec => []FromUnlessOverlapped
<1>1. IInv => FromUnlessOverlapped
  BY DEF IInv
<1>. QED  BY <1>1, Invariant, PTL

\* Among the first i entries of s, j is the last one of row k.
IsLast(s, j, i, k) ==
  j \in 1..i /\ s[j].key = k /\ \A m \in 1..i : s[m].key = k => m <= j

\* LastWriter means something: unless no entry is that of the row, one is the last.
LastOK ==
  \A i \in 0..Len(log), k \in Keys :
    (\A j \in 1..i : log[j].key # k) \/ \E j \in 1..i : IsLast(log, j, i, k)

LEMMA LastWriterIs ==
    ASSUME NEW s, NEW i \in Nat, NEW k
    PROVE  /\ (\A j \in 1..i : s[j].key # k) => LastWriter(s, i, k) = Nothing
           /\ \A j \in 1..i : IsLast(s, j, i, k) => LastWriter(s, i, k) = s[j].call
<1> DEFINE earlier == {j \in 1..i : s[j].key = k}
           last == CHOOSE j \in earlier : \A m \in earlier : m <= j
<1>1. ASSUME \A j \in 1..i : s[j].key # k PROVE LastWriter(s, i, k) = Nothing
  <2>1. earlier = {}
    BY <1>1
  <2>. QED  BY <2>1 DEF LastWriter
<1>2. ASSUME NEW j \in 1..i, IsLast(s, j, i, k) PROVE LastWriter(s, i, k) = s[j].call
  <2>1. j \in earlier /\ \A m \in earlier : m <= j
    BY <1>2 DEF IsLast
  <2>2. last \in earlier /\ \A m \in earlier : m <= last
    <3> HIDE DEF earlier
    <3>. QED  BY <2>1
  <2>3. last = j
    <3>1. last <= j /\ j <= last
      BY <2>1, <2>2
    <3>2. last \in Nat /\ j \in Nat
      BY <2>1, <2>2
    <3> HIDE DEF last
    <3>. QED  BY <3>1, <3>2
  <2>4. LastWriter(s, i, k) = s[last].call
    BY <2>1 DEF LastWriter
  <2> HIDE DEF last
  <2>. QED  BY <2>3, <2>4
<1>. QED  BY <1>1, <1>2

\* A new entry changes nothing of what the earlier ones tell.
LEMMA LastWriterKept ==
    ASSUME TypeOK, LastOK, NEW i \in 0..Len(log), NEW k \in Keys,
           \A j \in 1..Len(log) : log'[j] = log[j]
    PROVE  /\ LastWriter(log', i, k) = LastWriter(log, i, k)
           /\ (\A j \in 1..i : log'[j].key # k) \/ \E j \in 1..i : IsLast(log', j, i, k)
<1>1. Len(log) \in Nat /\ i \in Nat /\ \A j \in 1..i : log'[j] = log[j]
  BY DEF TypeOK
<1>2. CASE \A j \in 1..i : log[j].key # k
  <2>1. \A j \in 1..i : log'[j].key # k
    BY <1>1, <1>2
  <2>. QED  BY <1>1, <1>2, <2>1, LastWriterIs
<1>3. ASSUME NEW j \in 1..i, IsLast(log, j, i, k)
      PROVE  LastWriter(log', i, k) = LastWriter(log, i, k) /\ IsLast(log', j, i, k)
  <2>1. IsLast(log', j, i, k)
    BY <1>1, <1>3 DEF IsLast
  <2>. QED  BY <1>1, <1>3, <2>1, LastWriterIs
<1>. QED  BY <1>2, <1>3 DEF LastOK

\* The row and its last entry change together.
LEMMA HistoryStep ==
    ASSUME TypeOK, CallsOK, LastOK, LogIsTheHistory, [Next]_vars
    PROVE  LastOK' /\ LogIsTheHistory'
<1>1. CASE log' = log /\ rows' = rows
  BY <1>1 DEF LastOK, LogIsTheHistory
<1>2. ASSUME NEW c \in Calls, pc[c] = "commit", Written(c)
      PROVE  LastOK' /\ LogIsTheHistory'
  <2> DEFINE n == Len(log) + 1
  <2>1. /\ Len(log') = n /\ Len(log) \in Nat
        /\ \A j \in 1..Len(log) : log'[j] = log[j]
        /\ log'[n] = Entry(c)
    BY <1>2 DEF Written, TypeOK
  <2>2. log'[n].key = KeyOf(c) /\ log'[n].before = rows[KeyOf(c)] /\ log'[n].call = c
    BY <2>1 DEF Entry
  <2>3. KeyOf(c) \in Keys
    BY <1>2 DEF KeyOf, Keys, CallsOK
  <2>4. \A i \in 0..Len(log'), k \in Keys :
          (\A j \in 1..i : log'[j].key # k) \/ \E j \in 1..i : IsLast(log', j, i, k)
    <3> SUFFICES ASSUME NEW i \in 0..n, NEW k \in Keys
                 PROVE  (\A j \in 1..i : log'[j].key # k) \/ \E j \in 1..i : IsLast(log', j, i, k)
      BY <2>1
    <3>1. CASE i \in 0..Len(log)
      BY <2>1, <3>1, LastWriterKept
    <3>2. CASE i = n /\ KeyOf(c) = k
      <4>1. IsLast(log', n, n, k)
        BY <2>1, <2>2, <3>2 DEF IsLast
      <4>. QED  BY <2>1, <3>2, <4>1
    <3>3. CASE i = n /\ KeyOf(c) # k
      <4>1. Len(log) \in 0..Len(log)
        BY <2>1
      <4>2. CASE \A j \in 1..Len(log) : log'[j].key # k
        BY <2>1, <2>2, <3>3, <4>2
      <4>3. ASSUME NEW j \in 1..Len(log), IsLast(log', j, Len(log), k)
            PROVE  IsLast(log', j, i, k)
        BY <2>1, <2>2, <3>3, <4>3 DEF IsLast
      <4>4. 1..Len(log) \subseteq 1..i
        BY <2>1, <3>3
      <4>. QED  BY <2>1, <4>1, <4>2, <4>3, <4>4, LastWriterKept
    <3>4. i \in 0..Len(log) \/ i = n
      BY <2>1
    <3>. QED  BY <3>1, <3>2, <3>3, <3>4
  <2>5. \A i \in 1..Len(log') : log'[i].before = LastWriter(log', i - 1, log'[i].key)
    <3>1. ASSUME NEW i \in 1..Len(log)
          PROVE  log'[i].before = LastWriter(log', i - 1, log'[i].key)
      <4>1. log'[i] = log[i] /\ log[i].key \in Keys /\ i - 1 \in 0..Len(log)
        BY <2>1, EntryTypes
      <4>2. LastWriter(log', i - 1, log[i].key) = LastWriter(log, i - 1, log[i].key)
        BY <2>1, <4>1, LastWriterKept
      <4>. QED  BY <4>1, <4>2 DEF LogIsTheHistory
    <3>2. log'[n].before = LastWriter(log', n - 1, log'[n].key)
      <4>1. n - 1 = Len(log) /\ Len(log) \in 0..Len(log)
        BY <2>1
      <4>2. LastWriter(log', Len(log), KeyOf(c)) = LastWriter(log, Len(log), KeyOf(c))
        BY <2>1, <2>3, <4>1, LastWriterKept
      <4>. QED  BY <2>2, <2>3, <4>1, <4>2 DEF LogIsTheHistory
    <3>3. \A i \in 1..Len(log') : i \in 1..Len(log) \/ i = n
      BY <2>1
    <3> HIDE DEF n
    <3>. QED  BY <3>1, <3>2, <3>3
  <2>6. \A k \in Keys : rows'[k] = LastWriter(log', Len(log'), k)
    <3> SUFFICES ASSUME NEW k \in Keys PROVE rows'[k] = LastWriter(log', n, k)
      BY <2>1
    <3>1. n \in Nat /\ n \in 1..n /\ Len(log) \in 0..Len(log)
      BY <2>1
    <3>2. CASE KeyOf(c) = k
      <4>1. IsLast(log', n, n, k)
        BY <2>1, <2>2, <3>2 DEF IsLast
      <4>2. LastWriter(log', n, k) = c
        BY <2>2, <3>1, <4>1, LastWriterIs
      <4>. QED  BY <1>2, <3>2, <4>2 DEF Written, TypeOK
    <3>3. CASE KeyOf(c) # k
      <4>1. rows'[k] = LastWriter(log, Len(log), k)
        BY <1>2, <3>3 DEF Written, TypeOK, LogIsTheHistory
      <4>2. LastWriter(log', Len(log), k) = LastWriter(log, Len(log), k)
        BY <2>1, <3>1, LastWriterKept
      <4>3. CASE \A j \in 1..Len(log) : log'[j].key # k
        <5>1. \A j \in 1..n : log'[j].key # k
          BY <2>1, <2>2, <3>3, <4>3
        <5>. QED  BY <2>1, <3>1, <4>1, <4>2, <4>3, <5>1, LastWriterIs
      <4>4. ASSUME NEW j \in 1..Len(log), IsLast(log', j, Len(log), k)
            PROVE  rows'[k] = LastWriter(log', n, k)
        <5>1. IsLast(log', j, n, k) /\ j \in 1..n
          BY <2>1, <2>2, <3>3, <4>4 DEF IsLast
        <5> HIDE DEF n
        <5>2. LastWriter(log', n, k) = log'[j].call
          BY <3>1, <5>1, LastWriterIs
        <5>3. LastWriter(log', Len(log), k) = log'[j].call
          BY <2>1, <4>4, LastWriterIs
        <5>. QED  BY <4>1, <4>2, <5>2, <5>3
      <4>. QED  BY <2>1, <3>1, <4>3, <4>4, LastWriterKept
    <3>. QED  BY <3>2, <3>3
  <2>. QED  BY <2>4, <2>5, <2>6 DEF LastOK, LogIsTheHistory, Keys
<1>. QED  BY <1>1, <1>2, LogSteps

\* The log and the rows agree, whatever a call, a failure or a death leaves undone.
THEOREM TheLogIsTheHistory == Spec => []LogIsTheHistory
<1>1. Init => LastOK /\ LogIsTheHistory
  <2> SUFFICES ASSUME Init PROVE LastOK /\ LogIsTheHistory
    OBVIOUS
  <2>1. Len(log) = 0 /\ \A k \in Keys : rows[k] = Nothing
    BY DEF Init
  <2>2. \A k \in Keys : LastWriter(log, 0, k) = Nothing
    BY LastWriterIs
  <2>. QED  BY <2>1, <2>2 DEF LastOK, LogIsTheHistory
<1>2. TypeOK /\ CallsOK /\ LastOK /\ LogIsTheHistory /\ [Next]_vars
        => (LastOK /\ LogIsTheHistory)'
  BY HistoryStep
<1>3. IInv => TypeOK /\ CallsOK
  BY DEF IInv
<1>. QED  BY <1>1, <1>2, <1>3, Invariant, PTL DEF Spec
=============================================================================
