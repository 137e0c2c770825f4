-------------------------- MODULE ThreadCommProofs --------------------------
(***************************************************************************)
(* The thread transport for every size of the world, every program of its  *)
(* ranks and every mishap: types, agreement on the collectives, messages   *)
(* in order, no lost wake-up, no success after an abort.                   *)
(***************************************************************************)
EXTENDS ThreadCommProps, SequenceTheorems, TLAPS

(* Arithmetic on ranks: nobody is not a rank.                                *)
LEMMA RankFacts ==
    /\ N \in Nat /\ N # 0
    /\ Nobody \notin Ranks
    /\ 0 \in Ranks
    /\ \A r \in Ranks : r \in Nat /\ r < N
    /\ \A r \in Nat : r < N => r \in Ranks
BY WorldAssumption DEF Ranks, Nobody

(* The rank that is started next is a rank, and there is one more after it. *)
LEMMA NextRank ==
    ASSUME NEW n \in 0..N, n < N
    PROVE  n \in Ranks /\ n + 1 \in 0..N
BY WorldAssumption DEF Ranks

(* The program of a rank is a sequence of calls, and a call it still has to  *)
(* make is one of the two kinds.                                             *)
LEMMA CallType ==
    ASSUME TypeOK, NEW r \in Ranks, HasCall(r)
    PROVE  CallOf(r) \in Call
<1>1. program \in [Ranks -> Seq(Call)]
  BY WorldAssumption DEF TypeOK
<1>2. calls[r] + 1 \in 1..Len(program[r])
  BY <1>1 DEF TypeOK, HasCall
<1>. QED  BY <1>1, <1>2 DEF CallOf

(* A collective with good arguments has a header, and its bytes are bytes.   *)
LEMMA CollectiveType ==
    ASSUME NEW c \in Call, IsCollective(c), ~BadArguments(c)
    PROVE  /\ c \in CollectiveCall
           /\ c.data \in Bytes /\ c.op \in Kinds
           /\ HeaderOf(c) \in Header
           /\ c.op = "bcast" => c.root \in Ranks
           /\ \A r : Payload(r, c) \in Bytes
<1>1. c \in CollectiveCall
  BY DEF Call, ExchangeCall, IsCollective
<1>2. c.data \in Bytes /\ c.op \in Kinds /\ c.root \in Nat
  BY <1>1 DEF CollectiveCall
<1>3. c.op = "bcast" => c.root \in Ranks
  BY <1>2, RankFacts DEF BadArguments
<1>4. /\ 0 \in {Size[x] : x \in Bytes}
      /\ Size[c.data] \in {Size[x] : x \in Bytes}
  BY <1>2, WorldAssumption
<1>5. HeaderOf(c) \in Header
  BY <1>2, <1>3, <1>4, RankFacts DEF HeaderOf, Header
<1>6. \A r : Payload(r, c) \in Bytes
  BY <1>2, WorldAssumption DEF Payload
<1>. QED  BY <1>1, <1>2, <1>3, <1>5, <1>6

(* An exchange with good arguments names ranks and a tag below the largest.  *)
LEMMA ExchangeType ==
    ASSUME NEW c \in Call, ~IsCollective(c), ~BadArguments(c)
    PROVE  /\ c \in ExchangeCall
           /\ c.tag \in 0..MaxTag
           /\ \A i \in 1..Len(c.sends) : c.sends[i].peer \in Ranks /\ c.sends[i].data \in Bytes
           /\ \A i \in 1..Len(c.recvs) : c.recvs[i].peer \in Ranks
<1>1. c \in ExchangeCall
  BY DEF Call, CollectiveCall, IsCollective, Kinds
<1>2. c.op = "exchange" /\ c.tag \in Nat
  BY <1>1 DEF ExchangeCall
<1>3. c.tag \in 0..MaxTag
  BY <1>2, WorldAssumption DEF BadArguments
<1>4. PeersFit(c.sends) /\ PeersFit(c.recvs)
  BY <1>2 DEF BadArguments
<1>5. /\ c.sends \in Seq([peer : Nat, data : Bytes])
      /\ c.recvs \in Seq([peer : Nat, len : Nat])
  BY <1>1 DEF ExchangeCall
<1>6. \A i \in 1..Len(c.sends) : c.sends[i] \in [peer : Nat, data : Bytes]
  BY <1>5, ElementOfSeq
<1>7. \A i \in 1..Len(c.recvs) : c.recvs[i] \in [peer : Nat, len : Nat]
  BY <1>5, ElementOfSeq
<1>8. \A i \in 1..Len(c.sends) : c.sends[i].peer \in Ranks /\ c.sends[i].data \in Bytes
  BY <1>4, <1>6, RankFacts DEF PeersFit
<1>9. \A i \in 1..Len(c.recvs) : c.recvs[i].peer \in Ranks
  BY <1>4, <1>7, RankFacts DEF PeersFit
<1>. QED  BY <1>1, <1>3, <1>8, <1>9

(* What an exchange posts to an envelope: nothing, or one message.           *)
LEMMA PostedType ==
    ASSUME NEW c \in Call, ~IsCollective(c), ~BadArguments(c), NEW r, NEW e
    PROVE  Posted(r, c, e) \in Seq(Bytes)
<1>. DEFINE mine == {i \in 1..Len(c.sends) : <<r, c.sends[i].peer, c.tag>> = e}
<1>1. CASE mine = {}
  BY <1>1 DEF Posted
<1>2. CASE mine # {}
  <2>1. (CHOOSE i \in mine : TRUE) \in mine
    BY <1>2
  <2>2. c.sends[CHOOSE i \in mine : TRUE].data \in Bytes
    BY <2>1, ExchangeType
  <2>. QED  BY <1>2, <2>2 DEF Posted
<1>. QED  BY <1>1, <1>2

(* What a finished exchange delivers from an envelope.                       *)
LEMMA FilledType ==
    ASSUME TypeOK, NEW r \in Ranks, NEW c, NEW e \in Envelope
    PROVE  Filled(r, c, e) \in Seq(Bytes)
<1>1. e[1] \in Ranks
  BY DEF Envelope
<1>2. got[r][e[1]] \in Bytes
  BY <1>1 DEF TypeOK
<1>. QED  BY <1>2 DEF Filled

-----------------------------------------------------------------------------
(* Types. *)

(* Where the ranks and the starting thread are: the part of the inductive    *)
(* invariant that says nothing of the messages.                              *)
Control == TypeOK /\ (\A r \in Ranks : CallInv(r)) /\ MainInv

(* A step into a collective keeps the types.                                 *)
LEMMA EnterCollectiveType ==
    ASSUME TypeOK, NEW r \in Ranks, EnterCollective(r)
    PROVE  TypeOK'
<1>. DEFINE c == CallOf(r)
<1>1. c \in Call /\ IsCollective(c) /\ ~BadArguments(c)
  BY CallType DEF EnterCollective, CanEnter
<1>2. HeaderOf(c) \in Header /\ c.data \in Bytes /\ Payload(r, c) \in Bytes
  BY <1>1, CollectiveType
<1>3. Round(r) + 1 \in Nat
  BY DEF TypeOK, Round
<1>. HIDE DEF c
<1>4. \A q \in Others(r) :
        [src |-> r, dst |-> q, seq |-> Round(r) + 1, header |-> HeaderOf(c), data |-> Payload(r, c)]
          \in [src : Ranks, dst : Ranks, seq : Nat, header : Header, data : Bytes]
  BY <1>2, <1>3 DEF Others
<1>5. coll' \in SUBSET [src : Ranks, dst : Ranks, seq : Nat, header : Header, data : Bytes]
  BY <1>4 DEF EnterCollective, TypeOK, c
<1>6. entered' \in [Ranks -> Seq([header : Header, data : Bytes])]
  <2>1. entered[r] \in Seq([header : Header, data : Bytes])
    BY DEF TypeOK
  <2>2. [header |-> HeaderOf(c), data |-> c.data] \in [header : Header, data : Bytes]
    BY <1>2
  <2>3. Append(entered[r], [header |-> HeaderOf(c), data |-> c.data])
          \in Seq([header : Header, data : Bytes])
    BY <2>1, <2>2, AppendProperties
  <2>. QED  BY <2>3 DEF EnterCollective, TypeOK, c
<1>7. NoBytes \in [Ranks -> Bytes]
  BY WorldAssumption DEF NoBytes
<1>8. got' \in [Ranks -> [Ranks -> Bytes]] /\ unread' \in [Ranks -> SUBSET Ranks]
  BY <1>7 DEF EnterCollective, TypeOK
<1>. QED
  BY <1>5, <1>6, <1>8
     DEF EnterCollective, TypeOK, mainVars, Notified

(* A step into an exchange keeps the types.                                  *)
LEMMA EnterExchangeType ==
    ASSUME TypeOK, NEW r \in Ranks, EnterExchange(r)
    PROVE  TypeOK'
<1>. DEFINE c == CallOf(r)
<1>1. c \in Call /\ ~IsCollective(c) /\ ~BadArguments(c)
  BY CallType DEF EnterExchange, CanEnter
<1>2. \A e : Posted(r, c, e) \in Seq(Bytes)
  BY <1>1, PostedType
<1>3. {c.recvs[i].peer : i \in 1..Len(c.recvs)} \in SUBSET Ranks
  BY <1>1, ExchangeType
<1>. HIDE DEF c
<1>4. p2p' \in [Envelope -> Seq(Bytes)] /\ sent' \in [Envelope -> Seq(Bytes)]
  BY <1>2, ConcatProperties DEF EnterExchange, TypeOK, c
<1>5. NoBytes \in [Ranks -> Bytes]
  BY WorldAssumption DEF NoBytes
<1>6. got' \in [Ranks -> [Ranks -> Bytes]] /\ unread' \in [Ranks -> SUBSET Ranks]
  BY <1>3, <1>5 DEF EnterExchange, TypeOK, c
<1>. QED
  BY <1>4, <1>6 DEF EnterExchange, TypeOK, mainVars, Notified


(* A failed call keeps the types of what it touches.                         *)
LEMMA FailType ==
    ASSUME TypeOK, NEW r \in Ranks, HasCall(r)
    PROVE  FailedAnswer(r) \in [Ranks -> Seq([ok : BOOLEAN, out : [Ranks -> Bytes]])]
<1>1. [ok |-> FALSE, out |-> NoBytes] \in [ok : BOOLEAN, out : [Ranks -> Bytes]]
  BY WorldAssumption DEF NoBytes
<1>2. answers[r] \in Seq([ok : BOOLEAN, out : [Ranks -> Bytes]])
  BY DEF TypeOK
<1>3. Append(answers[r], [ok |-> FALSE, out |-> NoBytes])
        \in Seq([ok : BOOLEAN, out : [Ranks -> Bytes]])
  BY <1>1, <1>2, AppendProperties
<1>. QED  BY <1>3 DEF FailedAnswer, TypeOK

(* A step into a call of an aborted world keeps the types.                   *)
LEMMA EnterSpentType ==
    ASSUME TypeOK, NEW r \in Ranks, EnterSpent(r)
    PROVE  TypeOK'
<1>. DEFINE c == CallOf(r)
            entry == [header |-> HeaderOf(c), data |-> c.data]
<1>1. c \in Call /\ ~BadArguments(c) /\ HasCall(r)
  BY CallType DEF EnterSpent, CanEnter
<1>2. IsCollective(c) => entry \in [header : Header, data : Bytes]
  BY <1>1, CollectiveType
<1>3. entered[r] \in Seq([header : Header, data : Bytes])
  BY DEF TypeOK
<1>4. IsCollective(c) => Append(entered[r], entry) \in Seq([header : Header, data : Bytes])
  BY <1>2, <1>3, AppendProperties
<1>5. entered' \in [Ranks -> Seq([header : Header, data : Bytes])]
  <2>. HIDE DEF c
  <2>1. entered' = IF IsCollective(c) THEN [entered EXCEPT ![r] = Append(@, entry)] ELSE entered
    BY DEF EnterSpent, c
  <2>. QED  BY <1>4, <2>1 DEF TypeOK
<1>6. answers' \in [Ranks -> Seq([ok : BOOLEAN, out : [Ranks -> Bytes]])]
  BY <1>1, FailType DEF EnterSpent
<1>. QED
  BY <1>5, <1>6 DEF EnterSpent, TypeOK, mainVars, callVars, waitVars, mailVars

(* A message that is taken is one of the byte strings.                       *)
LEMMA GotType ==
    ASSUME TypeOK, NEW r \in Ranks, NEW p \in Ranks, NEW x \in Bytes
    PROVE  [got EXCEPT ![r][p] = x] \in [Ranks -> [Ranks -> Bytes]]
<1>1. got \in [Ranks -> [Ranks -> Bytes]]
  BY DEF TypeOK
<1>2. [got[r] EXCEPT ![p] = x] \in [Ranks -> Bytes]
  BY <1>1
<1>. QED  BY <1>1, <1>2

(* Taking a message keeps the types.                                         *)
LEMMA TakeCollectiveType ==
    ASSUME Control, NEW r \in Ranks, NEW p \in Ranks, TakeCollective(r, p)
    PROVE  TypeOK'
<1>1. HasCall(r)
  BY DEF Control, CallInv, InCall, TakeCollective, Reading
<1>2. PICK m \in coll :
        /\ coll' = coll \ {m}
        /\ IF SameHeader(HeaderOf(CallOf(r)), m.header)
             THEN /\ unread' = [unread EXCEPT ![r] = @ \ {p}]
                  /\ got' = [got EXCEPT ![r][p] = m.data]
                  /\ late' = late \ {r}
                  /\ UNCHANGED <<pc, lock, answers>>
             ELSE /\ Fail(r)
                  /\ answers' = FailedAnswer(r)
                  /\ UNCHANGED got
  BY DEF TakeCollective
<1>3. m.data \in Bytes
  BY DEF Control, TypeOK
<1>4. answers' \in [Ranks -> Seq([ok : BOOLEAN, out : [Ranks -> Bytes]])]
  BY <1>1, <1>2, FailType DEF Control, TypeOK
<1>5. got' \in [Ranks -> [Ranks -> Bytes]]
  <2>1. got' = [got EXCEPT ![r][p] = m.data] \/ got' = got
    BY <1>2
  <2>2. got \in [Ranks -> [Ranks -> Bytes]]
    BY DEF Control, TypeOK
  <2>3. [got EXCEPT ![r][p] = m.data] \in [Ranks -> [Ranks -> Bytes]]
    BY <1>3, GotType DEF Control
  <2>. QED  BY <2>1, <2>2, <2>3
<1>6. /\ unread' \in [Ranks -> SUBSET Ranks]
      /\ late' \in SUBSET Ranks
      /\ lock' \in Ranks \cup {Nobody}
      /\ pc' \in [Ranks -> {"unborn", "idle", "reading", "waiting", "failed",
                            "returned", "panicking", "notifying", "panicked"}]
  <2>1. \/ /\ unread' = [unread EXCEPT ![r] = @ \ {p}]
           /\ late' = late \ {r}
           /\ UNCHANGED <<pc, lock>>
        \/ Fail(r)
    BY <1>2
  <2>2. CASE Fail(r)
    BY <2>2 DEF Control, TypeOK, Fail
  <2>3. CASE /\ unread' = [unread EXCEPT ![r] = @ \ {p}]
             /\ late' = late \ {r}
             /\ UNCHANGED <<pc, lock>>
    BY <2>3 DEF Control, TypeOK
  <2>. QED  BY <2>1, <2>2, <2>3
<1>7. coll' \in SUBSET [src : Ranks, dst : Ranks, seq : Nat, header : Header, data : Bytes]
  BY <1>2 DEF Control, TypeOK
<1>. QED
  BY <1>4, <1>5, <1>6, <1>7 DEF TakeCollective, Control, TypeOK, mainVars

LEMMA TakeMessageType ==
    ASSUME Control, NEW r \in Ranks, NEW p \in Ranks, TakeMessage(r, p)
    PROVE  TypeOK'
<1>. DEFINE e == <<p, r, CallOf(r).tag>>
<1>1. CallOf(r) \in Call /\ ~IsCollective(CallOf(r)) /\ ~BadArguments(CallOf(r))
  BY CallType DEF Control, CallInv, InCall, TakeMessage, Reading
<1>2. e \in Envelope
  BY <1>1, ExchangeType DEF Envelope
<1>3. p2p[e] \in Seq(Bytes) /\ p2p[e] # <<>>
  BY <1>2 DEF TakeMessage, Control, TypeOK
<1>4. Tail(p2p[e]) \in Seq(Bytes) /\ OldestFirst(p2p[e]) \in Bytes
  BY <1>3, HeadTailProperties DEF OldestFirst
<1>. HIDE DEF e
<1>5. /\ p2p' = [p2p EXCEPT ![e] = Tail(@)]
      /\ \/ /\ unread' = [unread EXCEPT ![r] = @ \ {p}]
            /\ got' = [got EXCEPT ![r][p] = OldestFirst(p2p[e])]
            /\ late' = late \ {r}
            /\ UNCHANGED <<pc, lock>>
         \/ Fail(r) /\ UNCHANGED got
  BY DEF TakeMessage, e
<1>6. p2p' \in [Envelope -> Seq(Bytes)] /\ got' \in [Ranks -> [Ranks -> Bytes]]
  <2>1. [got EXCEPT ![r][p] = OldestFirst(p2p[e])] \in [Ranks -> [Ranks -> Bytes]]
    BY <1>4, GotType DEF Control
  <2>2. got \in [Ranks -> [Ranks -> Bytes]] /\ p2p \in [Envelope -> Seq(Bytes)]
    BY DEF Control, TypeOK
  <2>. QED  BY <1>4, <1>5, <2>1, <2>2
<1>. DEFINE Places == {"unborn", "idle", "reading", "waiting", "failed",
                      "returned", "panicking", "notifying", "panicked"}
<1>7. /\ unread' \in [Ranks -> SUBSET Ranks]
      /\ late' \in SUBSET Ranks
      /\ lock' \in Ranks \cup {Nobody}
      /\ pc' \in [Ranks -> Places]
  <2>1. CASE Fail(r)
    <3>1. pc' = [pc EXCEPT ![r] = "failed"] /\ pc \in [Ranks -> Places]
      BY <2>1 DEF Control, TypeOK, Fail
    <3>2. pc' \in [Ranks -> Places]
      BY <3>1
    <3>. QED  BY <2>1, <3>2 DEF Control, TypeOK, Fail
  <2>2. CASE UNCHANGED <<pc, lock>> /\ late' = late \ {r}
             /\ unread' = [unread EXCEPT ![r] = @ \ {p}]
    BY <2>2 DEF Control, TypeOK
  <2>. QED  BY <1>5, <2>1, <2>2
<1>. QED
  BY <1>6, <1>7 DEF TakeMessage, Control, TypeOK, mainVars

(* A call that returns Ok keeps the types.                                   *)
LEMMA CompleteType ==
    ASSUME Control, NEW r \in Ranks, Complete(r)
    PROVE  TypeOK'
<1>. DEFINE c == CallOf(r)
<1>1. c \in Call /\ ~BadArguments(c)
  BY CallType DEF Control, CallInv, InCall, Complete
<1>2. IsCollective(c) => OutOf(r, c, got[r]) \in [Ranks -> Bytes]
  <2>1. got[r] \in [Ranks -> Bytes]
    BY DEF Control, TypeOK
  <2>. QED  BY <1>1, <2>1, CollectiveType, WorldAssumption DEF OutOf
<1>3. \A e \in Envelope : Filled(r, c, e) \in Seq(Bytes)
  BY FilledType DEF Control
<1>4. answers[r] \in Seq([ok : BOOLEAN, out : [Ranks -> Bytes]])
  BY DEF Control, TypeOK
<1>5. IsCollective(c) =>
        Append(answers[r], [ok |-> TRUE, out |-> OutOf(r, c, got[r])])
          \in Seq([ok : BOOLEAN, out : [Ranks -> Bytes]])
  BY <1>2, <1>4, AppendProperties
<1>. HIDE DEF c
<1>6. answers' \in [Ranks -> Seq([ok : BOOLEAN, out : [Ranks -> Bytes]])]
  <2>1. CASE IsCollective(c)
    BY <2>1, <1>5 DEF Complete, Control, TypeOK, c
  <2>2. CASE ~IsCollective(c)
    BY <2>2 DEF Complete, Control, TypeOK, c
  <2>. QED  BY <2>1, <2>2
<1>7. delivered' \in [Envelope -> Seq(Bytes)]
  <2>1. CASE IsCollective(c)
    BY <2>1 DEF Complete, Control, TypeOK, c
  <2>2. CASE ~IsCollective(c)
    <3>1. delivered' = [e \in Envelope |-> delivered[e] \o Filled(r, c, e)]
      BY <2>2 DEF Complete, c
    <3>2. \A e \in Envelope : delivered[e] \in Seq(Bytes)
      BY DEF Control, TypeOK
    <3>3. \A e \in Envelope : delivered[e] \o Filled(r, c, e) \in Seq(Bytes)
      BY <1>3, <3>2, ConcatProperties
    <3>. QED  BY <3>1, <3>3
  <2>. QED  BY <2>1, <2>2
<1>8. /\ calls' \in [Ranks -> Nat]
      /\ lock' \in Ranks \cup {Nobody}
      /\ pc' \in [Ranks -> {"unborn", "idle", "reading", "waiting", "failed",
                            "returned", "panicking", "notifying", "panicked"}]
      /\ UNCHANGED <<mainVars, unread, got, waitVars, abort, mailVars, entered>>
  BY DEF Complete, Control, TypeOK
<1>. QED
  BY <1>6, <1>7, <1>8 DEF Control, TypeOK, mainVars, waitVars, mailVars


(* Every step keeps the types.                                               *)
LEMMA TypeStep ==
    ASSUME Control, [Next]_vars
    PROVE  TypeOK'
<1>. USE RankFacts DEF Control
<1>1. ASSUME NEW r \in Ranks, EnterCall(r) PROVE TypeOK'
  <2>1. ASSUME Refuse(r) PROVE TypeOK'
    BY <2>1 DEF Refuse, TypeOK, mainVars, callVars, waitVars, mailVars
  <2>. QED
    BY <1>1, <2>1, EnterCollectiveType, EnterExchangeType, EnterSpentType DEF EnterCall
<1>2. ASSUME NEW r \in Ranks, WaitStep(r) PROVE TypeOK'
  <2>1. ASSUME SeeAbort(r) PROVE TypeOK'
    <3>1. HasCall(r)
      BY <2>1 DEF SeeAbort, CallInv, InCall, Reading
    <3>2. answers' \in [Ranks -> Seq([ok : BOOLEAN, out : [Ranks -> Bytes]])]
      BY <2>1, <3>1, FailType DEF SeeAbort
    <3>. QED
      BY <2>1, <3>2 DEF SeeAbort, Fail, TypeOK, mainVars, mailVars
  <2>2. ASSUME Reacquire(r) PROVE TypeOK'
    BY <2>2 DEF Reacquire, TypeOK, mainVars, callVars, waitVars, mailVars
  <2>3. ASSUME NEW p \in Ranks, TimeOut(r, p) PROVE TypeOK'
    <3>1. HasCall(r)
      BY <2>3 DEF TimeOut, CallInv, InCall, Reading
    <3>2. answers' \in [Ranks -> Seq([ok : BOOLEAN, out : [Ranks -> Bytes]])]
      BY <2>3, <3>1, FailType DEF TimeOut
    <3>. QED
      BY <2>3, <3>2 DEF TimeOut, Fail, TypeOK, mainVars, mailVars
  <2>4. ASSUME NEW p \in Ranks, Sleep(r, p) PROVE TypeOK'
    BY <2>4 DEF Sleep, TypeOK, mainVars, callVars, mailVars
  <2>. QED
    BY <1>2, <2>1, <2>2, <2>3, <2>4, CompleteType, TakeCollectiveType, TakeMessageType
       DEF WaitStep
<1>3. ASSUME NEW r \in Ranks, AbortStep(r) \/ Return(r) \/ Mishap(r) PROVE TypeOK'
  BY <1>3 DEF AbortStep, SetAbort, NotifyAbort, Return, Mishap, Panic, Expire, SpuriousWake,
              FirstReason, Notified, TypeOK, mainVars, callVars, waitVars, mailVars
<1>4. ASSUME MainStep \/ SpawnFails PROVE TypeOK'
  <2>0. main \in {"spawning", "aborting", "notifying"} => spawned \in Ranks /\ spawned + 1 \in 0..N
    <3>1. spawned \in 0..N
      BY DEF TypeOK
    <3>2. main \in {"spawning", "aborting", "notifying"} => spawned < N
      BY DEF MainInv
    <3>. QED
      BY ONLY <3>1, <3>2, NextRank
  <2>1. ASSUME Spawn PROVE TypeOK'
    BY <2>0, <2>1 DEF Spawn, MainInv, TypeOK, callVars, waitVars, mailVars
  <2>2. ASSUME SpawnFails \/ MainSetsAbort \/ MainNotifies PROVE TypeOK'
    BY <2>0, <2>2 DEF SpawnFails, MainSetsAbort, MainNotifies, FirstReason, Notified,
                      TypeOK, callVars, waitVars, mailVars
  <2>3. ASSUME Join PROVE TypeOK'
    BY <2>3 DEF Join, TypeOK, callVars, waitVars, mailVars
  <2>. QED  BY <1>4, <2>1, <2>2, <2>3 DEF MainStep
<1>5. ASSUME UNCHANGED vars PROVE TypeOK'
  BY <1>5 DEF vars, TypeOK, mainVars, callVars, waitVars, mailVars
<1>. QED  BY <1>1, <1>2, <1>3, <1>4, <1>5 DEF Next, RankStep


-----------------------------------------------------------------------------
(* Where the ranks are. *)

(* Only a call that returns Ok changes what call a rank is in.               *)
LEMMA SameCall ==
    ASSUME UNCHANGED <<program, calls>>, NEW q
    PROVE  /\ HasCall(q)' <=> HasCall(q)
           /\ CallOf(q)' = CallOf(q)
           /\ BadArguments(CallOf(q))' <=> BadArguments(CallOf(q))
           /\ IsCollective(CallOf(q))' <=> IsCollective(CallOf(q))
<1>1. CallOf(q)' = CallOf(q)
  BY DEF CallOf
<1>2. HasCall(q)' <=> HasCall(q)
  BY DEF HasCall
<1>3. BadArguments(CallOf(q))' <=> BadArguments(CallOf(q))
  BY <1>1 DEF BadArguments, PeersFit
<1>4. IsCollective(CallOf(q))' <=> IsCollective(CallOf(q))
  BY <1>1 DEF IsCollective
<1>. QED  BY <1>1, <1>2, <1>3, <1>4

(* Every step keeps the calls of the ranks in order.                         *)
LEMMA CallStep ==
    ASSUME Control, [Next]_vars, NEW q \in Ranks
    PROVE  CallInv(q)'
<1>. USE RankFacts
<1>0. /\ pc \in [Ranks -> {"unborn", "idle", "reading", "waiting", "failed",
                           "returned", "panicking", "notifying", "panicked"}]
      /\ unread \in [Ranks -> SUBSET Ranks]
      /\ calls \in [Ranks -> Nat]
      /\ CallInv(q)
  BY DEF Control, TypeOK
<1>1. ASSUME NEW r \in Ranks, EnterCollective(r) \/ EnterExchange(r) PROVE CallInv(q)'
  <2>1. /\ UNCHANGED <<program, calls, abort>>
        /\ abort = Nobody /\ lock = Nobody
        /\ HasCall(r) /\ ~BadArguments(CallOf(r))
        /\ pc[r] = "idle" /\ pc' = [pc EXCEPT ![r] = "reading"]
        /\ lock' = r
        /\ \E s \in SUBSET Ranks : unread' = [unread EXCEPT ![r] = s]
        /\ asleep' \in {asleep, {}}
    <3>1. CASE EnterCollective(r)
      BY <3>1 DEF EnterCollective, CanEnter, Spent, Notified, mainVars
    <3>2. CASE EnterExchange(r)
      <4>1. {CallOf(r).recvs[i].peer : i \in 1..Len(CallOf(r).recvs)} \in SUBSET Ranks
        BY <3>2, CallType, ExchangeType DEF EnterExchange, CanEnter, Control
      <4>. QED  BY <3>2, <4>1 DEF EnterExchange, CanEnter, Spent, Notified, mainVars
    <3>. QED  BY <1>1, <3>1, <3>2
  <2>. QED  BY <1>0, <2>1, SameCall DEF CallInv, InCall
<1>2. ASSUME NEW r \in Ranks, EnterSpent(r) \/ Refuse(r) PROVE CallInv(q)'
  <2>1. /\ UNCHANGED <<program, calls, abort, unread, lock, asleep>>
        /\ pc[r] = "idle" /\ pc' = [pc EXCEPT ![r] = "failed"]
    BY <1>2 DEF EnterSpent, Refuse, CanEnter, mainVars, callVars, waitVars
  <2>. QED  BY <1>0, <2>1, SameCall DEF CallInv, InCall
<1>3. ASSUME NEW r \in Ranks, NEW p \in Ranks,
             SeeAbort(r) \/ TakeCollective(r, p) \/ TakeMessage(r, p) \/ TimeOut(r, p)
      PROVE  CallInv(q)'
  <2>1. /\ UNCHANGED <<program, calls, abort, asleep>>
        /\ pc[r] = "reading" /\ lock = r
        /\ \/ Fail(r)
           \/ /\ abort = Nobody
              /\ unread' = [unread EXCEPT ![r] = @ \ {p}]
              /\ UNCHANGED <<pc, lock>>
    BY <1>3 DEF SeeAbort, TakeCollective, TakeMessage, TimeOut, Reading, mainVars
  <2>2. CASE Fail(r)
    BY <1>0, <2>1, <2>2, SameCall DEF CallInv, InCall, Fail
  <2>3. CASE ~Fail(r)
    BY <1>0, <2>1, <2>3, SameCall DEF CallInv, InCall
  <2>. QED  BY <2>2, <2>3
<1>4. ASSUME NEW r \in Ranks, NEW p \in Ranks, Sleep(r, p) PROVE CallInv(q)'
  <2>1. /\ UNCHANGED <<program, calls, abort, unread>>
        /\ pc[r] = "reading" /\ lock = r /\ unread[r] # {}
        /\ asleep' = asleep \cup {r}
        /\ pc' = [pc EXCEPT ![r] = "waiting"]
        /\ lock' = Nobody
    BY <1>4 DEF Sleep, Reading, WaitsFor, mainVars, callVars
  <2>. QED  BY <1>0, <2>1, SameCall DEF CallInv, InCall
<1>5. ASSUME NEW r \in Ranks, Reacquire(r) PROVE CallInv(q)'
  <2>1. /\ UNCHANGED <<program, calls, abort, unread, asleep>>
        /\ pc[r] = "waiting" /\ lock = Nobody /\ r \notin asleep
        /\ CallInv(r)
        /\ pc' = [pc EXCEPT ![r] = "reading"]
        /\ lock' = r
    BY <1>5 DEF Reacquire, mainVars, callVars, waitVars, Control
  <2>. QED  BY <1>0, <2>1, SameCall DEF CallInv, InCall
<1>6. ASSUME NEW r \in Ranks, Complete(r) PROVE CallInv(q)'
  <2>1. /\ UNCHANGED <<program, abort, unread, asleep>>
        /\ pc[r] = "reading" /\ lock = r
        /\ calls' = [calls EXCEPT ![r] = @ + 1]
        /\ pc' = [pc EXCEPT ![r] = "idle"]
        /\ lock' = Nobody
    BY <1>6 DEF Complete, mainVars, waitVars
  <2>2. q # r => /\ HasCall(q)' <=> HasCall(q)
                 /\ CallOf(q)' = CallOf(q)
    BY <1>0, <2>1 DEF HasCall, CallOf
  <2>3. q # r => (BadArguments(CallOf(q))' <=> BadArguments(CallOf(q)))
    BY <2>2 DEF BadArguments, PeersFit
  <2>4. CASE q = r
    BY <1>0, <2>1, <2>4 DEF CallInv, InCall
  <2>5. CASE q # r
    BY <1>0, <2>1, <2>2, <2>3, <2>5 DEF CallInv, InCall
  <2>. QED  BY <2>4, <2>5
<1>7. ASSUME NEW r \in Ranks, AbortStep(r) \/ Return(r) \/ Panic(r) PROVE CallInv(q)'
  <2>1. /\ UNCHANGED <<program, calls, unread, lock>>
        /\ pc[r] \in {"idle", "failed", "panicking", "notifying"}
        /\ \E v \in {"returned", "panicking", "notifying", "panicked"} : pc' = [pc EXCEPT ![r] = v]
        /\ asleep' \in {asleep, {}}
        /\ lock # Nobody => UNCHANGED abort
    BY <1>7 DEF AbortStep, SetAbort, NotifyAbort, Return, Panic, Notified, mainVars, callVars,
                waitVars
  <2>. QED  BY <1>0, <2>1, SameCall DEF CallInv, InCall
<1>8. ASSUME NEW r \in Ranks, Expire(r) \/ SpuriousWake(r) PROVE CallInv(q)'
  <2>1. /\ UNCHANGED <<program, calls, unread, lock, pc, abort>>
        /\ asleep' = asleep \ {r}
    BY <1>8 DEF Expire, SpuriousWake, mainVars, callVars
  <2>. QED  BY <1>0, <2>1, SameCall DEF CallInv, InCall
<1>9. ASSUME MainStep \/ SpawnFails PROVE CallInv(q)'
  <2>1. /\ UNCHANGED <<program, calls, unread, lock>>
        /\ asleep' \in {asleep, {}}
        /\ lock # Nobody => UNCHANGED abort
    BY <1>9 DEF MainStep, Spawn, SpawnFails, MainSetsAbort, MainNotifies, Join, Notified,
                mainVars, callVars, waitVars
  <2>2. \/ UNCHANGED pc
        \/ spawned \in Ranks /\ pc[spawned] = "unborn" /\ pc' = [pc EXCEPT ![spawned] = "idle"]
    BY <1>9 DEF MainStep, Spawn, SpawnFails, MainSetsAbort, MainNotifies, Join, Control, MainInv,
                TypeOK, callVars, waitVars
  <2>. QED  BY <1>0, <2>1, <2>2, SameCall DEF CallInv, InCall
<1>10. ASSUME UNCHANGED vars PROVE CallInv(q)'
  BY <1>0, <1>10, SameCall DEF CallInv, InCall, vars, mainVars, callVars, waitVars
<1>. QED
  BY <1>1, <1>2, <1>3, <1>4, <1>5, <1>6, <1>7, <1>8, <1>9, <1>10
     DEF Next, RankStep, EnterCall, WaitStep, Mishap


(* What a step of a rank can do to the states and to the abort slot.         *)
LEMMA RankMove ==
    ASSUME Control, NEW r \in Ranks, RankStep(r) \/ Mishap(r)
    PROVE  /\ UNCHANGED mainVars
           /\ \/ UNCHANGED <<pc, abort>>
              \/ /\ pc[r] \notin {"unborn", "returned", "panicked"}
                 /\ \E v \in {"idle", "reading", "waiting", "failed", "returned",
                              "panicking", "notifying", "panicked"} :
                      /\ pc' = [pc EXCEPT ![r] = v]
                      /\ pc[r] = "notifying" => v = "panicked"
                      /\ abort' = abort \/ (v = "notifying" /\ abort = Nobody)
<1>1. ASSUME EnterCall(r) PROVE
        /\ UNCHANGED <<mainVars, abort>> /\ pc[r] = "idle"
        /\ \E v \in {"reading", "failed"} : pc' = [pc EXCEPT ![r] = v]
  BY <1>1 DEF EnterCall, EnterCollective, EnterExchange, EnterSpent, Refuse, CanEnter
<1>2. ASSUME WaitStep(r) PROVE
        /\ UNCHANGED <<mainVars, abort>>
        /\ \/ UNCHANGED pc
           \/ /\ pc[r] \in {"reading", "waiting"}
              /\ \E v \in {"reading", "waiting", "idle", "failed"} : pc' = [pc EXCEPT ![r] = v]
  <2>1. CASE SeeAbort(r) \/ Reacquire(r) \/ Complete(r)
    BY <2>1 DEF SeeAbort, Reacquire, Complete, Fail, Reading
  <2>2. ASSUME NEW p \in Ranks, TakeCollective(r, p) PROVE
          /\ UNCHANGED <<mainVars, abort>> /\ pc[r] = "reading"
          /\ UNCHANGED pc \/ pc' = [pc EXCEPT ![r] = "failed"]
    BY <2>2 DEF TakeCollective, Fail, Reading
  <2>3. ASSUME NEW p \in Ranks, TakeMessage(r, p) PROVE
          /\ UNCHANGED <<mainVars, abort>> /\ pc[r] = "reading"
          /\ UNCHANGED pc \/ pc' = [pc EXCEPT ![r] = "failed"]
    BY <2>3 DEF TakeMessage, Fail, Reading
  <2>4. ASSUME NEW p \in Ranks, TimeOut(r, p) \/ Sleep(r, p) PROVE
          /\ UNCHANGED <<mainVars, abort>> /\ pc[r] = "reading"
          /\ \E v \in {"waiting", "failed"} : pc' = [pc EXCEPT ![r] = v]
    BY <2>4 DEF TimeOut, Sleep, Fail, Reading
  <2>. QED  BY <1>2, <2>1, <2>2, <2>3, <2>4 DEF WaitStep
<1>3. ASSUME AbortStep(r) \/ Return(r) \/ Panic(r) PROVE
        /\ UNCHANGED mainVars
        /\ pc[r] \in {"idle", "failed", "panicking", "notifying"}
        /\ \E v \in {"returned", "panicking", "notifying", "panicked"} :
             /\ pc' = [pc EXCEPT ![r] = v]
             /\ pc[r] = "notifying" => v = "panicked"
             /\ abort' = abort \/ (v = "notifying" /\ abort = Nobody)
  BY <1>3 DEF AbortStep, SetAbort, NotifyAbort, Return, Panic, FirstReason
<1>4. ASSUME Expire(r) \/ SpuriousWake(r) PROVE UNCHANGED <<mainVars, pc, abort>>
  BY <1>4 DEF Expire, SpuriousWake
<1>. QED  BY <1>1, <1>2, <1>3, <1>4 DEF RankStep, Mishap

(* Every step keeps the starting thread in order.                            *)
LEMMA MainInvStep ==
    ASSUME Control, [Next]_vars
    PROVE  MainInv'
<1>. USE RankFacts
<1>0. /\ pc \in [Ranks -> {"unborn", "idle", "reading", "waiting", "failed",
                           "returned", "panicking", "notifying", "panicked"}]
      /\ main \in {"spawning", "aborting", "notifying", "joining", "done"}
      /\ spawned \in 0..N
      /\ MainInv
  BY DEF Control, TypeOK
<1>1. ASSUME NEW r \in Ranks, RankStep(r) \/ Mishap(r) PROVE MainInv'
  <2>1. UNCHANGED <<main, spawned, outcome>>
    BY <1>1, RankMove DEF mainVars
  <2>2. CASE UNCHANGED <<pc, abort>>
    BY <1>0, <2>1, <2>2 DEF MainInv
  <2>3. ASSUME pc[r] \notin {"unborn", "returned", "panicked"},
               NEW v \in {"idle", "reading", "waiting", "failed", "returned",
                          "panicking", "notifying", "panicked"},
               pc' = [pc EXCEPT ![r] = v],
               pc[r] = "notifying" => v = "panicked",
               abort' = abort \/ (v = "notifying" /\ abort = Nobody)
        PROVE  MainInv'
    <3>1. \A q \in Ranks : pc'[q] = IF q = r THEN v ELSE pc[q]
      BY <1>0, <2>3
    <3>2. \A q \in Ranks : pc'[q] = "unborn" <=> q >= spawned'
      BY <1>0, <2>1, <2>3, <3>1 DEF MainInv
    <3>3. abort' # Nobody =>
            \/ main' \in {"notifying", "joining", "done"} /\ spawned' < N
            \/ \E q \in Ranks : pc'[q] \in {"notifying", "panicked"}
      BY <1>0, <2>1, <2>3, <3>1 DEF MainInv
    <3>. QED  BY <1>0, <2>1, <3>2, <3>3 DEF MainInv
  <2>. QED  BY <1>1, <2>2, <2>3, RankMove
<1>2. ASSUME Spawn PROVE MainInv'
  <2>1. spawned \in Ranks /\ pc[spawned] = "unborn"
    BY <1>0, <1>2 DEF MainInv, Spawn
  <2>2. /\ \A q \in Ranks : pc'[q] = IF q = spawned THEN "idle" ELSE pc[q]
        /\ spawned' = spawned + 1
        /\ main' = IF spawned + 1 = N THEN "joining" ELSE "spawning"
        /\ UNCHANGED <<outcome, abort>>
        /\ main = "spawning"
    BY <1>0, <1>2, <2>1 DEF Spawn
  <2>3. \A q \in Ranks : pc'[q] = "unborn" <=> q >= spawned'
    BY <1>0, <2>1, <2>2 DEF MainInv
  <2>4. abort' # Nobody => \E q \in Ranks : pc'[q] \in {"notifying", "panicked"}
    BY <1>0, <2>1, <2>2 DEF MainInv
  <2>. QED  BY <1>0, <2>1, <2>2, <2>3, <2>4 DEF MainInv
<1>3. ASSUME SpawnFails \/ MainSetsAbort \/ MainNotifies \/ Join PROVE MainInv'
  BY <1>0, <1>3 DEF SpawnFails, MainSetsAbort, MainNotifies, Join, MainInv
<1>4. ASSUME UNCHANGED vars PROVE MainInv'
  BY <1>0, <1>4 DEF vars, mainVars, MainInv
<1>. QED  BY <1>1, <1>2, <1>3, <1>4 DEF Next, MainStep

(* The types and the control of the transport are invariant.                 *)
THEOREM ControlHolds == Spec => []Control
<1>1. Init => Control
  <2>. SUFFICES ASSUME Init PROVE Control
    OBVIOUS
  <2>1. TypeOK
    <3>1. NoBytes \in [Ranks -> Bytes]
      BY WorldAssumption DEF NoBytes
    <3>2. <<>> \in Seq(Bytes) /\ <<>> \in Seq([header : Header, data : Bytes])
          /\ <<>> \in Seq([ok : BOOLEAN, out : [Ranks -> Bytes]])
      OBVIOUS
    <3>. QED  BY <3>1, <3>2, RankFacts DEF Init, TypeOK, Outcomes
  <2>2. \A r \in Ranks : CallInv(r)
    BY RankFacts DEF Init, CallInv, InCall
  <2>3. MainInv
    BY RankFacts DEF Init, MainInv
  <2>. QED  BY <2>1, <2>2, <2>3 DEF Control
<1>2. Control /\ [Next]_vars => Control'
  BY TypeStep, CallStep, MainInvStep DEF Control
<1>. QED  BY <1>1, <1>2, PTL DEF Spec

(* Every reachable state is well typed: in particular every byte string a    *)
(* call returns and every message left in a mailbox is one that was sent.    *)
THEOREM TypeCorrect == Spec => []TypeOK
<1>1. Control => TypeOK
  BY DEF Control
<1>. QED  BY <1>1, ControlHolds, PTL


-----------------------------------------------------------------------------
(* Aborts. *)

(* NoSuccessAfterAbort: a call that has all its messages holds the mutex, so *)
(* nobody can abort the world before it returns.                             *)
THEOREM NothingSucceedsAfterAbort == Spec => NoSuccessAfterAbort
<1>1. Control /\ [Next]_vars => [abort # Nobody => calls' = calls]_vars
  <2>. SUFFICES ASSUME Control, Next, abort # Nobody PROVE UNCHANGED calls
    BY DEF vars
  <2>1. ASSUME NEW r \in Ranks, Complete(r) PROVE FALSE
    BY <2>1 DEF Complete, Control, CallInv
  <2>2. ASSUME NEW r \in Ranks, EnterCall(r) PROVE UNCHANGED calls
    BY <2>2 DEF EnterCall, EnterCollective, EnterExchange, EnterSpent, Refuse, callVars
  <2>3. ASSUME NEW r \in Ranks, WaitStep(r) PROVE UNCHANGED calls
    BY <2>1, <2>3 DEF WaitStep, SeeAbort, Reacquire, TakeCollective, TakeMessage, TimeOut, Sleep,
                      callVars
  <2>4. ASSUME NEW r \in Ranks, AbortStep(r) \/ Return(r) \/ Mishap(r) PROVE UNCHANGED calls
    BY <2>4 DEF AbortStep, SetAbort, NotifyAbort, Return, Mishap, Panic, Expire, SpuriousWake,
                callVars
  <2>5. ASSUME MainStep \/ SpawnFails PROVE UNCHANGED calls
    BY <2>5 DEF MainStep, Spawn, SpawnFails, MainSetsAbort, MainNotifies, Join, callVars
  <2>. QED  BY <2>2, <2>3, <2>4, <2>5 DEF Next, RankStep
<1>. QED  BY <1>1, ControlHolds, PTL DEF Spec, NoSuccessAfterAbort

(* ResultsAreWhole: run() returns results after it has joined every rank,    *)
(* and nothing can happen to a world whose ranks have all returned.          *)
THEOREM WholeResults == Spec => []ResultsAreWhole
<1>1. Init => ResultsAreWhole
  BY DEF Init, ResultsAreWhole
<1>2. Control /\ ResultsAreWhole /\ [Next]_vars => ResultsAreWhole'
  <2>. SUFFICES ASSUME Control, ResultsAreWhole, [Next]_vars PROVE ResultsAreWhole'
    OBVIOUS
  <2>0. /\ outcome.how = "results" => main = "done"
        /\ spawned \in 0..N
        /\ pc \in [Ranks -> {"unborn", "idle", "reading", "waiting", "failed",
                             "returned", "panicking", "notifying", "panicked"}]
    BY DEF Control, MainInv, TypeOK
  <2>1. ASSUME NEW r \in Ranks, RankStep(r) \/ Mishap(r) PROVE ResultsAreWhole'
    BY <2>0, <2>1, RankMove DEF mainVars, ResultsAreWhole
  <2>2. ASSUME Join PROVE ResultsAreWhole'
    <3>1. /\ main = "joining"
          /\ \A r \in Ranks : r < spawned => pc[r] \in {"returned", "panicked"}
          /\ Verdict(outcome')
          /\ UNCHANGED <<pc, abort>>
      BY <2>2 DEF Join
    <3>2. outcome'.how = "results" => spawned = N /\ Panicked = {}
      BY <3>1 DEF Verdict
    <3>3. outcome'.how = "results" => \A r \in Ranks : pc[r] = "returned"
      BY <3>1, <3>2, RankFacts DEF Panicked
    <3>4. outcome'.how = "results" => abort = Nobody
      BY <3>2, <3>3, RankFacts DEF Control, MainInv
    <3>. QED  BY <3>1, <3>3, <3>4 DEF ResultsAreWhole
  <2>3. ASSUME Spawn \/ SpawnFails \/ MainSetsAbort \/ MainNotifies PROVE ResultsAreWhole'
    BY <2>0, <2>3 DEF Spawn, SpawnFails, MainSetsAbort, MainNotifies, ResultsAreWhole
  <2>4. CASE UNCHANGED vars
    BY <2>4 DEF vars, mainVars, ResultsAreWhole
  <2>. QED  BY <2>1, <2>2, <2>3, <2>4 DEF Next, MainStep
<1>. QED  BY <1>1, <1>2, ControlHolds, PTL DEF Spec

(* A wait is for one message at a time.                                      *)
LEMMA OneWait ==
    ASSUME TypeOK, NEW r \in Ranks, HasCall(r), NEW p \in Ranks, NEW q \in Ranks,
           WaitsFor(r, p), WaitsFor(r, q)
    PROVE  p = q
<1>. DEFINE c == CallOf(r)
<1>1. CASE IsCollective(c)
  BY <1>1, RankFacts DEF WaitsFor
<1>2. CASE ~IsCollective(c)
  <2>1. PICK i \in 1..Len(c.recvs) :
          c.recvs[i].peer = p /\ \A j \in 1..(i - 1) : c.recvs[j].peer \notin unread[r]
    BY <1>2 DEF WaitsFor
  <2>2. PICK k \in 1..Len(c.recvs) :
          c.recvs[k].peer = q /\ \A j \in 1..(k - 1) : c.recvs[j].peer \notin unread[r]
    BY <1>2 DEF WaitsFor
  <2>3. p \in unread[r] /\ q \in unread[r]
    BY DEF WaitsFor
  <2>4. c \in Call
    BY CallType
  <2>5. i \in Nat /\ k \in Nat /\ i >= 1 /\ k >= 1
    BY <2>1, <2>2
  <2>. HIDE DEF c
  <2>6. ~(i < k) /\ ~(k < i)
    BY <2>1, <2>2, <2>3, <2>5
  <2>. QED  BY <2>1, <2>2, <2>5, <2>6
<1>. QED  BY <1>1, <1>2

(* A rank that has nothing to wake up for.                                   *)
Blocked(r) == \A p \in Ranks : WaitsFor(r, p) => ~HasMessage(r, p)

(* A sleeper's wait is not ended by a step that gives it no message.         *)
LEMMA StillBlocked ==
    ASSUME NEW q \in Ranks, Blocked(q),
           CallOf(q)' = CallOf(q), unread'[q] = unread[q], Round(q)' = Round(q),
           coll' \subseteq coll,
           ~IsCollective(CallOf(q)) => \A p \in Ranks :
             p2p[<<p, q, CallOf(q).tag>>] = <<>> => p2p'[<<p, q, CallOf(q).tag>>] = <<>>
    PROVE  Blocked(q)'
<1>. SUFFICES ASSUME NEW p \in Ranks, WaitsFor(q, p)' PROVE ~HasMessage(q, p)'
  BY DEF Blocked
<1>1. IsCollective(CallOf(q))' <=> IsCollective(CallOf(q))
  BY DEF IsCollective
<1>2. WaitsFor(q, p)
  BY <1>1 DEF WaitsFor
<1>3. ~HasMessage(q, p)
  BY <1>2 DEF Blocked
<1>. QED  BY <1>1, <1>3 DEF HasMessage, Matches


(* Every step keeps NoLostWakeup.                                            *)
LEMMA WakeupStep ==
    ASSUME Control, NoLostWakeup, [Next]_vars
    PROVE  NoLostWakeup'
<1>. USE RankFacts
<1>0. /\ pc \in [Ranks -> {"unborn", "idle", "reading", "waiting", "failed",
                           "returned", "panicking", "notifying", "panicked"}]
      /\ unread \in [Ranks -> SUBSET Ranks]
      /\ calls \in [Ranks -> Nat]
      /\ asleep \in SUBSET Ranks
      /\ \A q \in asleep : pc[q] = "waiting" /\ HasCall(q) /\ Blocked(q)
      /\ \A q \in asleep : abort # Nobody =>
            main = "notifying" \/ \E s \in Ranks : pc[s] = "notifying"
  BY DEF Control, TypeOK, CallInv, InCall, NoLostWakeup, Blocked
<1>1. ASSUME NEW r \in Ranks, EnterCollective(r) PROVE NoLostWakeup'
  <2>1. N = 1 => asleep = {}
    <3>1. N = 1 => \A q \in Ranks : q = r
      OBVIOUS
    <3>. QED  BY <1>0, <1>1, <3>1 DEF EnterCollective, CanEnter
  <2>2. asleep' = {}
    BY <1>1, <2>1, WorldAssumption DEF EnterCollective, Notified
  <2>. QED  BY <2>2 DEF NoLostWakeup
<1>2. ASSUME NEW r \in Ranks, EnterExchange(r) PROVE NoLostWakeup'
  <2>1. CASE CallOf(r).sends # <<>>
    BY <1>2, <2>1 DEF EnterExchange, Notified, NoLostWakeup
  <2>2. CASE CallOf(r).sends = <<>>
    <3>1. \A e : Posted(r, CallOf(r), e) = <<>>
      BY <2>2 DEF Posted
    <3>2. p2p' = p2p
      <4>1. p2p \in [Envelope -> Seq(Bytes)]
        BY DEF Control, TypeOK
      <4>2. \A e \in Envelope : p2p[e] \o <<>> = p2p[e]
        BY <4>1, ConcatEmptySeq
      <4>3. p2p' = [e \in Envelope |-> p2p[e] \o Posted(r, CallOf(r), e)]
        BY <1>2 DEF EnterExchange
      <4>4. p2p' = [e \in Envelope |-> p2p[e]]
        BY <3>1, <4>2, <4>3, Zenon
      <4>. QED  BY <4>1, <4>4
    <3>3. /\ UNCHANGED <<program, calls, coll, entered, abort, asleep, main>>
          /\ pc[r] = "idle" /\ abort = Nobody
          /\ \A q \in Ranks : q # r => unread'[q] = unread[q]
      BY <1>0, <1>2, <2>2 DEF EnterExchange, CanEnter, Spent, mainVars
    <3>4. \A q \in asleep : Blocked(q)'
      BY <1>0, <3>2, <3>3, StillBlocked, SameCall DEF Round
    <3>. QED  BY <3>3, <3>4 DEF NoLostWakeup, Blocked
  <2>. QED  BY <2>1, <2>2
<1>3. ASSUME NEW r \in Ranks, EnterSpent(r) \/ Refuse(r) PROVE NoLostWakeup'
  <2>1. /\ UNCHANGED <<program, calls, unread, coll, p2p, abort, asleep, main>>
        /\ pc[r] = "idle" /\ pc' = [pc EXCEPT ![r] = "failed"]
        /\ \A q \in Ranks : q # r => entered'[q] = entered[q]
    BY <1>3 DEF EnterSpent, Refuse, CanEnter, mainVars, callVars, mailVars, waitVars, Control, TypeOK
  <2>2. \A q \in asleep : Blocked(q)'
    BY <1>0, <2>1, StillBlocked, SameCall DEF Round
  <2>. QED  BY <1>0, <2>1, <2>2 DEF NoLostWakeup, Blocked
<1>4. ASSUME NEW r \in Ranks, NEW p \in Ranks,
             SeeAbort(r) \/ TakeCollective(r, p) \/ TakeMessage(r, p) \/ TimeOut(r, p)
      PROVE  NoLostWakeup'
  <2>1. /\ UNCHANGED <<program, calls, entered, abort, asleep, main>>
        /\ pc[r] = "reading"
        /\ pc' = pc \/ pc' = [pc EXCEPT ![r] = "failed"]
        /\ \A q \in Ranks : q # r => unread'[q] = unread[q]
        /\ coll' \subseteq coll
    BY <1>0, <1>4 DEF SeeAbort, TakeCollective, TakeMessage, TimeOut, Reading, Fail, mainVars, mailVars
  <2>2. p2p' = p2p \/ p2p' = [p2p EXCEPT ![<<p, r, CallOf(r).tag>>] = Tail(@)]
    BY <1>4 DEF SeeAbort, TakeCollective, TakeMessage, TimeOut, mailVars
  <2>3. ASSUME NEW q \in asleep, ~IsCollective(CallOf(q)), NEW s \in Ranks
        PROVE  p2p'[<<s, q, CallOf(q).tag>>] = p2p[<<s, q, CallOf(q).tag>>]
    <3>1. q \in Ranks /\ q # r /\ CallOf(q) \in Call /\ ~BadArguments(CallOf(q))
      BY <1>0, <2>1, CallType DEF Control, CallInv, InCall
    <3>2. <<s, q, CallOf(q).tag>> \in Envelope
      BY <2>3, <3>1, ExchangeType DEF Envelope
    <3>3. p2p \in [Envelope -> Seq(Bytes)]
      BY DEF Control, TypeOK
    <3>. QED  BY <2>2, <3>1, <3>2, <3>3
  <2>4. \A q \in asleep : q # r /\ Blocked(q)'
    BY <1>0, <2>1, <2>3, StillBlocked, SameCall DEF Round
  <2>. QED  BY <1>0, <2>1, <2>4 DEF NoLostWakeup, Blocked
<1>5. ASSUME NEW r \in Ranks, NEW p \in Ranks, Sleep(r, p) PROVE NoLostWakeup'
  <2>1. /\ UNCHANGED <<program, calls, unread, coll, p2p, entered, abort, main>>
        /\ abort = Nobody
        /\ asleep' = asleep \cup {r}
        /\ HasCall(r) /\ WaitsFor(r, p) /\ ~HasMessage(r, p)
    BY <1>5 DEF Sleep, Reading, Control, CallInv, InCall, mainVars, callVars, mailVars
  <2>2. Blocked(r)
    BY <2>1, OneWait DEF Blocked, Control
  <2>3. \A q \in asleep' : Blocked(q)'
    BY <1>0, <2>1, <2>2, StillBlocked, SameCall DEF Round
  <2>. QED  BY <2>1, <2>3 DEF NoLostWakeup, Blocked
<1>6. ASSUME NEW r \in Ranks, Reacquire(r) \/ Return(r) \/ Mishap(r) PROVE NoLostWakeup'
  <2>1. /\ UNCHANGED <<program, calls, unread, coll, p2p, entered, abort, main>>
        /\ asleep' \subseteq asleep
        /\ \A q \in Ranks : pc[q] = "notifying" => pc'[q] = "notifying"
    BY <1>0, <1>6 DEF Reacquire, Return, Mishap, Panic, Expire, SpuriousWake, mainVars, callVars,
                      waitVars, mailVars
  <2>2. \A q \in asleep' : Blocked(q)'
    BY <1>0, <2>1, StillBlocked, SameCall DEF Round
  <2>. QED  BY <1>0, <2>1, <2>2 DEF NoLostWakeup, Blocked
<1>7. ASSUME NEW r \in Ranks, Complete(r) PROVE NoLostWakeup'
  <2>1. /\ UNCHANGED <<program, unread, coll, p2p, entered, abort, asleep, main>>
        /\ pc[r] = "reading"
        /\ pc' = [pc EXCEPT ![r] = "idle"]
        /\ \A q \in Ranks : q # r => calls'[q] = calls[q]
    BY <1>0, <1>7 DEF Complete, mainVars, waitVars, mailVars
  <2>2. \A q \in asleep : q # r /\ CallOf(q)' = CallOf(q)
    BY <1>0, <2>1 DEF CallOf
  <2>3. \A q \in asleep : Blocked(q)'
    BY <1>0, <2>1, <2>2, StillBlocked DEF Round
  <2>. QED  BY <1>0, <2>1, <2>3 DEF NoLostWakeup, Blocked
<1>8. ASSUME NEW r \in Ranks, AbortStep(r) PROVE NoLostWakeup'
  <2>1. CASE NotifyAbort(r)
    BY <2>1 DEF NotifyAbort, Notified, NoLostWakeup
  <2>2. CASE SetAbort(r)
    <3>1. /\ UNCHANGED <<program, calls, unread, coll, p2p, entered, asleep>>
          /\ pc' = [pc EXCEPT ![r] = "notifying"]
      BY <2>2 DEF SetAbort, mainVars, callVars, waitVars, mailVars
    <3>2. \A q \in asleep : Blocked(q)'
      BY <1>0, <3>1, StillBlocked, SameCall DEF Round
    <3>. QED  BY <1>0, <3>1, <3>2 DEF NoLostWakeup, Blocked
  <2>. QED  BY <1>8, <2>1, <2>2 DEF AbortStep
<1>9. ASSUME MainStep \/ SpawnFails PROVE NoLostWakeup'
  <2>1. CASE MainNotifies
    BY <2>1 DEF MainNotifies, Notified, NoLostWakeup
  <2>2. CASE ~MainNotifies
    <3>1. UNCHANGED <<program, calls, unread, coll, p2p, entered, asleep>>
      BY <1>9, <2>2 DEF MainStep, Spawn, SpawnFails, MainSetsAbort, Join, mainVars, callVars, waitVars,
                  mailVars
    <3>2. \A q \in asleep : Blocked(q)'
      BY <1>0, <3>1, StillBlocked, SameCall DEF Round
    <3>3. \/ MainSetsAbort
          \/ /\ UNCHANGED abort
             /\ main # "notifying"
             /\ \A q \in Ranks : pc[q] = "notifying" => pc'[q] = "notifying"
      <4>1. CASE Spawn
        BY <1>0, <4>1 DEF Spawn, Control, MainInv, TypeOK
      <4>2. CASE SpawnFails \/ Join
        BY <4>2 DEF SpawnFails, Join
      <4>. QED  BY <1>9, <2>2, <4>1, <4>2 DEF MainStep
    <3>4. \A q \in asleep : abort' # Nobody =>
            main' = "notifying" \/ \E s \in Ranks : pc'[s] = "notifying"
      BY <1>0, <3>3 DEF MainSetsAbort
    <3>. QED  BY <3>1, <3>2, <3>4 DEF NoLostWakeup, Blocked
  <2>. QED  BY <2>1, <2>2
<1>10. ASSUME UNCHANGED vars PROVE NoLostWakeup'
  <2>1. UNCHANGED <<program, calls, unread, coll, p2p, entered, asleep, abort, main, pc>>
    BY <1>10 DEF vars, mainVars, callVars, waitVars, mailVars
  <2>2. \A q \in asleep : Blocked(q)'
    BY <1>0, <2>1, StillBlocked, SameCall DEF Round
  <2>. QED  BY <1>0, <2>1, <2>2 DEF NoLostWakeup, Blocked
<1>. QED
  BY <1>1, <1>2, <1>3, <1>4, <1>5, <1>6, <1>7, <1>8, <1>9, <1>10
     DEF Next, RankStep, EnterCall, WaitStep

(* NoLostWakeup, for every world.                                            *)
THEOREM WakeupHolds == Spec => []NoLostWakeup
<1>1. Init => NoLostWakeup
  BY DEF Init, NoLostWakeup
<1>. QED  BY <1>1, WakeupStep, ControlHolds, PTL DEF Spec

-----------------------------------------------------------------------------
(* Order.                                                                    *)

(* A rank that may still take what was sent to it.                           *)
Going(r) == pc[r] \in {"unborn", "idle", "reading", "waiting"}

(* What the exchange in progress at the receiver has taken from an envelope. *)
Held(e) ==
    IF InCall(e[2]) /\ ~IsCollective(CallOf(e[2])) /\ e[1] \notin unread[e[2]]
      THEN Filled(e[2], CallOf(e[2]), e) ELSE <<>>

(* What was sent in an envelope is what was delivered from it, what the call *)
(* of the receiver holds and what is in the mailbox, in this order; of a     *)
(* rank that has failed, what was delivered comes first.                     *)
Flow(e) == sent[e] = (delivered[e] \o Held(e)) \o p2p[e]
Ahead(e) == \E s \in Seq(Bytes) : sent[e] = delivered[e] \o s
FlowOK(e) == Ahead(e) /\ (Going(e[2]) => Flow(e))
FlowInv == \A e \in Envelope : FlowOK(e)

LEMMA HeldType ==
    ASSUME TypeOK, NEW e \in Envelope
    PROVE  Held(e) \in Seq(Bytes)
<1>1. e[2] \in Ranks
  BY DEF Envelope
<1>2. \A c : Filled(e[2], c, e) \in Seq(Bytes)
  BY <1>1, FilledType
<1>. QED  BY <1>2, EmptySeq DEF Held

(* The four things a step can do to an envelope: post to it, lose its        *)
(* receiver, take its oldest message, or deliver what was taken.             *)
Posts(e) ==
    /\ \E x \in Seq(Bytes) : sent'[e] = sent[e] \o x /\ p2p'[e] = p2p[e] \o x
    /\ delivered'[e] = delivered[e]
    /\ Going(e[2])' => Going(e[2]) /\ Held(e)' = Held(e)
Loses(e) == sent'[e] = sent[e] /\ delivered'[e] = delivered[e] /\ ~Going(e[2])'
Takes(e) ==
    /\ sent'[e] = sent[e] /\ delivered'[e] = delivered[e]
    /\ Going(e[2]) /\ Held(e) = <<>>
    /\ p2p[e] # <<>> /\ p2p'[e] = Tail(p2p[e]) /\ Held(e)' = <<Head(p2p[e])>>
Delivers(e) ==
    /\ sent'[e] = sent[e] /\ p2p'[e] = p2p[e]
    /\ Going(e[2]) /\ delivered'[e] = delivered[e] \o Held(e) /\ Held(e)' = <<>>

LEMMA FrontFirst ==
    ASSUME NEW S, NEW s \in Seq(S), s # <<>>
    PROVE  s = <<Head(s)>> \o Tail(s)
<1>1. /\ Head(s) \in S /\ Tail(s) \in Seq(S) /\ Len(Tail(s)) = Len(s) - 1
      /\ \A i \in 1..Len(Tail(s)) : Tail(s)[i] = s[i + 1]
  BY HeadTailProperties
<1>2. <<Head(s)>> \in Seq(S) /\ Len(<<Head(s)>>) = 1 /\ <<Head(s)>>[1] = s[1]
  BY <1>1
<1>. DEFINE t == <<Head(s)>> \o Tail(s)
<1>3. /\ t \in Seq(S) /\ Len(t) = 1 + Len(Tail(s))
      /\ \A i \in 1..(1 + Len(Tail(s))) :
            t[i] = IF i <= 1 THEN <<Head(s)>>[i] ELSE Tail(s)[i - 1]
  BY <1>1, <1>2, ConcatProperties
<1>4. Len(s) \in Nat \ {0}
  BY EmptySeq
<1>. HIDE DEF t
<1>5. Len(t) = Len(s)
  BY <1>1, <1>3, <1>4
<1>6. ASSUME NEW i \in 1..Len(s)  PROVE s[i] = t[i]
  <2>1. CASE i = 1
    BY <1>2, <1>3, <1>4, <1>5, <2>1
  <2>2. CASE i # 1
    <3>1. i - 1 \in 1..Len(Tail(s)) /\ (i - 1) + 1 = i /\ i \in 1..(1 + Len(Tail(s))) /\ ~(i <= 1)
      BY <1>1, <1>4, <2>2
    <3>. QED  BY <1>1, <1>3, <3>1
  <2>. QED  BY <2>1, <2>2
<1>7. s = t
  BY <1>3, <1>5, <1>6, SeqEqual
<1>. QED  BY <1>7 DEF t

LEMMA Regroup ==
    ASSUME NEW S, NEW x \in Seq(S), NEW y \in Seq(S), NEW z \in Seq(S)
    PROVE  x \o y \in Seq(S) /\ (x \o y) \o z = x \o (y \o z)
BY ConcatProperties, ConcatAssociative

LEMMA FlowGoesOn ==
    ASSUME TypeOK, TypeOK', NEW e \in Envelope, FlowOK(e),
           Posts(e) \/ Loses(e) \/ Takes(e) \/ Delivers(e)
    PROVE  FlowOK(e)'
<1>. DEFINE a == sent[e]
            d == delivered[e]
            h == Held(e)
            m == p2p[e]
<1>1. a \in Seq(Bytes) /\ d \in Seq(Bytes) /\ h \in Seq(Bytes) /\ m \in Seq(Bytes)
  BY HeldType DEF TypeOK
<1>2. d \o h \in Seq(Bytes)
  BY <1>1, Regroup
<1>3. Going(e[2]) => a = (d \o h) \o m
  BY DEF FlowOK, Flow
<1>4. PICK s \in Seq(Bytes) : a = d \o s
  BY DEF FlowOK, Ahead
<1>5. CASE Posts(e)
  <2>1. PICK x \in Seq(Bytes) : sent'[e] = a \o x /\ p2p'[e] = m \o x
    BY <1>5 DEF Posts
  <2>2. /\ delivered'[e] = d
        /\ Going(e[2])' => Going(e[2]) /\ Held(e)' = h
    BY <1>5 DEF Posts
  <2>. HIDE DEF a, d, h, m
  <2>3. a \o x = d \o (s \o x) /\ s \o x \in Seq(Bytes)
    <3>1. (d \o s) \o x = d \o (s \o x) /\ s \o x \in Seq(Bytes)
      BY <1>1, Regroup
    <3>. QED  BY <1>4, <3>1, Zenon
  <2>4. ((d \o h) \o m) \o x = (d \o h) \o (m \o x)
    <3>. DEFINE w == d \o h
    <3>1. w \in Seq(Bytes) /\ m \in Seq(Bytes) /\ x \in Seq(Bytes)
      BY <1>1, <1>2
    <3>. HIDE DEF w
    <3>2. (w \o m) \o x = w \o (m \o x)
      BY <3>1, Regroup
    <3>. QED  BY <3>2 DEF w
  <2>5. Going(e[2])' => a \o x = (d \o h) \o (m \o x)
    BY <1>3, <2>2, <2>4, Zenon
  <2>6. Ahead(e)'
    BY <2>1, <2>2, <2>3, Zenon DEF Ahead
  <2>7. Going(e[2])' => Flow(e)'
    BY <2>1, <2>2, <2>5, Zenon DEF Flow
  <2>. QED  BY <2>6, <2>7 DEF FlowOK
<1>6. CASE Loses(e)
  BY <1>6 DEF Loses, FlowOK, Ahead
<1>7. CASE Takes(e)
  <2>1. Ahead(e)'
    BY <1>7 DEF Takes, FlowOK, Ahead
  <2>2. /\ sent'[e] = a /\ delivered'[e] = d /\ h = <<>> /\ m # <<>>
        /\ p2p'[e] = Tail(m) /\ Held(e)' = <<Head(m)>> /\ Going(e[2])
    BY <1>7 DEF Takes
  <2>. HIDE DEF a, d, h, m
  <2>3. m = <<Head(m)>> \o Tail(m) /\ Head(m) \in Bytes /\ Tail(m) \in Seq(Bytes)
    BY <1>1, <2>2, FrontFirst, HeadTailProperties
  <2>4. <<Head(m)>> \in Seq(Bytes)
    BY <2>3
  <2>5. d \o h = d
    BY <1>1, <2>2, ConcatEmptySeq
  <2>6. (d \o <<Head(m)>>) \o Tail(m) = d \o (<<Head(m)>> \o Tail(m))
    BY <1>1, <2>3, <2>4, Regroup
  <2>7. a = (d \o <<Head(m)>>) \o Tail(m)
    BY <1>3, <2>2, <2>3, <2>5, <2>6, Zenon
  <2>8. Flow(e)'
    BY <2>2, <2>7, Zenon DEF Flow
  <2>. QED  BY <2>1, <2>8 DEF FlowOK
<1>8. CASE Delivers(e)
  <2>1. /\ sent'[e] = a /\ delivered'[e] = d \o h /\ p2p'[e] = m
        /\ Held(e)' = <<>> /\ Going(e[2])
    BY <1>8 DEF Delivers
  <2>. HIDE DEF a, d, h, m
  <2>2. a = (d \o h) \o m /\ d \o h \in Seq(Bytes)
    BY <1>1, <1>2, <1>3, <2>1, Zenon
  <2>3. (d \o h) \o <<>> = d \o h
    BY <2>2, ConcatEmptySeq
  <2>4. Flow(e)'
    BY <2>1, <2>2, <2>3, Zenon DEF Flow
  <2>5. Ahead(e)'
    BY <1>1, <2>1, <2>2, Zenon DEF Ahead
  <2>. QED  BY <2>4, <2>5 DEF FlowOK
<1>. QED  BY <1>5, <1>6, <1>7, <1>8

(* A receiver that stays where it was keeps what it holds.                   *)
LEMMA HeldKept ==
    ASSUME NEW e, UNCHANGED <<program, calls[e[2]], unread[e[2]], got[e[2]]>>,
           InCall(e[2])' <=> InCall(e[2])
    PROVE  Held(e)' = Held(e)
<1>1. CallOf(e[2])' = CallOf(e[2])
  BY DEF CallOf
<1>. QED  BY <1>1 DEF Held, Filled, IsCollective

(* A step that leaves the envelopes alone, and every receiver where it was   *)
(* or out of the game.                                                       *)
LEMMA QuietStep ==
    ASSUME TypeOK, NEW e \in Envelope, UNCHANGED <<sent, p2p, delivered>>,
           Going(e[2])' => Going(e[2]) /\ Held(e)' = Held(e)
    PROVE  Posts(e)
<1>1. sent[e] \in Seq(Bytes) /\ p2p[e] \in Seq(Bytes)
  BY DEF TypeOK
<1>2. <<>> \in Seq(Bytes) /\ sent[e] \o <<>> = sent[e] /\ p2p[e] \o <<>> = p2p[e]
  BY <1>1, EmptySeq, ConcatEmptySeq
<1>3. sent'[e] = sent[e] \o <<>> /\ p2p'[e] = p2p[e] \o <<>>
  BY <1>2
<1>. QED  BY <1>2, <1>3 DEF Posts

LEMMA FlowStep ==
    ASSUME Control, Control', [Next]_vars, NEW e \in Envelope
    PROVE  Posts(e) \/ Loses(e) \/ Takes(e) \/ Delivers(e)
<1>. USE RankFacts
<1>0. /\ pc \in [Ranks -> {"unborn", "idle", "reading", "waiting", "failed",
                           "returned", "panicking", "notifying", "panicked"}]
      /\ unread \in [Ranks -> SUBSET Ranks] /\ got \in [Ranks -> [Ranks -> Bytes]]
      /\ calls \in [Ranks -> Nat]
      /\ p2p \in [Envelope -> Seq(Bytes)] /\ sent \in [Envelope -> Seq(Bytes)]
      /\ delivered \in [Envelope -> Seq(Bytes)]
      /\ TypeOK
  BY DEF Control, TypeOK
<1>. DEFINE q == e[2]
<1>00. q \in Ranks /\ e[1] \in Ranks /\ e = <<e[1], q, e[3]>>
  BY DEF Envelope
<1>1. ASSUME NEW r \in Ranks, EnterCollective(r) PROVE Posts(e)
  <2>1. /\ UNCHANGED <<sent, p2p, delivered, program, calls>>
        /\ pc[r] = "idle" /\ pc' = [pc EXCEPT ![r] = "reading"]
        /\ IsCollective(CallOf(r))
        /\ \A x \in Ranks : x # r => unread'[x] = unread[x] /\ got'[x] = got[x]
    BY <1>0, <1>1 DEF EnterCollective, CanEnter, mainVars
  <2>2. CASE q = r
    <3>1. Held(e) = <<>> /\ Held(e)' = <<>>
      BY <2>1, <2>2, SameCall DEF Held, InCall
    <3>. QED  BY <1>0, <2>1, <2>2, <3>1, QuietStep DEF Going
  <2>3. CASE q # r
    <3>1. Held(e)' = Held(e)
      BY <1>0, <1>00, <2>1, <2>3, HeldKept DEF InCall
    <3>. QED  BY <1>0, <1>00, <2>1, <2>3, <3>1, QuietStep DEF Going
  <2>. QED  BY <2>2, <2>3
<1>2. ASSUME NEW r \in Ranks, EnterExchange(r) PROVE Posts(e)
  <2>0. PICK c : c = CallOf(r)
    OBVIOUS
  <2>. DEFINE x == Posted(r, c, e)
  <2>. HIDE DEF x
  <2>5. sent'[e] = sent[e] \o x /\ p2p'[e] = p2p[e] \o x
    BY <1>2, <2>0, Zenon DEF EnterExchange, x
  <2>1. /\ UNCHANGED <<delivered, program, calls>>
        /\ pc[r] = "idle" /\ pc' = [pc EXCEPT ![r] = "reading"]
        /\ HasCall(r) /\ ~IsCollective(c) /\ ~BadArguments(c)
        /\ \A s \in Ranks : s # r => unread'[s] = unread[s] /\ got'[s] = got[s]
        /\ unread'[r] = {c.recvs[i].peer : i \in 1..Len(c.recvs)}
    BY <1>0, <1>2, <2>0 DEF EnterExchange, CanEnter, mainVars
  <2>2. x \in Seq(Bytes)
    BY <1>0, <2>0, <2>1, CallType, PostedType DEF x
  <2>3. CASE q = r
    <3>1. Held(e) = <<>>
      BY <2>1, <2>3 DEF Held, InCall
    <3>2. CallOf(r)' = c
      BY <2>0, <2>1, SameCall
    <3>3. ASSUME e[1] \notin unread'[r]  PROVE Filled(r, c, e)' = <<>>
      <4>1. \A i \in 1..Len(c.recvs) : c.recvs[i].peer # e[1]
        BY <2>1, <3>3
      <4>2. \A i \in 1..Len(c.recvs) : <<c.recvs[i].peer, r, c.tag>> # e
        BY <4>1
      <4>. QED  BY <4>2 DEF Filled
    <3>4. Held(e)' = <<>>
      BY <2>3, <3>2, <3>3 DEF Held
    <3>. QED  BY <2>1, <2>2, <2>3, <2>5, <3>1, <3>4 DEF Posts, Going
  <2>4. CASE q # r
    <3>1. Held(e)' = Held(e)
      BY <1>0, <1>00, <2>1, <2>4, HeldKept DEF InCall
    <3>. QED  BY <1>0, <1>00, <2>1, <2>2, <2>4, <2>5, <3>1 DEF Posts, Going
  <2>. QED  BY <2>3, <2>4
<1>3. ASSUME NEW r \in Ranks, EnterSpent(r) \/ Refuse(r) \/ Return(r) \/ Panic(r) \/ AbortStep(r)
      PROVE  Posts(e)
  <2>1. /\ UNCHANGED <<sent, p2p, delivered, program, calls, unread, got>>
        /\ ~InCall(r) /\ \E s \in {"failed", "returned", "panicking", "notifying", "panicked"} :
              pc' = [pc EXCEPT ![r] = s]
    BY <1>3 DEF EnterSpent, Refuse, Return, Panic, AbortStep, SetAbort, NotifyAbort, CanEnter, InCall,
                mainVars, callVars, mailVars
  <2>2. CASE q = r
    BY <1>0, <2>1, <2>2, QuietStep DEF Going
  <2>3. CASE q # r
    <3>1. Held(e)' = Held(e)
      BY <1>0, <1>00, <2>1, <2>3, HeldKept DEF InCall
    <3>. QED  BY <1>0, <1>00, <2>1, <2>3, <3>1, QuietStep DEF Going
  <2>. QED  BY <2>2, <2>3
<1>4. ASSUME NEW r \in Ranks, NEW p \in Ranks,
             SeeAbort(r) \/ TimeOut(r, p) \/ TakeCollective(r, p)
      PROVE  Posts(e)
  <2>1. /\ UNCHANGED <<sent, p2p, delivered, program, calls>>
        /\ pc[r] = "reading"
        /\ pc' = [pc EXCEPT ![r] = "failed"] \/ (pc' = pc /\ IsCollective(CallOf(r)))
        /\ \A s \in Ranks : s # r => unread'[s] = unread[s] /\ got'[s] = got[s]
    BY <1>0, <1>4 DEF SeeAbort, TimeOut, TakeCollective, Reading, Fail, mainVars, mailVars
  <2>2. CASE q = r
    <3>1. CASE pc' = [pc EXCEPT ![r] = "failed"]
      BY <1>0, <2>1, <2>2, <3>1, QuietStep DEF Going
    <3>2. CASE pc' = pc /\ IsCollective(CallOf(r))
      <4>1. Held(e) = <<>> /\ Held(e)' = <<>>
        BY <2>1, <2>2, <3>2, SameCall DEF Held
      <4>. QED  BY <1>0, <2>1, <2>2, <3>2, <4>1, QuietStep DEF Going
    <3>. QED  BY <2>1, <3>1, <3>2
  <2>3. CASE q # r
    <3>1. Held(e)' = Held(e)
      BY <1>0, <1>00, <2>1, <2>3, HeldKept DEF InCall
    <3>. QED  BY <1>0, <1>00, <2>1, <2>3, <3>1, QuietStep DEF Going
  <2>. QED  BY <2>2, <2>3
<1>5. ASSUME NEW r \in Ranks, NEW p \in Ranks, TakeMessage(r, p)
      PROVE  Posts(e) \/ Loses(e) \/ Takes(e)
  <2>0. PICK c, b : c = CallOf(r) /\ b = <<p, r, c.tag>>
    OBVIOUS
  <2>1. /\ UNCHANGED <<sent, delivered, program, calls>>
        /\ pc[r] = "reading" /\ ~IsCollective(c) /\ WaitsFor(r, p)
        /\ p2p[b] # <<>> /\ p2p' = [p2p EXCEPT ![b] = Tail(@)]
        /\ \/ /\ unread' = [unread EXCEPT ![r] = @ \ {p}]
              /\ got' = [got EXCEPT ![r][p] = Head(p2p[b])]
              /\ pc' = pc
           \/ /\ pc' = [pc EXCEPT ![r] = "failed"]
              /\ unread' = [unread EXCEPT ![r] = {}]
              /\ got' = got
    BY <1>5, <2>0 DEF TakeMessage, Reading, Fail, OldestFirst, mainVars
  <2>2. p \in unread[r] /\ \E i \in 1..Len(c.recvs) : c.recvs[i].peer = p
    BY <2>0, <2>1 DEF WaitsFor
  <2>3. CallOf(r)' = c
    BY <2>0, <2>1, SameCall
  <2>4. CASE q # r
    <3>1. b # e /\ p2p'[e] = p2p[e]
      BY <1>0, <1>00, <2>0, <2>1, <2>4
    <3>2. Held(e)' = Held(e)
      BY <1>0, <1>00, <2>1, <2>4, HeldKept DEF InCall
    <3>3. Going(q)' => Going(q)
      BY <1>0, <1>00, <2>1, <2>4 DEF Going
    <3>4. p2p[e] \o <<>> = p2p[e] /\ sent[e] \o <<>> = sent[e] /\ <<>> \in Seq(Bytes)
      BY <1>0, ConcatEmptySeq, EmptySeq
    <3>. QED  BY <2>1, <3>1, <3>2, <3>3, <3>4 DEF Posts
  <2>5. CASE q = r /\ pc' = [pc EXCEPT ![r] = "failed"]
    BY <1>0, <2>1, <2>5 DEF Loses, Going
  <2>6. CASE q = r /\ pc' = pc
    <3>1. /\ unread' = [unread EXCEPT ![r] = @ \ {p}]
          /\ got' = [got EXCEPT ![r][p] = Head(p2p[b])]
      BY <1>0, <2>1, <2>6
    <3>2. Going(q) /\ InCall(q) /\ InCall(q)'
      BY <2>1, <2>6 DEF Going, InCall
    <3>3. CASE e = b
      <4>1. e[1] = p /\ e \in Envelope
        BY <2>0, <3>3
      <4>2. Held(e) = <<>>
        BY <2>2, <2>6, <4>1 DEF Held
      <4>3. \E i \in 1..Len(c.recvs) : <<c.recvs[i].peer, r, c.tag>> = e
        BY <2>0, <2>2, <3>3
      <4>4. p \notin unread'[r] /\ got'[r][p] = Head(p2p[b])
        BY <1>0, <3>1
      <4>5. Filled(r, c, e)' = <<Head(p2p[e])>>
        BY <3>3, <4>1, <4>3, <4>4 DEF Filled
      <4>6. Held(e)' = <<Head(p2p[e])>>
        BY <2>1, <2>3, <2>6, <3>2, <4>1, <4>4, <4>5 DEF Held, IsCollective
      <4>7. p2p'[e] = Tail(p2p[e]) /\ p2p[e] # <<>>
        BY <1>0, <2>1, <3>3
      <4>. QED  BY <2>1, <3>2, <4>2, <4>6, <4>7 DEF Takes
    <3>4. CASE e # b
      <4>1. p2p'[e] = p2p[e]
        BY <1>0, <2>1, <3>4
      <4>2. ASSUME e[1] = p  PROVE Held(e)' = Held(e)
        <5>1. c.tag # e[3]
          BY <1>00, <2>0, <2>6, <3>4, <4>2
        <5>2. \A i \in 1..Len(c.recvs) : <<c.recvs[i].peer, r, c.tag>> # e
          BY <5>1
        <5>3. Filled(r, c, e) = <<>> /\ Filled(r, c, e)' = <<>>
          BY <5>2 DEF Filled
        <5>. QED  BY <2>0, <2>3, <2>6, <5>3 DEF Held, IsCollective
      <4>3. ASSUME e[1] # p  PROVE Held(e)' = Held(e)
        <5>1. /\ e[1] \in unread'[r] <=> e[1] \in unread[r]
              /\ got'[r][e[1]] = got[r][e[1]]
          BY <1>0, <1>00, <3>1, <4>3
        <5>2. Filled(r, c, e)' = Filled(r, c, e)
          BY <5>1 DEF Filled
        <5>. QED  BY <2>0, <2>3, <2>6, <3>2, <5>1, <5>2 DEF Held, IsCollective
      <4>4. p2p[e] \o <<>> = p2p[e] /\ sent[e] \o <<>> = sent[e] /\ <<>> \in Seq(Bytes)
        BY <1>0, ConcatEmptySeq, EmptySeq
      <4>. QED  BY <2>1, <2>6, <3>2, <4>1, <4>2, <4>3, <4>4 DEF Posts
    <3>. QED  BY <3>3, <3>4
  <2>. QED  BY <2>1, <2>4, <2>5, <2>6
<1>6. ASSUME NEW r \in Ranks, Complete(r) PROVE Posts(e) \/ Delivers(e)
  <2>0. PICK c : c = CallOf(r)
    OBVIOUS
  <2>1. /\ UNCHANGED <<sent, p2p, program, unread, got>>
        /\ pc[r] = "reading" /\ pc' = [pc EXCEPT ![r] = "idle"] /\ unread[r] = {}
        /\ \A s \in Ranks : s # r => calls'[s] = calls[s]
        /\ IsCollective(c) => delivered' = delivered
        /\ ~IsCollective(c) => delivered'[e] = delivered[e] \o Filled(r, c, e)
    BY <1>0, <1>6, <2>0 DEF Complete, mainVars, mailVars
  <2>2. CASE q = r
    <3>1. Held(e)' = <<>> /\ Going(q) /\ Going(q)'
      BY <1>0, <1>00, <2>1, <2>2 DEF Held, InCall, Going
    <3>2. CASE IsCollective(c)
      <4>1. Held(e) = <<>>
        BY <2>0, <2>2, <3>2 DEF Held
      <4>. QED  BY <1>0, <2>1, <3>1, <3>2, <4>1, QuietStep
    <3>3. CASE ~IsCollective(c)
      <4>1. Held(e) = Filled(r, c, e)
        BY <2>0, <2>1, <2>2, <3>3 DEF Held, InCall
      <4>. QED  BY <2>1, <3>1, <3>3, <4>1 DEF Delivers
    <3>. QED  BY <3>2, <3>3
  <2>3. CASE q # r
    <3>1. Held(e)' = Held(e)
      BY <1>0, <1>00, <2>1, <2>3, HeldKept DEF InCall
    <3>2. \A i \in 1..Len(c.recvs) : <<c.recvs[i].peer, r, c.tag>> # e
      BY <2>3
    <3>3. Filled(r, c, e) = <<>>
      BY <3>2 DEF Filled
    <3>4. delivered[e] \o <<>> = delivered[e]
      BY <1>0, ConcatEmptySeq
    <3>5. delivered'[e] = delivered[e]
      BY <2>1, <3>3, <3>4
    <3>6. p2p[e] \o <<>> = p2p[e] /\ sent[e] \o <<>> = sent[e] /\ <<>> \in Seq(Bytes)
      BY <1>0, ConcatEmptySeq, EmptySeq
    <3>7. Going(q)' => Going(q)
      BY <1>0, <1>00, <2>1, <2>3 DEF Going
    <3>. QED  BY <2>1, <3>1, <3>5, <3>6, <3>7 DEF Posts
  <2>. QED  BY <2>2, <2>3
<1>7. ASSUME NEW r \in Ranks, NEW p \in Ranks,
             Sleep(r, p) \/ Reacquire(r) \/ Expire(r) \/ SpuriousWake(r)
      PROVE  Posts(e)
  <2>1. /\ UNCHANGED <<sent, p2p, delivered, program, calls, unread, got>>
        /\ \A s \in Ranks : /\ InCall(s)' <=> InCall(s)
                            /\ Going(s)' => Going(s)
    BY <1>0, <1>7 DEF Sleep, Reacquire, Expire, SpuriousWake, Reading, InCall, Going, mainVars,
                      callVars, mailVars
  <2>2. Held(e)' = Held(e)
    BY <1>00, <2>1, HeldKept
  <2>. QED  BY <1>0, <1>00, <2>1, <2>2, QuietStep
<1>8. ASSUME MainStep \/ SpawnFails \/ UNCHANGED vars  PROVE Posts(e)
  <2>1. UNCHANGED <<sent, p2p, delivered, program, calls, unread, got>>
    BY <1>8 DEF MainStep, Spawn, SpawnFails, MainSetsAbort, MainNotifies, Join, vars, mainVars,
                callVars, mailVars
  <2>2. pc' = pc \/ \E s \in Ranks : pc[s] = "unborn" /\ pc' = [pc EXCEPT ![s] = "idle"]
    <3>1. CASE Spawn
      <4>1. spawned \in 0..N /\ spawned < N /\ main = "spawning"
        BY <3>1 DEF Spawn, Control, TypeOK, MainInv
      <4>2. spawned \in Ranks /\ pc[spawned] = "unborn"
        BY <4>1, NextRank DEF Control, MainInv
      <4>. QED  BY <3>1, <4>2 DEF Spawn
    <3>2. CASE ~Spawn
      BY <1>8, <3>2 DEF MainStep, SpawnFails, MainSetsAbort, MainNotifies, Join, vars
    <3>. QED  BY <3>1, <3>2
  <2>3. (InCall(q)' <=> InCall(q)) /\ (Going(q)' => Going(q))
    BY <1>0, <1>00, <2>2 DEF InCall, Going
  <2>4. Held(e)' = Held(e)
    BY <2>1, <2>3, HeldKept
  <2>. QED  BY <1>0, <2>1, <2>3, <2>4, QuietStep
<1>. HIDE DEF q
<1>. QED
  BY <1>1, <1>2, <1>3, <1>4, <1>5, <1>6, <1>7, <1>8
     DEF Next, RankStep, EnterCall, WaitStep, Mishap

(* R3: nothing that was sent in an envelope is overtaken in it, lost from    *)
(* the middle of it, or delivered twice.                                     *)
THEOREM OrderIsKept == Spec => []NoOvertaking
<1>1. Init => FlowInv
  <2>. SUFFICES ASSUME Init, NEW e \in Envelope  PROVE FlowOK(e)
    BY DEF FlowInv
  <2>1. sent[e] = <<>> /\ p2p[e] = <<>> /\ delivered[e] = <<>>
    BY DEF Init
  <2>2. e[2] \in Ranks
    BY DEF Envelope
  <2>3. Held(e) = <<>>
    BY <2>2 DEF Init, Held, InCall
  <2>4. <<>> \in Seq(Bytes) /\ <<>> \o <<>> = <<>>
    BY EmptySeq, ConcatEmptySeq
  <2>. QED  BY <2>1, <2>3, <2>4 DEF FlowOK, Flow, Ahead
<1>2. Control /\ Control' /\ FlowInv /\ [Next]_vars => FlowInv'
  <2>. SUFFICES ASSUME Control, Control', FlowInv, [Next]_vars, NEW e \in Envelope
                PROVE  FlowOK(e)'
    BY DEF FlowInv
  <2>. QED  BY FlowStep, FlowGoesOn DEF FlowInv, Control
<1>3. Control /\ FlowInv => NoOvertaking
  <2>. SUFFICES ASSUME Control, FlowInv, NEW e \in Envelope
                PROVE  /\ Len(delivered[e]) <= Len(sent[e])
                       /\ \A i \in 1..Len(delivered[e]) : delivered[e][i] = sent[e][i]
    BY DEF NoOvertaking
  <2>1. PICK d, s : d = delivered[e] /\ s \in Seq(Bytes) /\ sent[e] = d \o s
    BY DEF FlowInv, FlowOK, Ahead
  <2>2. d \in Seq(Bytes)
    BY <2>1 DEF Control, TypeOK
  <2>3. /\ Len(d \o s) = Len(d) + Len(s) /\ Len(d) \in Nat /\ Len(s) \in Nat
        /\ \A i \in 1..Len(d) + Len(s) : (d \o s)[i] = IF i <= Len(d) THEN d[i] ELSE s[i - Len(d)]
    BY <2>1, <2>2, ConcatProperties, LenProperties
  <2>4. \A i \in 1..Len(d) : i \in 1..Len(d) + Len(s) /\ i <= Len(d)
    BY <2>3
  <2>. QED  BY <2>1, <2>3, <2>4
<1>. QED  BY <1>1, <1>2, <1>3, ControlHolds, PTL DEF Spec


-----------------------------------------------------------------------------
(* Agreement. *)

(* What the messages and the answers have to do with what was entered.       *)
Talk ==
    /\ EntryInv
    /\ MessageInv
    /\ \A r \in Ranks : RoundInv(r)
    /\ Agreement
    /\ SameBytes

Entry(r) == [header |-> HeaderOf(CallOf(r)), data |-> CallOf(r).data]

(* Ranks only ever enter more collectives, one at a time.                    *)
LEMMA EnterGrows ==
    ASSUME Control, [Next]_vars, NEW q \in Ranks
    PROVE  /\ \/ UNCHANGED entered
              \/ \E r \in Ranks :
                   /\ EnterCollective(r) \/ (EnterSpent(r) /\ IsCollective(CallOf(r)))
                   /\ entered' = [entered EXCEPT ![r] = Append(@, Entry(r))]
           /\ Len(entered'[q]) \in Nat /\ Len(entered[q]) \in Nat
           /\ Len(entered'[q]) >= Len(entered[q])
           /\ \A k \in 1..Len(entered[q]) : entered'[q][k] = entered[q][k]
<1>1. \/ UNCHANGED entered
      \/ \E r \in Ranks :
           /\ EnterCollective(r) \/ (EnterSpent(r) /\ IsCollective(CallOf(r)))
           /\ entered' = [entered EXCEPT ![r] = Append(@, Entry(r))]
  <2>1. ASSUME NEW r \in Ranks, EnterCall(r) PROVE
          \/ UNCHANGED entered
          \/ /\ EnterCollective(r) \/ (EnterSpent(r) /\ IsCollective(CallOf(r)))
             /\ entered' = [entered EXCEPT ![r] = Append(@, Entry(r))]
    BY <2>1 DEF EnterCall, EnterCollective, EnterExchange, EnterSpent, Refuse, Entry
  <2>2. ASSUME NEW r \in Ranks, WaitStep(r) PROVE UNCHANGED entered
    BY <2>2 DEF WaitStep, SeeAbort, Reacquire, TakeCollective, TakeMessage, TimeOut, Sleep, Complete
  <2>3. ASSUME NEW r \in Ranks, AbortStep(r) \/ Return(r) \/ Mishap(r) PROVE UNCHANGED entered
    BY <2>3 DEF AbortStep, SetAbort, NotifyAbort, Return, Mishap, Panic, Expire, SpuriousWake
  <2>4. ASSUME MainStep \/ SpawnFails PROVE UNCHANGED entered
    BY <2>4 DEF MainStep, Spawn, SpawnFails, MainSetsAbort, MainNotifies, Join
  <2>5. ASSUME UNCHANGED vars PROVE UNCHANGED entered
    BY <2>5 DEF vars
  <2>. QED  BY <2>1, <2>2, <2>3, <2>4, <2>5 DEF Next, RankStep
<1>2. entered[q] \in Seq([header : Header, data : Bytes])
  BY DEF Control, TypeOK
<1>3. CASE entered'[q] = entered[q]
  BY <1>1, <1>2, <1>3
<1>4. CASE \E x : entered'[q] = Append(entered[q], x)
  <2>1. TypeOK'
    BY TypeStep
  <2>2. entered'[q] \in Seq([header : Header, data : Bytes])
    BY <2>1 DEF TypeOK
  <2>3. PICK x : entered'[q] = Append(entered[q], x)
    BY <1>4
  <2>4. Len(entered'[q]) = Len(entered[q]) + 1 /\ \A k \in 1..Len(entered[q]) : entered'[q][k] = entered[q][k]
    BY <1>2, <2>2, <2>3
  <2>. QED  BY <1>1, <1>2, <2>4
<1>5. entered'[q] = entered[q] \/ \E x : entered'[q] = Append(entered[q], x)
  BY <1>1 DEF Control, TypeOK
<1>. QED  BY <1>3, <1>4, <1>5

(* What rank q heard stays heard.                                            *)
LEMMA StillHeard ==
    ASSUME Control, [Next]_vars, NEW q \in Ranks, NEW p \in Ranks, NEW k \in 1..Len(entered[q]),
           Heard(q, p, k), got'[q][p] = got[q][p]
    PROVE  Heard(q, p, k)'
<1>1. k \in 1..Len(entered[p])
  BY EnterGrows DEF Heard
<1>2. entered'[p][k] = entered[p][k] /\ entered'[q][k] = entered[q][k] /\ Len(entered'[p]) >= k
  BY <1>1, EnterGrows
<1>. QED  BY <1>2 DEF Heard, PayloadIn

(* A step that does not concern the collective of rank q.                    *)
LEMMA RoundKept ==
    ASSUME Control, [Next]_vars, NEW q \in Ranks, RoundInv(q),
           Gathering(q)' <=> Gathering(q),
           Gathering(q) => CallOf(q)' = CallOf(q) /\ unread'[q] = unread[q] /\ got'[q] = got[q],
           entered'[q] = entered[q], Len(answers'[q]) = Len(answers[q])
    PROVE  RoundInv(q)'
<1>1. CASE ~Gathering(q)
  BY <1>1 DEF RoundInv
<1>2. CASE Gathering(q)
  <2>1. entered[q][Round(q)] = [header |-> HeaderOf(CallOf(q)), data |-> CallOf(q).data]
        /\ Len(entered[q]) = Len(answers[q]) + 1
        /\ Round(q)' = Round(q)
    BY <1>2 DEF RoundInv, Round
  <2>2. Round(q) \in 1..Len(entered[q])
    <3>1. Len(answers[q]) \in Nat
      BY DEF Control, TypeOK
    <3>. QED  BY <2>1, <3>1 DEF Round
  <2>3. (entered[q][Round(q)] = [header |-> HeaderOf(CallOf(q)), data |-> CallOf(q).data])'
    <3>1. HeaderOf(CallOf(q))' = HeaderOf(CallOf(q))
      BY <1>2 DEF HeaderOf
    <3>. QED  BY <1>2, <2>1, <3>1
  <2>4. \A p \in Ranks : p # q /\ p \notin unread'[q] => Heard(q, p, Round(q))'
    <3>1. SUFFICES ASSUME NEW p \in Ranks, p # q, p \notin unread'[q] PROVE Heard(q, p, Round(q))'
      OBVIOUS
    <3>2. Heard(q, p, Round(q))
      BY <1>2, <3>1 DEF RoundInv
    <3>. QED  BY <1>2, <2>1, <2>2, <3>2, StillHeard
  <2>. QED  BY <1>2, <2>1, <2>3, <2>4 DEF RoundInv
<1>. QED  BY <1>1, <1>2


(* A header still states the length of its bytes.                            *)
LEMMA EntryStep ==
    ASSUME Control, EntryInv, [Next]_vars
    PROVE  EntryInv'
<1>. DEFINE Fits(x) == x.header.kind \in {"allgather", "bcast"} => x.header.len = Size[x.data]
<1>. SUFFICES ASSUME NEW q \in Ranks, NEW k \in 1..Len(entered'[q]) PROVE Fits(entered'[q][k])
  BY DEF EntryInv
<1>1. /\ entered[q] \in Seq([header : Header, data : Bytes])
      /\ entered'[q] \in Seq([header : Header, data : Bytes])
  BY TypeStep DEF Control, TypeOK
<1>2. CASE k \in 1..Len(entered[q])
  BY <1>2, EnterGrows DEF EntryInv
<1>3. CASE k \notin 1..Len(entered[q])
  <2>1. PICK r \in Ranks : entered' = [entered EXCEPT ![r] = Append(@, Entry(r))]
    BY <1>3, EnterGrows
  <2>2. r = q /\ entered'[q] = Append(entered[q], Entry(q))
    BY <1>3, <2>1 DEF Control, TypeOK
  <2>3. entered'[q][k] = Entry(q)
    <3>1. k = Len(entered[q]) + 1
      BY <1>1, <1>3, <2>2
    <3>. QED  BY <1>1, <2>2, <3>1
  <2>4. Fits(Entry(q))
    BY DEF Entry, HeaderOf
  <2>. QED  BY <2>3, <2>4
<1>. QED  BY <1>2, <1>3

(* A message in a mailbox still says what its sender entered.                *)
LEMMA MessageStep ==
    ASSUME Control, MessageInv, [Next]_vars
    PROVE  MessageInv'
<1>0. TypeOK /\ TypeOK'
  BY TypeStep DEF Control
<1>1. ASSUME NEW m \in coll
      PROVE  /\ m.seq \in 1..Len(entered'[m.src])
             /\ m.header = entered'[m.src][m.seq].header
             /\ m.data = PayloadIn(m.src, entered'[m.src][m.seq])
  <2>1. /\ m.src \in Ranks
        /\ m.seq \in 1..Len(entered[m.src])
        /\ m.header = entered[m.src][m.seq].header
        /\ m.data = PayloadIn(m.src, entered[m.src][m.seq])
    BY <1>0 DEF MessageInv, TypeOK
  <2>. QED  BY <2>1, EnterGrows
<1>2. CASE coll' \subseteq coll
  BY <1>1, <1>2 DEF MessageInv, PayloadIn
<1>3. ASSUME NEW r \in Ranks, EnterCollective(r) PROVE MessageInv'
  <2>. DEFINE c == CallOf(r)
              k == Round(r) + 1
  <2>1. c \in Call /\ IsCollective(c) /\ ~BadArguments(c) /\ c.op \in Kinds
    BY <1>3, CallType, CollectiveType DEF EnterCollective, CanEnter, Control
  <2>2. entered[r] \in Seq([header : Header, data : Bytes])
    BY <1>0 DEF TypeOK
  <2>3. entered' = [entered EXCEPT ![r] = Append(@, Entry(r))]
    BY <1>3 DEF EnterCollective, Entry
  <2>4. entered'[r] = Append(entered[r], Entry(r)) /\ entered'[r] \in Seq([header : Header, data : Bytes])
    BY <1>0, <2>3 DEF TypeOK
  <2>5. k \in 1..Len(entered'[r]) /\ entered'[r][k] = Entry(r)
    BY <2>2, <2>4 DEF Round
  <2>6. Payload(r, c) = PayloadIn(r, Entry(r))
    BY <2>1 DEF Payload, PayloadIn, Entry, HeaderOf, Kinds
  <2>7. ASSUME NEW m \in coll', m \notin coll
        PROVE  m.src = r /\ m.seq = k /\ m.header = HeaderOf(c) /\ m.data = Payload(r, c)
    BY <1>3, <2>7 DEF EnterCollective
  <2>8. ASSUME NEW m \in coll', m \notin coll
        PROVE  /\ m.seq \in 1..Len(entered'[m.src])
               /\ m.header = entered'[m.src][m.seq].header
               /\ m.data = PayloadIn(m.src, entered'[m.src][m.seq])
    BY <2>5, <2>6, <2>7, <2>8 DEF Entry
  <2>. QED  BY <1>1, <2>8 DEF MessageInv, PayloadIn
<1>4. coll' \subseteq coll \/ \E r \in Ranks : EnterCollective(r)
  <2>1. ASSUME NEW r \in Ranks, EnterCall(r), ~EnterCollective(r) PROVE coll' \subseteq coll
    BY <2>1 DEF EnterCall, EnterExchange, EnterSpent, Refuse, mailVars
  <2>2. ASSUME NEW r \in Ranks, WaitStep(r) PROVE coll' \subseteq coll
    BY <2>2 DEF WaitStep, SeeAbort, Reacquire, TakeCollective, TakeMessage, TimeOut, Sleep, Complete, mailVars
  <2>3. ASSUME NEW r \in Ranks, AbortStep(r) \/ Return(r) \/ Mishap(r) PROVE coll' \subseteq coll
    BY <2>3 DEF AbortStep, SetAbort, NotifyAbort, Return, Mishap, Panic, Expire, SpuriousWake, mailVars
  <2>4. ASSUME MainStep \/ SpawnFails PROVE coll' \subseteq coll
    BY <2>4 DEF MainStep, Spawn, SpawnFails, MainSetsAbort, MainNotifies, Join, mailVars
  <2>5. ASSUME UNCHANGED vars PROVE coll' \subseteq coll
    BY <2>5 DEF vars, mailVars
  <2>. QED  BY <2>1, <2>2, <2>3, <2>4, <2>5 DEF Next, RankStep
<1>. QED  BY <1>2, <1>3, <1>4

(* A rank that enters a collective has heard nobody; one that leaves it has  *)
(* its answer.                                                               *)
LEMMA RoundStep ==
    ASSUME Control, Talk, [Next]_vars, NEW q \in Ranks
    PROVE  RoundInv(q)'
<1>. USE RankFacts
<1>0. /\ TypeOK /\ TypeOK' /\ RoundInv(q) /\ CallInv(q)
      /\ pc \in [Ranks -> {"unborn", "idle", "reading", "waiting", "failed",
                           "returned", "panicking", "notifying", "panicked"}]
      /\ unread \in [Ranks -> SUBSET Ranks] /\ got \in [Ranks -> [Ranks -> Bytes]]
      /\ calls \in [Ranks -> Nat]
      /\ entered \in [Ranks -> Seq([header : Header, data : Bytes])]
      /\ answers \in [Ranks -> Seq([ok : BOOLEAN, out : [Ranks -> Bytes]])]
      /\ Len(answers[q]) \in Nat /\ Len(entered[q]) \in Nat
  <2>1. TypeOK /\ TypeOK' /\ RoundInv(q) /\ CallInv(q)
    BY TypeStep DEF Control, Talk
  <2>2. Len(answers[q]) \in Nat /\ Len(entered[q]) \in Nat
    <3>1. /\ entered[q] \in Seq([header : Header, data : Bytes])
          /\ answers[q] \in Seq([ok : BOOLEAN, out : [Ranks -> Bytes]])
      BY <2>1 DEF TypeOK
    <3>. QED  BY <3>1, LenProperties
  <2>. QED  BY <2>1, <2>2 DEF TypeOK
<1>1. ASSUME NEW r \in Ranks, EnterCollective(r) PROVE RoundInv(q)'
  <2>1. /\ UNCHANGED <<program, calls, answers>>
        /\ pc[r] = "idle" /\ IsCollective(CallOf(r))
        /\ pc' = [pc EXCEPT ![r] = "reading"]
        /\ unread' = [unread EXCEPT ![r] = Ranks \ {r}]
        /\ got' = [got EXCEPT ![r] = NoBytes]
        /\ entered' = [entered EXCEPT ![r] = Append(@, Entry(r))]
    BY <1>1 DEF EnterCollective, CanEnter, mainVars, Entry
  <2>2. CASE q # r
    <3>1. Gathering(q)' <=> Gathering(q)
      BY <1>0, <2>1, <2>2, SameCall DEF Gathering, InCall
    <3>. QED  BY <1>0, <2>1, <2>2, <3>1, RoundKept, SameCall
  <2>3. CASE q = r
    <3>1. Len(entered[r]) = Len(answers[r])
      BY <1>0, <2>1, <2>3 DEF RoundInv, Gathering, InCall
    <3>2. entered'[r] = Append(entered[r], Entry(r)) /\ entered'[r] \in Seq([header : Header, data : Bytes])
      BY <1>0, <2>1 DEF TypeOK
    <3>3. Len(entered'[r]) = Len(entered[r]) + 1 /\ entered'[r][Len(entered[r]) + 1] = Entry(r)
      BY <1>0, <3>2
    <3>4. Entry(r)' = Entry(r)
      BY <2>1, SameCall DEF Entry, HeaderOf
    <3>5. Gathering(r)'
      BY <1>0, <2>1, SameCall DEF Gathering, InCall
    <3>6. unread'[r] = Ranks \ {r} /\ answers'[r] = answers[r]
      BY <1>0, <2>1
    <3>. QED  BY <2>3, <3>1, <3>3, <3>4, <3>5, <3>6 DEF RoundInv, Round, Entry
  <2>. QED  BY <2>2, <2>3
<1>2. ASSUME NEW r \in Ranks, EnterExchange(r) \/ Refuse(r) PROVE RoundInv(q)'
  <2>1. /\ UNCHANGED <<program, calls, answers, entered>>
        /\ pc[r] = "idle"
        /\ \/ pc' = [pc EXCEPT ![r] = "reading"] /\ ~IsCollective(CallOf(r))
           \/ pc' = [pc EXCEPT ![r] = "failed"]
        /\ \A s \in Ranks : s # r => unread'[s] = unread[s] /\ got'[s] = got[s]
    BY <1>0, <1>2 DEF EnterExchange, Refuse, CanEnter, mainVars, callVars
  <2>2. Gathering(q)' <=> Gathering(q)
    BY <1>0, <2>1, SameCall DEF Gathering, InCall
  <2>3. q = r => ~Gathering(q)
    BY <2>1 DEF Gathering, InCall
  <2>. QED  BY <1>0, <2>1, <2>2, <2>3, RoundKept, SameCall
<1>3. ASSUME NEW r \in Ranks, EnterSpent(r) PROVE RoundInv(q)'
  <2>1. /\ UNCHANGED <<program, calls, unread, got>>
        /\ pc[r] = "idle" /\ pc' = [pc EXCEPT ![r] = "failed"]
        /\ \/ /\ ~IsCollective(CallOf(r)) /\ UNCHANGED <<entered, answers>>
           \/ /\ entered' = [entered EXCEPT ![r] = Append(@, Entry(r))]
              /\ answers' = [answers EXCEPT ![r] = Append(@, [ok |-> FALSE, out |-> NoBytes])]
    BY <1>3 DEF EnterSpent, CanEnter, mainVars, callVars, Entry, FailedAnswer
  <2>2. ~Gathering(r) /\ ~Gathering(r)'
    BY <1>0, <2>1 DEF Gathering, InCall
  <2>3. CASE q # r
    <3>1. Gathering(q)' <=> Gathering(q)
      BY <1>0, <2>1, <2>3, SameCall DEF Gathering, InCall
    <3>2. entered'[q] = entered[q] /\ answers'[q] = answers[q]
      BY <1>0, <2>1, <2>3
    <3>. QED  BY <1>0, <2>1, <2>3, <3>1, <3>2, RoundKept, SameCall
  <2>4. CASE q = r
    <3>1. Len(entered[r]) = Len(answers[r])
      BY <1>0, <2>2, <2>4 DEF RoundInv
    <3>2. \/ UNCHANGED <<entered, answers>>
          \/ /\ entered'[r] = Append(entered[r], Entry(r))
             /\ answers'[r] = Append(answers[r], [ok |-> FALSE, out |-> NoBytes])
      BY <1>0, <2>1
    <3>3. /\ entered'[r] \in Seq([header : Header, data : Bytes])
          /\ answers'[r] \in Seq([ok : BOOLEAN, out : [Ranks -> Bytes]])
      BY <1>0 DEF TypeOK
    <3>4. Len(entered'[r]) = Len(answers'[r])
      BY <1>0, <3>1, <3>2, <3>3
    <3>. QED  BY <2>2, <2>4, <3>4 DEF RoundInv
  <2>. QED  BY <2>3, <2>4
<1>4. ASSUME NEW r \in Ranks, HasCall(r), pc[r] = "reading", Fail(r),
             UNCHANGED <<program, calls, got, entered>>,
             answers' = FailedAnswer(r)
      PROVE  RoundInv(q)'
  <2>1. ~Gathering(r)' /\ (Gathering(r) <=> IsCollective(CallOf(r)))
    BY <1>0, <1>4 DEF Gathering, InCall, Fail
  <2>2. CASE q # r
    <3>1. (Gathering(q)' <=> Gathering(q)) /\ answers'[q] = answers[q] /\ unread'[q] = unread[q]
      BY <1>0, <1>4, <2>2, SameCall DEF Gathering, InCall, Fail, FailedAnswer
    <3>. QED  BY <1>0, <1>4, <2>2, <3>1, RoundKept, SameCall
  <2>3. CASE q = r
    <3>1. IsCollective(CallOf(r)) => Len(entered[r]) = Len(answers[r]) + 1
      BY <1>0, <2>1, <2>3 DEF RoundInv
    <3>2. ~IsCollective(CallOf(r)) => Len(entered[r]) = Len(answers[r]) /\ answers' = answers
      BY <1>0, <1>4, <2>1, <2>3 DEF RoundInv, FailedAnswer
    <3>3. IsCollective(CallOf(r)) => answers'[r] = Append(answers[r], [ok |-> FALSE, out |-> NoBytes])
      BY <1>0, <1>4 DEF FailedAnswer
    <3>4. answers'[r] \in Seq([ok : BOOLEAN, out : [Ranks -> Bytes]])
      BY <1>0 DEF TypeOK
    <3>5. Len(entered'[r]) = Len(answers'[r])
      BY <1>0, <1>4, <3>1, <3>2, <3>3, <3>4
    <3>. QED  BY <2>1, <2>3, <3>5 DEF RoundInv
  <2>. QED  BY <2>2, <2>3
<1>5. ASSUME NEW r \in Ranks, NEW p \in Ranks, SeeAbort(r) \/ TimeOut(r, p) PROVE RoundInv(q)'
  BY <1>4, <1>5 DEF SeeAbort, TimeOut, Reading, mainVars, Control, CallInv, InCall
<1>6. ASSUME NEW r \in Ranks, NEW p \in Ranks, TakeMessage(r, p) PROVE RoundInv(q)'
  <2>1. /\ UNCHANGED <<program, calls, answers, entered>>
        /\ ~IsCollective(CallOf(r))
        /\ UNCHANGED pc \/ pc' = [pc EXCEPT ![r] = "failed"]
        /\ \A s \in Ranks : s # r => unread'[s] = unread[s] /\ got'[s] = got[s]
    BY <1>0, <1>6 DEF TakeMessage, Fail, mainVars
  <2>2. (Gathering(q)' <=> Gathering(q)) /\ ~Gathering(r)
    BY <1>0, <2>1, SameCall DEF Gathering, InCall
  <2>. QED  BY <1>0, <2>1, <2>2, RoundKept, SameCall
<1>7. ASSUME NEW r \in Ranks, NEW p \in Ranks, TakeCollective(r, p) PROVE RoundInv(q)'
  <2>1. /\ UNCHANGED <<program, calls, entered>>
        /\ IsCollective(CallOf(r)) /\ HasCall(r) /\ pc[r] = "reading"
    BY <1>7 DEF TakeCollective, Reading, mainVars, Control, CallInv, InCall
  <2>2. PICK m \in coll :
          /\ Matches(m, p, r)
          /\ IF SameHeader(HeaderOf(CallOf(r)), m.header)
               THEN /\ unread' = [unread EXCEPT ![r] = @ \ {p}]
                    /\ got' = [got EXCEPT ![r][p] = m.data]
                    /\ UNCHANGED <<pc, answers>>
               ELSE /\ Fail(r)
                    /\ answers' = FailedAnswer(r)
                    /\ UNCHANGED got
    BY <1>7 DEF TakeCollective
  <2>3. CASE ~SameHeader(HeaderOf(CallOf(r)), m.header)
    BY <1>4, <2>1, <2>2, <2>3
  <2>4. CASE SameHeader(HeaderOf(CallOf(r)), m.header)
    <3>0. /\ unread' = [unread EXCEPT ![r] = @ \ {p}]
          /\ got' = [got EXCEPT ![r][p] = m.data]
          /\ UNCHANGED <<pc, answers>>
      BY <2>2, <2>4
    <3>1. (Gathering(q)' <=> Gathering(q)) /\ Gathering(r)
      BY <2>1, <3>0, SameCall DEF Gathering, InCall
    <3>2. CASE q # r
      <4>1. unread'[q] = unread[q] /\ got'[q] = got[q]
        BY <1>0, <3>0, <3>2
      <4>. QED  BY <1>0, <2>1, <3>0, <3>1, <4>1, RoundKept, SameCall
    <3>3. CASE q = r
      <4>1. /\ Len(entered[r]) = Len(answers[r]) + 1
            /\ entered[r][Round(r)] = Entry(r)
            /\ \A s \in Ranks : s # r /\ s \notin unread[r] => Heard(r, s, Round(r))
        BY <1>0, <3>1, <3>3 DEF RoundInv, Entry
      <4>2. /\ m.src = p /\ m.seq = Round(r) /\ m.header = HeaderOf(CallOf(r))
            /\ m.seq \in 1..Len(entered[p])
            /\ m.header = entered[p][Round(r)].header
            /\ m.data = PayloadIn(p, entered[p][Round(r)])
        BY <2>2, <2>4 DEF Talk, MessageInv, Matches, SameHeader
      <4>3. unread'[r] = unread[r] \ {p}
        BY <1>0, <3>0
      <4>4. /\ got'[r][p] = m.data
            /\ \A s \in Ranks : s # p => got'[r][s] = got[r][s]
        BY <1>0, <3>0
      <4>5. \A s \in Ranks : s # r /\ s \notin unread'[r] => Heard(r, s, Round(r))'
        <5>1. SUFFICES ASSUME NEW s \in Ranks, s # r, s \notin unread'[r] PROVE Heard(r, s, Round(r))'
          OBVIOUS
        <5>2. CASE s = p
          BY SMTT(30), <2>1, <4>1, <4>2, <4>4, <5>2 DEF Heard, PayloadIn, Round, Entry
        <5>3. CASE s # p
          BY <2>1, <4>1, <4>3, <4>4, <5>1, <5>3 DEF Heard, PayloadIn, Round
        <5>. QED  BY <5>2, <5>3
      <4>6. Entry(r)' = Entry(r)
        BY <2>1, SameCall DEF Entry, HeaderOf
      <4>. QED  BY <2>1, <3>0, <3>1, <3>3, <4>1, <4>5, <4>6 DEF RoundInv, Round, Entry
    <3>. QED  BY <3>2, <3>3
  <2>. QED  BY <2>3, <2>4
<1>8. ASSUME NEW r \in Ranks, Complete(r) PROVE RoundInv(q)'
  <2>1. /\ UNCHANGED <<program, unread, got, entered>>
        /\ pc[r] = "reading"
        /\ pc' = [pc EXCEPT ![r] = "idle"]
        /\ calls' = [calls EXCEPT ![r] = @ + 1]
        /\ IF IsCollective(CallOf(r))
             THEN answers' = [answers EXCEPT ![r] =
                      Append(@, [ok |-> TRUE, out |-> OutOf(r, CallOf(r), got[r])])]
             ELSE UNCHANGED answers
    BY <1>8 DEF Complete, mainVars
  <2>2. ~Gathering(r)' /\ (Gathering(r) <=> IsCollective(CallOf(r)))
    BY <1>0, <2>1 DEF Gathering, InCall
  <2>3. CASE q # r
    <3>1. CallOf(q)' = CallOf(q) /\ answers'[q] = answers[q]
      BY <1>0, <2>1, <2>3 DEF CallOf
    <3>2. Gathering(q)' <=> Gathering(q)
      BY <1>0, <2>1, <2>3, <3>1 DEF Gathering, InCall, IsCollective
    <3>. QED  BY <2>1, <3>1, <3>2, <1>0, RoundKept
  <2>4. CASE q = r
    <3>1. IsCollective(CallOf(r)) => Len(entered[r]) = Len(answers[r]) + 1
      BY <1>0, <2>2, <2>4 DEF RoundInv
    <3>2. ~IsCollective(CallOf(r)) => Len(entered[r]) = Len(answers[r]) /\ answers' = answers
      BY <1>0, <2>1, <2>2, <2>4 DEF RoundInv
    <3>3. IsCollective(CallOf(r)) =>
            answers'[r] = Append(answers[r], [ok |-> TRUE, out |-> OutOf(r, CallOf(r), got[r])])
      BY <1>0, <2>1
    <3>4. answers'[r] \in Seq([ok : BOOLEAN, out : [Ranks -> Bytes]])
      BY <1>0 DEF TypeOK
    <3>5. Len(entered'[r]) = Len(answers'[r])
      BY <1>0, <2>1, <3>1, <3>2, <3>3, <3>4
    <3>. QED  BY <2>2, <2>4, <3>5 DEF RoundInv
  <2>. QED  BY <2>3, <2>4
<1>9. ASSUME NEW r \in Ranks, NEW p \in Ranks,
             Sleep(r, p) \/ Reacquire(r) \/ AbortStep(r) \/ Return(r) \/ Mishap(r)
      PROVE  RoundInv(q)'
  <2>1. /\ UNCHANGED <<program, calls, unread, got, entered, answers>>
        /\ InCall(q)' <=> InCall(q)
    BY <1>0, <1>9 DEF Sleep, Reacquire, AbortStep, SetAbort, NotifyAbort, Return, Mishap, Panic,
                      Expire, SpuriousWake, Reading, InCall, mainVars, callVars
  <2>2. Gathering(q)' <=> Gathering(q)
    BY <2>1, SameCall DEF Gathering
  <2>. QED  BY <1>0, <2>1, <2>2, RoundKept, SameCall
<1>10. ASSUME MainStep \/ SpawnFails \/ UNCHANGED vars PROVE RoundInv(q)'
  <2>1. UNCHANGED <<program, calls, unread, got, entered, answers>>
    BY <1>10 DEF MainStep, Spawn, SpawnFails, MainSetsAbort, MainNotifies, Join, vars, mainVars, callVars
  <2>2. \/ UNCHANGED pc
        \/ spawned \in Ranks /\ pc[spawned] = "unborn" /\ pc' = [pc EXCEPT ![spawned] = "idle"]
    BY <1>10 DEF MainStep, Spawn, SpawnFails, MainSetsAbort, MainNotifies, Join, vars, Control, MainInv,
                 TypeOK
  <2>3. Gathering(q)' <=> Gathering(q)
    BY <1>0, <2>1, <2>2, SameCall DEF Gathering, InCall
  <2>. QED  BY <1>0, <2>1, <2>3, RoundKept, SameCall
<1>. QED
  BY <1>1, <1>2, <1>3, <1>5, <1>6, <1>7, <1>8, <1>9, <1>10
     DEF Next, RankStep, EnterCall, WaitStep


(* Where a collective has just returned Ok, every rank has entered it with   *)
(* the same header, and what it returns is what they passed.                 *)
LEMMA GoodAnswer ==
    ASSUME Control, Talk, NEW r \in Ranks, Complete(r), IsCollective(CallOf(r)),
           NEW q \in Ranks
    PROVE  LET k == Len(answers[r]) + 1
               kind == entered[r][k].header.kind
               root == entered[r][k].header.root
               out == OutOf(r, CallOf(r), got[r])
           IN  /\ k = Len(entered[r])
               /\ Len(entered[q]) >= k
               /\ entered[q][k].header = entered[r][k].header
               /\ kind = "barrier" => out[q] = Empty
               /\ kind \in {"allgather", "allgatherv"} => out[q] = entered[q][k].data
               /\ kind = "bcast" => root \in Ranks /\ out[q] = entered[root][k].data
<1>. DEFINE k == Len(answers[r]) + 1
            c == CallOf(r)
<1>1. HasCall(r) /\ ~BadArguments(c) /\ c \in Call /\ Gathering(r) /\ unread[r] = {}
  BY CallType DEF Complete, Control, CallInv, InCall, Gathering
<1>2. /\ Len(entered[r]) = k
      /\ entered[r][k] = [header |-> HeaderOf(c), data |-> c.data]
      /\ \A p \in Ranks : p # r => Heard(r, p, k)
  BY <1>1 DEF Talk, RoundInv, Round
<1>3. Len(answers[r]) \in Nat
  BY DEF Control, TypeOK
<1>4. c.op \in Kinds /\ (c.op = "bcast" => c.root \in Ranks)
  BY <1>1, CollectiveType
<1>5. /\ entered[r][k].header.kind = c.op
      /\ c.op = "bcast" => entered[r][k].header.root = c.root
  BY <1>2 DEF HeaderOf
<1>6. Len(entered[q]) >= k /\ entered[q][k].header = entered[r][k].header
  BY <1>2, <1>3 DEF Heard
<1>7. \A p \in Ranks : p # r =>
        /\ c.op \in {"allgather", "allgatherv"} => got[r][p] = entered[p][k].data
        /\ c.op = "bcast" /\ p = c.root => got[r][p] = entered[p][k].data
  BY <1>2, <1>5 DEF Heard, PayloadIn
<1>8. entered[r][k].data = c.data
  BY <1>2
<1>9. /\ c.op = "barrier" => OutOf(r, c, got[r])[q] = Empty
      /\ c.op = "bcast" => OutOf(r, c, got[r])[q] = IF c.root = r THEN c.data ELSE got[r][c.root]
      /\ c.op \in {"allgather", "allgatherv"} =>
           OutOf(r, c, got[r])[q] = IF q = r THEN c.data ELSE got[r][q]
  BY DEF OutOf
<1>. HIDE DEF c, k
<1>10. c.op \in {"allgather", "allgatherv"} => OutOf(r, c, got[r])[q] = entered[q][k].data
  BY <1>7, <1>8, <1>9
<1>11. c.op = "bcast" => OutOf(r, c, got[r])[q] = entered[c.root][k].data
  BY <1>4, <1>7, <1>8, <1>9
<1>. QED  BY <1>2, <1>4, <1>5, <1>6, <1>9, <1>10, <1>11 DEF c, k

(* What a step can answer.                                                   *)
LEMMA NewAnswer ==
    ASSUME Control, [Next]_vars, NEW q \in Ranks
    PROVE  \/ answers'[q] = answers[q]
           \/ answers'[q] = Append(answers[q], [ok |-> FALSE, out |-> NoBytes])
           \/ /\ Complete(q) /\ IsCollective(CallOf(q))
              /\ answers'[q] = Append(answers[q], [ok |-> TRUE, out |-> OutOf(q, CallOf(q), got[q])])
<1>0. answers \in [Ranks -> Seq([ok : BOOLEAN, out : [Ranks -> Bytes]])]
  BY DEF Control, TypeOK
<1>1. ASSUME NEW r \in Ranks,
             UNCHANGED answers \/ answers' = FailedAnswer(r)
      PROVE  answers'[q] = answers[q] \/ answers'[q] = Append(answers[q], [ok |-> FALSE, out |-> NoBytes])
  BY <1>0, <1>1 DEF FailedAnswer
<1>2. ASSUME NEW r \in Ranks, EnterCall(r)
      PROVE  UNCHANGED answers \/ answers' = FailedAnswer(r)
  BY <1>2 DEF EnterCall, EnterCollective, EnterExchange, EnterSpent, Refuse
<1>3. ASSUME NEW r \in Ranks, WaitStep(r), ~Complete(r)
      PROVE  UNCHANGED answers \/ answers' = FailedAnswer(r)
  BY <1>3 DEF WaitStep, SeeAbort, Reacquire, TakeCollective, TakeMessage, TimeOut, Sleep
<1>4. ASSUME NEW r \in Ranks, AbortStep(r) \/ Return(r) \/ Mishap(r) PROVE UNCHANGED answers
  BY <1>4 DEF AbortStep, SetAbort, NotifyAbort, Return, Mishap, Panic, Expire, SpuriousWake
<1>5. ASSUME MainStep \/ SpawnFails \/ UNCHANGED vars PROVE UNCHANGED answers
  BY <1>5 DEF MainStep, Spawn, SpawnFails, MainSetsAbort, MainNotifies, Join, vars
<1>6. ASSUME NEW r \in Ranks, Complete(r)
      PROVE  \/ answers'[q] = answers[q]
             \/ /\ r = q /\ IsCollective(CallOf(q))
                /\ answers'[q] = Append(answers[q], [ok |-> TRUE, out |-> OutOf(q, CallOf(q), got[q])])
  BY <1>0, <1>6 DEF Complete
<1>. QED
  BY <1>1, <1>2, <1>3, <1>4, <1>5, <1>6 DEF Next, RankStep

(* A successful answer after a step: an old one, or that of Complete.        *)
LEMMA NewSuccess ==
    ASSUME Control, Talk, [Next]_vars, NEW r \in Ranks, NEW k \in 1..Len(answers'[r]),
           answers'[r][k].ok
    PROVE  \/ k \in 1..Len(answers[r]) /\ answers'[r][k] = answers[r][k]
           \/ /\ Complete(r) /\ IsCollective(CallOf(r))
              /\ k = Len(answers[r]) + 1
              /\ answers'[r][k].out = OutOf(r, CallOf(r), got[r])
<1>1. /\ answers[r] \in Seq([ok : BOOLEAN, out : [Ranks -> Bytes]])
      /\ answers'[r] \in Seq([ok : BOOLEAN, out : [Ranks -> Bytes]])
  BY TypeStep DEF Control, TypeOK
<1>2. CASE answers'[r] = answers[r]
  BY <1>2
<1>3. ASSUME NEW a, answers'[r] = Append(answers[r], a)
      PROVE  \/ k \in 1..Len(answers[r]) /\ answers'[r][k] = answers[r][k]
             \/ k = Len(answers[r]) + 1 /\ answers'[r][k] = a
  BY <1>1, <1>3
<1>4. CASE answers'[r] = Append(answers[r], [ok |-> FALSE, out |-> NoBytes])
  BY <1>3, <1>4
<1>5. CASE /\ Complete(r) /\ IsCollective(CallOf(r))
           /\ answers'[r] = Append(answers[r], [ok |-> TRUE, out |-> OutOf(r, CallOf(r), got[r])])
  BY <1>3, <1>5
<1>. QED  BY <1>2, <1>4, <1>5, NewAnswer


(* What was answered with Ok was agreed on, and stays so.                    *)
LEMMA AgreementStep ==
    ASSUME Control, Talk, [Next]_vars
    PROVE  Agreement'
<1>. SUFFICES ASSUME NEW r \in Ranks, NEW k \in 1..Len(answers'[r]), answers'[r][k].ok, NEW q \in Ranks
              PROVE  /\ Len(entered'[q]) >= k
                     /\ entered'[q][k].header = entered'[r][k].header
  BY DEF Agreement
<1>1. \A p \in Ranks : Len(entered[p]) >= k
  <2>1. CASE k \in 1..Len(answers[r]) /\ answers'[r][k] = answers[r][k]
    BY <2>1 DEF Talk, Agreement
  <2>2. CASE Complete(r) /\ IsCollective(CallOf(r)) /\ k = Len(answers[r]) + 1
    BY <2>2, GoodAnswer
  <2>. QED  BY <2>1, <2>2, NewSuccess
<1>2. entered[q][k].header = entered[r][k].header
  <2>1. CASE k \in 1..Len(answers[r]) /\ answers'[r][k] = answers[r][k]
    BY <2>1 DEF Talk, Agreement
  <2>2. CASE Complete(r) /\ IsCollective(CallOf(r)) /\ k = Len(answers[r]) + 1
    BY <2>2, GoodAnswer
  <2>. QED  BY <2>1, <2>2, NewSuccess
<1>3. \A p \in Ranks : k \in 1..Len(entered[p])
  BY <1>1, EnterGrows
<1>4. \A p \in Ranks : entered'[p][k] = entered[p][k] /\ Len(entered'[p]) >= k
  BY <1>3, EnterGrows
<1>. QED  BY <1>2, <1>4

(* What was answered with Ok is what the ranks passed, and stays so.         *)
LEMMA SameBytesStep ==
    ASSUME Control, Talk, [Next]_vars
    PROVE  SameBytes'
<1>. SUFFICES ASSUME NEW r \in Ranks, NEW k \in 1..Len(answers'[r]), answers'[r][k].ok, NEW q \in Ranks
              PROVE  LET kind == entered'[r][k].header.kind
                         root == entered'[r][k].header.root
                     IN  /\ kind \in {"allgather", "allgatherv"} =>
                              answers'[r][k].out[q] = entered'[q][k].data
                         /\ kind = "bcast" => answers'[r][k].out[q] = entered'[root][k].data
  BY DEF SameBytes
<1>. DEFINE kind == entered[r][k].header.kind
            root == entered[r][k].header.root
            out == answers'[r][k].out
<1>0. k \in Nat /\ k >= 1
  <2>1. answers'[r] \in Seq([ok : BOOLEAN, out : [Ranks -> Bytes]])
    BY TypeStep DEF TypeOK
  <2>. QED  BY <2>1, LenProperties
<1>1. /\ \A p \in Ranks : Len(entered[p]) >= k
      /\ root \in Ranks
      /\ kind \in {"allgather", "allgatherv"} => out[q] = entered[q][k].data
      /\ kind = "bcast" => out[q] = entered[root][k].data
  <2>1. CASE k \in 1..Len(answers[r]) /\ answers'[r][k] = answers[r][k]
    <3>1. \A p \in Ranks : Len(entered[p]) >= k
      BY <2>1 DEF Talk, Agreement
    <3>2. entered[r] \in Seq([header : Header, data : Bytes])
      BY DEF Control, TypeOK
    <3>3. entered[r][k] \in [header : Header, data : Bytes]
      <4>1. k \in 1..Len(entered[r])
        BY <1>0, <3>1, <3>2, LenProperties
      <4>. QED  BY <3>2, <4>1, ElementOfSeq
    <3>4. root \in Ranks
      BY <3>3 DEF Header
    <3>5. /\ kind \in {"allgather", "allgatherv"} => out[q] = entered[q][k].data
          /\ kind = "bcast" => out[q] = entered[root][k].data
      BY <2>1 DEF Talk, SameBytes
    <3>. QED  BY <3>1, <3>4, <3>5
  <2>2. CASE /\ Complete(r) /\ IsCollective(CallOf(r)) /\ k = Len(answers[r]) + 1
             /\ out = OutOf(r, CallOf(r), got[r])
    <3>1. \A p \in Ranks : Len(entered[p]) >= k
      BY <2>2, GoodAnswer
    <3>2. entered[r] \in Seq([header : Header, data : Bytes])
      BY DEF Control, TypeOK
    <3>3. entered[r][k] \in [header : Header, data : Bytes]
      <4>1. k \in 1..Len(entered[r])
        BY <1>0, <3>1, <3>2, LenProperties
      <4>. QED  BY <3>2, <4>1, ElementOfSeq
    <3>4. root \in Ranks
      BY <3>3 DEF Header
    <3>5. /\ kind \in {"allgather", "allgatherv"} => out[q] = entered[q][k].data
          /\ kind = "bcast" => out[q] = entered[root][k].data
      BY SMTT(30), <2>2, GoodAnswer
    <3>. QED  BY <3>1, <3>4, <3>5
  <2>. QED  BY <2>1, <2>2, NewSuccess
<1>2. \A p \in Ranks : k \in 1..Len(entered[p])
  BY <1>1, EnterGrows
<1>3. \A p \in Ranks : entered'[p][k] = entered[p][k]
  BY <1>2, EnterGrows
<1>. QED  BY <1>1, <1>3

(* IInv is inductive.                                                        *)
THEOREM InvariantHolds == Spec => []IInv
<1>1. Init => Talk
  BY RankFacts DEF Init, Talk, EntryInv, MessageInv, RoundInv, Gathering, InCall, Agreement, SameBytes
<1>2. Control /\ Talk /\ [Next]_vars => Talk'
  BY EntryStep, MessageStep, RoundStep, AgreementStep, SameBytesStep DEF Talk
<1>3. Control /\ Talk => IInv
  BY DEF Control, Talk, IInv
<1>. QED  BY <1>1, <1>2, <1>3, ControlHolds, PTL DEF Spec

(* R6 and R8, for every world: no rank gets through a collective that the    *)
(* others did not enter with the same header.                                *)
THEOREM RanksAgree == Spec => []Agreement
<1>1. IInv => Agreement
  BY DEF IInv
<1>. QED  BY <1>1, InvariantHolds, PTL

(* R8, for every world: a collective returns the bytes the ranks passed to   *)
(* that round, whoever ran ahead.                                            *)
THEOREM RanksGetTheSame == Spec => []SameBytes
<1>1. IInv => SameBytes
  BY DEF IInv
<1>. QED  BY <1>1, InvariantHolds, PTL


(* CopiesFit, for every world: a block that was taken has the length that    *)
(* its reader's header states, so no copy_from_slice panics on a length.     *)
THEOREM NoCopyPanics == Spec => []CopiesFit
<1>1. IInv => CopiesFit
  <2>. SUFFICES ASSUME IInv, NEW r \in Ranks, NEW k \in 1..Len(answers[r]), answers[r][k].ok,
                       entered[r][k].header.kind \in {"allgather", "bcast"}, NEW q \in Ranks
                PROVE  Size[answers[r][k].out[q]] = entered[r][k].header.len
    BY DEF CopiesFit
  <2>1. \A p \in Ranks : Len(entered[p]) >= k /\ entered[p][k].header = entered[r][k].header
    BY DEF IInv, Agreement
  <2>2. \A p \in Ranks : k \in 1..Len(entered[p])
    <3>1. /\ \A p \in Ranks : entered[p] \in Seq([header : Header, data : Bytes])
          /\ answers[r] \in Seq([ok : BOOLEAN, out : [Ranks -> Bytes]])
      BY DEF IInv, TypeOK
    <3>. QED  BY <2>1, <3>1, LenProperties
  <2>3. \A p \in Ranks : entered[r][k].header.len = Size[entered[p][k].data]
    BY <2>1, <2>2 DEF IInv, EntryInv
  <2>4. entered[r][k].header.root \in Ranks
    <3>1. entered[r] \in Seq([header : Header, data : Bytes])
      BY DEF IInv, TypeOK
    <3>2. entered[r][k] \in [header : Header, data : Bytes]
      BY <2>2, <3>1, ElementOfSeq
    <3>. QED  BY <3>2 DEF Header
  <2>5. \E p \in Ranks : answers[r][k].out[q] = entered[p][k].data
    BY <2>4 DEF IInv, SameBytes
  <2>. QED  BY <2>3, <2>5
<1>. QED  BY <1>1, InvariantHolds, PTL

-----------------------------------------------------------------------------
(* Refinement. *)

(* Every step of the transport is a step of CollectiveRounds, or touches no  *)
(* collective.                                                               *)
LEMMA RoundsStep ==
    ASSUME Control, Talk, [Next]_vars
    PROVE  Rounds!RoundsNext \/ UNCHANGED <<entered, answers>>
<1>0. /\ \A r \in Ranks : RoundInv(r) /\ CallInv(r)
      /\ \A r \in Ranks : Len(answers[r]) \in Nat /\ Len(entered[r]) \in Nat
  <2>1. \A r \in Ranks : answers[r] \in Seq([ok : BOOLEAN, out : [Ranks -> Bytes]])
    BY DEF Control, TypeOK
  <2>2. \A r \in Ranks : entered[r] \in Seq([header : Header, data : Bytes])
    BY DEF Control, TypeOK
  <2>. QED  BY <2>1, <2>2, LenProperties DEF Control, Talk
<1>1. ASSUME NEW r \in Ranks, pc[r] = "idle" PROVE ~Rounds!Inside(r)
  <2>1. ~Gathering(r)
    BY <1>1 DEF Gathering, InCall
  <2>2. Len(entered[r]) = Len(answers[r])
    BY <1>0, <2>1 DEF RoundInv
  <2>. QED  BY <1>0, <2>2 DEF Rounds!Inside
<1>2. ASSUME NEW r \in Ranks, EnterCall(r)
      PROVE  Rounds!RoundsNext \/ UNCHANGED <<entered, answers>>
  <2>1. CASE EnterCollective(r)
    <3>1. HeaderOf(CallOf(r)) \in Header /\ CallOf(r).data \in Bytes
      BY <2>1, CallType, CollectiveType DEF EnterCollective, CanEnter, Control
    <3>2. Rounds!Enter(r, HeaderOf(CallOf(r)), CallOf(r).data)
      BY <1>1, <2>1 DEF EnterCollective, CanEnter, Rounds!Enter
    <3>. QED  BY <3>1, <3>2 DEF Rounds!RoundsNext
  <2>2. CASE EnterSpent(r) /\ IsCollective(CallOf(r))
    <3>1. HeaderOf(CallOf(r)) \in Header /\ CallOf(r).data \in Bytes
      BY <2>2, CallType, CollectiveType DEF EnterSpent, CanEnter, Control
    <3>2. Rounds!EnterAndFail(r, HeaderOf(CallOf(r)), CallOf(r).data)
      BY <1>1, <2>2 DEF EnterSpent, CanEnter, FailedAnswer, Rounds!EnterAndFail, Rounds!NoBytes, NoBytes
    <3>. QED  BY <3>1, <3>2 DEF Rounds!RoundsNext
  <2>3. CASE EnterExchange(r) \/ Refuse(r) \/ (EnterSpent(r) /\ ~IsCollective(CallOf(r)))
    BY <2>3 DEF EnterExchange, Refuse, EnterSpent, FailedAnswer
  <2>. QED  BY <1>2, <2>1, <2>2, <2>3 DEF EnterCall
<1>3. ASSUME NEW r \in Ranks, pc[r] = "reading", UNCHANGED entered, answers' = FailedAnswer(r)
      PROVE  Rounds!RoundsNext \/ UNCHANGED <<entered, answers>>
  <2>1. CASE IsCollective(CallOf(r))
    <3>0. Len(entered[r]) = Len(answers[r]) + 1
      BY <1>0, <1>3, <2>1 DEF RoundInv, Gathering, InCall
    <3>1. Rounds!Inside(r)
      BY <1>0, <3>0 DEF Rounds!Inside
    <3>2. Rounds!FailRound(r)
      BY <1>3, <2>1, <3>1 DEF FailedAnswer, Rounds!FailRound, Rounds!NoBytes, NoBytes
    <3>. QED  BY <3>2 DEF Rounds!RoundsNext
  <2>2. CASE ~IsCollective(CallOf(r))
    BY <1>3, <2>2 DEF FailedAnswer
  <2>. QED  BY <2>1, <2>2
<1>4. ASSUME NEW r \in Ranks, Complete(r)
      PROVE  Rounds!RoundsNext \/ UNCHANGED <<entered, answers>>
  <2>. DEFINE k == Len(entered[r])
              h == entered[r][k].header
  <2>1. CASE IsCollective(CallOf(r))
    <3>1. k = Len(answers[r]) + 1 /\ Rounds!Inside(r) /\ Rounds!Agreed(k, h)
      BY <1>0, <1>4, <2>1, GoodAnswer DEF Rounds!Inside, Rounds!Agreed
    <3>2. h.kind \in Kinds
      <4>1. entered[r] \in Seq([header : Header, data : Bytes])
        BY DEF Control, TypeOK
      <4>2. k \in 1..Len(entered[r])
        BY <1>0, <3>1
      <4>3. entered[r][k] \in [header : Header, data : Bytes]
        BY <4>1, <4>2, ElementOfSeq
      <4>. QED  BY <4>3 DEF Header
    <3>3. \A q \in Ranks : OutOf(r, CallOf(r), got[r])[q] = Rounds!Gathered(k, h)[q]
      <4>1. SUFFICES ASSUME NEW q \in Ranks
                     PROVE  OutOf(r, CallOf(r), got[r])[q] = Rounds!Gathered(k, h)[q]
        OBVIOUS
      <4>2. /\ h.kind = "barrier" => Rounds!Gathered(k, h)[q] = Empty
            /\ h.kind = "bcast" => Rounds!Gathered(k, h)[q] = entered[h.root][k].data
            /\ h.kind \in {"allgather", "allgatherv"} => Rounds!Gathered(k, h)[q] = entered[q][k].data
        BY DEF Rounds!Gathered
      <4>3. /\ h.kind = "barrier" => OutOf(r, CallOf(r), got[r])[q] = Empty
            /\ h.kind = "bcast" => OutOf(r, CallOf(r), got[r])[q] = entered[h.root][k].data
            /\ h.kind \in {"allgather", "allgatherv"} =>
                 OutOf(r, CallOf(r), got[r])[q] = entered[q][k].data
        <5>1. k = Len(answers[r]) + 1
          BY <3>1
        <5>. HIDE DEF k
        <5>. QED
          BY <1>4, <2>1, <5>1, GoodAnswer
      <4>. HIDE DEF h
      <4>. QED  BY <3>2, <4>2, <4>3 DEF Kinds
    <3>4. OutOf(r, CallOf(r), got[r]) = Rounds!Gathered(k, h)
      <4>1. /\ OutOf(r, CallOf(r), got[r]) = [q \in Ranks |-> OutOf(r, CallOf(r), got[r])[q]]
            /\ Rounds!Gathered(k, h) = [q \in Ranks |-> Rounds!Gathered(k, h)[q]]
        BY DEF OutOf, Rounds!Gathered
      <4>. QED  BY <3>3, <4>1
    <3>5. Rounds!Succeed(r)
      BY <1>4, <2>1, <3>1, <3>4 DEF Complete, Rounds!Succeed
    <3>. QED  BY <3>5 DEF Rounds!RoundsNext
  <2>2. CASE ~IsCollective(CallOf(r))
    BY <1>4, <2>2 DEF Complete
  <2>. QED  BY <2>1, <2>2
<1>5. ASSUME NEW r \in Ranks, WaitStep(r), ~Complete(r)
      PROVE  \/ UNCHANGED <<entered, answers>>
             \/ pc[r] = "reading" /\ UNCHANGED entered /\ answers' = FailedAnswer(r)
  BY <1>5 DEF WaitStep, SeeAbort, Reacquire, TakeCollective, TakeMessage, TimeOut, Sleep, Reading
<1>6. ASSUME NEW r \in Ranks, AbortStep(r) \/ Return(r) \/ Mishap(r)
      PROVE  UNCHANGED <<entered, answers>>
  BY <1>6 DEF AbortStep, SetAbort, NotifyAbort, Return, Mishap, Panic, Expire, SpuriousWake
<1>7. ASSUME MainStep \/ SpawnFails \/ UNCHANGED vars PROVE UNCHANGED <<entered, answers>>
  BY <1>7 DEF MainStep, Spawn, SpawnFails, MainSetsAbort, MainNotifies, Join, vars
<1>. QED
  BY <1>2, <1>3, <1>4, <1>5, <1>6, <1>7 DEF Next, RankStep

(* The transport implements the collectives of CollectiveRounds, whatever    *)
(* the ranks ask for and whatever goes wrong.                                *)
THEOREM Refinement == Spec => ImplementsRounds
<1>1. Init => Rounds!RoundsInit
  BY DEF Init, Rounds!RoundsInit
<1>2. Init => Talk
  BY RankFacts DEF Init, Talk, EntryInv, MessageInv, RoundInv, Gathering, InCall, Agreement, SameBytes
<1>3. Control /\ Talk /\ [Next]_vars => Talk'
  BY EntryStep, MessageStep, RoundStep, AgreementStep, SameBytesStep DEF Talk
<1>4. Control /\ Talk /\ [Next]_vars => [Rounds!RoundsNext]_(Rounds!roundVars)
  BY RoundsStep DEF Rounds!roundVars
<1>. QED
  BY <1>1, <1>2, <1>3, <1>4, ControlHolds, PTL DEF Spec, ImplementsRounds, Rounds!RoundsSpec

=============================================================================
