-------------------------- MODULE AgentTurnsProofs --------------------------
(***************************************************************************)
(* What a chat session keeps for every set of requests and tools, every    *)
(* policy and every bound: its types, one turn at a time, tools at work    *)
(* only on a reply that is in the file, nothing that needs a person        *)
(* without one, every call answered once, nobody forgotten, and a deletion *)
(* that lasts.                                                             *)
(***************************************************************************)
EXTENDS AgentTurnsProps, FiniteSetTheorems, SequenceTheorems, Counting

-----------------------------------------------------------------------------
(* The parts of the inductive invariant.                                     *)

(* A turn that has used up its rounds has been told to answer without tools, *)
(* and then makes one more at most.                                          *)
RoundsOK(t) ==
    /\ t.pc \in {"stream", "sleeping"} =>
         IF t.budget THEN t.rounds <= MaxRounds ELSE t.rounds < MaxRounds
    /\ t.pc \in {"repairing", "asked"} => t.budget \/ t.rounds <= MaxRounds
    /\ t.pc \in {"tools", "answered"} => ~t.budget /\ t.rounds <= MaxRounds
    /\ t.pc = "noticed" => t.budget /\ t.rounds <= MaxRounds

(* What is at work, looked up or on a card belongs to the round of tools,    *)
(* and no card is shown for a tool that never runs.                          *)
ToolsOK(t) ==
    /\ t.running \cup t.previewing \cup t.waiting \subseteq t.use
    /\ t.pc # "tools" => t.running \cup t.previewing \cup t.waiting = {}
    /\ \A x \in t.previewing \cup t.waiting : Policy[x] # "never"

TurnsOK == \A r \in Requests : RoundsOK(turn[r]) /\ ToolsOK(turn[r])

(* Every entry of the chain of saves is there once, and whoever awaits it    *)
(* stands where it is awaited.                                               *)
Pending(w) == \E i \in DOMAIN writes : writes[i] = w
Once == \A i, j \in DOMAIN writes : writes[i] = writes[j] => i = j
SavingPc == {"asked", "answered", "noticed", "finishing", "failing"}
Entry(who, r) == [who |-> who, of |-> r]
QueueOK(r) ==
    /\ Pending(Entry("message", r)) => r \in Messages /\ req[r] = "saving"
    /\ Pending(Entry("notice", r)) => r \in Notices /\ req[r] = "saving"
    /\ Pending(Entry("turn", r)) => turn[r].pc \in SavingPc
    /\ Pending(Entry("tidy", r)) => turn[r].pc = "tidying"
    /\ Pending(Entry("frame", r)) => frame.of = r
QueueInv == Once /\ \A r \in Requests : QueueOK(r)

(* Whose turn it is, and of which runtime; the runtime changes only when the *)
(* session is removed.                                                       *)
Removed == del.pc \in {"removing", "gone"}
OneActive ==
    /\ \A r \in Requests :
         /\ InTurn(r) => active[turn[r].gen] = r
         /\ req[r] # "over" => turn[r].pc = "none"
         /\ InTurn(r) /\ (~Removed \/ ~overtaken) => turn[r].gen = gen
    /\ \A g \in Gens : active[g] # Nobody =>
         InTurn(active[g]) /\ turn[active[g]].gen = g
    /\ del.pc \in {"no", "waiting"} => gen = 0 /\ ~overtaken
    /\ del.pc = "waiting" <=> del.turn # Nobody
    /\ del.turn # Nobody => req[del.turn] = "over"

(* A reservation is held by a message under way.                             *)
Reserved == \A g \in Gens : starting[g] => \E m \in Messages :
                home[m] = g /\ req[m] \in {"assembling", "saving"}

(* After a deletion that was not overtaken nothing is under way, and the     *)
(* saves that are left are awaited by the deletion.                          *)
DeletionOK ==
    Removed /\ ~overtaken =>
        /\ ~live /\ \A r \in Requests : ~UnderWay(r)
        /\ del.pc = "removing" => del.left = Len(writes)
        /\ del.pc = "gone" => writes = <<>> /\ ~file.exists

(* The reply whose tools are at work is in the history and in the file, and  *)
(* in whatever the write under way will leave there.                         *)
Holds(h, t) == t.at \in DOMAIN h /\ Ids(t.at, t.use) \subseteq h[t.at].ids
DiskOK(r) ==
    /\ turn[r].pc \in {"asked", "tools"} => Holds(history, turn[r])
    /\ turn[r].pc = "tools" /\ ~Removed => Holds(file.messages, turn[r])
    /\ turn[r].pc = "tools" /\ writes # <<>> => Holds(snap.messages, turn[r])
    /\ turn[r].pc = "asked" /\ Awaits("turn", r) =>
         /\ Holds(snap.messages, turn[r])
         /\ ~Removed => allowed \subseteq snap.allowed
DiskInv == \A r \in Requests : DiskOK(r)

(* A remembered approval under way is an approval.                           *)
FrameOK == frame.calls \subseteq consent

(* Who is owed an answer waits for its save, and no turn is going on.        *)
OwedOK == ~Upset => \A q \in owed :
              req[q] = "saving" /\ \A r \in Requests : ~InTurn(r)

SessionInv == /\ TypeOK /\ TurnsOK /\ QueueInv /\ OneActive /\ Reserved
              /\ DeletionOK /\ DiskInv /\ FrameOK /\ OwedOK

-----------------------------------------------------------------------------
(* The chain of saves.                                                       *)

LEMMA MessagesAreKept ==
    ASSUME NEW h \in Seq(Message), NEW m \in Message
    PROVE  /\ Append(h, m) \in Seq(Message)
           /\ Len(Append(h, m)) = Len(h) + 1
           /\ \A i \in DOMAIN h : i \in DOMAIN Append(h, m) /\ Append(h, m)[i] = h[i]
           /\ Len(h) + 1 \in DOMAIN Append(h, m)
           /\ Append(h, m)[Len(h) + 1] = m
OBVIOUS

LEMMA TwoMessagesAreKept ==
    ASSUME NEW h \in Seq(Message), NEW m \in Message, NEW n \in Message
    PROVE  /\ h \o <<m, n>> \in Seq(Message)
           /\ Len(h \o <<m, n>>) = Len(h) + 2
           /\ \A i \in DOMAIN h : i \in DOMAIN (h \o <<m, n>>) /\ (h \o <<m, n>>)[i] = h[i]
           /\ (h \o <<m, n>>)[Len(h) + 1] = m
           /\ (h \o <<m, n>>)[Len(h) + 2] = n
OBVIOUS

LEMMA TurnFacts ==
    ASSUME NEW t \in Turn
    PROVE  /\ t.gen \in Gens /\ t.aborted \in BOOLEAN /\ t.rounds \in 0 .. MaxRounds + 1
           /\ t.budget \in BOOLEAN /\ t.at \in Nat /\ t.use \subseteq Tools
           /\ t.chips \in Nat /\ t.same \in Nat
           /\ t.running \subseteq Tools /\ t.previewing \subseteq Tools
           /\ t.waiting \subseteq Tools /\ t.last \subseteq Tools
BY DEF Turn

(* What becomes of the chain: an entry joins, the head leaves, or the head   *)
(* leaves and another joins; and what the write at its head will leave.      *)
Joins(w) ==
    /\ writes' \in Seq(Waiter) /\ writes' # <<>> /\ snap' \in File /\ Once'
    /\ \A v : Pending(v)' <=> Pending(v) \/ v = w
    /\ Len(writes') = Len(writes) + 1
    /\ IF writes = <<>> THEN Head(writes') = w /\ snap' = Memory'
       ELSE Head(writes') = Head(writes) /\ snap' = snap
LeavesChain(w) ==
    /\ writes' \in Seq(Waiter) /\ snap' \in File /\ Once'
    /\ \A v : Pending(v)' <=> Pending(v) /\ v # w
    /\ Len(writes') = Len(writes) - 1
    /\ writes' # <<>> => snap' = Memory'
Replaces(w, x) ==
    /\ writes' \in Seq(Waiter) /\ writes' # <<>> /\ snap' \in File /\ Once'
    /\ \A v : Pending(v)' <=> (Pending(v) /\ v # w) \/ v = x
    /\ Len(writes') = Len(writes)
    /\ snap' = Memory'

LEMMA HeadIsPending ==
    ASSUME writes \in Seq(Waiter), writes # <<>>
    PROVE  Pending(Head(writes)) /\ Head(writes) \in Waiter
<1>1. 1 \in DOMAIN writes /\ Head(writes) = writes[1]
  OBVIOUS
<1>. QED  BY <1>1 DEF Pending

LEMMA ChainJoined ==
    ASSUME writes \in Seq(Waiter), snap \in File, Memory' \in File, Once,
           NEW w \in Waiter, ~Pending(w), Chain(writes, <<w>>)
    PROVE  Joins(w)
<1>1. writes' = writes \o <<w>>
  BY DEF Chain
<1>2. /\ writes' \in Seq(Waiter) /\ Len(writes') = Len(writes) + 1 /\ writes' # <<>>
      /\ \A i \in DOMAIN writes : i \in DOMAIN writes' /\ writes'[i] = writes[i]
      /\ writes'[Len(writes) + 1] = w /\ Len(writes) + 1 \in DOMAIN writes'
      /\ \A i \in DOMAIN writes' : i \in DOMAIN writes \/ i = Len(writes) + 1
      /\ Len(writes) + 1 \notin DOMAIN writes
  BY <1>1
<1>3. writes = <<>> => Head(writes') = w /\ snap' = Memory'
  BY <1>1 DEF Chain
<1>4. writes # <<>> => Head(writes') = Head(writes) /\ snap' = snap
  BY <1>1 DEF Chain
<1>5. Once'
  BY <1>2 DEF Once, Pending
<1>6. ASSUME NEW v  PROVE Pending(v)' <=> Pending(v) \/ v = w
  BY <1>2 DEF Pending
<1>. QED  BY <1>2, <1>3, <1>4, <1>5, <1>6 DEF Joins

LEMMA TailFacts ==
    ASSUME NEW s \in Seq(Waiter), s # <<>>
    PROVE  /\ Tail(s) \in Seq(Waiter) /\ Len(Tail(s)) = Len(s) - 1 /\ Tail(s) # s
           /\ Len(s) \in Nat \ {0}
           /\ \A i \in DOMAIN Tail(s) : i + 1 \in DOMAIN s /\ Tail(s)[i] = s[i + 1] /\ i + 1 # 1
           /\ \A i \in DOMAIN s : i # 1 => i - 1 \in DOMAIN Tail(s)
                                           /\ Tail(s)[i - 1] = s[i]
           /\ 1 \in DOMAIN s /\ Head(s) = s[1] /\ Head(s) \in Waiter
OBVIOUS

LEMMA ChainLeft ==
    ASSUME writes \in Seq(Waiter), Memory' \in File, Once,
           NEW w, writes # <<>>, Head(writes) = w, Chain(Tail(writes), <<>>)
    PROVE  LeavesChain(w)
<1> DEFINE rest == Tail(writes)
<1>1. /\ rest \in Seq(Waiter) /\ Len(rest) = Len(writes) - 1 /\ rest # writes
      /\ \A i \in DOMAIN rest : i + 1 \in DOMAIN writes /\ rest[i] = writes[i + 1] /\ i + 1 # 1
      /\ \A i \in DOMAIN writes : i # 1 => i - 1 \in DOMAIN rest /\ rest[i - 1] = writes[i]
      /\ 1 \in DOMAIN writes /\ w = writes[1]
      /\ \A i \in DOMAIN writes : i \in Nat
      /\ \A i \in DOMAIN rest : i \in Nat
  BY TailFacts
<1>2. writes' = rest
  <2>1. writes' = rest \o <<>>
    BY DEF Chain
  <2>. HIDE DEF rest
  <2>. QED  BY <1>1, <2>1, ConcatEmptySeq
<1>3. snap' \in File /\ (writes' # <<>> => snap' = Memory')
  <2>1. NoFile \in File
    BY DEF NoFile, File
  <2>2. rest \o <<>> = rest
    <3>. HIDE DEF rest
    <3>. QED  BY <1>1, ConcatEmptySeq
  <2>. QED  BY <1>1, <1>2, <2>1, <2>2 DEF Chain
<1>. HIDE DEF rest
<1>4. Once'
  <2> SUFFICES ASSUME NEW i \in DOMAIN rest, NEW j \in DOMAIN rest, rest[i] = rest[j]
               PROVE i = j
    BY <1>2 DEF Once
  <2>1. i + 1 = j + 1
    BY <1>1 DEF Once
  <2>. QED  BY <1>1, <2>1
<1>5. ASSUME NEW v  PROVE Pending(v)' <=> Pending(v) /\ v # w
  <2>1. ASSUME NEW i \in DOMAIN rest, rest[i] = v  PROVE Pending(v) /\ v # w
    <3>1. i + 1 \in DOMAIN writes /\ writes[i + 1] = v /\ i + 1 # 1
      BY <1>1, <2>1
    <3>2. v # w
      BY <1>1, <3>1 DEF Once
    <3>. QED  BY <3>1, <3>2 DEF Pending
  <2>2. ASSUME NEW i \in DOMAIN writes, writes[i] = v, v # w
        PROVE  \E j \in DOMAIN rest : rest[j] = v
    BY <1>1, <2>2
  <2>. QED  BY <1>2, <2>1, <2>2 DEF Pending
<1>. QED  BY <1>1, <1>2, <1>3, <1>4, <1>5 DEF LeavesChain

LEMMA ChainReplaced ==
    ASSUME writes \in Seq(Waiter), Memory' \in File, Once,
           NEW w, writes # <<>>, Head(writes) = w,
           NEW x \in Waiter, x = w \/ ~Pending(x), Chain(Tail(writes), <<x>>)
    PROVE  Replaces(w, x)
<1> DEFINE rest == Tail(writes)
<1>1. /\ rest \in Seq(Waiter) /\ Len(rest) = Len(writes) - 1 /\ rest # writes
      /\ \A i \in DOMAIN rest : i + 1 \in DOMAIN writes /\ rest[i] = writes[i + 1] /\ i + 1 # 1
      /\ \A i \in DOMAIN writes : i # 1 => i - 1 \in DOMAIN rest /\ rest[i - 1] = writes[i]
      /\ 1 \in DOMAIN writes /\ w = writes[1]
      /\ \A i \in DOMAIN writes : i \in Nat
      /\ \A i \in DOMAIN rest : i \in Nat
      /\ Len(writes) \in Nat
  BY TailFacts
<1>2. writes' = rest \o <<x>> /\ snap' = Memory'
  <2>1. rest \o <<x>> # <<>>
    <3>. HIDE DEF rest
    <3>. QED  BY <1>1
  <2>. QED  BY <1>1, <2>1 DEF Chain
<1>. HIDE DEF rest
<1>3. /\ writes' \in Seq(Waiter) /\ Len(writes') = Len(writes) /\ writes' # <<>>
      /\ \A i \in DOMAIN rest : i \in DOMAIN writes' /\ writes'[i] = rest[i]
      /\ writes'[Len(rest) + 1] = x /\ Len(rest) + 1 \in DOMAIN writes'
      /\ \A i \in DOMAIN writes' : i \in DOMAIN rest \/ i = Len(rest) + 1
  BY <1>1, <1>2
<1>4. ASSUME NEW i \in DOMAIN rest  PROVE rest[i] # w /\ rest[i] # x /\ Pending(rest[i])
  <2>1. i + 1 \in DOMAIN writes /\ rest[i] = writes[i + 1] /\ i + 1 # 1
    BY <1>1
  <2>. QED  BY <1>1, <2>1 DEF Once, Pending
<1>5. Once'
  <2> SUFFICES ASSUME NEW i \in DOMAIN writes', NEW j \in DOMAIN writes', writes'[i] = writes'[j]
               PROVE i = j
    BY DEF Once
  <2>1. ASSUME i \in DOMAIN rest, j \in DOMAIN rest  PROVE i + 1 = j + 1
    BY <1>1, <1>3, <2>1 DEF Once
  <2>2. ASSUME i \in DOMAIN rest, j \in DOMAIN rest  PROVE i = j
    BY <1>1, <2>1, <2>2
  <2>. QED  BY <1>3, <1>4, <2>2
<1>6. ASSUME NEW v  PROVE Pending(v)' <=> (Pending(v) /\ v # w) \/ v = x
  <2>1. ASSUME NEW i \in DOMAIN rest, rest[i] = v  PROVE Pending(v) /\ v # w
    BY <1>4, <2>1
  <2>2. ASSUME NEW i \in DOMAIN writes, writes[i] = v, v # w
        PROVE  \E j \in DOMAIN rest : rest[j] = v
    BY <1>1, <2>2
  <2>. QED  BY <1>3, <2>1, <2>2 DEF Pending
<1>. QED  BY <1>2, <1>3, <1>5, <1>6 DEF Replaces

LEMMA MemoryIsAFile ==
    ASSUME history' \in Seq(Message), allowed' \in SUBSET Tools
    PROVE  Memory' \in File
BY DEF Memory, File

-----------------------------------------------------------------------------
(* A step of a turn: what the request's turn record becomes, what joins the  *)
(* history and what happens to the chain of saves.                           *)

Working(t) == t.pc \in {"asked", "tools"}
OffTurn == {"none", "tidying", "refreshing"}
Awaited == SavingPc \cup {"tidying"}

HistoryStep(r, d) ==
    \/ /\ \/ history' = history
          \/ history' = Append(history, Assistant({}))
          \/ history' = Append(history, Says("text"))
          \/ \E use \in SUBSET Tools :
               history' = history \o SettledCalls(Len(history) + 1, use)
       /\ ~Working(turn[r]) /\ ~Working(d)
    \/ /\ history' = history
       /\ turn[r].pc = "asked" /\ turn[r].use = {} /\ ~Working(d)
    \/ /\ history' = history
       /\ Working(turn[r]) /\ d.pc = "tools"
       /\ d.at = turn[r].at /\ d.use = turn[r].use
    \/ /\ history' = Append(history, Assistant(Ids(Len(history) + 1, d.use)))
       /\ ~Working(turn[r]) /\ d.pc = "asked" /\ d.at = Len(history) + 1
    \/ /\ history' = Append(history, Results(Ids(turn[r].at, turn[r].use)))
       /\ Working(turn[r]) /\ ~Working(d)

QueueStep(r, d) ==
    \/ /\ NoSave /\ turn[r].pc \notin Awaited /\ d.pc \notin Awaited
       /\ d.pc = "tools" => turn[r].pc = "tools"
    \/ /\ Save("turn", r) /\ turn[r].pc \notin Awaited /\ d.pc \in SavingPc
    \/ /\ Written("turn", r, TRUE, <<>>) /\ writes # <<>> /\ d.pc \notin Awaited
    \/ /\ Written("turn", r, TRUE, Again("turn", r)) /\ writes # <<>>
       /\ d.pc \in SavingPc /\ ~Working(d)
    \/ /\ \E ok \in BOOLEAN : Written("tidy", r, ok, <<>>)
       /\ writes # <<>> /\ d.pc \in {"none", "refreshing"}

(* Tools are started by a step of the turn only at the beginning of a round, *)
(* when the save of the reply is over.                                       *)
StartsTools(r, d) ==
    /\ ~turn[r].aborted /\ turn[r].pc = "asked"
    /\ Written("turn", r, TRUE, <<>>) /\ Awaits("turn", r)
    /\ \A x \in d.running : RunsAtOnce(x)

TurnStep(r, d) ==
    /\ TurnOnly
    /\ d \in Turn /\ turn' = [turn EXCEPT ![r] = d]
    /\ RoundsOK(d) /\ ToolsOK(d)
    /\ turn[r].pc # "none"
    /\ InTurn(r) => d.pc \notin OffTurn /\ d.gen = turn[r].gen
    /\ ~InTurn(r) => d.pc \in {"none", "refreshing"} /\ history' = history
    /\ HistoryStep(r, d)
    /\ QueueStep(r, d)
    /\ owed' = owed \/ owed' = {}
    /\ d.running \subseteq turn[r].running \/ StartsTools(r, d)

LEMMA TurnIsTyped ==
    ASSUME SessionInv, NEW r \in Requests
    PROVE  /\ turn[r] \in Turn /\ RoundsOK(turn[r]) /\ ToolsOK(turn[r])
           /\ turn \in [Requests -> Turn]
BY DEF SessionInv, TypeOK, TurnsOK

(* Whoever is awaited at the head of the chain stands where it awaits.       *)
LEMMA HeadStands ==
    ASSUME SessionInv, NEW r \in Requests
    PROVE  /\ Awaits("turn", r) => turn[r].pc \in SavingPc /\ Pending(Entry("turn", r))
           /\ Awaits("tidy", r) => turn[r].pc = "tidying" /\ Pending(Entry("tidy", r))
           /\ Awaits("frame", r) => frame.of = r /\ Pending(Entry("frame", r))
           /\ Awaits("message", r) => req[r] = "saving" /\ Pending(Entry("message", r))
           /\ Awaits("notice", r) => req[r] = "saving" /\ Pending(Entry("notice", r))
<1>1. ASSUME NEW who, Awaits(who, r)  PROVE Pending(Entry(who, r))
  <2>1. writes \in Seq(Waiter) /\ writes # <<>> /\ Head(writes) = Entry(who, r)
    BY <1>1 DEF Awaits, Entry, SessionInv, TypeOK
  <2>. QED  BY <2>1, HeadIsPending
<1>. QED  BY <1>1 DEF SessionInv, QueueInv, QueueOK

LEMMA OneMoreRound ==
    ASSUME AgentAssumption, NEW t \in Turn, RoundsOK(t), t.pc = "stream"
    PROVE  /\ t.rounds + 1 \in 0 .. MaxRounds + 1
           /\ t.budget \/ t.rounds + 1 <= MaxRounds
<1>1. MaxRounds \in Nat /\ t.rounds \in 0 .. MaxRounds + 1 /\ t.budget \in BOOLEAN
  BY TurnFacts DEF AgentAssumption
<1>2. t.rounds <= MaxRounds /\ (t.budget \/ t.rounds < MaxRounds)
  BY <1>1 DEF RoundsOK
<1>. QED  BY <1>1, <1>2

LEMMA StreamSteps ==
    ASSUME SessionInv, AgentAssumption, NEW r \in Requests, StreamEnds(r)
    PROVE  \E d : TurnStep(r, d)
<1>. USE DEF SavingPc, OffTurn, Awaited, Working
<1>0. PICK t : t = turn[r] /\ t \in Turn /\ RoundsOK(t) /\ ToolsOK(t)
  BY TurnIsTyped
<1>1. turn \in [Requests -> Turn]
  BY TurnIsTyped
<1>2. CASE StreamCancelled(r)
  <2>1. PICK d : d = [t EXCEPT !.pc = "finishing"]
    OBVIOUS
  <2>2. /\ turn' = [turn EXCEPT ![r] = d] /\ t.pc = "stream" /\ TurnOnly
        /\ Save("turn", r) /\ owed' = owed
    BY <1>0, <1>2, <2>1 DEF StreamCancelled, Finish, To, AtPc
  <2>3. d \in Turn /\ RoundsOK(d) /\ ToolsOK(d) /\ d.pc = "finishing"
        /\ d.gen = t.gen /\ d.running = t.running
    BY <1>0, <1>1, <2>1, <2>2 DEF Turn, RoundsOK, ToolsOK
  <2>4. HistoryStep(r, d)
    BY <1>0, <1>2, <2>2, <2>3 DEF HistoryStep, StreamCancelled
  <2>. QED  BY <1>0, <2>2, <2>3, <2>4 DEF TurnStep, QueueStep, InTurn
<1>3. CASE Truncated(r)
  <2>1. PICK d : d = [t EXCEPT !.pc = "finishing", !.rounds = @ + 1]
    OBVIOUS
  <2>2. /\ turn' = [turn EXCEPT ![r] = d] /\ t.pc = "stream" /\ TurnOnly
        /\ Save("turn", r) /\ owed' = owed
    BY <1>0, <1>3, <2>1 DEF Truncated, Finish, To, AtPc
  <2>3. d \in Turn /\ RoundsOK(d) /\ ToolsOK(d) /\ d.pc = "finishing"
        /\ d.gen = t.gen /\ d.running = t.running
    <3>1. PICK n : n = t.rounds + 1 /\ n \in 0 .. MaxRounds + 1
      BY <1>0, <2>2, OneMoreRound
    <3>2. d = [t EXCEPT !.pc = "finishing", !.rounds = n]
      BY <2>1, <3>1
    <3>. QED  BY <1>0, <2>2, <3>1, <3>2 DEF Turn, RoundsOK, ToolsOK
  <2>4. HistoryStep(r, d)
    BY <1>0, <1>3, <2>2, <2>3 DEF HistoryStep, Truncated, Appends
  <2>. QED  BY <1>0, <2>2, <2>3, <2>4 DEF TurnStep, QueueStep, InTurn
<1>4. CASE Refused(r)
  <2>1. PICK d : d = [t EXCEPT !.pc = "finishing", !.rounds = @ + 1]
    OBVIOUS
  <2>2. /\ turn' = [turn EXCEPT ![r] = d] /\ t.pc = "stream" /\ TurnOnly
        /\ Save("turn", r) /\ owed' = owed
    BY <1>0, <1>4, <2>1 DEF Refused, Finish, To, AtPc
  <2>3. d \in Turn /\ RoundsOK(d) /\ ToolsOK(d) /\ d.pc = "finishing"
        /\ d.gen = t.gen /\ d.running = t.running
    <3>1. PICK n : n = t.rounds + 1 /\ n \in 0 .. MaxRounds + 1
      BY <1>0, <2>2, OneMoreRound
    <3>2. d = [t EXCEPT !.pc = "finishing", !.rounds = n]
      BY <2>1, <3>1
    <3>. QED  BY <1>0, <2>2, <3>1, <3>2 DEF Turn, RoundsOK, ToolsOK
  <2>4. HistoryStep(r, d)
    BY <1>0, <1>4, <2>2, <2>3 DEF HistoryStep, Refused, Appends
  <2>. QED  BY <1>0, <2>2, <2>3, <2>4 DEF TurnStep, QueueStep, InTurn
<1>5. CASE RoleRejected(r)
  <2>1. PICK d : d = [t EXCEPT !.pc = "stream", !.folded = TRUE]
    OBVIOUS
  <2>2. /\ turn' = [turn EXCEPT ![r] = d] /\ t.pc = "stream" /\ TurnOnly
        /\ NoSave /\ owed' = {} /\ history' = history
    BY <1>0, <1>5, <2>1 DEF RoleRejected, StreamAgain, To, AtPc
  <2>3. d \in Turn /\ RoundsOK(d) /\ ToolsOK(d) /\ d.pc = "stream"
        /\ d.gen = t.gen /\ d.running = t.running
    BY <1>0, <1>1, <2>1, <2>2 DEF Turn, RoundsOK, ToolsOK
  <2>4. HistoryStep(r, d)
    BY <1>0, <2>2, <2>3 DEF HistoryStep
  <2>. QED  BY <1>0, <2>2, <2>3, <2>4 DEF TurnStep, QueueStep, InTurn
<1>6. CASE RetryLater(r)
  <2>1. PICK d : d = [t EXCEPT !.pc = "sleeping", !.retried = TRUE]
    OBVIOUS
  <2>2. /\ turn' = [turn EXCEPT ![r] = d] /\ t.pc = "stream" /\ TurnOnly
        /\ NoSave /\ owed' = owed /\ history' = history
    BY <1>0, <1>6, <2>1 DEF RetryLater, Retries, To, AtPc
  <2>3. d \in Turn /\ RoundsOK(d) /\ ToolsOK(d) /\ d.pc = "sleeping"
        /\ d.gen = t.gen /\ d.running = t.running
    BY <1>0, <1>1, <2>1, <2>2 DEF Turn, RoundsOK, ToolsOK
  <2>4. HistoryStep(r, d)
    BY <1>0, <2>2, <2>3 DEF HistoryStep
  <2>. QED  BY <1>0, <2>2, <2>3, <2>4 DEF TurnStep, QueueStep, InTurn
<1>7. CASE StreamFails(r)
  <2>1. PICK d : d = [t EXCEPT !.pc = "failing"]
    OBVIOUS
  <2>2. /\ turn' = [turn EXCEPT ![r] = d] /\ t.pc = "stream" /\ TurnOnly
        /\ Save("turn", r) /\ owed' = owed /\ history' = history
    BY <1>0, <1>7, <2>1 DEF StreamFails, To, AtPc
  <2>3. d \in Turn /\ RoundsOK(d) /\ ToolsOK(d) /\ d.pc = "failing"
        /\ d.gen = t.gen /\ d.running = t.running
    BY <1>0, <1>1, <2>1, <2>2 DEF Turn, RoundsOK, ToolsOK
  <2>4. HistoryStep(r, d)
    BY <1>0, <2>2, <2>3 DEF HistoryStep
  <2>. QED  BY <1>0, <2>2, <2>3, <2>4 DEF TurnStep, QueueStep, InTurn
<1>8. CASE Replied(r)
  <2>1. PICK use \in SUBSET Tools :
          LET s == [turn[r] EXCEPT !.rounds = @ + 1]
          IN \/ AppendReply(r, s, use)
             \/ /\ To(r, [s EXCEPT !.pc = "repairing", !.use = use])
                /\ NoSave
                /\ UNCHANGED history
    BY <1>8 DEF Replied
  <2>2. t.pc = "stream" /\ TurnOnly /\ owed' = owed
    BY <1>0, <1>8 DEF Replied, AtPc
  <2>3. PICK s : s = [t EXCEPT !.rounds = @ + 1]
    OBVIOUS
  <2>4. s \in Turn /\ s.pc = "stream" /\ s.budget = t.budget /\ s.gen = t.gen
        /\ s.running = t.running /\ ToolsOK(s) /\ (s.budget \/ s.rounds <= MaxRounds)
    <3>1. PICK n : n = t.rounds + 1 /\ n \in 0 .. MaxRounds + 1
                   /\ (t.budget \/ n <= MaxRounds)
      BY <1>0, <2>2, OneMoreRound
    <3>2. s = [t EXCEPT !.rounds = n]
      BY <2>3, <3>1
    <3>. QED  BY <1>0, <2>2, <3>1, <3>2 DEF Turn, ToolsOK
  <2>5. CASE AppendReply(r, s, use)
    <3>1. PICK d : d = [s EXCEPT !.pc = "asked", !.at = Len(history) + 1, !.use = use,
                                 !.campaign = @ \/ use \cap Campaign # {}]
      OBVIOUS
    <3>2. /\ turn' = [turn EXCEPT ![r] = d] /\ Save("turn", r)
          /\ history' = Append(history, Assistant(Ids(Len(history) + 1, use)))
      BY <2>5, <3>1 DEF AppendReply, To, Appends
    <3>3. Len(history) + 1 \in Nat
      BY DEF SessionInv, TypeOK
    <3>4. d \in Turn /\ RoundsOK(d) /\ ToolsOK(d) /\ d.pc = "asked"
          /\ d.gen = t.gen /\ d.running = t.running /\ d.at = Len(history) + 1 /\ d.use = use
      <4>1. PICK a \in Nat : a = Len(history) + 1
        BY <3>3
      <4>. QED  BY <2>4, <3>1, <4>1 DEF Turn, RoundsOK, ToolsOK
    <3>5. HistoryStep(r, d)
      BY <1>0, <2>2, <3>2, <3>4 DEF HistoryStep
    <3>. QED  BY <1>0, <2>2, <3>2, <3>4, <3>5 DEF TurnStep, QueueStep, InTurn
  <2>6. CASE To(r, [s EXCEPT !.pc = "repairing", !.use = use]) /\ NoSave /\ UNCHANGED history
    <3>1. PICK d : d = [s EXCEPT !.pc = "repairing", !.use = use]
      OBVIOUS
    <3>2. turn' = [turn EXCEPT ![r] = d] /\ NoSave /\ history' = history
      BY <2>6, <3>1 DEF To
    <3>3. d \in Turn /\ RoundsOK(d) /\ ToolsOK(d) /\ d.pc = "repairing"
          /\ d.gen = t.gen /\ d.running = t.running
      BY <2>4, <3>1 DEF Turn, RoundsOK, ToolsOK
    <3>4. HistoryStep(r, d)
      BY <1>0, <2>2, <3>2, <3>3 DEF HistoryStep
    <3>. QED  BY <1>0, <2>2, <3>2, <3>3, <3>4 DEF TurnStep, QueueStep, InTurn
  <2>. QED  BY <1>0, <2>1, <2>3, <2>5, <2>6
<1>. QED  BY <1>2, <1>3, <1>4, <1>5, <1>6, <1>7, <1>8 DEF StreamEnds

LEMMA IdleIsTyped ==
    ASSUME AgentAssumption, NEW p \in {"none", "tidying", "refreshing"},
           NEW d, d = [Idle EXCEPT !.pc = p]
    PROVE  /\ d \in Turn /\ RoundsOK(d) /\ ToolsOK(d) /\ d.pc = p /\ d.gen = 0
           /\ d.running = {} /\ d.waiting = {} /\ ~d.aborted
<1>1. 0 \in 0 .. MaxRounds + 1
  BY DEF AgentAssumption
<1>. QED  BY <1>1 DEF Idle, Turn, RoundsOK, ToolsOK, Gens

LEMMA WaitSteps ==
    ASSUME SessionInv, AgentAssumption, NEW r \in Requests, Waits(r)
    PROVE  \E d : TurnStep(r, d)
<1>. USE DEF SavingPc, OffTurn, Awaited, Working
<1>0. PICK t : t = turn[r] /\ t \in Turn /\ RoundsOK(t) /\ ToolsOK(t)
  BY TurnIsTyped
<1>1. turn \in [Requests -> Turn]
  BY TurnIsTyped
<1>2. CASE SleepOver(r) /\ turn[r].aborted
  <2>1. PICK d : d = [t EXCEPT !.pc = "finishing"]
    OBVIOUS
  <2>2. /\ turn' = [turn EXCEPT ![r] = d] /\ t.pc = "sleeping" /\ TurnOnly
        /\ Save("turn", r) /\ owed' = owed /\ history' = history
    BY <1>0, <1>2, <2>1 DEF SleepOver, Finish, To, AtPc
  <2>3. d \in Turn /\ RoundsOK(d) /\ ToolsOK(d) /\ d.pc = "finishing"
        /\ d.gen = t.gen /\ d.running = t.running
    BY <1>0, <2>1, <2>2 DEF Turn, RoundsOK, ToolsOK
  <2>4. HistoryStep(r, d)
    BY <1>0, <2>2, <2>3 DEF HistoryStep
  <2>. QED  BY <1>0, <2>2, <2>3, <2>4 DEF TurnStep, QueueStep, InTurn
<1>3. CASE SleepOver(r) /\ ~turn[r].aborted
  <2>1. PICK d : d = [t EXCEPT !.pc = "stream"]
    OBVIOUS
  <2>2. /\ turn' = [turn EXCEPT ![r] = d] /\ t.pc = "sleeping" /\ TurnOnly
        /\ NoSave /\ owed' = {} /\ history' = history
    BY <1>0, <1>3, <2>1 DEF SleepOver, StreamAgain, To, AtPc
  <2>3. d \in Turn /\ RoundsOK(d) /\ ToolsOK(d) /\ d.pc = "stream"
        /\ d.gen = t.gen /\ d.running = t.running
    BY <1>0, <2>1, <2>2 DEF Turn, RoundsOK, ToolsOK
  <2>4. HistoryStep(r, d)
    BY <1>0, <2>2, <2>3 DEF HistoryStep
  <2>. QED  BY <1>0, <2>2, <2>3, <2>4 DEF TurnStep, QueueStep, InTurn
<1>4. CASE Repaired(r)
  <2>1. PICK d : d = [t EXCEPT !.pc = "asked", !.at = Len(history) + 1, !.use = t.use,
                               !.campaign = @ \/ t.use \cap Campaign # {}]
    OBVIOUS
  <2>2. /\ turn' = [turn EXCEPT ![r] = d] /\ t.pc = "repairing" /\ TurnOnly
        /\ Save("turn", r) /\ owed' = owed
        /\ history' = Append(history, Assistant(Ids(Len(history) + 1, t.use)))
    BY <1>0, <1>4, <2>1 DEF Repaired, AppendReply, To, AtPc, Appends
  <2>3. d \in Turn /\ RoundsOK(d) /\ ToolsOK(d) /\ d.pc = "asked"
        /\ d.gen = t.gen /\ d.running = t.running /\ d.at = Len(history) + 1 /\ d.use = t.use
    <3>1. PICK a \in Nat : a = Len(history) + 1
      BY DEF SessionInv, TypeOK
    <3>. QED  BY <1>0, <2>1, <2>2, <3>1 DEF Turn, RoundsOK, ToolsOK
  <2>4. HistoryStep(r, d)
    BY <1>0, <2>2, <2>3 DEF HistoryStep
  <2>. QED  BY <1>0, <2>2, <2>3, <2>4 DEF TurnStep, QueueStep, InTurn
<1>5. CASE Refreshed(r)
  <2>1. PICK d : d = [Idle EXCEPT !.pc = "none"]
    OBVIOUS
  <2>2. /\ turn' = [turn EXCEPT ![r] = d] /\ t.pc = "refreshing" /\ TurnOnly
        /\ NoSave /\ owed' = owed /\ history' = history
    <3>1. d = Idle
      BY <2>1 DEF Idle
    <3>. QED  BY <1>0, <1>5, <3>1 DEF Refreshed, To, AtPc
  <2>3. d \in Turn /\ RoundsOK(d) /\ ToolsOK(d) /\ d.pc = "none" /\ d.running = {}
    BY <2>1, IdleIsTyped
  <2>4. HistoryStep(r, d)
    BY <1>0, <2>2, <2>3 DEF HistoryStep
  <2>. QED  BY <1>0, <2>2, <2>3, <2>4 DEF TurnStep, QueueStep, InTurn
<1>. QED  BY <1>2, <1>3, <1>4, <1>5 DEF Waits

LEMMA RoundSteps ==
    ASSUME SessionInv, AgentAssumption, NEW r \in Requests, Rounds(r)
    PROVE  \E d : TurnStep(r, d)
<1>. USE DEF SavingPc, OffTurn, Awaited, Working
<1>0. PICK t : t = turn[r] /\ t \in Turn /\ RoundsOK(t) /\ ToolsOK(t)
  BY TurnIsTyped
<1>1. turn \in [Requests -> Turn]
  BY TurnIsTyped
<1>2. CASE ToolEnds(r)
  <2>0. PICK x \in t.running : To(r, [t EXCEPT !.running = @ \ {x}])
    BY <1>0, <1>2 DEF ToolEnds
  <2>1. PICK d : d = [t EXCEPT !.running = @ \ {x}]
    OBVIOUS
  <2>2. /\ turn' = [turn EXCEPT ![r] = d] /\ t.pc = "tools" /\ TurnOnly
        /\ NoSave /\ owed' = owed /\ history' = history
    BY <1>0, <1>2, <2>0, <2>1 DEF ToolEnds, To, AtPc
  <2>3. d \in Turn /\ RoundsOK(d) /\ ToolsOK(d) /\ d.pc = "tools" /\ d.at = t.at
        /\ d.use = t.use /\ d.gen = t.gen /\ d.running \subseteq t.running
    BY <1>0, <2>1, <2>2 DEF Turn, RoundsOK, ToolsOK
  <2>4. HistoryStep(r, d)
    BY <1>0, <2>2, <2>3 DEF HistoryStep
  <2>. QED  BY <1>0, <2>2, <2>3, <2>4 DEF TurnStep, QueueStep, InTurn
<1>3. CASE PreviewsReady(r)
  <2>1. PICK d : d = [t EXCEPT !.waiting = UnlessAborted(t, t.previewing),
                               !.previewing = {}]
    OBVIOUS
  <2>2. /\ turn' = [turn EXCEPT ![r] = d] /\ t.pc = "tools" /\ TurnOnly
        /\ NoSave /\ owed' = owed /\ history' = history
    BY <1>0, <1>3, <2>1 DEF PreviewsReady, To, AtPc
  <2>3. d \in Turn /\ RoundsOK(d) /\ ToolsOK(d) /\ d.pc = "tools" /\ d.at = t.at
        /\ d.use = t.use /\ d.gen = t.gen /\ d.running = t.running
    BY <1>0, <2>1, <2>2 DEF Turn, RoundsOK, ToolsOK, UnlessAborted
  <2>4. HistoryStep(r, d)
    BY <1>0, <2>2, <2>3 DEF HistoryStep
  <2>. QED  BY <1>0, <2>2, <2>3, <2>4 DEF TurnStep, QueueStep, InTurn
<1>4. CASE RoundOver(r)
  <2>1. PICK d : d = [t EXCEPT !.pc = "answered"]
    OBVIOUS
  <2>2. /\ turn' = [turn EXCEPT ![r] = d] /\ t.pc = "tools" /\ TurnOnly
        /\ Save("turn", r) /\ owed' = owed
        /\ history' = Append(history, Results(Ids(t.at, t.use)))
        /\ t.running \cup t.previewing \cup t.waiting = {}
    BY <1>0, <1>4, <2>1 DEF RoundOver, To, AtPc, Appends
  <2>3. d \in Turn /\ RoundsOK(d) /\ ToolsOK(d) /\ d.pc = "answered"
        /\ d.gen = t.gen /\ d.running = t.running
    BY <1>0, <2>1, <2>2 DEF Turn, RoundsOK, ToolsOK
  <2>4. HistoryStep(r, d)
    BY <1>0, <2>2, <2>3 DEF HistoryStep
  <2>. QED  BY <1>0, <2>2, <2>3, <2>4 DEF TurnStep, QueueStep, InTurn
<1>. QED  BY <1>2, <1>3, <1>4 DEF Rounds

(* What follows a save of the turn, but for its last one.                    *)
SavedStep(r) ==
    \/ ReplyEnds(r) \/ BudgetSpent(r) \/ ExecuteRound(r) \/ RoundEndsTurn(r)
    \/ NextRound(r) \/ BudgetNoticed(r) \/ TidySaved(r)

LEMMA SavedSteps ==
    ASSUME SessionInv, AgentAssumption, NEW r \in Requests, SavedStep(r)
    PROVE  \E d : TurnStep(r, d)
<1>. USE DEF SavingPc, OffTurn, Awaited, Working
<1>0. PICK t : t = turn[r] /\ t \in Turn /\ RoundsOK(t) /\ ToolsOK(t)
  BY TurnIsTyped
<1>1. turn \in [Requests -> Turn]
  BY TurnIsTyped
<1>2. CASE ReplyEnds(r)
  <2>1. PICK d : d = [t EXCEPT !.pc = "finishing"]
    OBVIOUS
  <2>2. /\ turn' = [turn EXCEPT ![r] = d] /\ t.pc = "asked" /\ t.use = {} /\ TurnOnly
        /\ Written("turn", r, TRUE, Again("turn", r)) /\ writes # <<>>
        /\ owed' = owed /\ history' = history
    BY <1>0, <1>2, <2>1 DEF ReplyEnds, Saved, Awaits, Finish, To, AtPc
  <2>3. d \in Turn /\ RoundsOK(d) /\ ToolsOK(d) /\ d.pc = "finishing"
        /\ d.gen = t.gen /\ d.running = t.running
    BY <1>0, <2>1, <2>2 DEF Turn, RoundsOK, ToolsOK
  <2>4. HistoryStep(r, d)
    BY <1>0, <2>2, <2>3 DEF HistoryStep
  <2>. QED  BY <1>0, <2>2, <2>3, <2>4 DEF TurnStep, QueueStep, InTurn
<1>3. CASE BudgetSpent(r)
  <2>1. PICK d : d = [t EXCEPT !.pc = "finishing"]
    OBVIOUS
  <2>2. /\ turn' = [turn EXCEPT ![r] = d] /\ t.pc = "asked" /\ TurnOnly
        /\ Written("turn", r, TRUE, Again("turn", r)) /\ writes # <<>>
        /\ owed' = owed
        /\ history' = Append(history, Results(Ids(t.at, t.use)))
    BY <1>0, <1>3, <2>1 DEF BudgetSpent, Saved, Awaits, Finish, To, AtPc, Appends
  <2>3. d \in Turn /\ RoundsOK(d) /\ ToolsOK(d) /\ d.pc = "finishing"
        /\ d.gen = t.gen /\ d.running = t.running
    BY <1>0, <2>1, <2>2 DEF Turn, RoundsOK, ToolsOK
  <2>4. HistoryStep(r, d)
    BY <1>0, <2>2, <2>3 DEF HistoryStep
  <2>. QED  BY <1>0, <2>2, <2>3, <2>4 DEF TurnStep, QueueStep, InTurn
<1>4. CASE ExecuteRound(r)
  <2>0. /\ t.pc = "asked" /\ ~t.budget /\ TurnOnly /\ owed' = owed /\ history' = history
        /\ Written("turn", r, TRUE, <<>>) /\ writes # <<>> /\ Awaits("turn", r)
    BY <1>0, <1>4 DEF ExecuteRound, Saved, Awaits, AtPc
  <2>1. PICK same, last, chips, running, previewing :
          /\ same = (IF t.use = t.last THEN t.same + 1 ELSE 1)
          /\ last = t.use
          /\ chips = (IF t.use \subseteq Chips THEN t.chips + 1 ELSE t.chips)
          /\ running = UnlessAborted(t, {x \in t.use : RunsAtOnce(x)})
          /\ previewing = UnlessAborted(t, {x \in t.use : NeedsAPerson(x)})
    OBVIOUS
  <2>2. /\ same \in Nat /\ chips \in Nat /\ last \subseteq Tools
        /\ running \subseteq t.use /\ previewing \subseteq t.use /\ t.use \subseteq Tools
        /\ \A x \in previewing : Policy[x] # "never"
        /\ \A x \in running : RunsAtOnce(x)
        /\ running # {} => ~t.aborted
    BY <1>0, <2>1, TurnFacts DEF UnlessAborted, NeedsAPerson
  <2>3. PICK d : d = [t EXCEPT !.pc = "tools", !.same = same, !.last = last,
                               !.chips = chips, !.running = running,
                               !.previewing = previewing]
    OBVIOUS
  <2>4. turn' = [turn EXCEPT ![r] = d]
    BY <1>0, <1>4, <2>1, <2>3 DEF ExecuteRound, To
  <2>5. /\ d \in Turn /\ RoundsOK(d) /\ ToolsOK(d) /\ d.pc = "tools" /\ d.at = t.at
        /\ d.use = t.use /\ d.gen = t.gen /\ d.running = running /\ d.aborted = t.aborted
    BY <1>0, <2>0, <2>2, <2>3 DEF Turn, RoundsOK, ToolsOK
  <2>6. HistoryStep(r, d)
    BY <1>0, <2>0, <2>5 DEF HistoryStep
  <2>7. d.running \subseteq turn[r].running \/ StartsTools(r, d)
    BY <1>0, <2>0, <2>2, <2>5 DEF StartsTools
  <2>. QED  BY <1>0, <2>0, <2>4, <2>5, <2>6, <2>7 DEF TurnStep, QueueStep, InTurn
<1>5. CASE RoundEndsTurn(r)
  <2>1. PICK d : d = [t EXCEPT !.pc = "finishing"]
    OBVIOUS
  <2>2. /\ turn' = [turn EXCEPT ![r] = d] /\ t.pc = "answered" /\ TurnOnly
        /\ Written("turn", r, TRUE, Again("turn", r)) /\ writes # <<>>
        /\ owed' = owed /\ history' = history
    BY <1>0, <1>5, <2>1 DEF RoundEndsTurn, Saved, Awaits, Finish, To, AtPc
  <2>3. d \in Turn /\ RoundsOK(d) /\ ToolsOK(d) /\ d.pc = "finishing"
        /\ d.gen = t.gen /\ d.running = t.running
    BY <1>0, <2>1, <2>2 DEF Turn, RoundsOK, ToolsOK
  <2>4. HistoryStep(r, d)
    BY <1>0, <2>2, <2>3 DEF HistoryStep
  <2>. QED  BY <1>0, <2>2, <2>3, <2>4 DEF TurnStep, QueueStep, InTurn
<1>6. CASE NextRound(r) /\ BudgetIsSpent(t)
  <2>1. PICK d : d = [t EXCEPT !.pc = "noticed", !.budget = TRUE]
    OBVIOUS
  <2>2. /\ turn' = [turn EXCEPT ![r] = d] /\ t.pc = "answered" /\ TurnOnly
        /\ Written("turn", r, TRUE, Again("turn", r)) /\ writes # <<>>
        /\ owed' = owed /\ history' = Append(history, Says("text"))
    BY <1>0, <1>6, <2>1 DEF NextRound, Saved, Awaits, To, AtPc, Appends
  <2>3. d \in Turn /\ RoundsOK(d) /\ ToolsOK(d) /\ d.pc = "noticed"
        /\ d.gen = t.gen /\ d.running = t.running
    BY <1>0, <2>1, <2>2 DEF Turn, RoundsOK, ToolsOK
  <2>4. HistoryStep(r, d)
    BY <1>0, <2>2, <2>3 DEF HistoryStep
  <2>. QED  BY <1>0, <2>2, <2>3, <2>4 DEF TurnStep, QueueStep, InTurn
<1>7. CASE NextRound(r) /\ ~BudgetIsSpent(t)
  <2>1. PICK d : d = [t EXCEPT !.pc = "stream"]
    OBVIOUS
  <2>2. /\ turn' = [turn EXCEPT ![r] = d] /\ t.pc = "answered" /\ TurnOnly
        /\ Written("turn", r, TRUE, <<>>) /\ writes # <<>>
        /\ owed' = {} /\ history' = history
    BY <1>0, <1>7, <2>1 DEF NextRound, Saved, Awaits, StreamAgain, To, AtPc
  <2>3. d \in Turn /\ RoundsOK(d) /\ ToolsOK(d) /\ d.pc = "stream"
        /\ d.gen = t.gen /\ d.running = t.running
    <3>1. t.rounds < MaxRounds /\ ~t.budget
      <4>1. MaxRounds \in Nat /\ t.rounds \in 0 .. MaxRounds + 1
        BY <1>0, TurnFacts DEF AgentAssumption
      <4>. QED  BY <1>0, <1>7, <2>2, <4>1 DEF BudgetIsSpent, RoundsOK
    <3>. QED  BY <1>0, <2>1, <2>2, <3>1 DEF Turn, RoundsOK, ToolsOK
  <2>4. HistoryStep(r, d)
    BY <1>0, <2>2, <2>3 DEF HistoryStep
  <2>. QED  BY <1>0, <2>2, <2>3, <2>4 DEF TurnStep, QueueStep, InTurn
<1>8. CASE BudgetNoticed(r)
  <2>1. PICK d : d = [t EXCEPT !.pc = "stream"]
    OBVIOUS
  <2>2. /\ turn' = [turn EXCEPT ![r] = d] /\ t.pc = "noticed" /\ TurnOnly
        /\ Written("turn", r, TRUE, <<>>) /\ writes # <<>>
        /\ owed' = {} /\ history' = history
    BY <1>0, <1>8, <2>1 DEF BudgetNoticed, Saved, Awaits, StreamAgain, To, AtPc
  <2>3. d \in Turn /\ RoundsOK(d) /\ ToolsOK(d) /\ d.pc = "stream"
        /\ d.gen = t.gen /\ d.running = t.running
    BY <1>0, <2>1, <2>2 DEF Turn, RoundsOK, ToolsOK
  <2>4. HistoryStep(r, d)
    BY <1>0, <2>2, <2>3 DEF HistoryStep
  <2>. QED  BY <1>0, <2>2, <2>3, <2>4 DEF TurnStep, QueueStep, InTurn
<1>9. CASE TidySaved(r)
  <2>0. PICK ok \in BOOLEAN :
          /\ Written("tidy", r, ok, <<>>)
          /\ To(r, IF ok THEN [Idle EXCEPT !.pc = "refreshing"] ELSE Idle)
    BY <1>9 DEF TidySaved
  <2>1. PICK p \in {"none", "refreshing"} : p = (IF ok THEN "refreshing" ELSE "none")
    OBVIOUS
  <2>2. PICK d : d = [Idle EXCEPT !.pc = p]
    OBVIOUS
  <2>3. /\ turn' = [turn EXCEPT ![r] = d] /\ t.pc = "tidying" /\ TurnOnly
        /\ writes # <<>> /\ owed' = owed /\ history' = history
    <3>1. d = IF ok THEN [Idle EXCEPT !.pc = "refreshing"] ELSE Idle
      BY <2>1, <2>2 DEF Idle
    <3>2. t.pc = "tidying"
      BY <1>0, <1>9, HeadStands DEF TidySaved
    <3>. QED  BY <1>9, <2>0, <3>1, <3>2 DEF TidySaved, Awaits, To
  <2>4. d \in Turn /\ RoundsOK(d) /\ ToolsOK(d) /\ d.pc = p /\ d.running = {}
    BY <2>2, IdleIsTyped
  <2>5. HistoryStep(r, d)
    BY <1>0, <2>3, <2>4 DEF HistoryStep
  <2>. QED  BY <1>0, <2>0, <2>3, <2>4, <2>5 DEF TurnStep, QueueStep, InTurn
<1>. QED  BY <1>0, <1>2, <1>3, <1>4, <1>5, <1>6, <1>7, <1>8, <1>9 DEF SavedStep

-----------------------------------------------------------------------------
(* What every step does to the disk that neither deletes nor restarts.       *)
DiskMoves ==
    /\ writes' \in Seq(Waiter) /\ snap' \in File /\ file' \in File /\ Once'
    /\ live' \in BOOLEAN /\ failed' \in BOOLEAN /\ (failed => failed')
    /\ file' = file \/ (writes # <<>> /\ file' = snap)
    /\ writes' # <<>> =>
         \/ writes # <<>> /\ Head(writes') = Head(writes) /\ snap' = snap
         \/ snap' = Memory'
    /\ del' = [del EXCEPT !.left = del'.left] /\ del'.left \in Nat

LEMMA NothingSaved ==
    ASSUME SessionInv, NoSave
    PROVE  /\ DiskMoves /\ \A v : Pending(v)' <=> Pending(v)
           /\ file' = file /\ live' = live /\ failed' = failed /\ del' = del
           /\ writes' = writes /\ snap' = snap
<1>1. writes' = writes /\ snap' = snap /\ file' = file /\ live' = live
      /\ failed' = failed /\ del' = del
  BY DEF NoSave, diskVars
<1>2. del.left \in Nat /\ del = [del EXCEPT !.left = del.left]
  BY DEF SessionInv, TypeOK
<1>. QED  BY <1>1, <1>2 DEF SessionInv, TypeOK, QueueInv, DiskMoves, Once, Pending

LEMMA Saves ==
    ASSUME SessionInv, history' \in Seq(Message), allowed' \in SUBSET Tools,
           NEW who \in {"turn", "message", "notice", "tidy", "frame"},
           NEW r \in Requests, ~Pending(Entry(who, r)), Save(who, r)
    PROVE  /\ DiskMoves /\ Joins(Entry(who, r))
           /\ file' = file /\ live' = TRUE /\ failed' = failed /\ del' = del
<1>1. Entry(who, r) \in Waiter
  BY DEF Entry, Waiter
<1>2. Joins(Entry(who, r))
  BY <1>1, ChainJoined, MemoryIsAFile DEF Save, Entry, SessionInv, TypeOK, QueueInv
<1>3. file' = file /\ live' = TRUE /\ failed' = failed /\ del' = del
  BY DEF Save
<1>4. del.left \in Nat /\ del = [del EXCEPT !.left = del.left]
  BY DEF SessionInv, TypeOK
<1>. QED  BY <1>2, <1>3, <1>4 DEF SessionInv, TypeOK, DiskMoves, Joins

LEMMA WriteEnds ==
    ASSUME SessionInv, history' \in Seq(Message), allowed' \in SUBSET Tools, writes # <<>>,
           NEW who \in {"turn", "message", "notice", "tidy", "frame"},
           NEW r \in Requests, NEW ok \in BOOLEAN, Written(who, r, ok, <<>>)
    PROVE  /\ DiskMoves /\ LeavesChain(Entry(who, r))
           /\ live' = live /\ file' = (IF ok THEN snap ELSE file)
           /\ failed' = (failed \/ ~ok)
           /\ del' = [del EXCEPT !.left = IF @ = 0 THEN 0 ELSE @ - 1]
<1>1. LeavesChain(Entry(who, r))
  BY ChainLeft, MemoryIsAFile DEF Written, Entry, SessionInv, TypeOK, QueueInv
<1>2. /\ live' = live /\ file' = (IF ok THEN snap ELSE file)
      /\ failed' = (failed \/ ~ok)
      /\ del' = [del EXCEPT !.left = IF @ = 0 THEN 0 ELSE @ - 1]
  BY DEF Written, SessionInv, TypeOK
<1>3. del.left \in Nat /\ del = [del EXCEPT !.left = del.left]
      /\ del \in [pc : {"no", "waiting", "removing", "gone", "lost"},
                  left : Nat, turn : Requests \cup {Nobody}]
  BY DEF SessionInv, TypeOK
<1>4. del'.left \in Nat /\ del' = [del EXCEPT !.left = del'.left]
  BY <1>2, <1>3
<1>. QED  BY <1>1, <1>2, <1>4 DEF SessionInv, TypeOK, DiskMoves, LeavesChain

LEMMA WriteGoesOn ==
    ASSUME SessionInv, history' \in Seq(Message), allowed' \in SUBSET Tools, writes # <<>>,
           NEW who \in {"turn", "message", "notice", "tidy", "frame"},
           NEW r \in Requests, NEW ok \in BOOLEAN,
           NEW x \in {"turn", "tidy"}, x = who \/ ~Pending(Entry(x, r)),
           Written(who, r, ok, Again(x, r))
    PROVE  /\ DiskMoves /\ Replaces(Entry(who, r), Entry(x, r))
           /\ live' = TRUE /\ file' = (IF ok THEN snap ELSE file)
           /\ failed' = (failed \/ ~ok)
           /\ del' = [del EXCEPT !.left = IF @ = 0 THEN 0 ELSE @ - 1]
<1>0. Entry(x, r) \in Waiter /\ (Entry(x, r) = Entry(who, r) \/ ~Pending(Entry(x, r)))
      /\ Again(x, r) = <<Entry(x, r)>>
  BY DEF Entry, Waiter, Again
<1>1. Replaces(Entry(who, r), Entry(x, r))
  <2>1. Chain(Tail(writes), <<Entry(x, r)>>) /\ Head(writes) = Entry(who, r)
    BY <1>0 DEF Written, Entry
  <2>. QED  BY <1>0, <2>1, ChainReplaced, MemoryIsAFile DEF SessionInv, TypeOK, QueueInv
<1>2. /\ live' = TRUE /\ file' = (IF ok THEN snap ELSE file)
      /\ failed' = (failed \/ ~ok)
      /\ del' = [del EXCEPT !.left = IF @ = 0 THEN 0 ELSE @ - 1]
  BY DEF Written, SessionInv, TypeOK, Again
<1>3. del.left \in Nat
      /\ del \in [pc : {"no", "waiting", "removing", "gone", "lost"},
                  left : Nat, turn : Requests \cup {Nobody}]
  BY DEF SessionInv, TypeOK
<1>4. del'.left \in Nat /\ del' = [del EXCEPT !.left = del'.left]
  BY <1>2, <1>3
<1>. QED  BY <1>1, <1>2, <1>4 DEF SessionInv, TypeOK, DiskMoves, Replaces

(* The history only grows, and keeps the ids of every message.               *)
Grows ==
    /\ history' \in Seq(Message)
    /\ \A i \in DOMAIN history : i \in DOMAIN history' /\ history'[i].ids = history[i].ids

LEMMA MessagesAreTyped ==
    ASSUME NEW at \in Nat, NEW use \in SUBSET Tools
    PROVE  /\ Says("text") \in Message /\ Says("image") \in Message
           /\ Assistant({}) \in Message
           /\ Assistant(Ids(at, use)) \in Message /\ Results(Ids(at, use)) \in Message
           /\ Assistant(Ids(at, use)).ids = Ids(at, use)
<1>1. Ids(at, use) \in SUBSET (Nat \X Tools)
  BY DEF Ids
<1>. QED  BY <1>1 DEF Message, Says, Assistant, Results

LEMMA HistoryGrows ==
    ASSUME SessionInv, NEW r \in Requests, NEW d \in Turn, HistoryStep(r, d)
    PROVE  /\ Grows
           /\ d.pc = "asked" => Holds(history', d)
           /\ d.pc = "tools" => Working(turn[r]) /\ d.at = turn[r].at /\ d.use = turn[r].use
<1>. USE DEF Working
<1>1. history \in Seq(Message) /\ Len(history) \in Nat /\ Len(history) + 1 \in Nat
      /\ turn[r] \in Turn
  BY TurnIsTyped DEF SessionInv, TypeOK
<1>2. ASSUME NEW m \in Message, history' = Append(history, m)  PROVE Grows
  BY <1>1, <1>2, MessagesAreKept DEF Grows
<1>3. ASSUME NEW m \in Message, NEW n \in Message, history' = history \o <<m, n>>  PROVE Grows
  BY <1>1, <1>3, TwoMessagesAreKept DEF Grows
<1>4. history' = history => Grows
  BY <1>1 DEF Grows
<1>5. Grows
  <2>1. ASSUME NEW use \in SUBSET Tools,
               history' = history \o SettledCalls(Len(history) + 1, use)
        PROVE  Grows
    BY <1>1, <1>3, <2>1, MessagesAreTyped DEF SettledCalls
  <2>2. d.use \in SUBSET Tools /\ turn[r].use \in SUBSET Tools /\ turn[r].at \in Nat
    BY <1>1, TurnFacts
  <2>. QED  BY <1>1, <1>2, <1>4, <2>1, <2>2, MessagesAreTyped DEF HistoryStep
<1>6. ASSUME d.pc = "asked"  PROVE Holds(history', d)
  <2>1. history' = Append(history, Assistant(Ids(Len(history) + 1, d.use)))
        /\ d.at = Len(history) + 1 /\ d.use \in SUBSET Tools
    BY <1>6, TurnFacts DEF HistoryStep
  <2>2. Assistant(Ids(Len(history) + 1, d.use)) \in Message
        /\ Assistant(Ids(Len(history) + 1, d.use)).ids = Ids(Len(history) + 1, d.use)
    BY <1>1, <2>1, MessagesAreTyped
  <2>. QED  BY <1>1, <2>1, <2>2, MessagesAreKept DEF Holds
<1>7. d.pc = "tools" => Working(turn[r]) /\ d.at = turn[r].at /\ d.use = turn[r].use
  BY DEF HistoryStep
<1>. QED  BY <1>5, <1>6, <1>7

-----------------------------------------------------------------------------
(* What the disk owes a turn stays true while the turn stands still.         *)
LEMMA HoldsGrows ==
    ASSUME SessionInv, Grows, NEW t, NEW u, t.at = u.at, t.use = u.use, Holds(history, t)
    PROVE  Holds(history', u)
BY DEF Grows, Holds

LEMMA DiskKept ==
    ASSUME SessionInv, DiskMoves, Grows, NEW q \in Requests,
           turn'[q].pc = turn[q].pc, turn'[q].at = turn[q].at, turn'[q].use = turn[q].use,
           turn[q].pc = "asked" /\ Awaits("turn", q) /\ ~Removed => allowed' = allowed
    PROVE  DiskOK(q)'
<1>. USE DEF Working
<1>1. DiskOK(q) /\ (Removed' <=> Removed)
  BY DEF SessionInv, TypeOK, DiskInv, DiskMoves, Removed
<1>2. Working(turn[q]) => Holds(history', turn'[q])
  BY <1>1, HoldsGrows DEF DiskOK
<1>3. ASSUME turn[q].pc = "tools", ~Removed  PROVE Holds(file'.messages, turn'[q])
  BY <1>1, <1>3 DEF DiskOK, DiskMoves, Holds
<1>4. Memory'.messages = history' /\ Memory'.allowed = allowed'
  BY DEF Memory
<1>5. ASSUME turn[q].pc = "tools", writes' # <<>>  PROVE Holds(snap'.messages, turn'[q])
  <2>1. CASE snap' = Memory'
    BY <1>2, <1>4, <1>5, <2>1
  <2>2. CASE snap' # Memory'
    BY <1>1, <1>5, <2>2 DEF DiskOK, DiskMoves, Holds
  <2>. QED  BY <2>1, <2>2
<1>6. ASSUME turn[q].pc = "asked", Awaits("turn", q)'
      PROVE  Holds(snap'.messages, turn'[q]) /\ (~Removed => allowed' \subseteq snap'.allowed)
  <2>1. CASE snap' = Memory'
    BY <1>2, <1>4, <1>6, <2>1
  <2>2. CASE snap' # Memory'
    <3>1. Awaits("turn", q) /\ snap' = snap
      BY <1>6, <2>2 DEF Awaits, DiskMoves
    <3>. QED  BY <1>1, <1>6, <3>1 DEF DiskOK, Holds
  <2>. QED  BY <2>1, <2>2
<1>. QED  BY <1>1, <1>2, <1>3, <1>5, <1>6 DEF DiskOK

(* The chain of saves after a step of a turn.                                *)
LEMMA TurnStepQueue ==
    ASSUME SessionInv, NEW r \in Requests, NEW d, TurnStep(r, d)
    PROVE  /\ DiskMoves /\ Grows
           /\ \A v : Pending(v)' => Pending(v) \/ v = Entry("turn", r)
           /\ Pending(Entry("turn", r))' => d.pc \in SavingPc
           /\ ~Pending(Entry("tidy", r))'
           /\ d.pc = "asked" /\ Awaits("turn", r)' => snap' = Memory'
           /\ d.pc = "tools" /\ turn[r].pc = "asked" => Awaits("turn", r) /\ file' = snap
<1>. USE DEF SavingPc, OffTurn, Awaited, Working
<1>1. d \in Turn /\ Grows /\ history' \in Seq(Message) /\ allowed' \in SUBSET Tools
      /\ writes \in Seq(Waiter)
  BY HistoryGrows DEF TurnStep, TurnOnly, Grows, SessionInv, TypeOK
<1>2. /\ Pending(Entry("turn", r)) => turn[r].pc \in SavingPc
      /\ Pending(Entry("tidy", r)) => turn[r].pc = "tidying"
      /\ Entry("turn", r) # Entry("tidy", r)
  BY DEF SessionInv, QueueInv, QueueOK, Entry
<1>3. CASE NoSave /\ turn[r].pc \notin Awaited /\ d.pc \notin Awaited
           /\ (d.pc = "tools" => turn[r].pc = "tools")
  BY <1>1, <1>2, <1>3, NothingSaved
<1>4. CASE Save("turn", r) /\ turn[r].pc \notin Awaited /\ d.pc \in SavingPc
  <2>1. DiskMoves /\ Joins(Entry("turn", r))
    BY <1>1, <1>2, <1>4, Saves
  <2>2. Awaits("turn", r)' => snap' = Memory'
    <3>1. ASSUME writes # <<>>, Head(writes) = Entry("turn", r)  PROVE FALSE
      BY <1>1, <1>2, <1>4, <3>1, HeadIsPending
    <3>. QED  BY <2>1, <3>1 DEF Joins, Awaits, Entry
  <2>. QED  BY <1>1, <1>2, <1>4, <2>1, <2>2 DEF Joins
<1>5. CASE Written("turn", r, TRUE, <<>>) /\ writes # <<>> /\ d.pc \notin Awaited
  <2>1. DiskMoves /\ LeavesChain(Entry("turn", r)) /\ file' = snap
    BY <1>1, <1>5, WriteEnds
  <2>2. Awaits("turn", r) /\ Pending(Entry("turn", r))
    BY <1>1, <1>5, HeadIsPending DEF Awaits, Written, Entry
  <2>. QED  BY <1>1, <1>2, <1>5, <2>1, <2>2 DEF LeavesChain
<1>6. CASE Written("turn", r, TRUE, Again("turn", r)) /\ writes # <<>>
           /\ d.pc \in SavingPc /\ ~Working(d)
  <2>1. DiskMoves /\ Replaces(Entry("turn", r), Entry("turn", r)) /\ file' = snap
    BY <1>1, <1>6, WriteGoesOn
  <2>2. Pending(Entry("turn", r))
    BY <1>1, <1>6, HeadIsPending DEF Written, Entry
  <2>. QED  BY <1>1, <1>2, <1>6, <2>1, <2>2 DEF Replaces
<1>7. ASSUME NEW ok \in BOOLEAN, Written("tidy", r, ok, <<>>), writes # <<>>,
             d.pc \in {"none", "refreshing"}
      PROVE  DiskMoves /\ LeavesChain(Entry("tidy", r)) /\ Pending(Entry("tidy", r))
  <2>1. DiskMoves /\ LeavesChain(Entry("tidy", r))
    BY <1>1, <1>7, WriteEnds
  <2>. QED  BY <1>1, <1>7, <2>1, HeadIsPending DEF Written, Entry
<1>8. CASE /\ \E ok \in BOOLEAN : Written("tidy", r, ok, <<>>)
           /\ writes # <<>> /\ d.pc \in {"none", "refreshing"}
  BY <1>1, <1>2, <1>7, <1>8 DEF LeavesChain
<1>. QED  BY <1>3, <1>4, <1>5, <1>6, <1>8 DEF TurnStep, QueueStep

LEMMA TurnStepKeeps ==
    ASSUME SessionInv, NEW r \in Requests, NEW d, TurnStep(r, d)
    PROVE  SessionInv'
<1>. USE DEF SavingPc, OffTurn, Working
<1>0. /\ DiskMoves /\ Grows
      /\ \A v : Pending(v)' => Pending(v) \/ v = Entry("turn", r)
      /\ Pending(Entry("turn", r))' => d.pc \in SavingPc
      /\ ~Pending(Entry("tidy", r))'
      /\ d.pc = "asked" /\ Awaits("turn", r)' => snap' = Memory'
      /\ d.pc = "tools" /\ turn[r].pc = "asked" => Awaits("turn", r) /\ file' = snap
  BY TurnStepQueue
<1>1. /\ allowed' = allowed /\ gen' = gen /\ active' = active /\ starting' = starting
      /\ req' = req /\ home' = home /\ frame' = frame /\ crashes' = crashes
      /\ consent' = consent /\ late' = late /\ overtaken' = overtaken
  BY DEF TurnStep, TurnOnly, rtVars
<1>2. /\ d \in Turn /\ RoundsOK(d) /\ ToolsOK(d)
      /\ turn[r].pc # "none"
      /\ InTurn(r) => d.pc \notin OffTurn /\ d.gen = turn[r].gen
      /\ ~InTurn(r) => d.pc \in {"none", "refreshing"}
      /\ HistoryStep(r, d)
      /\ owed' = owed \/ owed' = {}
  BY DEF TurnStep
<1>3. /\ turn \in [Requests -> Turn] /\ turn' \in [Requests -> Turn] /\ turn'[r] = d
      /\ \A q \in Requests : q # r => turn'[q] = turn[q]
  BY <1>2, TurnIsTyped DEF TurnStep
<1>4. TypeOK'
  <2>1. owed' \in SUBSET Requests
    BY <1>2 DEF SessionInv, TypeOK
  <2>. QED  BY <1>0, <1>1, <1>3, <2>1 DEF SessionInv, TypeOK, DiskMoves, Grows
<1>5. TurnsOK'
  BY <1>2, <1>3 DEF SessionInv, TurnsOK
<1>6. QueueInv'
  <2>1. ASSUME NEW q \in Requests  PROVE QueueOK(q)'
    <3>0. QueueOK(q)
      BY DEF SessionInv, QueueInv
    <3>1. CASE q = r
      <4>1. \A who : who # "turn" => Entry(who, r) # Entry("turn", r)
        BY DEF Entry
      <4>. QED  BY <1>0, <1>1, <1>3, <3>0, <3>1, <4>1 DEF QueueOK
    <3>2. CASE q # r
      <4>1. \A who : Entry(who, q) # Entry("turn", r)
        BY <3>2 DEF Entry
      <4>. QED  BY <1>0, <1>1, <1>3, <3>0, <3>2, <4>1 DEF QueueOK
    <3>. QED  BY <3>1, <3>2
  <2>. QED  BY <1>0, <2>1 DEF QueueInv, DiskMoves
<1>7. OneActive'
  <2>0. OneActive /\ del'.pc = del.pc /\ del'.turn = del.turn
        /\ active \in [Gens -> Requests \cup {Nobody}]
    BY <1>0 DEF SessionInv, TypeOK, DiskMoves
  <2>1. ASSUME NEW q \in Requests  PROVE InTurn(q)' => InTurn(q) /\ turn'[q].gen = turn[q].gen
    BY <1>2, <1>3 DEF InTurn
  <2>2. ASSUME NEW q \in Requests  PROVE InTurn(q) => InTurn(q)' /\ turn'[q].gen = turn[q].gen
    BY <1>2, <1>3 DEF InTurn
  <2>3. req[r] = "over"
    BY <1>2, <2>0 DEF OneActive
  <2>. QED  BY <1>1, <1>3, <2>0, <2>1, <2>2, <2>3 DEF OneActive, Removed
<1>8. Reserved'
  BY <1>1 DEF SessionInv, Reserved
<1>9. DeletionOK'
  <2>1. UnderWay(r)
    BY <1>2 DEF UnderWay
  <2>2. del'.pc = del.pc
    BY <1>0 DEF DiskMoves, SessionInv, TypeOK
  <2>. QED  BY <1>1, <2>1, <2>2 DEF SessionInv, DeletionOK, Removed
<1>10. DiskInv'
  <2>1. ASSUME NEW q \in Requests, q # r  PROVE DiskOK(q)'
    BY <1>0, <1>1, <1>3, <2>1, DiskKept
  <2>2. CASE d.pc = turn[r].pc /\ Working(d)
    <3>1. d.at = turn[r].at /\ d.use = turn[r].use
      BY <1>2, <2>2 DEF HistoryStep
    <3>2. DiskOK(r)'
      BY <1>0, <1>1, <1>3, <2>2, <3>1, DiskKept
    <3>. QED  BY <2>1, <3>2 DEF DiskInv
  <2>3. CASE d.pc = "asked"
    <3>1. Holds(history', d)
      BY <1>2, <2>3, HistoryGrows
    <3>2. Memory'.messages = history' /\ Memory'.allowed = allowed'
      BY DEF Memory
    <3>3. DiskOK(r)'
      BY <1>0, <1>3, <2>3, <3>1, <3>2 DEF DiskOK
    <3>. QED  BY <2>1, <3>3 DEF DiskInv
  <2>4. CASE d.pc = "tools" /\ turn[r].pc = "asked"
    <3>1. d.at = turn[r].at /\ d.use = turn[r].use
      BY <1>2, <2>4 DEF HistoryStep
    <3>2. DiskOK(r)
      BY DEF SessionInv, DiskInv
    <3>3. Holds(history', d)
      BY <1>0, <2>4, <3>1, <3>2, HoldsGrows DEF DiskOK
    <3>4. file' = snap /\ Holds(snap.messages, d)
      BY <1>0, <2>4, <3>1, <3>2 DEF DiskOK, Holds
    <3>5. writes' # <<>> => snap' = snap \/ snap'.messages = history'
      BY <1>0 DEF DiskMoves, Memory
    <3>6. DiskOK(r)'
      BY <1>3, <2>4, <3>3, <3>4, <3>5 DEF DiskOK
    <3>. QED  BY <2>1, <3>6 DEF DiskInv
  <2>5. CASE ~Working(d)
    <3>1. DiskOK(r)'
      BY <1>3, <2>5 DEF DiskOK
    <3>. QED  BY <2>1, <3>1 DEF DiskInv
  <2>6. d.pc = "tools" => Working(turn[r])
    BY <1>2, HistoryGrows
  <2>. QED  BY <2>2, <2>3, <2>4, <2>5, <2>6
<1>11. FrameOK'
  BY <1>1 DEF SessionInv, FrameOK
<1>12. OwedOK'
  <2>1. ~Upset' => ~Upset
    BY <1>0, <1>1 DEF Upset, DiskMoves
  <2>2. ASSUME NEW q \in Requests  PROVE InTurn(q)' => InTurn(q)
    BY <1>2, <1>3 DEF InTurn
  <2>. QED  BY <1>1, <1>2, <2>1, <2>2 DEF SessionInv, OwedOK
<1>. QED  BY <1>4, <1>5, <1>6, <1>7, <1>8, <1>9, <1>10, <1>11, <1>12 DEF SessionInv

-----------------------------------------------------------------------------
(* A step of the people: cards answered or expired, the cancel button.       *)
PersonStep(r, d) ==
    /\ PeopleOnly
    /\ d \in Turn /\ turn' = [turn EXCEPT ![r] = d] /\ RoundsOK(d) /\ ToolsOK(d)
    /\ d.pc = turn[r].pc /\ d.gen = turn[r].gen /\ d.at = turn[r].at /\ d.use = turn[r].use
    /\ consent \subseteq consent' /\ consent' \subseteq Nat \X Tools
    /\ \/ NoSave /\ allowed' = allowed /\ frame' = frame
       \/ /\ Save("frame", r) /\ frame = NoFrame /\ turn[r].pc = "tools" /\ live
          /\ \E calls \in SUBSET Tools :
               /\ allowed' = allowed \cup calls
               /\ frame' = [of |-> r, calls |-> Ids(turn[r].at, calls)]
               /\ Ids(turn[r].at, calls) \subseteq consent'
       \/ /\ \E ok \in BOOLEAN : Written("frame", r, ok, <<>>)
          /\ writes # <<>> /\ allowed' = allowed /\ frame' = NoFrame
    /\ \A x \in d.running \ turn[r].running :
         ~turn[r].aborted /\ <<d.at, x>> \in consent' /\ Policy[x] # "never"

(* Calls taken off the screen, some of them to run.                          *)
LEMMA CardsSettled ==
    ASSUME NEW t \in Turn, RoundsOK(t), ToolsOK(t), NEW calls, calls \subseteq t.waiting,
           NEW d, d \in {t, Settled(t, calls), Executes(t, calls), Cancelled(t)}
    PROVE  /\ d \in Turn /\ RoundsOK(d) /\ ToolsOK(d)
           /\ d.pc = t.pc /\ d.gen = t.gen /\ d.at = t.at /\ d.use = t.use
           /\ d \in {t, Settled(t, calls), Cancelled(t)} => d.running = t.running
           /\ \A x \in d.running \ t.running : ~t.aborted /\ x \in calls /\ Policy[x] # "never"
<1>1. CASE d = t
  BY <1>1
<1>2. CASE d = Settled(t, calls)
  <2>1. d = [t EXCEPT !.waiting = t.waiting \ calls]
    BY <1>2 DEF Settled
  <2>. QED  BY <2>1 DEF Turn, RoundsOK, ToolsOK
<1>3. CASE d = Executes(t, calls)
  <2>1. PICK s : s = [t EXCEPT !.waiting = t.waiting \ calls]
    OBVIOUS
  <2>2. s \in Turn /\ s.running = t.running /\ s.waiting = t.waiting \ calls
        /\ s.pc = t.pc /\ s.use = t.use /\ s.previewing = t.previewing /\ RoundsOK(s)
        /\ s.gen = t.gen /\ s.at = t.at
    BY <2>1 DEF Turn, RoundsOK
  <2>3. d = [s EXCEPT !.running = s.running \cup UnlessAborted(t, calls)]
    BY <1>3, <2>1 DEF Executes, Settled
  <2>4. UnlessAborted(t, calls) \subseteq calls /\ (t.aborted => UnlessAborted(t, calls) = {})
    BY DEF UnlessAborted
  <2>5. d \in Turn /\ d.pc = t.pc /\ d.gen = t.gen /\ d.at = t.at /\ d.use = t.use
        /\ d.running = t.running \cup UnlessAborted(t, calls) /\ d.waiting = t.waiting \ calls
        /\ d.previewing = t.previewing /\ RoundsOK(d)
    BY <2>2, <2>3, <2>4, TurnFacts DEF Turn, RoundsOK
  <2>6. d.aborted = t.aborted
    BY <2>1, <2>3 DEF Turn
  <2>7. ToolsOK(d)
    BY <2>4, <2>5 DEF ToolsOK
  <2>8. ASSUME NEW x \in d.running \ t.running
        PROVE  ~t.aborted /\ x \in calls /\ Policy[x] # "never"
    BY <2>4, <2>5, <2>6 DEF ToolsOK
  <2>9. d \in {t, Settled(t, calls), Cancelled(t)} => d.running = t.running
    BY DEF Settled, Cancelled, Turn
  <2>. QED  BY <2>5, <2>7, <2>8, <2>9
<1>4. CASE d = Cancelled(t)
  <2>1. d = [t EXCEPT !.aborted = TRUE, !.waiting = {}]
    BY <1>4 DEF Cancelled
  <2>. QED  BY <2>1 DEF Turn, RoundsOK, ToolsOK
<1>. QED  BY <1>1, <1>2, <1>3, <1>4

LEMMA PersonSteps ==
    ASSUME SessionInv, NEW r \in Requests,
           Approve(r) \/ ApproveForSession(r) \/ Deny(r) \/ Expire(r) \/ FrameSaved(r)
    PROVE  \E d : PersonStep(r, d)
<1>0. PICK t : t = turn[r] /\ t \in Turn /\ RoundsOK(t) /\ ToolsOK(t)
  BY TurnIsTyped
<1>1. consent \subseteq Nat \X Tools /\ turn[r] = t /\ turn \in [Requests -> Turn]
  BY <1>0, TurnIsTyped DEF SessionInv, TypeOK
<1>2. CASE Approve(r)
  <2>1. PICK calls \in SUBSET Tools :
          /\ OnScreen(r, calls)
          /\ turn' = [turn EXCEPT ![r] = Executes(t, calls)]
          /\ consent' = consent \cup Ids(t.at, calls)
    BY <1>0, <1>2 DEF Approve, To
  <2>2. PICK d : d = Executes(t, calls)
    OBVIOUS
  <2>3. calls \subseteq t.waiting /\ PeopleOnly /\ NoSave /\ allowed' = allowed /\ frame' = frame
    BY <1>0, <1>2, <2>1 DEF Approve, OnScreen
  <2>4. /\ d \in Turn /\ RoundsOK(d) /\ ToolsOK(d)
        /\ d.pc = t.pc /\ d.gen = t.gen /\ d.at = t.at /\ d.use = t.use
        /\ \A x \in d.running \ t.running : ~t.aborted /\ x \in calls /\ Policy[x] # "never"
    BY <1>0, <2>2, <2>3, CardsSettled
  <2>5. Ids(t.at, calls) \subseteq Nat \X Tools /\ \A x \in calls : <<t.at, x>> \in Ids(t.at, calls)
    BY <1>0, TurnFacts DEF Ids
  <2>. QED  BY <1>1, <2>1, <2>2, <2>3, <2>4, <2>5 DEF PersonStep
<1>3. CASE ApproveForSession(r)
  <2>1. PICK calls \in SUBSET Tools :
          /\ OnScreen(r, calls)
          /\ allowed' = allowed \cup calls
          /\ frame' = [of |-> r, calls |-> Ids(t.at, calls)]
          /\ consent' = consent \cup Ids(t.at, calls)
          /\ Save("frame", r)
    BY <1>0, <1>3 DEF ApproveForSession
  <2>2. PeopleOnly /\ turn' = turn /\ frame = NoFrame /\ live /\ t.pc = "tools"
    <3>1. t.waiting # {} /\ live
      BY <1>0, <2>1 DEF OnScreen
    <3>. QED  BY <1>0, <1>3, <3>1 DEF ApproveForSession, ToolsOK
  <2>3. turn' = [turn EXCEPT ![r] = t]
    BY <1>1, <2>2
  <2>4. Ids(t.at, calls) \subseteq Nat \X Tools
    BY <1>0, TurnFacts DEF Ids
  <2>. QED  BY <1>0, <1>1, <2>1, <2>2, <2>3, <2>4 DEF PersonStep
<1>4. CASE Deny(r)
  <2>1. PICK calls \in SUBSET Tools :
          OnScreen(r, calls) /\ turn' = [turn EXCEPT ![r] = Settled(t, calls)]
    BY <1>0, <1>4 DEF Deny, To
  <2>2. PICK d : d = Settled(t, calls)
    OBVIOUS
  <2>3. calls \subseteq t.waiting /\ PeopleOnly /\ NoSave
        /\ allowed' = allowed /\ frame' = frame /\ consent' = consent
    BY <1>0, <1>4, <2>1 DEF Deny, OnScreen
  <2>4. /\ d \in Turn /\ RoundsOK(d) /\ ToolsOK(d) /\ d.running = t.running
        /\ d.pc = t.pc /\ d.gen = t.gen /\ d.at = t.at /\ d.use = t.use
    BY <1>0, <2>2, <2>3, CardsSettled
  <2>. QED  BY <1>1, <2>1, <2>2, <2>3, <2>4 DEF PersonStep
<1>5. CASE Expire(r)
  <2>1. turn' = [turn EXCEPT ![r] = Settled(t, t.waiting)]
    BY <1>0, <1>5 DEF Expire, To
  <2>2. PICK d : d = Settled(t, t.waiting)
    OBVIOUS
  <2>3. PeopleOnly /\ NoSave /\ allowed' = allowed /\ frame' = frame /\ consent' = consent
    BY <1>0, <1>5 DEF Expire
  <2>4. /\ d \in Turn /\ RoundsOK(d) /\ ToolsOK(d) /\ d.running = t.running
        /\ d.pc = t.pc /\ d.gen = t.gen /\ d.at = t.at /\ d.use = t.use
    BY <1>0, <2>2, <2>3, CardsSettled
  <2>. QED  BY <1>1, <2>1, <2>2, <2>3, <2>4 DEF PersonStep
<1>6. CASE FrameSaved(r)
  <2>1. PICK still : still = {x \in t.waiting : <<t.at, x>> \in frame.calls}
    OBVIOUS
  <2>2. PICK ok \in BOOLEAN :
          /\ Written("frame", r, ok, <<>>)
          /\ turn' = [turn EXCEPT ![r] = IF ok THEN Executes(t, still) ELSE t]
    BY <1>0, <1>6, <2>1 DEF FrameSaved, To
  <2>3. PICK d : d = IF ok THEN Executes(t, still) ELSE t
    OBVIOUS
  <2>4. PeopleOnly /\ allowed' = allowed /\ consent' = consent /\ frame' = NoFrame
        /\ writes # <<>>
    BY <1>6 DEF FrameSaved, Awaits
  <2>5. /\ d \in Turn /\ RoundsOK(d) /\ ToolsOK(d)
        /\ d.pc = t.pc /\ d.gen = t.gen /\ d.at = t.at /\ d.use = t.use
        /\ \A x \in d.running \ t.running : ~t.aborted /\ x \in still /\ Policy[x] # "never"
    <3>1. still \subseteq t.waiting /\ (d = t \/ d = Executes(t, still))
      BY <2>1, <2>3
    <3>. QED  BY <1>0, <3>1, CardsSettled
  <2>6. \A x \in still : <<t.at, x>> \in consent'
    BY <2>1, <2>4 DEF SessionInv, FrameOK
  <2>. QED  BY <1>1, <2>2, <2>3, <2>4, <2>5, <2>6 DEF PersonStep
<1>. QED  BY <1>2, <1>3, <1>4, <1>5, <1>6

(* The cancel button is a step of the people on the active turn.             *)
LEMMA CancelSteps ==
    ASSUME SessionInv, Cancel
    PROVE  \E r \in Requests : \E d : PersonStep(r, d)
<1>1. PICK r : r = active[gen] /\ r \in Requests
  BY DEF Cancel, SessionInv, TypeOK
<1>2. PICK t : t = turn[r] /\ t \in Turn /\ RoundsOK(t) /\ ToolsOK(t)
  BY <1>1, TurnIsTyped
<1>3. PICK d : d = Cancelled(t)
  OBVIOUS
<1>4. turn' = [turn EXCEPT ![r] = d] /\ PeopleOnly /\ NoSave
      /\ allowed' = allowed /\ frame' = frame /\ consent' = consent
  BY <1>1, <1>2, <1>3 DEF Cancel, CancelTurn, To
<1>5. /\ d \in Turn /\ RoundsOK(d) /\ ToolsOK(d) /\ d.running = t.running
      /\ d.pc = t.pc /\ d.gen = t.gen /\ d.at = t.at /\ d.use = t.use
  BY <1>2, <1>3, CardsSettled
<1>6. consent \subseteq Nat \X Tools
  BY DEF SessionInv, TypeOK
<1>. QED  BY <1>1, <1>2, <1>4, <1>5, <1>6 DEF PersonStep

Kinds == {"turn", "message", "notice", "tidy", "frame"}

LEMMA PersonStepQueue ==
    ASSUME SessionInv, AgentAssumption, NEW r \in Requests, NEW d, PersonStep(r, d)
    PROVE  /\ DiskMoves /\ allowed' \in SUBSET Tools /\ frame'.calls \subseteq consent'
           /\ frame' \in [of : Requests \cup {Nobody}, calls : SUBSET (Nat \X Tools)]
           /\ allowed' # allowed => turn[r].pc = "tools"
           /\ \A w \in Kinds \ {"frame"} : \A q \in Requests :
                Pending(Entry(w, q))' => Pending(Entry(w, q))
           /\ \A q \in Requests : Pending(Entry("frame", q))' => frame'.of = q
           /\ Removed /\ ~overtaken =>
                /\ live' = live
                /\ \/ writes' = writes /\ file' = file /\ del' = del
                   \/ /\ writes # <<>> /\ Len(writes') = Len(writes) - 1
                      /\ del' = [del EXCEPT !.left = IF @ = 0 THEN 0 ELSE @ - 1]
<1>1. history' = history /\ history \in Seq(Message) /\ writes \in Seq(Waiter)
      /\ consent \subseteq consent' /\ consent' \subseteq Nat \X Tools
  BY DEF PersonStep, PeopleOnly, SessionInv, TypeOK
<1>2. /\ Nobody \notin Requests /\ NoFrame.of = Nobody /\ NoFrame.calls = {}
      /\ NoFrame \in [of : Requests \cup {Nobody}, calls : SUBSET (Nat \X Tools)]
  BY DEF AgentAssumption, NoFrame
<1>3. \A q \in Requests : Pending(Entry("frame", q)) => frame.of = q
  BY DEF SessionInv, QueueInv, QueueOK
<1>4. \A w, q : Entry(w, q) = Entry("frame", r) => w = "frame" /\ q = r
  BY DEF Entry
<1>5. CASE NoSave /\ allowed' = allowed /\ frame' = frame
  <2>1. /\ DiskMoves /\ \A v : Pending(v)' <=> Pending(v)
        /\ file' = file /\ live' = live /\ del' = del /\ writes' = writes
    BY <1>5, NothingSaved
  <2>2. frame.calls \subseteq consent
    BY DEF SessionInv, FrameOK
  <2>. QED  BY <1>1, <1>3, <1>5, <2>1, <2>2 DEF SessionInv, TypeOK
<1>6. CASE /\ Save("frame", r) /\ frame = NoFrame /\ turn[r].pc = "tools" /\ live
           /\ \E calls \in SUBSET Tools :
                /\ allowed' = allowed \cup calls
                /\ frame' = [of |-> r, calls |-> Ids(turn[r].at, calls)]
                /\ Ids(turn[r].at, calls) \subseteq consent'
  <2>1. PICK calls \in SUBSET Tools :
           /\ allowed' = allowed \cup calls
           /\ frame' = [of |-> r, calls |-> Ids(turn[r].at, calls)]
           /\ Ids(turn[r].at, calls) \subseteq consent'
    BY <1>6
  <2>2. \A q \in Requests : ~Pending(Entry("frame", q))
    BY <1>2, <1>3, <1>6
  <2>3. allowed' \in SUBSET Tools
    BY <2>1 DEF SessionInv, TypeOK
  <2>4. DiskMoves /\ Joins(Entry("frame", r))
    BY <1>1, <1>6, <2>2, <2>3, Saves
  <2>5. ~(Removed /\ ~overtaken)
    BY <1>6 DEF SessionInv, DeletionOK
  <2>6. frame' \in [of : Requests \cup {Nobody}, calls : SUBSET (Nat \X Tools)]
        /\ frame'.of = r /\ frame'.calls \subseteq consent'
    BY <1>1, <2>1
  <2>7. \A v : Pending(v)' => Pending(v) \/ v = Entry("frame", r)
    BY <2>4 DEF Joins
  <2>8. \A q \in Requests : Pending(Entry("frame", q))' => frame'.of = q
    BY <1>4, <2>2, <2>6, <2>7
  <2>9. \A w \in Kinds \ {"frame"} : \A q \in Requests :
                Pending(Entry(w, q))' => Pending(Entry(w, q))
    BY <1>4, <2>7
  <2>. QED  BY <1>6, <2>3, <2>4, <2>5, <2>6, <2>8, <2>9
<1>7. ASSUME NEW ok \in BOOLEAN, Written("frame", r, ok, <<>>), writes # <<>>,
             allowed' = allowed, frame' = NoFrame
      PROVE  /\ DiskMoves /\ LeavesChain(Entry("frame", r)) /\ live' = live
             /\ del' = [del EXCEPT !.left = IF @ = 0 THEN 0 ELSE @ - 1]
             /\ Pending(Entry("frame", r))
  <2>1. allowed' \in SUBSET Tools
    BY <1>7 DEF SessionInv, TypeOK
  <2>2. Pending(Entry("frame", r))
    BY <1>1, <1>7, HeadIsPending DEF Written, Entry
  <2>. QED  BY <1>1, <1>7, <2>1, <2>2, WriteEnds
<1>8. CASE /\ \E ok \in BOOLEAN : Written("frame", r, ok, <<>>)
           /\ writes # <<>> /\ allowed' = allowed /\ frame' = NoFrame
  <2>1. /\ DiskMoves /\ LeavesChain(Entry("frame", r)) /\ live' = live
        /\ del' = [del EXCEPT !.left = IF @ = 0 THEN 0 ELSE @ - 1]
        /\ Pending(Entry("frame", r))
    BY <1>7, <1>8
  <2>2. allowed' \in SUBSET Tools
    BY <1>8 DEF SessionInv, TypeOK
  <2>3. Len(writes') = Len(writes) - 1
        /\ \A v : Pending(v)' => Pending(v) /\ v # Entry("frame", r)
    BY <2>1 DEF LeavesChain
  <2>4. \A q \in Requests : ~Pending(Entry("frame", q))'
    BY <1>3, <2>1, <2>3
  <2>. QED  BY <1>2, <1>8, <2>1, <2>2, <2>3, <2>4
<1>. QED  BY <1>5, <1>6, <1>8 DEF PersonStep

LEMMA PersonStepKeeps ==
    ASSUME SessionInv, AgentAssumption, NEW r \in Requests, NEW d, PersonStep(r, d)
    PROVE  SessionInv'
<1>1. /\ history' = history /\ gen' = gen /\ active' = active /\ starting' = starting
      /\ req' = req /\ home' = home /\ crashes' = crashes
      /\ owed' = owed /\ late' = late /\ overtaken' = overtaken
  BY DEF PersonStep, PeopleOnly, rtVars
<1>2. /\ d \in Turn /\ RoundsOK(d) /\ ToolsOK(d)
      /\ d.pc = turn[r].pc /\ d.gen = turn[r].gen /\ d.at = turn[r].at /\ d.use = turn[r].use
      /\ consent \subseteq consent' /\ consent' \subseteq Nat \X Tools
  BY DEF PersonStep
<1>3. /\ turn \in [Requests -> Turn] /\ turn' \in [Requests -> Turn] /\ turn'[r] = d
      /\ \A q \in Requests : q # r => turn'[q] = turn[q]
      /\ \A q \in Requests : /\ turn'[q].pc = turn[q].pc /\ turn'[q].gen = turn[q].gen
                             /\ turn'[q].at = turn[q].at /\ turn'[q].use = turn[q].use
  BY <1>2, TurnIsTyped DEF PersonStep
<1>4. /\ DiskMoves /\ allowed' \in SUBSET Tools /\ frame'.calls \subseteq consent'
      /\ frame' \in [of : Requests \cup {Nobody}, calls : SUBSET (Nat \X Tools)]
      /\ allowed' # allowed => turn[r].pc = "tools"
      /\ \A w \in Kinds \ {"frame"} : \A q \in Requests :
           Pending(Entry(w, q))' => Pending(Entry(w, q))
      /\ \A q \in Requests : Pending(Entry("frame", q))' => frame'.of = q
      /\ Removed /\ ~overtaken =>
           /\ live' = live
           /\ \/ writes' = writes /\ file' = file /\ del' = del
              \/ /\ writes # <<>> /\ Len(writes') = Len(writes) - 1
                 /\ del' = [del EXCEPT !.left = IF @ = 0 THEN 0 ELSE @ - 1]
  BY PersonStepQueue
<1>5. \A q \in Requests : (InTurn(q)' <=> InTurn(q)) /\ (UnderWay(q)' <=> UnderWay(q))
  BY <1>1, <1>3 DEF InTurn, UnderWay
<1>6. TypeOK'
  BY <1>1, <1>2, <1>3, <1>4 DEF SessionInv, TypeOK, DiskMoves
<1>7. TurnsOK'
  BY <1>2, <1>3 DEF SessionInv, TurnsOK
<1>8. QueueInv'
  <2>1. ASSUME NEW q \in Requests  PROVE QueueOK(q)'
    <3>1. QueueOK(q)
      BY DEF SessionInv, QueueInv
    <3>2. \A w \in {"turn", "message", "notice", "tidy"} :
            Pending(Entry(w, q))' => Pending(Entry(w, q))
      BY <1>4 DEF Kinds
    <3>. QED  BY <1>1, <1>3, <1>4, <3>1, <3>2 DEF QueueOK
  <2>. QED  BY <1>4, <2>1 DEF QueueInv, DiskMoves
<1>9. del'.pc = del.pc /\ del'.turn = del.turn
  BY <1>4 DEF DiskMoves, SessionInv, TypeOK
<1>10. OneActive'
  <2>1. OneActive /\ active \in [Gens -> Requests \cup {Nobody}]
    BY DEF SessionInv, TypeOK
  <2>. QED  BY <1>1, <1>3, <1>5, <1>9, <2>1 DEF OneActive, Removed
<1>11. Reserved'
  BY <1>1 DEF SessionInv, Reserved
<1>12. DeletionOK'
  <2> SUFFICES ASSUME Removed, ~overtaken
               PROVE  /\ ~live' /\ \A q \in Requests : ~UnderWay(q)'
                      /\ del.pc = "removing" => del'.left = Len(writes')
                      /\ del.pc = "gone" => writes' = <<>> /\ ~file'.exists
    BY <1>1, <1>9 DEF DeletionOK, Removed
  <2>1. /\ ~live /\ \A q \in Requests : ~UnderWay(q)
        /\ del.pc = "removing" => del.left = Len(writes)
        /\ del.pc = "gone" => writes = <<>> /\ ~file.exists
    BY DEF SessionInv, DeletionOK
  <2>2. CASE writes' = writes /\ file' = file /\ del' = del
    BY <1>4, <1>5, <2>1, <2>2
  <2>3. CASE /\ writes # <<>> /\ Len(writes') = Len(writes) - 1
             /\ del' = [del EXCEPT !.left = IF @ = 0 THEN 0 ELSE @ - 1]
    <3>1. Len(writes) \in Nat \ {0}
      BY <2>3 DEF SessionInv, TypeOK
    <3>2. del.pc = "removing" => del'.left = Len(writes) - 1
      BY <2>1, <2>3, <3>1 DEF SessionInv, TypeOK
    <3>. QED  BY <1>4, <1>5, <2>1, <2>3, <3>2
  <2>. QED  BY <1>4, <2>2, <2>3
<1>13. DiskInv'
  <2>1. ASSUME NEW q \in Requests, turn[q].pc = "asked", ~Removed  PROVE allowed' = allowed
    <3>1. ASSUME turn[r].pc = "tools"  PROVE FALSE
      <4>1. InTurn(q) /\ InTurn(r) /\ q # r
        BY <2>1, <3>1 DEF InTurn
      <4>. QED  BY <2>1, <4>1 DEF SessionInv, OneActive
    <3>. QED  BY <1>4, <3>1
  <2>2. Grows
    BY <1>1 DEF Grows, SessionInv, TypeOK
  <2>. QED  BY <1>3, <1>4, <2>1, <2>2, DiskKept DEF DiskInv
<1>14. FrameOK'
  BY <1>4 DEF FrameOK
<1>15. OwedOK'
  <2>1. ~Upset' => ~Upset
    BY <1>1, <1>4 DEF Upset, DiskMoves
  <2>. QED  BY <1>1, <1>5, <2>1 DEF SessionInv, OwedOK
<1>. QED  BY <1>6, <1>7, <1>8, <1>10, <1>11, <1>12, <1>13, <1>14, <1>15 DEF SessionInv

-----------------------------------------------------------------------------
(* Requests: what arrives, and what the end of its save starts.              *)
LEMMA DehydrateFacts ==
    ASSUME NEW h \in Seq(Message)
    PROVE  /\ Dehydrate(h) \in Seq(Message) /\ Len(Dehydrate(h)) = Len(h)
           /\ DOMAIN Dehydrate(h) = DOMAIN h
           /\ \A i \in DOMAIN h :
                /\ Dehydrate(h)[i].ids = h[i].ids
                /\ h[i].role = "image" => Dehydrate(h)[i].role = "blocks"
                /\ h[i].role # "image" => Dehydrate(h)[i] = h[i]
<1> DEFINE home1(m) == IF m.role = "image" THEN [m EXCEPT !.role = "blocks"] ELSE m
<1>1. ASSUME NEW m \in Message
      PROVE  /\ home1(m) \in Message /\ home1(m).ids = m.ids
             /\ m.role = "image" => home1(m).role = "blocks"
             /\ m.role # "image" => home1(m) = m
  BY DEF Message
<1>2. Dehydrate(h) = [i \in 1 .. Len(h) |-> home1(h[i])]
  BY DEF Dehydrate
<1>. HIDE DEF home1
<1>3. \A i \in 1 .. Len(h) : h[i] \in Message
  OBVIOUS
<1>. QED  BY <1>1, <1>2, <1>3

LEMMA AppendedGrows ==
    ASSUME SessionInv, NEW h \in {history, Dehydrate(history)},
           NEW m \in Message, history' = h \/ history' = Append(h, m)
    PROVE  Grows
<1>1. history \in Seq(Message)
  BY DEF SessionInv, TypeOK
<1>2. h \in Seq(Message) /\ DOMAIN h = DOMAIN history
      /\ \A i \in DOMAIN history : h[i].ids = history[i].ids
  BY <1>1, DehydrateFacts
<1>. QED  BY <1>2, MessagesAreKept DEF Grows

(* What a request does to the history: images go home while there is no turn, *)
(* or its message joins.                                                     *)
HistoryJoins ==
    \/ history' = history
    \/ history' = Dehydrate(history) /\ active[gen] = Nobody
    \/ /\ \E h \in {history, Dehydrate(history)}, role \in {"text", "image"} :
            history' = Append(h, Says(role))
       /\ late' = (late \/ \E q \in Requests : InTurn(q))

(* A request comes one step further without a turn.                          *)
RequestStep(r, s) ==
    /\ turn' = turn /\ allowed' = allowed /\ gen' = gen /\ active' = active
    /\ frame' = frame /\ crashes' = crashes /\ consent' = consent
    /\ overtaken' = overtaken
    /\ Grows /\ HistoryJoins
    /\ req[r] \in {"new", "assembling"} /\ req' = [req EXCEPT ![r] = s]
    /\ starting' \in [Gens -> BOOLEAN] /\ home' \in [Requests -> Gens] /\ Reserved'
    /\ live \/ req[r] = "assembling"
    /\ \/ /\ s = "saving"
          /\ \/ r \in Messages /\ Save("message", r)
             \/ r \in Notices /\ Save("notice", r)
          /\ owed' = owed \cup {r}
          /\ late' = (late \/ \E q \in Requests : InTurn(q))
       \/ /\ s \in {"assembling", "over"} /\ NoSave /\ owed' = owed /\ late' = late

LEMMA RequestSteps ==
    ASSUME SessionInv, AgentAssumption, NEW r \in Requests,
           \/ r \in Messages /\ (MessageArrives(r) \/ Assembled(r))
           \/ r \in Notices /\ NoticeArrives(r)
    PROVE  \E s : RequestStep(r, s)
<1>0. /\ gen \in Gens /\ starting \in [Gens -> BOOLEAN] /\ home \in [Requests -> Gens]
      /\ req \in [Requests -> {"new", "assembling", "saving", "over"}]
      /\ Messages \subseteq Requests
      /\ \A m \in Messages, n \in Notices : m # n
      /\ \A g \in Gens : starting[g] => \E m \in Messages :
            home[m] = g /\ req[m] \in {"assembling", "saving"}
  BY DEF SessionInv, TypeOK, Reserved, AgentAssumption, Requests
<1>1. Says("text") \in Message /\ Says("image") \in Message
  <2>1. 0 \in Nat /\ {} \in SUBSET Tools
    OBVIOUS
  <2>. QED  BY <2>1, MessagesAreTyped
<1>2. CASE r \in Messages /\ MessageArrives(r)
  <2>1. PICK s : s = IF r \in Attached THEN "assembling" ELSE "saving"
    OBVIOUS
  <2>2. /\ req[r] = "new" /\ live
        /\ starting' = [starting EXCEPT ![gen] = TRUE]
        /\ home' = [home EXCEPT ![r] = gen]
        /\ turn' = turn /\ allowed' = allowed /\ gen' = gen /\ active' = active
        /\ frame' = frame /\ crashes' = crashes /\ consent' = consent
        /\ overtaken' = overtaken
        /\ req' = [req EXCEPT ![r] = s]
    BY <1>2, <2>1 DEF MessageArrives, AddMessage
  <2>3. Grows
    BY <1>1, <1>2, AppendedGrows DEF MessageArrives, AddMessage
  <2>6. HistoryJoins
    BY <1>2 DEF MessageArrives, AddMessage, Busy, HistoryJoins
  <2>4. /\ starting' \in [Gens -> BOOLEAN] /\ home' \in [Requests -> Gens] /\ Reserved'
    <3>1. starting' \in [Gens -> BOOLEAN] /\ home' \in [Requests -> Gens]
      BY <1>0, <2>2
    <3>2. ASSUME NEW g \in Gens, starting'[g]
          PROVE  \E m \in Messages : home'[m] = g /\ req'[m] \in {"assembling", "saving"}
      <4>1. CASE g = gen
        BY <1>0, <1>2, <2>1, <2>2, <4>1
      <4>2. CASE g # gen
        <5>1. PICK m \in Messages : home[m] = g /\ req[m] \in {"assembling", "saving"}
          BY <1>0, <2>2, <3>2, <4>2
        <5>. QED  BY <1>0, <2>2, <5>1
      <4>. QED  BY <4>1, <4>2
    <3>. QED  BY <3>1, <3>2 DEF Reserved
  <2>5. \/ /\ s = "saving"
           /\ \/ r \in Messages /\ Save("message", r)
              \/ r \in Notices /\ Save("notice", r)
           /\ owed' = owed \cup {r}
           /\ late' = (late \/ \E q \in Requests : InTurn(q))
        \/ /\ s \in {"assembling", "over"} /\ NoSave /\ owed' = owed /\ late' = late
    BY <1>2, <2>1 DEF MessageArrives, AddMessage
  <2>. QED  BY <2>2, <2>3, <2>4, <2>5, <2>6 DEF RequestStep
<1>3. CASE r \in Messages /\ Assembled(r)
  <2>1. /\ req[r] = "assembling"
        /\ turn' = turn /\ allowed' = allowed /\ gen' = gen /\ active' = active
        /\ frame' = frame /\ crashes' = crashes /\ consent' = consent
        /\ overtaken' = overtaken /\ starting' = starting /\ home' = home
        /\ req' = [req EXCEPT ![r] = "saving"]
        /\ owed' = owed \cup {r}
        /\ late' = (late \/ \E q \in Requests : InTurn(q))
        /\ Save("message", r)
    BY <1>3 DEF Assembled, AddMessage, rtVars
  <2>2. Grows
    BY <1>1, <1>3, AppendedGrows DEF Assembled, AddMessage
  <2>6. HistoryJoins
    BY <1>3 DEF Assembled, AddMessage, HistoryJoins
  <2>3. Reserved'
    BY <1>0, <2>1 DEF Reserved
  <2>. QED  BY <1>0, <1>3, <2>1, <2>2, <2>3, <2>6 DEF RequestStep
<1>4. CASE r \in Notices /\ NoticeArrives(r)
  <2>1. PICK s : s = IF active[gen] = Nobody THEN "saving" ELSE "over"
    OBVIOUS
  <2>2. /\ req[r] = "new" /\ live
        /\ turn' = turn /\ allowed' = allowed /\ gen' = gen /\ active' = active
        /\ frame' = frame /\ crashes' = crashes /\ consent' = consent
        /\ overtaken' = overtaken /\ starting' = starting /\ home' = home
        /\ req' = [req EXCEPT ![r] = s]
    BY <1>4, <2>1 DEF NoticeArrives, AddMessage, rtVars
  <2>3. Grows
    BY <1>1, <1>4, AppendedGrows DEF NoticeArrives, AddMessage
  <2>6. HistoryJoins
    BY <1>4 DEF NoticeArrives, AddMessage, HistoryJoins
  <2>4. Reserved'
    BY <1>0, <1>4, <2>2 DEF Reserved
  <2>5. \/ /\ s = "saving"
           /\ \/ r \in Messages /\ Save("message", r)
              \/ r \in Notices /\ Save("notice", r)
           /\ owed' = owed \cup {r}
           /\ late' = (late \/ \E q \in Requests : InTurn(q))
        \/ /\ s \in {"assembling", "over"} /\ NoSave /\ owed' = owed /\ late' = late
    BY <1>4, <2>1 DEF NoticeArrives, AddMessage
  <2>. QED  BY <1>0, <2>2, <2>3, <2>4, <2>5, <2>6 DEF RequestStep
<1>. QED  BY <1>2, <1>3, <1>4

LEMMA RequestStepKeeps ==
    ASSUME SessionInv, AgentAssumption, NEW r \in Requests, NEW s, RequestStep(r, s)
    PROVE  SessionInv'
<1>1. /\ turn' = turn /\ allowed' = allowed /\ gen' = gen /\ active' = active
      /\ frame' = frame /\ crashes' = crashes /\ consent' = consent
      /\ overtaken' = overtaken /\ Grows /\ Reserved'
      /\ req[r] \in {"new", "assembling"} /\ req' = [req EXCEPT ![r] = s]
      /\ starting' \in [Gens -> BOOLEAN] /\ home' \in [Requests -> Gens]
      /\ live \/ req[r] = "assembling"
      /\ s \in {"saving", "assembling", "over"}
      /\ s = "saving" => /\ owed' = owed \cup {r}
                         /\ late' = (late \/ \E q \in Requests : InTurn(q))
      /\ s # "saving" => owed' = owed /\ late' = late
  BY DEF RequestStep
<1>2. /\ req \in [Requests -> {"new", "assembling", "saving", "over"}]
      /\ req' \in [Requests -> {"new", "assembling", "saving", "over"}]
      /\ req'[r] = s /\ \A q \in Requests : q # r => req'[q] = req[q]
      /\ late \in BOOLEAN /\ late' \in BOOLEAN /\ owed' \in SUBSET Requests
      /\ late => late'
  <2>1. req \in [Requests -> {"new", "assembling", "saving", "over"}]
        /\ late \in BOOLEAN /\ owed \in SUBSET Requests
    BY DEF SessionInv, TypeOK
  <2>2. late' \in BOOLEAN /\ (late => late')
    BY <1>1, <2>1
  <2>3. owed' \in SUBSET Requests
    BY <1>1, <2>1
  <2>. QED  BY <1>1, <2>1, <2>2, <2>3
<1>3. allowed' \in SUBSET Tools /\ history' \in Seq(Message)
  BY <1>1 DEF SessionInv, TypeOK, Grows
<1>4. ~Pending(Entry("message", r)) /\ ~Pending(Entry("notice", r))
  BY <1>1 DEF SessionInv, QueueInv, QueueOK
<1>5. /\ DiskMoves /\ del' = del
      /\ \A v : Pending(v)' => Pending(v)
                   \/ (v = Entry("message", r) /\ r \in Messages /\ s = "saving")
                   \/ (v = Entry("notice", r) /\ r \in Notices /\ s = "saving")
  <2>1. CASE s = "saving" /\ r \in Messages /\ Save("message", r)
    <3>1. DiskMoves /\ Joins(Entry("message", r)) /\ del' = del
      BY <1>3, <1>4, <2>1, Saves
    <3>. QED  BY <2>1, <3>1 DEF Joins
  <2>2. CASE s = "saving" /\ r \in Notices /\ Save("notice", r)
    <3>1. DiskMoves /\ Joins(Entry("notice", r)) /\ del' = del
      BY <1>3, <1>4, <2>2, Saves
    <3>. QED  BY <2>2, <3>1 DEF Joins
  <2>3. CASE NoSave
    BY <2>3, NothingSaved
  <2>. QED  BY <2>1, <2>2, <2>3 DEF RequestStep
<1>6. TypeOK'
  BY <1>1, <1>2, <1>3, <1>5 DEF SessionInv, TypeOK, DiskMoves
<1>7. TurnsOK'
  BY <1>1 DEF SessionInv, TurnsOK
<1>8. QueueInv'
  <2>1. ASSUME NEW q \in Requests  PROVE QueueOK(q)'
    <3>1. QueueOK(q)
      BY DEF SessionInv, QueueInv
    <3>2. /\ \A w \in {"turn", "tidy", "frame"} : Pending(Entry(w, q))' => Pending(Entry(w, q))
          /\ \A w \in {"message", "notice"} : q # r /\ Pending(Entry(w, q))' => Pending(Entry(w, q))
          /\ Pending(Entry("message", r))' => r \in Messages /\ s = "saving"
          /\ Pending(Entry("notice", r))' => r \in Notices /\ s = "saving"
      <4>1. \A w, v, p, u : Entry(w, p) = Entry(v, u) => w = v /\ p = u
        BY DEF Entry
      <4>. QED  BY <1>4, <1>5, <4>1
    <3>. QED  BY <1>1, <1>2, <3>1, <3>2 DEF QueueOK
  <2>. QED  BY <1>5, <2>1 DEF QueueInv, DiskMoves
<1>9. \A q \in Requests : InTurn(q)' <=> InTurn(q)
  BY <1>1 DEF InTurn
<1>10. OneActive'
  <2>1. OneActive /\ active \in [Gens -> Requests \cup {Nobody}]
    BY DEF SessionInv, TypeOK
  <2>. QED  BY <1>1, <1>2, <1>5, <1>9, <2>1 DEF OneActive, Removed
<1>11. DeletionOK'
  <2>1. ~(Removed /\ ~overtaken)
    BY <1>1 DEF SessionInv, DeletionOK, UnderWay
  <2>. QED  BY <1>1, <1>5, <2>1 DEF DeletionOK, Removed
<1>12. DiskInv'
  BY <1>1, <1>5, DiskKept DEF DiskInv
<1>13. FrameOK'
  BY <1>1 DEF SessionInv, FrameOK
<1>14. OwedOK'
  <2> SUFFICES ASSUME ~Upset', NEW q \in owed'
               PROVE req'[q] = "saving" /\ \A p \in Requests : ~InTurn(p)'
    BY DEF OwedOK
  <2>1. ~Upset /\ (failed => failed')
    BY <1>1, <1>2, <1>5 DEF Upset, DiskMoves
  <2>2. ~late'
    BY DEF Upset
  <2>3. CASE s = "saving"
    BY <1>1, <1>2, <1>9, <2>1, <2>2, <2>3 DEF SessionInv, OwedOK
  <2>4. CASE s # "saving"
    BY <1>1, <1>2, <1>9, <2>1, <2>4 DEF SessionInv, OwedOK
  <2>. QED  BY <2>3, <2>4
<1>. QED  BY <1>1, <1>6, <1>7, <1>8, <1>10, <1>11, <1>12, <1>13, <1>14 DEF SessionInv

(* The save of a request's message is over: its turn starts, or does not.    *)
AnswerStep(r, who, ok) ==
    /\ Written(who, r, ok, <<>>) /\ writes # <<>>
    /\ IF ok THEN StartTurn(r) ELSE UNCHANGED <<active, turn, owed>>
    /\ req' = [req EXCEPT ![r] = "over"]
    /\ starting' \in [Gens -> BOOLEAN] /\ Reserved'
    /\ UNCHANGED <<history, allowed, gen, home, frame, crashes, consent, late, overtaken>>

LEMMA AnswerSteps ==
    ASSUME SessionInv, AgentAssumption, NEW r \in Requests,
           \/ r \in Messages /\ MessageSaved(r)
           \/ r \in Notices /\ NoticeSaved(r)
    PROVE  \E who \in {"message", "notice"}, ok \in BOOLEAN : AnswerStep(r, who, ok)
<1>0. /\ starting \in [Gens -> BOOLEAN] /\ home \in [Requests -> Gens]
      /\ req \in [Requests -> {"new", "assembling", "saving", "over"}]
      /\ Messages \subseteq Requests
      /\ \A m \in Messages, n \in Notices : m # n
      /\ \A g \in Gens : starting[g] => \E m \in Messages :
            home[m] = g /\ req[m] \in {"assembling", "saving"}
  BY DEF SessionInv, TypeOK, Reserved, AgentAssumption, Requests
<1>1. CASE r \in Messages /\ MessageSaved(r)
  <2>1. PICK ok \in BOOLEAN :
          /\ Written("message", r, ok, <<>>)
          /\ IF ok THEN StartTurn(r) ELSE UNCHANGED <<active, turn, owed>>
    BY <1>1 DEF MessageSaved
  <2>2. /\ writes # <<>>
        /\ starting' = [starting EXCEPT ![home[r]] = FALSE]
        /\ req' = [req EXCEPT ![r] = "over"]
        /\ UNCHANGED <<history, allowed, gen, home, frame, crashes, consent, late, overtaken>>
    BY <1>1 DEF MessageSaved, HandlerEnds, Awaits, recVars
  <2>3. starting' \in [Gens -> BOOLEAN]
    BY <1>0, <2>2
  <2>4. ASSUME NEW g \in Gens, starting'[g]
        PROVE  \E m \in Messages : home'[m] = g /\ req'[m] \in {"assembling", "saving"}
    <3>1. g # home[r] /\ starting[g]
      BY <1>0, <2>2, <2>4
    <3>2. PICK m \in Messages : home[m] = g /\ req[m] \in {"assembling", "saving"}
      BY <1>0, <3>1
    <3>. QED  BY <1>0, <2>2, <3>1, <3>2
  <2>5. Reserved'
    BY <2>4 DEF Reserved
  <2>. QED  BY <2>1, <2>2, <2>3, <2>5 DEF AnswerStep
<1>2. CASE r \in Notices /\ NoticeSaved(r)
  <2>1. PICK ok \in BOOLEAN :
          /\ Written("notice", r, ok, <<>>)
          /\ IF ok THEN StartTurn(r) ELSE UNCHANGED <<active, turn, owed>>
    BY <1>2 DEF NoticeSaved
  <2>2. /\ writes # <<>> /\ starting' = starting
        /\ req' = [req EXCEPT ![r] = "over"]
        /\ UNCHANGED <<history, allowed, gen, home, frame, crashes, consent, late, overtaken>>
    BY <1>2 DEF NoticeSaved, Awaits, recVars
  <2>3. \A m \in Messages : req'[m] = req[m]
    BY <1>0, <1>2, <2>2
  <2>4. Reserved'
    BY <1>0, <2>2, <2>3 DEF Reserved
  <2>. QED  BY <1>0, <2>1, <2>2, <2>4 DEF AnswerStep
<1>. QED  BY <1>1, <1>2

LEMMA StartedIsTyped ==
    ASSUME SessionInv, AgentAssumption
    PROVE  /\ Started \in Turn /\ RoundsOK(Started) /\ ToolsOK(Started)
           /\ Started.pc = "stream" /\ Started.gen = gen /\ Started.running = {}
<1>1. 0 \in 0 .. MaxRounds + 1 /\ 0 < MaxRounds /\ gen \in Gens
  BY DEF AgentAssumption, SessionInv, TypeOK
<1>. QED  BY <1>1 DEF Started, Idle, Turn, RoundsOK, ToolsOK, Gens

LEMMA AnswerStepKeeps ==
    ASSUME SessionInv, AgentAssumption, NEW r \in Requests,
           NEW who \in {"message", "notice"}, NEW ok \in BOOLEAN, AnswerStep(r, who, ok)
    PROVE  SessionInv'
<1>1. /\ req' = [req EXCEPT ![r] = "over"]
      /\ starting' \in [Gens -> BOOLEAN] /\ Reserved'
      /\ history' = history /\ allowed' = allowed /\ gen' = gen /\ home' = home
      /\ frame' = frame /\ crashes' = crashes /\ consent' = consent
      /\ late' = late /\ overtaken' = overtaken /\ writes # <<>>
  BY DEF AnswerStep
<1>2. /\ history \in Seq(Message) /\ allowed \in SUBSET Tools /\ gen \in Gens
      /\ req \in [Requests -> {"new", "assembling", "saving", "over"}]
      /\ req' \in [Requests -> {"new", "assembling", "saving", "over"}]
      /\ req'[r] = "over" /\ \A q \in Requests : q # r => req'[q] = req[q]
      /\ active \in [Gens -> Requests \cup {Nobody}] /\ Nobody \notin Requests
      /\ turn \in [Requests -> Turn] /\ owed \in SUBSET Requests
  BY <1>1, AgentAssumption DEF SessionInv, TypeOK, AgentAssumption
<1>3. /\ DiskMoves /\ LeavesChain(Entry(who, r)) /\ failed' = (failed \/ ~ok)
  BY <1>1, <1>2, WriteEnds DEF AnswerStep
<1>4. Pending(Entry(who, r)) /\ req[r] = "saving" /\ turn[r].pc = "none"
  <2>1. Awaits(who, r)
    BY <1>1 DEF AnswerStep, Written, Awaits
  <2>. QED  BY <2>1, HeadStands DEF SessionInv, OneActive
<1>5. \/ /\ turn' = [turn EXCEPT ![r] = Started] /\ active' = [active EXCEPT ![gen] = r]
         /\ owed' = {} /\ active[gen] = Nobody
      \/ /\ turn' = turn /\ active' = active /\ owed' = owed
         /\ ok => active[gen] # Nobody
  BY DEF AnswerStep, StartTurn
<1>6. /\ Started \in Turn /\ RoundsOK(Started) /\ ToolsOK(Started)
      /\ Started.pc = "stream" /\ Started.gen = gen
  BY StartedIsTyped
<1>7. /\ turn' \in [Requests -> Turn] /\ active' \in [Gens -> Requests \cup {Nobody}]
      /\ \A q \in Requests : q # r => turn'[q] = turn[q]
      /\ turn'[r] = turn[r] \/ turn'[r] = Started
      /\ owed' \in SUBSET Requests
  BY <1>2, <1>5, <1>6
<1>8. TypeOK'
  BY <1>1, <1>2, <1>3, <1>7 DEF SessionInv, TypeOK, DiskMoves
<1>9. TurnsOK'
  BY <1>6, <1>7 DEF SessionInv, TurnsOK
<1>10. QueueInv'
  <2>1. ASSUME NEW q \in Requests  PROVE QueueOK(q)'
    <3>1. QueueOK(q) /\ QueueOK(r)
      BY DEF SessionInv, QueueInv
    <3>2. \A w : Pending(Entry(w, q))' => Pending(Entry(w, q)) /\ Entry(w, q) # Entry(who, r)
      BY <1>3 DEF LeavesChain
    <3>3. CASE q # r
      BY <1>1, <1>2, <1>7, <3>1, <3>2, <3>3 DEF QueueOK
    <3>4. CASE q = r
      <4>1. Messages \cap Notices = {}
        BY DEF AgentAssumption
      <4>. QED  BY <1>1, <1>4, <3>1, <3>2, <3>4, <4>1 DEF QueueOK, SavingPc
    <3>. QED  BY <3>3, <3>4
  <2>. QED  BY <1>3, <2>1 DEF QueueInv, DiskMoves
<1>11. del'.pc = del.pc /\ del'.turn = del.turn
  BY <1>3 DEF DiskMoves, SessionInv, TypeOK
<1>12. OneActive'
  <2>1. OneActive /\ ~InTurn(r)
    BY <1>4 DEF SessionInv, InTurn
  <2>2. CASE turn' = turn /\ active' = active
    <3>1. \A q \in Requests : InTurn(q)' <=> InTurn(q)
      BY <2>2 DEF InTurn
    <3>. QED  BY <1>1, <1>2, <1>11, <2>1, <2>2, <3>1 DEF OneActive, Removed
  <2>3. CASE /\ turn' = [turn EXCEPT ![r] = Started] /\ active' = [active EXCEPT ![gen] = r]
             /\ active[gen] = Nobody
    <3>1. /\ turn'[r] = Started /\ InTurn(r)' /\ turn'[r].gen = gen /\ active'[gen] = r
          /\ \A g \in Gens : g # gen => active'[g] = active[g]
      BY <1>2, <1>6, <2>3 DEF InTurn
    <3>2. ASSUME NEW q \in Requests, q # r
          PROVE  (InTurn(q)' <=> InTurn(q)) /\ turn'[q] = turn[q] /\ req'[q] = req[q]
      BY <1>2, <1>7, <3>2 DEF InTurn
    <3>3. ASSUME NEW q \in Requests
          PROVE  /\ InTurn(q)' => active'[turn'[q].gen] = q
                 /\ req'[q] # "over" => turn'[q].pc = "none"
                 /\ InTurn(q)' /\ (~Removed \/ ~overtaken) => turn'[q].gen = gen
      <4>1. CASE q = r
        BY <1>2, <3>1, <4>1
      <4>2. CASE q # r
        <5>1. InTurn(q) => active[turn[q].gen] = q /\ turn[q].gen # gen /\ turn[q].gen \in Gens
          BY <1>2, <2>1, <2>3, TurnFacts DEF OneActive
        <5>. QED  BY <2>1, <3>1, <3>2, <4>2, <5>1 DEF OneActive
      <4>. QED  BY <4>1, <4>2
    <3>4. ASSUME NEW g \in Gens, NEW q \in Requests, active'[g] = q
          PROVE  InTurn(q)' /\ turn'[q].gen = g
      <4>1. CASE g = gen
        BY <3>1, <3>4, <4>1
      <4>2. CASE g # gen
        <5>1. active[g] = q /\ InTurn(q) /\ turn[q].gen = g /\ q # r
          BY <1>2, <2>1, <3>1, <3>4, <4>2 DEF OneActive
        <5>. QED  BY <3>2, <5>1
      <4>. QED  BY <4>1, <4>2
    <3>5. \A g \in Gens : active'[g] # Nobody =>
             turn'[active'[g]].pc \notin {"none", "tidying", "refreshing"}
             /\ turn'[active'[g]].gen = g
      BY <1>7, <3>4 DEF InTurn
    <3>6. del.pc \in {"no", "waiting"} => gen = 0 /\ ~overtaken
      BY <2>1 DEF OneActive
    <3>7. /\ del.pc = "waiting" <=> del.turn # Nobody
          /\ del.turn # Nobody => req'[del.turn] = "over"
      <4>1. del.turn \in Requests \cup {Nobody}
        BY DEF SessionInv, TypeOK
      <4>. QED  BY <1>2, <2>1, <4>1 DEF OneActive
    <3>8. (\A g \in Gens : active[g] # Nobody =>
             InTurn(active[g]) /\ turn[active[g]].gen = g)'
      BY <3>5 DEF InTurn
    <3>. QED  BY <1>1, <1>11, <3>3, <3>6, <3>7, <3>8 DEF OneActive, Removed
  <2>. QED  BY <1>5, <2>2, <2>3
<1>13. DeletionOK'
  <2>1. ~(Removed /\ ~overtaken)
    BY <1>4 DEF SessionInv, DeletionOK, UnderWay
  <2>. QED  BY <1>1, <1>11, <2>1 DEF DeletionOK, Removed
<1>14. DiskInv'
  <2>1. Grows
    BY <1>1, <1>2 DEF Grows
  <2>2. ASSUME NEW q \in Requests  PROVE DiskOK(q)'
    <3>1. CASE turn'[q] = turn[q]
      BY <1>1, <1>3, <2>1, <3>1, DiskKept
    <3>2. CASE turn'[q] = Started
      BY <1>6, <3>2 DEF DiskOK
    <3>. QED  BY <1>7, <3>1, <3>2
  <2>. QED  BY <2>2 DEF DiskInv
<1>15. FrameOK'
  BY <1>1 DEF SessionInv, FrameOK
<1>16. OwedOK'
  <2> SUFFICES ASSUME ~Upset', NEW q \in owed'
               PROVE  req'[q] = "saving" /\ \A p \in Requests : ~InTurn(p)'
    BY DEF OwedOK
  <2>1. ~Upset /\ ok
    BY <1>1, <1>3 DEF Upset
  <2>2. owed' = owed /\ active[gen] # Nobody
    BY <1>5, <2>1
  <2>3. InTurn(active[gen]) /\ active[gen] \in Requests
    BY <1>2, <2>2 DEF SessionInv, OneActive
  <2>. QED  BY <2>1, <2>2, <2>3 DEF SessionInv, OwedOK
<1>. QED  BY <1>1, <1>8, <1>9, <1>10, <1>12, <1>13, <1>14, <1>15, <1>16 DEF SessionInv

(* The turn is over: the session is free again.                              *)
LEMMA TurnLeavesKeeps ==
    ASSUME SessionInv, AgentAssumption, NEW r \in Requests, TurnLeaves(r)
    PROVE  SessionInv'
<1>. USE DEF SavingPc
<1>1. PICK ok \in BOOLEAN, p \in {"refreshing", "tidying"} :
         /\ turn' = [turn EXCEPT ![r] = [Idle EXCEPT !.pc = p]]
         /\ IF p = "refreshing" THEN Written("turn", r, ok, <<>>)
            ELSE Written("turn", r, ok, Again("tidy", r))
  BY DEF TurnLeaves, To
<1>2. PICK d : d = [Idle EXCEPT !.pc = p]
  OBVIOUS
<1>3. /\ d \in Turn /\ RoundsOK(d) /\ ToolsOK(d) /\ d.pc = p
      /\ d.running = {} /\ d.waiting = {} /\ ~d.aborted
  BY <1>2, IdleIsTyped
<1>4. /\ Awaits("turn", r) /\ writes # <<>>
      /\ active' = [active EXCEPT ![turn[r].gen] = IF @ = r THEN Nobody ELSE @]
      /\ allowed' = allowed /\ gen' = gen /\ starting' = starting /\ req' = req
      /\ home' = home /\ frame' = frame /\ crashes' = crashes /\ consent' = consent
      /\ owed' = owed /\ late' = late /\ overtaken' = overtaken
      /\ history' = Dehydrate(history)
  BY DEF TurnLeaves, Awaits
<1>5. /\ history \in Seq(Message) /\ allowed \in SUBSET Tools /\ turn \in [Requests -> Turn]
      /\ active \in [Gens -> Requests \cup {Nobody}] /\ Nobody \notin Requests
      /\ turn[r] \in Turn /\ turn[r].gen \in Gens
  BY TurnFacts DEF SessionInv, TypeOK, AgentAssumption
<1>6. Grows /\ history' \in Seq(Message)
  BY <1>4, <1>5, DehydrateFacts DEF Grows
<1>7. turn[r].pc \in SavingPc /\ InTurn(r) /\ Pending(Entry("turn", r))
  BY <1>4, HeadStands DEF InTurn
<1>8. /\ turn' \in [Requests -> Turn] /\ turn'[r] = d
      /\ \A q \in Requests : q # r => turn'[q] = turn[q]
      /\ active' \in [Gens -> Requests \cup {Nobody}]
  BY <1>1, <1>2, <1>3, <1>4, <1>5
<1>9. ~Pending(Entry("tidy", r))
  BY <1>7 DEF SessionInv, QueueInv, QueueOK
<1>10. /\ DiskMoves
       /\ \A v : Pending(v)' => \/ Pending(v) /\ v # Entry("turn", r)
                                \/ v = Entry("tidy", r) /\ p = "tidying"
  <2>1. CASE p = "refreshing"
    <3>1. DiskMoves /\ LeavesChain(Entry("turn", r))
      BY <1>1, <1>4, <1>5, <1>6, <2>1, WriteEnds
    <3>. QED  BY <3>1 DEF LeavesChain
  <2>2. CASE p = "tidying"
    <3>1. DiskMoves /\ Replaces(Entry("turn", r), Entry("tidy", r))
      BY <1>1, <1>4, <1>5, <1>6, <1>9, <2>2, WriteGoesOn
    <3>. QED  BY <2>2, <3>1 DEF Replaces
  <2>. QED  BY <2>1, <2>2
<1>11. TypeOK'
  BY <1>4, <1>5, <1>6, <1>8, <1>10 DEF SessionInv, TypeOK, DiskMoves
<1>12. TurnsOK'
  BY <1>3, <1>8 DEF SessionInv, TurnsOK
<1>13. QueueInv'
  <2>1. ASSUME NEW q \in Requests  PROVE QueueOK(q)'
    <3>0. QueueOK(q)
      BY DEF SessionInv, QueueInv
    <3>1. \A w, v, x, u : Entry(w, x) = Entry(v, u) => w = v /\ x = u
      BY DEF Entry
    <3>2. /\ \A w \in {"message", "notice", "frame"} :
               Pending(Entry(w, q))' => Pending(Entry(w, q))
          /\ Pending(Entry("turn", q))' => Pending(Entry("turn", q)) /\ q # r
          /\ Pending(Entry("tidy", q))' =>
               (Pending(Entry("tidy", q)) /\ q # r) \/ (q = r /\ p = "tidying")
      BY <1>9, <1>10, <3>1
    <3>3. q # r => turn'[q] = turn[q]
      BY <1>8
    <3>4. q = r => turn'[q].pc = p
      BY <1>3, <1>8
    <3>5. QueueOK(q)'
      BY <1>4, <3>0, <3>2, <3>3, <3>4 DEF QueueOK
    <3>. QED  BY <3>5
  <2>. QED  BY <1>10, <2>1 DEF QueueInv, DiskMoves
<1>14. del'.pc = del.pc /\ del'.turn = del.turn
  BY <1>10 DEF DiskMoves, SessionInv, TypeOK
<1>15. /\ ~InTurn(r)'
       /\ \A q \in Requests : q # r => (InTurn(q)' <=> InTurn(q)) /\ turn'[q] = turn[q]
  BY <1>3, <1>8 DEF InTurn
<1>16. OneActive'
  <2>1. OneActive /\ active[turn[r].gen] = r /\ active'[turn[r].gen] = Nobody
        /\ \A g \in Gens : g # turn[r].gen => active'[g] = active[g]
    BY <1>4, <1>5, <1>7 DEF SessionInv, OneActive
  <2>2. req[r] = "over"
    BY <1>7, <2>1 DEF OneActive
  <2>3. ASSUME NEW q \in Requests
        PROVE  /\ InTurn(q)' => active'[turn'[q].gen] = q
               /\ req'[q] # "over" => turn'[q].pc = "none"
               /\ InTurn(q)' /\ (~Removed \/ ~overtaken) => turn'[q].gen = gen
    <3>1. CASE q = r
      BY <1>4, <1>15, <2>2, <3>1
    <3>2. CASE q # r
      <4>1. InTurn(q) => active[turn[q].gen] = q /\ turn[q].gen # turn[r].gen /\ turn[q].gen \in Gens
        BY <1>5, <2>1, <3>2, TurnFacts DEF OneActive
      <4>. QED  BY <1>4, <1>15, <2>1, <3>2, <4>1 DEF OneActive
    <3>. QED  BY <3>1, <3>2
  <2>4. ASSUME NEW g \in Gens, NEW q \in Requests, active'[g] = q
        PROVE  InTurn(q)' /\ turn'[q].gen = g
    <3>1. g # turn[r].gen /\ active[g] = q /\ InTurn(q) /\ turn[q].gen = g /\ q # r
      BY <1>5, <2>1, <2>4 DEF OneActive
    <3>. QED  BY <1>15, <3>1
  <2>5. (\A g \in Gens : active[g] # Nobody =>
             InTurn(active[g]) /\ turn[active[g]].gen = g)'
    BY <1>8, <2>4 DEF InTurn
  <2>6. /\ del.pc \in {"no", "waiting"} => gen = 0 /\ ~overtaken
        /\ del.pc = "waiting" <=> del.turn # Nobody
        /\ del.turn # Nobody => req[del.turn] = "over"
    BY <2>1 DEF OneActive
  <2>. QED  BY <1>4, <1>14, <2>3, <2>5, <2>6 DEF OneActive, Removed
<1>17. Reserved'
  BY <1>4 DEF SessionInv, Reserved
<1>18. DeletionOK'
  <2>1. ~(Removed /\ ~overtaken)
    BY <1>7 DEF SessionInv, DeletionOK, UnderWay
  <2>. QED  BY <1>4, <1>14, <2>1 DEF DeletionOK, Removed
<1>19. DiskInv'
  <2>1. ASSUME NEW q \in Requests, q # r  PROVE DiskOK(q)'
    BY <1>4, <1>6, <1>8, <1>10, <2>1, DiskKept
  <2>2. DiskOK(r)'
    BY <1>3, <1>8 DEF DiskOK
  <2>. QED  BY <2>1, <2>2 DEF DiskInv
<1>20. FrameOK'
  BY <1>4 DEF SessionInv, FrameOK
<1>21. OwedOK'
  <2>1. ~Upset' => ~Upset
    BY <1>4, <1>10 DEF Upset, DiskMoves
  <2>. QED  BY <1>4, <1>15, <2>1 DEF SessionInv, OwedOK
<1>. QED  BY <1>4, <1>11, <1>12, <1>13, <1>16, <1>17, <1>18, <1>19, <1>20, <1>21 DEF SessionInv

-----------------------------------------------------------------------------
(* Deletion.                                                                 *)
LEMMA ActiveStands ==
    ASSUME SessionInv, active' = active,
           \A q \in Requests : turn'[q].pc = turn[q].pc /\ turn'[q].gen = turn[q].gen
    PROVE  (\A g \in Gens : active[g] # Nobody =>
               InTurn(active[g]) /\ turn[active[g]].gen = g)'
<1> SUFFICES ASSUME NEW g \in Gens, active[g] # Nobody
             PROVE  /\ turn'[active[g]].pc \notin {"none", "tidying", "refreshing"}
                    /\ turn'[active[g]].gen = g
  BY DEF InTurn
<1>1. PICK q \in Requests : q = active[g]
  BY DEF SessionInv, TypeOK
<1>2. InTurn(q) /\ turn[q].gen = g
  BY <1>1 DEF SessionInv, OneActive
<1>. QED  BY <1>1, <1>2 DEF InTurn

LEMMA RemovalKeeps ==
    ASSUME SessionInv, AgentAssumption, RemoveSession, DeleteOnly, turn' = turn,
           del.pc \in {"no", "waiting"},
           del.turn # Nobody => turn[del.turn].pc = "none"
    PROVE  SessionInv'
<1>1. /\ history' = history /\ allowed' = allowed /\ file' = file /\ writes' = writes
      /\ snap' = snap /\ active' = active /\ starting' = starting /\ req' = req
      /\ home' = home /\ frame' = frame /\ crashes' = crashes /\ consent' = consent
      /\ owed' = owed /\ late' = late /\ failed' = failed /\ turn' = turn
      /\ \A r \in Requests : (InTurn(r)' <=> InTurn(r)) /\ (UnderWay(r)' <=> UnderWay(r))
  BY DEF DeleteOnly, recVars, InTurn, UnderWay
<1>2. /\ gen' = 1 /\ live' = FALSE
      /\ del' = [pc |-> "removing", left |-> Len(writes), turn |-> Nobody]
      /\ overtaken' = \E r \in Requests \ {del.turn} : UnderWay(r)
  BY DEF RemoveSession
<1>3. del'.pc = "removing" /\ del'.left = Len(writes) /\ del'.turn = Nobody
      /\ Removed' /\ ~Removed
  BY <1>2 DEF Removed
<1>4. overtaken' \in BOOLEAN /\ Len(writes) \in Nat /\ gen' \in Gens
  BY <1>2 DEF SessionInv, TypeOK, Gens
<1>5. TypeOK'
  BY <1>1, <1>2, <1>4 DEF SessionInv, TypeOK
<1>6. TurnsOK' /\ FrameOK' /\ Reserved'
  BY <1>1 DEF SessionInv, TurnsOK, FrameOK, Reserved
<1>7. QueueInv'
  BY <1>1 DEF SessionInv, QueueInv, QueueOK, Once, Pending
<1>8. ~overtaken' => \A r \in Requests : ~UnderWay(r)
  BY <1>2 DEF SessionInv, OneActive, UnderWay
<1>9. OneActive'
  <2>1. OneActive
    BY DEF SessionInv
  <2>2. ~overtaken' => \A r \in Requests : ~InTurn(r)
    BY <1>8 DEF UnderWay, InTurn
  <2>3. (\A g \in Gens : active[g] # Nobody =>
             InTurn(active[g]) /\ turn[active[g]].gen = g)'
    BY <1>1, ActiveStands
  <2>4. \A q \in Requests :
          /\ InTurn(q)' => active'[turn'[q].gen] = q
          /\ req'[q] # "over" => turn'[q].pc = "none"
          /\ InTurn(q)' => overtaken'
    BY <1>1, <2>1, <2>2 DEF OneActive
  <2>. QED  BY <1>3, <2>3, <2>4 DEF OneActive
<1>10. DeletionOK'
  BY <1>1, <1>2, <1>3, <1>8 DEF DeletionOK
<1>11. DiskInv'
  BY <1>1, <1>3 DEF SessionInv, DiskInv, DiskOK, Awaits
<1>12. OwedOK'
  <2>1. ~overtaken
    BY DEF SessionInv, OneActive
  <2>. QED  BY <1>1, <2>1 DEF SessionInv, OwedOK, Upset
<1>. QED  BY <1>5, <1>6, <1>7, <1>9, <1>10, <1>11, <1>12 DEF SessionInv

LEMMA DeleteSessionKeeps ==
    ASSUME SessionInv, AgentAssumption, DeleteSession
    PROVE  SessionInv'
<1>1. active[gen] \in Requests \cup {Nobody} /\ del.pc = "no" /\ del.turn = Nobody
      /\ DeleteOnly /\ gen \in Gens
  BY DEF DeleteSession, SessionInv, TypeOK, OneActive
<1>2. CASE active[gen] = Nobody
  BY <1>1, <1>2, RemovalKeeps DEF DeleteSession, CancelTurn
<1>3. CASE active[gen] # Nobody
  <2>1. PICK r \in Requests : r = active[gen]
    BY <1>1, <1>3
  <2>2. PICK d : d = Cancelled(turn[r])
    OBVIOUS
  <2>3. /\ turn' = [turn EXCEPT ![r] = d]
        /\ del' = [del EXCEPT !.pc = "waiting", !.turn = r]
        /\ gen' = gen /\ live' = live /\ overtaken' = overtaken
    BY <1>3, <2>1, <2>2 DEF DeleteSession, CancelTurn, To
  <2>4. /\ history' = history /\ allowed' = allowed /\ file' = file /\ writes' = writes
        /\ snap' = snap /\ active' = active /\ starting' = starting /\ req' = req
        /\ home' = home /\ frame' = frame /\ crashes' = crashes /\ consent' = consent
        /\ owed' = owed /\ late' = late /\ failed' = failed
    BY <1>1 DEF DeleteOnly, recVars
  <2>5. turn[r] \in Turn /\ RoundsOK(turn[r]) /\ ToolsOK(turn[r]) /\ {} \subseteq turn[r].waiting
        /\ turn \in [Requests -> Turn]
    BY TurnIsTyped DEF SessionInv, TypeOK
  <2>6. /\ d \in Turn /\ RoundsOK(d) /\ ToolsOK(d)
        /\ d.pc = turn[r].pc /\ d.gen = turn[r].gen /\ d.at = turn[r].at /\ d.use = turn[r].use
    BY <2>2, <2>5, CardsSettled
  <2>7. /\ turn' \in [Requests -> Turn]
        /\ \A q \in Requests :
             /\ turn'[q].pc = turn[q].pc /\ turn'[q].gen = turn[q].gen
             /\ turn'[q].at = turn[q].at /\ turn'[q].use = turn[q].use
             /\ turn'[q] = d \/ turn'[q] = turn[q]
    BY <2>3, <2>5, <2>6
  <2>8. \A q \in Requests : InTurn(q)' <=> InTurn(q)
    BY <2>7 DEF InTurn
  <2>9. del'.pc = "waiting" /\ del'.turn = r /\ ~Removed /\ ~Removed'
        /\ del' \in [pc : {"no", "waiting", "removing", "gone", "lost"},
                     left : Nat, turn : Requests \cup {Nobody}]
    BY <1>1, <2>3 DEF Removed, SessionInv, TypeOK
  <2>10. TypeOK'
    BY <2>3, <2>4, <2>7, <2>9 DEF SessionInv, TypeOK
  <2>11. TurnsOK' /\ FrameOK' /\ Reserved'
    BY <2>4, <2>6, <2>7 DEF SessionInv, TurnsOK, FrameOK, Reserved
  <2>12. QueueInv'
    BY <2>4, <2>7 DEF SessionInv, QueueInv, QueueOK, Once, Pending
  <2>13. OneActive'
    <3>1. OneActive /\ InTurn(r) /\ Nobody \notin Requests
      BY <1>3, <1>1, <2>1 DEF SessionInv, OneActive, AgentAssumption
    <3>2. req[r] = "over" /\ gen = 0 /\ ~overtaken
      BY <1>1, <3>1 DEF OneActive, InTurn
    <3>3. ASSUME NEW q \in Requests
          PROVE  /\ InTurn(q)' => active'[turn'[q].gen] = q
                 /\ req'[q] # "over" => turn'[q].pc = "none"
                 /\ InTurn(q)' => turn'[q].gen = gen'
      BY <2>3, <2>4, <2>7, <2>8, <2>9, <3>1 DEF OneActive
    <3>4. (\A g \in Gens : active[g] # Nobody =>
               InTurn(active[g]) /\ turn[active[g]].gen = g)'
      BY <2>4, <2>7, ActiveStands
    <3>5. del'.turn # Nobody /\ req'[del'.turn] = "over" /\ gen' = 0 /\ ~overtaken'
      BY <2>3, <2>4, <2>9, <3>1, <3>2
    <3>. QED  BY <2>9, <3>3, <3>4, <3>5, <2>3 DEF OneActive
  <2>14. DeletionOK'
    BY <2>9 DEF DeletionOK
  <2>15. DiskInv'
    BY <2>4, <2>7, <2>9 DEF SessionInv, DiskInv, DiskOK, Awaits, Holds
  <2>16. OwedOK'
    BY <2>3, <2>4, <2>8 DEF SessionInv, OwedOK, Upset
  <2>. QED  BY <2>10, <2>11, <2>12, <2>13, <2>14, <2>15, <2>16 DEF SessionInv
<1>. QED  BY <1>2, <1>3

LEMMA TurnAwaitedKeeps ==
    ASSUME SessionInv, AgentAssumption, TurnAwaited
    PROVE  SessionInv'
BY RemovalKeeps DEF TurnAwaited

LEMMA EraseFileKeeps ==
    ASSUME SessionInv, AgentAssumption, EraseFile
    PROVE  SessionInv'
<1>1. /\ del.pc = "removing" /\ del.left = 0 /\ file' = NoFile
      /\ del' = [del EXCEPT !.pc = "gone"]
      /\ history' = history /\ allowed' = allowed /\ live' = live /\ writes' = writes
      /\ snap' = snap /\ gen' = gen /\ active' = active /\ starting' = starting
      /\ req' = req /\ home' = home /\ turn' = turn /\ frame' = frame
      /\ crashes' = crashes /\ consent' = consent /\ owed' = owed /\ late' = late
      /\ failed' = failed /\ overtaken' = overtaken
  BY DEF EraseFile, recVars, rtVars, seenVars
<1>2. del'.pc = "gone" /\ del'.turn = del.turn /\ Removed /\ Removed'
      /\ del' \in [pc : {"no", "waiting", "removing", "gone", "lost"},
                   left : Nat, turn : Requests \cup {Nobody}]
  BY <1>1 DEF Removed, SessionInv, TypeOK
<1>3. NoFile \in File /\ ~NoFile.exists
  BY DEF NoFile, File
<1>4. TypeOK'
  BY <1>1, <1>2, <1>3 DEF SessionInv, TypeOK
<1>5. TurnsOK' /\ FrameOK' /\ Reserved'
  BY <1>1 DEF SessionInv, TurnsOK, FrameOK, Reserved
<1>6. QueueInv'
  BY <1>1 DEF SessionInv, QueueInv, QueueOK, Once, Pending
<1>7. \A r \in Requests : (InTurn(r)' <=> InTurn(r)) /\ (UnderWay(r)' <=> UnderWay(r))
  BY <1>1 DEF InTurn, UnderWay
<1>8. OneActive'
  <2>1. (\A g \in Gens : active[g] # Nobody =>
             InTurn(active[g]) /\ turn[active[g]].gen = g)'
    BY <1>1, ActiveStands
  <2>. QED  BY <1>1, <1>2, <1>7, <2>1 DEF SessionInv, OneActive
<1>9. DeletionOK'
  <2>1. ~overtaken => writes = <<>>
    BY <1>1, <1>2 DEF SessionInv, DeletionOK, TypeOK
  <2>. QED  BY <1>1, <1>2, <1>3, <1>7, <2>1 DEF SessionInv, DeletionOK
<1>10. DiskInv'
  BY <1>1, <1>2 DEF SessionInv, DiskInv, DiskOK, Awaits
<1>11. OwedOK'
  BY <1>1, <1>7 DEF SessionInv, OwedOK, Upset
<1>. QED  BY <1>4, <1>5, <1>6, <1>8, <1>9, <1>10, <1>11 DEF SessionInv

-----------------------------------------------------------------------------
(* The history a restart reads: each message becomes a list of its own, and  *)
(* the lists are put one behind the other.                                   *)
LEMMA FlattenSteps ==
    ASSUME NEW S, NEW N \in Nat, NEW s \in [1..N -> Seq(S)]
    PROVE  \E t \in [0..N -> Seq(S)] :
             /\ t[0] = <<>>
             /\ \A k \in 1..N : t[k] = t[k - 1] \o s[k]
             /\ FlattenSeq(s) = t[N]
<1>0. s \in Seq(Seq(S)) /\ Len(s) = N
  <2>1. s \in Seq(Seq(S))
    BY SeqDef
  <2>2. Len(s) \in Nat /\ DOMAIN s = 1..Len(s)
    BY <2>1, LenProperties
  <2>3. 1..N = 1..Len(s)
    BY <2>2
  <2>. QED  BY <2>1, <2>2, <2>3
<1>1. <<>> \in Seq(S) /\ \A x, y \in Seq(S) : x \o y \in Seq(S)
  BY EmptySeq, ConcatProperties
<1>2. CASE N = 0
  <2>1. s = <<>>
    BY <1>0, <1>2, EmptySeq
  <2>2. FlattenSeq(s) = <<>>
    BY <1>0, <1>2, <2>1 DEF FlattenSeq
  <2> DEFINE t == [k \in 0..N |-> <<>>]
  <2>3. t \in [0..N -> Seq(S)] /\ t[0] = <<>> /\ t[N] = <<>> /\ 1..N = {}
    BY <1>1, <1>2
  <2>. HIDE DEF t
  <2>. QED  BY <2>2, <2>3
<1>3. CASE N # 0
  <2> DEFINE F(g) == g = [i \in 1..N |-> IF i = 1 THEN s[i] ELSE g[i - 1] \o s[i]]
             g == CHOOSE x : F(x)
             step == [k \in 1..N |-> [x \in Seq(S) |-> IF k = 1 THEN s[1] ELSE x \o s[k]]]
  <2>1. step \in [1..N -> [Seq(S) -> Seq(S)]]
    <3>1. \A k \in 1..N : s[k] \in Seq(S) /\ 1 \in 1..N
      BY <1>3
    <3>. QED  BY <1>1, <3>1
  <2>2. \A k \in 1..N, x \in Seq(S) : step[k][x] = IF k = 1 THEN s[1] ELSE x \o s[k]
    OBVIOUS
  <2>. HIDE DEF step
  <2>3. PICK f \in [0..N -> Seq(S)] : f[0] = <<>> /\ \A k \in 1..N : f[k] = step[k][f[k - 1]]
    <3>1. PICK f : IsFold(f, N, Seq(S), <<>>, step)
      BY <1>1, <2>1, FoldExists
    <3>. QED  BY <3>1 DEF IsFold
  <2>4. \A k \in 1..N : f[k - 1] \in Seq(S)
    OBVIOUS
  <2>5. \A k \in 1..N : f[k] = IF k = 1 THEN s[k] ELSE f[k - 1] \o s[k]
    BY <2>2, <2>3, <2>4
  <2>6. F([k \in 1..N |-> f[k]])
    <3>1. \A k \in 1..N : k # 1 => k - 1 \in 1..N
      OBVIOUS
    <3>. QED  BY <2>5, <3>1
  <2>7. FlattenSeq(s) = g[N]
    BY <1>0, <1>3 DEF FlattenSeq
  <2>8. F(g)
    <3>. HIDE DEF F
    <3>. QED  BY <2>6
  <2>9. \A i \in 1..N : g[i] = IF i = 1 THEN s[i] ELSE g[i - 1] \o s[i]
    <3>. HIDE DEF g
    <3>. QED  BY <2>8
  <2>. HIDE DEF F, g
  <2> DEFINE t == [k \in 0..N |-> IF k = 0 THEN <<>> ELSE g[k]]
  <2>10. \A k \in 1..N : g[k] \in Seq(S)
    <3> DEFINE P == {n \in 0..N : n = 0 \/ g[n] \in Seq(S)}
    <3>1. 0 \in P
      OBVIOUS
    <3>2. ASSUME NEW n \in 0..(N - 1), n \in P  PROVE n + 1 \in P
      <4>1. n + 1 \in 1..N /\ s[n + 1] \in Seq(S) /\ (n + 1) - 1 = n
        OBVIOUS
      <4>2. CASE n = 0
        BY <2>9, <4>1, <4>2
      <4>3. CASE n # 0
        <5>1. g[n] \in Seq(S)
          BY <3>2, <4>3
        <5>2. g[n + 1] = g[n] \o s[n + 1]
          <6>1. n + 1 # 1
            BY <4>3
          <6>. QED  BY <2>9, <4>1, <6>1
        <5>3. g[n + 1] \in Seq(S)
          BY <1>1, <4>1, <5>1, <5>2
        <5>. QED  BY <5>3
      <4>. QED  BY <4>2, <4>3
    <3>. HIDE DEF P
    <3>3. \A n \in 0..N : n \in P
      BY <3>1, <3>2, EveryPlace
    <3>. QED  BY <3>3 DEF P
  <2>11. t \in [0..N -> Seq(S)] /\ t[0] = <<>> /\ t[N] = g[N]
    BY <1>1, <1>3, <2>10
  <2>12. ASSUME NEW k \in 1..N  PROVE t[k] = t[k - 1] \o s[k]
    <3>1. s[k] \in Seq(S) /\ <<>> \o s[k] = s[k]
      BY ConcatEmptySeq
    <3>2. CASE k = 1
      BY <2>9, <3>1, <3>2
    <3>3. CASE k # 1
      <4>1. k - 1 \in 1..N /\ k - 1 \in 0..N /\ k \in 0..N /\ k # 0 /\ k - 1 # 0
        BY <3>3
      <4>2. t[k] = g[k] /\ t[k - 1] = g[k - 1]
        BY <4>1
      <4>. HIDE DEF t
      <4>. QED  BY <2>9, <3>3, <4>2
    <3>. QED  BY <3>2, <3>3
  <2>. HIDE DEF t
  <2>. QED  BY <2>7, <2>11, <2>12
<1>. QED  BY <1>2, <1>3

LEMMA FlattenIsTyped ==
    ASSUME NEW S, NEW N \in Nat, NEW s \in [1..N -> Seq(S)]
    PROVE  FlattenSeq(s) \in Seq(S)
<1>1. PICK t \in [0..N -> Seq(S)] :
        /\ t[0] = <<>>
        /\ \A k \in 1..N : t[k] = t[k - 1] \o s[k]
        /\ FlattenSeq(s) = t[N]
  BY FlattenSteps
<1>2. N \in 0..N
  OBVIOUS
<1>. QED  BY <1>1, <1>2

(* A message and what the loader puts in its place.                          *)
LEMMA OnLoadIsTyped ==
    ASSUME NEW h \in Seq(Message), NEW i \in 1 .. Len(h)
    PROVE  OnLoad(h, i) \in Seq(Message)
<1> DEFINE led == IF IsBlocks(h[i]) THEN [h[i] EXCEPT !.ids = @ \cup Asked(h, i)] ELSE h[i]
<1>1. h[i] \in Message /\ (i > 1 => h[i - 1] \in Message)
  OBVIOUS
<1>2. Asked(h, i) \in SUBSET (Nat \X Tools)
  BY <1>1 DEF Asked, Message
<1>3. led \in Message /\ Results(h[i].ids) \in Message
  BY <1>1, <1>2 DEF Message, Results
<1>4. OnLoad(h, i) = <<led, Results(h[i].ids)>> \/ OnLoad(h, i) = <<led>>
  BY DEF OnLoad
<1>5. \A m, n \in Message : <<m>> \in Seq(Message) /\ <<m, n>> \in Seq(Message)
  OBVIOUS
<1>. HIDE DEF led
<1>. QED  BY <1>3, <1>4, <1>5

LEMMA RepairIsTyped ==
    ASSUME NEW h \in Seq(Message)
    PROVE  RepairDanglingToolUses(h) \in Seq(Message)
<1>1. [i \in 1 .. Len(h) |-> OnLoad(h, i)] \in [1 .. Len(h) -> Seq(Message)]
  BY OnLoadIsTyped
<1>2. Len(h) \in Nat
  OBVIOUS
<1>. QED  BY <1>1, <1>2, FlattenIsTyped DEF RepairDanglingToolUses

LEMMA RestartKeeps ==
    ASSUME SessionInv, AgentAssumption, Restart
    PROVE  SessionInv'
<1>1. /\ crashes < MaxCrashes /\ crashes' = crashes + 1
      /\ history' = RepairDanglingToolUses(file.messages)
      /\ allowed' = file.allowed /\ live' = file.exists
      /\ writes' = <<>> /\ snap' = NoFile
      /\ active' = [g \in Gens |-> Nobody] /\ starting' = [g \in Gens |-> FALSE]
      /\ req' = [r \in Requests |-> IF req[r] = "new" THEN "new" ELSE "over"]
      /\ turn' = [r \in Requests |-> Idle] /\ frame' = NoFrame
      /\ del' = [pc |-> IF del.pc \in {"no", "gone"} THEN del.pc ELSE "lost",
                 left |-> 0, turn |-> Nobody]
      /\ consent' = {} /\ owed' = {} /\ failed' = FALSE
      /\ file' = file /\ gen' = gen /\ home' = home /\ late' = late
      /\ overtaken' = overtaken
  BY DEF Restart
<1>2. Idle \in Turn /\ RoundsOK(Idle) /\ ToolsOK(Idle) /\ Idle.pc = "none"
  <2>1. 0 \in 0 .. MaxRounds + 1
    BY DEF AgentAssumption
  <2>. QED  BY <2>1 DEF Idle, Turn, Gens, RoundsOK, ToolsOK
<1>3. file.messages \in Seq(Message) /\ file.allowed \in SUBSET Tools /\ file.exists \in BOOLEAN
  BY DEF SessionInv, TypeOK, File
<1>4. del.pc \in {"no", "waiting", "removing", "gone", "lost"} /\ Nobody \notin Requests
  BY DEF SessionInv, TypeOK, AgentAssumption
<1>5. TypeOK'
  <2>1. history' \in Seq(Message) /\ <<>> \in Seq(Waiter)
    BY <1>1, <1>3, RepairIsTyped, EmptySeq
  <2>2. NoFile \in File
    BY DEF NoFile, File
  <2>3. NoFrame \in [of : Requests \cup {Nobody}, calls : SUBSET (Nat \X Tools)]
    BY DEF NoFrame
  <2>4. del' \in [pc : {"no", "waiting", "removing", "gone", "lost"},
                  left : Nat, turn : Requests \cup {Nobody}]
    BY <1>1, <1>4
  <2>5. crashes' \in 0 .. MaxCrashes
    BY <1>1 DEF SessionInv, TypeOK, AgentAssumption
  <2>6. /\ turn' \in [Requests -> Turn] /\ active' \in [Gens -> Requests \cup {Nobody}]
        /\ starting' \in [Gens -> BOOLEAN]
        /\ req' \in [Requests -> {"new", "assembling", "saving", "over"}]
    BY <1>1, <1>2
  <2>. QED  BY <1>1, <1>3, <2>1, <2>2, <2>3, <2>4, <2>5, <2>6 DEF SessionInv, TypeOK
<1>6. \A r \in Requests : turn'[r] = Idle /\ ~InTurn(r)' /\ ~UnderWay(r)'
  BY <1>1, <1>2 DEF InTurn, UnderWay
<1>7. TurnsOK'
  BY <1>2, <1>6 DEF TurnsOK
<1>8. QueueInv'
  <2>1. \A v : ~Pending(v)'
    BY <1>1 DEF Pending
  <2>2. Once'
    BY <1>1 DEF Once
  <2>. QED  BY <2>1, <2>2 DEF QueueInv, QueueOK
<1>9. \A g \in Gens : active'[g] = Nobody /\ ~starting'[g]
  BY <1>1
<1>10. Reserved'
  BY <1>9 DEF Reserved
<1>11. del'.turn = Nobody /\ del'.pc # "waiting" /\ del'.pc # "removing"
       /\ (del'.pc = "no" => del.pc = "no") /\ (del'.pc = "gone" => del.pc = "gone")
  BY <1>1, <1>4
<1>12. OneActive'
  <2>1. \A r \in Requests : turn'[r].pc = "none"
    BY <1>2, <1>6
  <2>2. (\A g \in Gens : active[g] # Nobody =>
           InTurn(active[g]) /\ turn[active[g]].gen = g)'
    BY <1>9
  <2>3. del'.pc \in {"no", "waiting"} => gen' = 0 /\ ~overtaken'
    BY <1>1, <1>11 DEF SessionInv, OneActive
  <2>. QED  BY <1>6, <1>11, <2>1, <2>2, <2>3 DEF OneActive
<1>13. DeletionOK'
  <2>1. del'.pc = "gone" /\ ~overtaken' => ~file.exists
    BY <1>1, <1>11 DEF SessionInv, DeletionOK, Removed
  <2>. QED  BY <1>1, <1>6, <1>11, <2>1 DEF DeletionOK, Removed
<1>14. DiskInv'
  BY <1>2, <1>6 DEF DiskInv, DiskOK
<1>15. FrameOK'
  BY <1>1 DEF FrameOK, NoFrame
<1>16. OwedOK'
  BY <1>1 DEF OwedOK
<1>. QED  BY <1>5, <1>7, <1>8, <1>10, <1>12, <1>13, <1>14, <1>15, <1>16 DEF SessionInv

-----------------------------------------------------------------------------
(* Every step keeps the invariant.                                           *)
LEMMA StutterKeeps ==
    ASSUME SessionInv, UNCHANGED vars
    PROVE  SessionInv'
<1>1. /\ history' = history /\ allowed' = allowed /\ live' = live /\ file' = file
      /\ writes' = writes /\ snap' = snap /\ gen' = gen /\ active' = active
      /\ starting' = starting /\ req' = req /\ home' = home /\ turn' = turn
      /\ frame' = frame /\ del' = del /\ crashes' = crashes /\ consent' = consent
      /\ owed' = owed /\ late' = late /\ failed' = failed /\ overtaken' = overtaken
  BY DEF vars, recVars, diskVars, rtVars, seenVars
<1>2. TypeOK'
  BY <1>1 DEF SessionInv, TypeOK
<1>3. TurnsOK' /\ FrameOK' /\ Reserved' /\ OwedOK'
  BY <1>1 DEF SessionInv, TurnsOK, FrameOK, Reserved, OwedOK, Upset, InTurn
<1>4. QueueInv' /\ DiskInv'
  BY <1>1 DEF SessionInv, QueueInv, QueueOK, Once, Pending, DiskInv, DiskOK, Awaits, Removed
<1>5. DeletionOK'
  BY <1>1 DEF SessionInv, DeletionOK, Removed, UnderWay
<1>6. OneActive'
  <2>1. (\A g \in Gens : active[g] # Nobody =>
             InTurn(active[g]) /\ turn[active[g]].gen = g)'
    BY <1>1, ActiveStands
  <2>. QED  BY <1>1, <2>1 DEF SessionInv, OneActive, Removed, InTurn
<1>. QED  BY <1>2, <1>3, <1>4, <1>5, <1>6 DEF SessionInv

LEMMA InitHolds ==
    ASSUME Init, AgentAssumption
    PROVE  SessionInv
<1>1. Idle \in Turn /\ RoundsOK(Idle) /\ ToolsOK(Idle) /\ Idle.pc = "none"
  <2>1. 0 \in 0 .. MaxRounds + 1
    BY DEF AgentAssumption
  <2>. QED  BY <2>1 DEF Idle, Turn, Gens, RoundsOK, ToolsOK
<1>2. \A r \in Requests : turn[r] = Idle /\ ~InTurn(r) /\ ~UnderWay(r)
  BY <1>1 DEF Init, InTurn, UnderWay
<1>3. TypeOK
  <2>1. history \in Seq(Message) /\ writes \in Seq(Waiter) /\ snap \in File /\ file \in File
    BY DEF Init, NoFile, Memory, File
  <2>2. /\ turn \in [Requests -> Turn] /\ active \in [Gens -> Requests \cup {Nobody}]
        /\ starting \in [Gens -> BOOLEAN] /\ home \in [Requests -> Gens]
        /\ req \in [Requests -> {"new", "assembling", "saving", "over"}]
        /\ gen \in Gens /\ crashes \in 0 .. MaxCrashes
    BY <1>1 DEF Init, AgentAssumption, Gens
  <2>3. /\ frame \in [of : Requests \cup {Nobody}, calls : SUBSET (Nat \X Tools)]
        /\ del \in [pc : {"no", "waiting", "removing", "gone", "lost"},
                    left : Nat, turn : Requests \cup {Nobody}]
    BY DEF Init, NoFrame
  <2>. QED  BY <2>1, <2>2, <2>3 DEF Init, TypeOK
<1>4. TurnsOK /\ FrameOK /\ Reserved
  BY <1>1, <1>2 DEF Init, TurnsOK, FrameOK, NoFrame, Reserved
<1>5. QueueInv
  BY DEF Init, QueueInv, QueueOK, Once, Pending
<1>6. OneActive
  BY <1>1, <1>2 DEF Init, OneActive
<1>7. DeletionOK
  BY DEF Init, DeletionOK, Removed
<1>8. DiskInv
  BY <1>1, <1>2 DEF DiskInv, DiskOK
<1>9. OwedOK
  BY DEF Init, OwedOK
<1>. QED  BY <1>3, <1>4, <1>5, <1>6, <1>7, <1>8, <1>9 DEF SessionInv

(* What a step is.                                                           *)
Deletes == DeleteSession \/ TurnAwaited \/ EraseFile
Steps ==
    \/ \E r \in Requests : \E d : TurnStep(r, d)
    \/ \E r \in Requests : \E d : PersonStep(r, d)
    \/ \E r \in Requests : \E s : RequestStep(r, s)
    \/ \E r \in Requests, who \in {"message", "notice"}, ok \in BOOLEAN :
         AnswerStep(r, who, ok)
    \/ \E r \in Requests : TurnLeaves(r)
    \/ Deletes
    \/ Restart

LEMMA NextSteps ==
    ASSUME SessionInv, AgentAssumption, Next
    PROVE  Steps
<1>0. Messages \subseteq Requests /\ Notices \subseteq Requests
  BY DEF Requests
<1>1. CASE \E m \in Messages : MessageArrives(m) \/ Assembled(m)
  BY <1>0, <1>1, RequestSteps DEF Steps
<1>2. CASE \E n \in Notices : NoticeArrives(n)
  BY <1>0, <1>2, RequestSteps DEF Steps
<1>3. ASSUME NEW r \in Requests, StreamEnds(r) \/ Waits(r) \/ Rounds(r) \/ Person(r) \/ Expire(r)
      PROVE  Steps
  <2>1. CASE StreamEnds(r)
    BY <2>1, StreamSteps DEF Steps
  <2>2. CASE Waits(r)
    BY <2>2, WaitSteps DEF Steps, Waits
  <2>3. CASE Rounds(r)
    BY <2>3, RoundSteps DEF Steps, Rounds
  <2>4. CASE Person(r) \/ Expire(r)
    BY <2>4, PersonSteps DEF Steps, Person
  <2>. QED  BY <1>3, <2>1, <2>2, <2>3, <2>4
<1>4. CASE DiskEnds
  <2>1. CASE \E m \in Messages : MessageSaved(m)
    BY <1>0, <2>1, AnswerSteps DEF Steps
  <2>2. CASE \E n \in Notices : NoticeSaved(n)
    BY <1>0, <2>2, AnswerSteps DEF Steps
  <2>3. ASSUME NEW r \in Requests, TurnSaved(r) \/ FrameSaved(r)  PROVE Steps
    <3>1. CASE TurnLeaves(r)
      BY <3>1 DEF Steps
    <3>2. CASE SavedStep(r)
      BY <3>2, SavedSteps DEF Steps
    <3>3. CASE FrameSaved(r)
      BY <3>3, PersonSteps DEF Steps
    <3>. QED  BY <2>3, <3>1, <3>2, <3>3 DEF TurnSaved, SavedStep
  <2>. QED  BY <1>4, <2>1, <2>2, <2>3 DEF DiskEnds
<1>5. CASE Cancel
  BY <1>5, CancelSteps DEF Steps
<1>6. CASE Deletes \/ Restart
  BY <1>6 DEF Steps
<1>. QED  BY <1>1, <1>2, <1>3, <1>4, <1>5, <1>6 DEF Next, Deletes

LEMMA StepKeeps ==
    ASSUME SessionInv, AgentAssumption, [Next]_vars
    PROVE  SessionInv'
<1>1. CASE Next
  <2>1. Steps
    BY <1>1, NextSteps
  <2>2. CASE Deletes
    BY <2>2, DeleteSessionKeeps, TurnAwaitedKeeps, EraseFileKeeps DEF Deletes
  <2>. QED  BY <2>1, <2>2, TurnStepKeeps, PersonStepKeeps, RequestStepKeeps, AnswerStepKeeps,
               TurnLeavesKeeps, RestartKeeps DEF Steps
<1>2. CASE UNCHANGED vars
  BY <1>2, StutterKeeps
<1>. QED  BY <1>1, <1>2

(* The inductive invariant of a session: at every await of a handler, how    *)
(* the turns, the runtimes, the save chain, the file and a deletion go       *)
(* together.                                                                 *)
THEOREM SessionHolds == Spec => []SessionInv
<1>1. Init => SessionInv
  BY AgentAssumption, InitHolds
<1>2. SessionInv /\ [Next]_vars => SessionInv'
  BY AgentAssumption, StepKeeps
<1>. QED  BY <1>1, <1>2, PTL DEF Spec

-----------------------------------------------------------------------------
(* The session's state stays of the declared shape, and a turn makes at most *)
(* MAX_TOOL_ROUNDS rounds and one more to answer without tools (loop.ts).    *)
THEOREM TypeCorrect == Spec => []TypeOK
<1>1. SessionInv => TypeOK
  BY DEF SessionInv
<1>. QED  BY <1>1, SessionHolds, PTL

(* One turn at a time works on a session, unless it was deleted under a      *)
(* request the deletion does not await; and a session that refuses messages  *)
(* has a turn or a message under way (startTurn, rt.starting).               *)
THEOREM OneTurnAtATime == Spec => []OneTurn
<1>1. ASSUME SessionInv  PROVE OneTurn
  <2>1. OneActive /\ Reserved
    BY <1>1 DEF SessionInv
  <2>2. ASSUME ~overtaken  PROVE Cardinality({r \in Requests : InTurn(r)}) <= 1
    <3>1. \A r \in Requests : InTurn(r) => r = active[gen]
      BY <2>1, <2>2 DEF OneActive
    <3>2. CASE {r \in Requests : InTurn(r)} = {}
      BY <3>2, FS_EmptySet
    <3>3. CASE {r \in Requests : InTurn(r)} # {}
      <4>1. {r \in Requests : InTurn(r)} = {active[gen]}
        BY <3>1, <3>3
      <4>2. Cardinality({active[gen]}) = 1
        BY FS_Singleton
      <4>3. Cardinality({r \in Requests : InTurn(r)}) = 1
        BY <4>1, <4>2, Zenon
      <4>. QED  BY <4>3
    <3>. QED  BY <3>2, <3>3
  <2>. QED  BY <2>1, <2>2 DEF OneTurn, OneActive, Reserved
<1>. QED  BY <1>1, SessionHolds, PTL

(* A tool is at work only when the reply that called it is in the file, so   *)
(* that a server that dies now leaves a call to answer on load (session.ts). *)
THEOREM ToolsWaitForTheFile == Spec => []ToolsAreOnDisk
<1>1. ASSUME SessionInv  PROVE ToolsAreOnDisk
  <2> SUFFICES ASSUME del.pc \in {"no", "waiting"}, NEW r \in Requests, turn[r].running # {}
               PROVE  /\ turn[r].at \in DOMAIN file.messages
                      /\ Ids(turn[r].at, turn[r].running) \subseteq file.messages[turn[r].at].ids
    BY DEF ToolsAreOnDisk
  <2>1. turn[r].pc = "tools" /\ turn[r].running \subseteq turn[r].use
    BY <1>1, TurnIsTyped DEF ToolsOK
  <2>2. Holds(file.messages, turn[r])
    BY <1>1, <2>1 DEF SessionInv, DiskInv, DiskOK, Removed
  <2>. QED  BY <2>1, <2>2 DEF Holds, Ids
<1>. QED  BY <1>1, SessionHolds, PTL

(* Once everything has come to rest every message has been given to the      *)
(* model, where none arrived in the middle of somebody else's turn, no save  *)
(* failed and the session was not deleted under a request (startTurn).       *)
THEOREM NobodyIsForgotten == Spec => []NobodyForgottenUnlessUpset
<1>1. ASSUME SessionInv  PROVE NobodyForgottenUnlessUpset
  BY <1>1 DEF SessionInv, OwedOK, TypeOK, NobodyForgottenUnlessUpset, NobodyForgotten,
              AtRest, UnderWay
<1>. QED  BY <1>1, SessionHolds, PTL

(* A deleted session stays deleted, record and file, when nothing was under  *)
(* way but the turn the deletion awaited (session.delete, removeSession).    *)
THEOREM DeletionLasts == Spec => []DeletedStaysDeleted
<1>1. ASSUME SessionInv  PROVE DeletedStaysDeleted
  BY <1>1 DEF SessionInv, DeletionOK, Removed, DeletedStaysDeleted
<1>. QED  BY <1>1, SessionHolds, PTL

(* A tool starts only in a turn nobody has cancelled and, where the policy   *)
(* gives it to a person, only when a person has approved that very call or,  *)
(* before, its name for the session - which the file then holds              *)
(* (classifyTool, approvals.ts).                                             *)
LEMMA ConsentStep ==
    ASSUME SessionInv, AgentAssumption, [Next]_vars,
           NEW r \in Requests, NEW x \in turn'[r].running \ turn[r].running
    PROVE  ~turn[r].aborted /\ MayRun(r, x)'
<1>1. turn \in [Requests -> Turn] /\ Nobody \notin Requests
      /\ active \in [Gens -> Requests \cup {Nobody}] /\ gen \in Gens
  BY DEF SessionInv, TypeOK, AgentAssumption
<1>2. Steps
  BY <1>1, NextSteps DEF vars
<1>3. ASSUME NEW q \in Requests, NEW d, TurnStep(q, d)
      PROVE  ~turn[r].aborted /\ MayRun(r, x)'
  <2>1. q = r /\ turn'[r] = d /\ StartsTools(r, d)
    BY <1>1, <1>3 DEF TurnStep
  <2>2. /\ ~turn[r].aborted /\ turn[r].pc = "asked" /\ Awaits("turn", r)
        /\ Written("turn", r, TRUE, <<>>) /\ RunsAtOnce(x) /\ allowed' = allowed
    BY <2>1, <1>3 DEF StartsTools, TurnStep, TurnOnly
  <2>3. file' = snap /\ failed' = failed /\ del'.pc = del.pc
    BY <2>2 DEF Written, SessionInv, TypeOK
  <2>4. ~Removed => allowed \subseteq snap.allowed
    BY <2>2 DEF SessionInv, DiskInv, DiskOK
  <2>5. x \in allowed => x \in Remembered'
    BY <2>2, <2>3, <2>4 DEF Remembered, Removed
  <2>. QED  BY <2>2, <2>5 DEF MayRun, RunsAtOnce
<1>4. ASSUME NEW q \in Requests, NEW d, PersonStep(q, d)
      PROVE  ~turn[r].aborted /\ MayRun(r, x)'
  <2>1. q = r /\ turn'[r] = d
    BY <1>1, <1>4 DEF PersonStep
  <2>. QED  BY <1>4, <2>1 DEF PersonStep, MayRun
<1>5. ASSUME turn'[r] = turn[r] \/ turn'[r].running = {} \/ turn'[r].running = turn[r].running
      PROVE  FALSE
  BY <1>5
<1>6. ASSUME NEW q \in Requests, NEW s, RequestStep(q, s)  PROVE FALSE
  BY <1>5, <1>6 DEF RequestStep
<1>7. ASSUME NEW q \in Requests, NEW who, NEW ok, AnswerStep(q, who, ok)  PROVE FALSE
  <2>1. Started.running = {}
    BY DEF Started, Idle
  <2>2. turn' = turn \/ turn' = [turn EXCEPT ![q] = Started]
    BY <1>7 DEF AnswerStep, StartTurn
  <2>. QED  BY <1>1, <1>5, <2>1, <2>2
<1>8. ASSUME NEW q \in Requests, TurnLeaves(q)  PROVE FALSE
  <2>1. PICK p : turn' = [turn EXCEPT ![q] = [Idle EXCEPT !.pc = p]]
    BY <1>8 DEF TurnLeaves, To
  <2>2. [Idle EXCEPT !.pc = p].running = {}
    BY DEF Idle
  <2>. QED  BY <1>1, <1>5, <2>1, <2>2
<1>9. CASE Deletes
  <2>1. \A t \in Turn : Cancelled(t).running = t.running
    BY DEF Cancelled, Turn
  <2>2. turn' = turn \/ \E q \in Requests : turn' = [turn EXCEPT ![q] = Cancelled(turn[q])]
    BY <1>1, <1>9 DEF Deletes, DeleteSession, TurnAwaited, EraseFile, CancelTurn, To
  <2>. QED  BY <1>1, <1>5, <2>1, <2>2
<1>10. CASE Restart
  <2>1. turn'[r].running = {}
    BY <1>10 DEF Restart, Idle
  <2>. QED  BY <1>5, <2>1
<1>. QED  BY <1>2, <1>3, <1>4, <1>6, <1>7, <1>8, <1>9, <1>10 DEF Steps

(* A tool starts only in a turn that was not cancelled, and when the policy, *)
(* the session or a person allows it (executeRound, approvals.ts).           *)
THEOREM ConsentComesFirst == Spec => NothingWithoutConsent
<1>1. SessionInv /\ [Next]_vars =>
        [\A r \in Requests : \A x \in turn'[r].running \ turn[r].running :
           ~turn[r].aborted /\ MayRun(r, x)']_vars
  BY AgentAssumption, ConsentStep
<1>. QED  BY <1>1, SessionHolds, PTL DEF Spec, NothingWithoutConsent

-----------------------------------------------------------------------------
(* The history: every result sits behind the reply that called for it.       *)

(* An id is of no later place than its message, two replies share none, a    *)
(* string holds none, and a result answers the reply before it.              *)
PlacesOK(h) == \A i \in DOMAIN h : \A id \in h[i].ids : id[1] <= i
RepliesApart(h) == \A i, j \in DOMAIN h : \A id \in h[i].ids :
    h[i].role = "assistant" /\ h[j].role = "assistant" /\ i # j => id \notin h[j].ids
ResultsFollow(h) == \A i \in DOMAIN h : h[i].role # "assistant" /\ h[i].ids # {} =>
    /\ h[i].role # "text" /\ i - 1 \in DOMAIN h
    /\ h[i - 1].role = "assistant" /\ h[i].ids \subseteq h[i - 1].ids
Paired(h) == PlacesOK(h) /\ RepliesApart(h) /\ ResultsFollow(h)

(* The calls of message i have their results behind it. *)
Done(h, i) == Asks(h[i]) =>
    i + 1 \in DOMAIN h /\ h[i + 1].role # "assistant" /\ h[i].ids \subseteq h[i + 1].ids
AllDone(h) == \A i \in DOMAIN h : Done(h, i)
AllButLast(h) == \A i \in DOMAIN h : i # Len(h) => Done(h, i)

LEMMA DoneIsAnswered ==
    ASSUME NEW h \in Seq(Message), Paired(h), NEW i \in DOMAIN h, Asks(h[i]), Done(h, i)
    PROVE  Answered(h, i)
<1> SUFFICES ASSUME NEW id \in h[i].ids
             PROVE  {j \in DOMAIN h : h[j].role # "assistant" /\ id \in h[j].ids} = {i + 1}
  BY DEF Answered
<1>1. i + 1 \in DOMAIN h /\ h[i + 1].role # "assistant" /\ id \in h[i + 1].ids
  BY DEF Done
<1>2. ASSUME NEW j \in DOMAIN h, h[j].role # "assistant", id \in h[j].ids
      PROVE  j = i + 1
  <2>1. j - 1 \in DOMAIN h /\ h[j - 1].role = "assistant" /\ id \in h[j - 1].ids
    BY <1>2 DEF Paired, ResultsFollow
  <2>2. j - 1 = i
    BY <2>1 DEF Paired, RepliesApart, Asks
  <2>. QED  BY <2>2
<1>. QED  BY <1>1, <1>2

(* A message that calls for nothing joins.                                   *)
LEMMA PlainJoins ==
    ASSUME NEW h \in Seq(Message), Paired(h), NEW m \in Message, m.ids = {}
    PROVE  /\ Paired(Append(h, m)) /\ Append(h, m) \in Seq(Message)
           /\ AllDone(h) => AllDone(Append(h, m))
<1> DEFINE g == Append(h, m)
<1>1. /\ g \in Seq(Message) /\ Len(h) \in Nat /\ Len(g) = Len(h) + 1
      /\ DOMAIN g = 1 .. Len(h) + 1 /\ DOMAIN h = 1 .. Len(h)
      /\ \A i \in DOMAIN h : g[i] = h[i]
      /\ g[Len(h) + 1] = m
  OBVIOUS
<1>. HIDE DEF g
<1>2. \A i \in DOMAIN g : i \in DOMAIN h \/ g[i].ids = {}
  BY <1>1
<1>3. PlacesOK(g)
  BY <1>1, <1>2 DEF Paired, PlacesOK
<1>4. RepliesApart(g)
  BY <1>1, <1>2 DEF Paired, RepliesApart
<1>5. ResultsFollow(g)
  <2>. SUFFICES ASSUME NEW i \in DOMAIN g, g[i].role # "assistant" /\ g[i].ids # {}
                PROVE  /\ g[i].role # "text" /\ i - 1 \in DOMAIN g
                       /\ g[i - 1].role = "assistant" /\ g[i].ids \subseteq g[i - 1].ids
    BY DEF ResultsFollow
  <2>1. i \in DOMAIN h /\ g[i] = h[i]
    BY <1>1, <1>2
  <2>2. /\ h[i].role # "text" /\ i - 1 \in DOMAIN h
        /\ h[i - 1].role = "assistant" /\ h[i].ids \subseteq h[i - 1].ids
    BY <2>1 DEF Paired, ResultsFollow
  <2>3. i - 1 \in DOMAIN g /\ g[i - 1] = h[i - 1]
    BY <1>1, <2>2
  <2>. QED  BY <2>1, <2>2, <2>3
<1>6. ASSUME AllDone(h)  PROVE AllDone(g)
  BY <1>1, <1>2, <1>6 DEF AllDone, Done, Asks
<1>. QED  BY <1>1, <1>3, <1>4, <1>5, <1>6 DEF Paired, g

(* A reply joins, with ids of its own.                                       *)
LEMMA ReplyJoins ==
    ASSUME NEW h \in Seq(Message), Paired(h), NEW use \in SUBSET Tools
    PROVE  LET g == Append(h, Assistant(Ids(Len(h) + 1, use)))
           IN /\ Paired(g) /\ g \in Seq(Message) /\ Len(g) = Len(h) + 1
              /\ g[Len(g)] = Assistant(Ids(Len(h) + 1, use))
              /\ AllDone(h) => AllButLast(g)
<1> DEFINE m == Assistant(Ids(Len(h) + 1, use))
           g == Append(h, m)
<1>1. m \in Message /\ m.role = "assistant" /\ \A id \in m.ids : id[1] = Len(h) + 1
  <2>1. Len(h) + 1 \in Nat
    OBVIOUS
  <2>2. m \in Message /\ m.ids = Ids(Len(h) + 1, use)
    BY <2>1, MessagesAreTyped
  <2>. QED  BY <2>2 DEF Assistant, Ids
<1>. HIDE DEF m
<1>2. /\ g \in Seq(Message) /\ Len(h) \in Nat /\ Len(g) = Len(h) + 1
      /\ DOMAIN g = 1 .. Len(h) + 1 /\ DOMAIN h = 1 .. Len(h)
      /\ \A i \in DOMAIN h : g[i] = h[i]
      /\ g[Len(h) + 1] = m
  BY <1>1
<1>. HIDE DEF g
<1>3. PlacesOK(g)
  BY <1>1, <1>2 DEF Paired, PlacesOK
<1>4. RepliesApart(g)
  <2>1. \A i \in DOMAIN h : \A id \in h[i].ids : id \notin m.ids
    <3>1. \A i \in DOMAIN h : \A id \in h[i].ids : id[1] <= i
      BY DEF Paired, PlacesOK
    <3>2. \A i \in DOMAIN h : i <= Len(h) /\ i \in Nat
      BY <1>2
    <3>3. \A i \in DOMAIN h : \A id \in h[i].ids : id[1] # Len(h) + 1
      BY <1>2, <3>1, <3>2
    <3>. QED  BY <1>1, <3>3
  <2>2. \A i \in DOMAIN g : (i \in DOMAIN h /\ g[i] = h[i]) \/ (i = Len(h) + 1 /\ g[i] = m)
    BY <1>2
  <2>3. \A i, j \in DOMAIN h : \A id \in h[i].ids :
          h[i].role = "assistant" /\ h[j].role = "assistant" /\ i # j => id \notin h[j].ids
    BY DEF Paired, RepliesApart
  <2>. QED  BY <2>1, <2>2, <2>3 DEF RepliesApart
<1>5. ResultsFollow(g)
  BY <1>1, <1>2 DEF Paired, ResultsFollow
<1>6. ASSUME AllDone(h)  PROVE AllButLast(g)
  BY <1>2, <1>6 DEF AllDone, AllButLast, Done
<1>. QED  BY <1>2, <1>3, <1>4, <1>5, <1>6 DEF Paired, g, m

(* The results of the last reply join.                                       *)
LEMMA ResultsJoin ==
    ASSUME NEW h \in Seq(Message), Paired(h), NEW ids \in SUBSET (Nat \X Tools),
           h # <<>>, h[Len(h)] = Assistant(ids)
    PROVE  LET g == Append(h, Results(ids))
           IN /\ Paired(g) /\ g \in Seq(Message)
              /\ AllButLast(h) => AllDone(g)
<1> DEFINE m == Results(ids)
           g == Append(h, m)
<1>1. m \in Message /\ m.role = "blocks" /\ m.ids = ids
      /\ h[Len(h)].role = "assistant" /\ h[Len(h)].ids = ids
  BY DEF Results, Assistant, Message
<1>. HIDE DEF m
<1>2. /\ g \in Seq(Message) /\ Len(h) \in Nat \ {0} /\ Len(g) = Len(h) + 1
      /\ DOMAIN g = 1 .. Len(h) + 1 /\ DOMAIN h = 1 .. Len(h)
      /\ \A i \in DOMAIN h : g[i] = h[i]
      /\ g[Len(h) + 1] = m
  BY <1>1
<1>. HIDE DEF g
<1>3. PlacesOK(g)
  <2>1. \A id \in ids : id[1] <= Len(h) + 1
    <3>1. \A id \in ids : id[1] <= Len(h) /\ id[1] \in Nat
      BY <1>1, <1>2 DEF Paired, PlacesOK
    <3>. QED  BY <1>2, <3>1
  <2>. QED  BY <1>1, <1>2, <2>1 DEF Paired, PlacesOK
<1>4. RepliesApart(g)
  BY <1>1, <1>2 DEF Paired, RepliesApart
<1>5. ResultsFollow(g)
  BY <1>1, <1>2 DEF Paired, ResultsFollow
<1>6. ASSUME AllButLast(h)  PROVE AllDone(g)
  <2>1. ASSUME NEW i \in DOMAIN h, i # Len(h)  PROVE Done(g, i)
    BY <1>2, <1>6, <2>1 DEF AllButLast, Done
  <2>2. Done(g, Len(h)) /\ Done(g, Len(h) + 1)
    BY <1>1, <1>2 DEF Done, Asks
  <2>. QED  BY <1>2, <2>1, <2>2 DEF AllDone
<1>. QED  BY <1>2, <1>3, <1>4, <1>5, <1>6 DEF Paired, g, m

(* A broken stream's calls join with their results.                          *)
LEMMA SettledCallsJoin ==
    ASSUME NEW h \in Seq(Message), Paired(h), NEW use \in SUBSET Tools
    PROVE  LET g == h \o SettledCalls(Len(h) + 1, use)
           IN /\ Paired(g) /\ g \in Seq(Message)
              /\ AllDone(h) => AllDone(g)
<1>1. PICK a, b, f : /\ a = Assistant(Ids(Len(h) + 1, use))
                     /\ b = Results(Ids(Len(h) + 1, use))
                     /\ f = Append(h, a)
  OBVIOUS
<1>2. /\ Paired(f) /\ f \in Seq(Message) /\ Len(f) = Len(h) + 1 /\ f[Len(f)] = a
      /\ AllDone(h) => AllButLast(f)
  BY <1>1, ReplyJoins
<1>3. f # <<>> /\ Ids(Len(h) + 1, use) \in SUBSET (Nat \X Tools)
  BY <1>2 DEF Ids
<1>4. /\ Paired(Append(f, b)) /\ Append(f, b) \in Seq(Message)
      /\ AllDone(h) => AllDone(Append(f, b))
  BY <1>1, <1>2, <1>3, ResultsJoin
<1>5. a \in Message /\ b \in Message
  <2>1. Len(h) + 1 \in Nat
    OBVIOUS
  <2>. QED  BY <1>1, <2>1, MessagesAreTyped
<1>6. h \o <<a, b>> = Append(f, b)
  BY <1>1, <1>5
<1>. QED  BY <1>1, <1>4, <1>6 DEF SettledCalls

(* Images go home: nothing changes but their blocks.                         *)
LEMMA DehydrateKeeps ==
    ASSUME NEW h \in Seq(Message), Paired(h)
    PROVE  /\ Paired(Dehydrate(h)) /\ Dehydrate(h) \in Seq(Message)
           /\ AllDone(h) => AllDone(Dehydrate(h))
<1>1. PICK g : g = Dehydrate(h)
  OBVIOUS
<1>2. /\ g \in Seq(Message) /\ Len(g) = Len(h) /\ DOMAIN g = DOMAIN h
      /\ \A i \in DOMAIN h : /\ g[i].ids = h[i].ids
                             /\ g[i].role = "assistant" <=> h[i].role = "assistant"
                             /\ g[i].role = "text" => h[i].role = "text"
  <2>1. \A i \in DOMAIN h : /\ g[i].ids = h[i].ids
                            /\ h[i].role = "image" => g[i].role = "blocks"
                            /\ h[i].role # "image" => g[i] = h[i]
    BY <1>1, DehydrateFacts
  <2>. QED  BY <1>1, <2>1, DehydrateFacts
<1>3. PlacesOK(g)
  BY <1>2 DEF Paired, PlacesOK
<1>4. RepliesApart(g)
  BY <1>2 DEF Paired, RepliesApart
<1>5. ResultsFollow(g)
  BY <1>2 DEF Paired, ResultsFollow
<1>6. ASSUME AllDone(h)  PROVE AllDone(g)
  BY <1>2, <1>6 DEF AllDone, Done, Asks
<1>. QED  BY <1>1, <1>2, <1>3, <1>4, <1>5, <1>6 DEF Paired

(* Lists are put one behind the other: list k fills the places behind p[k].  *)
Places(p, N, s, g) ==
    /\ p \in [1..(N + 1) -> Nat]
    /\ p[1] = 0 /\ p[N + 1] = Len(g)
    /\ \A k \in 1..N : p[k + 1] = p[k] + Len(s[k])
    /\ \A k \in 1..N : \A i \in 1..Len(s[k]) : g[p[k] + i] = s[k][i]
    /\ \A j \in 1..Len(g) : \E k \in 1..N : \E i \in 1..Len(s[k]) : j = p[k] + i

LEMMA FlattenPlaces ==
    ASSUME NEW S, NEW N \in Nat, NEW s \in [1..N -> Seq(S)]
    PROVE  \E p : Places(p, N, s, FlattenSeq(s))
<1>1. PICK t \in [0..N -> Seq(S)] :
        /\ t[0] = <<>>
        /\ \A k \in 1..N : t[k] = t[k - 1] \o s[k]
        /\ FlattenSeq(s) = t[N]
  BY FlattenSteps
<1> DEFINE p == [k \in 1..(N + 1) |-> Len(t[k - 1])]
<1>2. \A k \in 1..(N + 1) : t[k - 1] \in Seq(S) /\ p[k] = Len(t[k - 1]) /\ p[k] \in Nat
  <2>1. \A k \in 1..(N + 1) : k - 1 \in 0..N
    OBVIOUS
  <2>. QED  BY <2>1
<1>3. p \in [1..(N + 1) -> Nat]
  BY <1>2
<1>. HIDE DEF p
<1>4. \A x, y \in Seq(S) :
        /\ Len(x \o y) = Len(x) + Len(y)
        /\ \A i \in 1..Len(x) : (x \o y)[i] = x[i]
        /\ \A i \in 1..Len(y) : (x \o y)[Len(x) + i] = y[i]
  OBVIOUS
<1>5. ASSUME NEW k \in 1..N
      PROVE  /\ k - 1 \in 0..N /\ k \in 0..N /\ k \in 1..(N + 1) /\ k + 1 \in 1..(N + 1)
             /\ t[k - 1] \in Seq(S) /\ t[k] \in Seq(S) /\ s[k] \in Seq(S)
             /\ p[k] = Len(t[k - 1]) /\ p[k + 1] = Len(t[k]) /\ p[k + 1] = p[k] + Len(s[k])
             /\ Len(s[k]) \in Nat /\ p[k] \in Nat
             /\ \A i \in 1..p[k] : t[k][i] = t[k - 1][i]
             /\ \A i \in 1..Len(s[k]) : t[k][p[k] + i] = s[k][i]
  <2>1. k - 1 \in 0..N /\ k \in 0..N /\ k \in 1..(N + 1) /\ k + 1 \in 1..(N + 1)
        /\ (k + 1) - 1 = k
    OBVIOUS
  <2>2. t[k - 1] \in Seq(S) /\ t[k] \in Seq(S) /\ s[k] \in Seq(S)
    BY <2>1
  <2>3. p[k] = Len(t[k - 1]) /\ p[k + 1] = Len(t[k]) /\ t[k] = t[k - 1] \o s[k]
    BY <1>1, <1>2, <2>1
  <2>4. Len(s[k]) \in Nat /\ p[k] \in Nat
    BY <2>2, <2>3
  <2>. QED  BY <1>4, <2>1, <2>2, <2>3, <2>4
<1>6. p[1] = 0 /\ p[N + 1] = Len(FlattenSeq(s))
  <2>1. 1 \in 1..(N + 1) /\ N + 1 \in 1..(N + 1) /\ 1 - 1 = 0 /\ (N + 1) - 1 = N
    OBVIOUS
  <2>. QED  BY <1>1, <1>2, <2>1
<1> DEFINE Covers(n) ==
             /\ \A k \in 1..n : \A i \in 1..Len(s[k]) : t[n][p[k] + i] = s[k][i]
             /\ \A j \in 1..Len(t[n]) : \E k \in 1..n : \E i \in 1..Len(s[k]) : j = p[k] + i
             /\ \A k \in 1..n : p[k] + Len(s[k]) <= Len(t[n])
           P == {n \in 0..N : Covers(n)}
<1>7. 0 \in P
  BY <1>1
<1>8. ASSUME NEW n \in 0..(N - 1), n \in P  PROVE n + 1 \in P
  <2>1. n + 1 \in 1..N /\ (n + 1) - 1 = n /\ Covers(n) /\ n \in 0..N
        /\ \A k \in 1..n : k \in 1..N
    <3>1. n + 1 \in 1..N /\ (n + 1) - 1 = n /\ n \in 0..N /\ \A k \in 1..n : k \in 1..N
      OBVIOUS
    <3>2. Covers(n)
      <4>. HIDE DEF Covers
      <4>. QED  BY <1>8
    <3>. QED
      <4>. HIDE DEF Covers
      <4>. QED  BY <3>1, <3>2
  <2>2. PICK m, x, y, z, a : /\ m = n + 1 /\ x = t[n] /\ y = t[m] /\ z = s[m] /\ a = p[m]
    OBVIOUS
  <2>3. /\ m \in 1..N /\ m \in Nat /\ n \in Nat /\ m = n + 1
        /\ a = Len(x) /\ Len(y) = a + Len(z) /\ Len(z) \in Nat /\ a \in Nat
    <3>1. m \in 1..N /\ m - 1 = n
      BY <2>1, <2>2
    <3>2. a = Len(x) /\ p[m + 1] = Len(y) /\ p[m + 1] = a + Len(z) /\ Len(z) \in Nat /\ a \in Nat
      BY <1>5, <2>2, <3>1
    <3>. QED  BY <2>2, <3>1, <3>2
  <2>9. /\ \A i \in 1..a : y[i] = x[i]
        /\ \A i \in 1..Len(z) : y[a + i] = z[i]
    <3>1. m \in 1..N /\ m - 1 = n
      BY <2>1, <2>2
    <3>. QED  BY <1>5, <2>2, <3>1
  <2>. HIDE DEF P
  <2>4. ASSUME NEW k \in 1..n
        PROVE  /\ p[k] + Len(s[k]) <= Len(y)
               /\ \A i \in 1..Len(s[k]) : y[p[k] + i] = s[k][i]
    <3>1. Len(s[k]) \in Nat /\ p[k] \in Nat
      BY <1>5, <2>1
    <3>2. p[k] + Len(s[k]) <= a
      BY <2>1, <2>2, <2>3
    <3>3. p[k] + Len(s[k]) <= Len(y)
      <4>1. \A b, c, d, e \in Nat : b + c <= d => b + c <= d + e
        OBVIOUS
      <4>. QED  BY <2>3, <3>1, <3>2, <4>1
    <3>4. \A i \in 1..Len(s[k]) : p[k] + i \in 1..a
      <4>1. \A b, c, d \in Nat : b + c <= d => \A i \in 1..c : b + i \in 1..d
        OBVIOUS
      <4>. QED  BY <2>3, <3>1, <3>2, <4>1
    <3>5. \A i \in 1..Len(s[k]) : x[p[k] + i] = s[k][i]
      BY <2>1, <2>2
    <3>6. \A i \in 1..Len(s[k]) : y[p[k] + i] = s[k][i]
      BY <2>9, <3>4, <3>5
    <3>. QED  BY <3>3, <3>6
  <2>5. a + Len(z) <= Len(y)
    BY <2>3
  <2>6. ASSUME NEW k \in 1..m
        PROVE  /\ p[k] + Len(s[k]) <= Len(y)
               /\ \A i \in 1..Len(s[k]) : y[p[k] + i] = s[k][i]
    <3>1. k \in 1..n \/ k = m
      BY <2>3
    <3>2. CASE k = m
      <4>1. p[k] = a /\ s[k] = z
        BY <2>2, <3>2
      <4>. QED  BY <2>5, <2>9, <4>1
    <3>. QED  BY <2>4, <3>1, <3>2
  <2>7. ASSUME NEW j \in 1..Len(y)
        PROVE  \E k \in 1..m : \E i \in 1..Len(s[k]) : j = p[k] + i
    <3>1. CASE j \in 1..Len(x)
      <4>1. PICK k \in 1..n : \E i \in 1..Len(s[k]) : j = p[k] + i
        BY <2>1, <2>2, <3>1
      <4>2. k \in 1..m
        BY <2>3
      <4>. QED  BY <4>1, <4>2
    <3>2. CASE j \notin 1..Len(x)
      <4>1. j - a \in 1..Len(z) /\ j = a + (j - a)
        BY <2>3, <3>2
      <4>2. m \in 1..m /\ s[m] = z /\ p[m] = a
        BY <2>2, <2>3
      <4>. QED  BY <4>1, <4>2
    <3>. QED  BY <3>1, <3>2
  <2>8. Covers(m)
    <3>1. t[m] = y
      BY <2>2
    <3>. QED  BY <2>6, <2>7, <3>1
  <2>10. m \in 0..N
    BY <2>3
  <2>. HIDE DEF Covers
  <2>. QED  BY <2>3, <2>8, <2>10 DEF P
<1>9. Covers(N)
  <2>. HIDE DEF P
  <2>1. \A n \in 0..N : n \in P
    BY <1>7, <1>8, EveryPlace
  <2>2. N \in P
    BY <2>1
  <2>. QED  BY <2>2 DEF P
<1>10. /\ \A k \in 1..N : \A i \in 1..Len(s[k]) : FlattenSeq(s)[p[k] + i] = s[k][i]
       /\ \A j \in 1..Len(FlattenSeq(s)) :
            \E k \in 1..N : \E i \in 1..Len(s[k]) : j = p[k] + i
  BY <1>1, <1>9
<1>11. \A k \in 1..N : p[k + 1] = p[k] + Len(s[k])
  BY <1>5
<1>. QED  BY <1>3, <1>6, <1>10, <1>11 DEF Places

(* A restart answers every call that has no result yet.                      *)
LEMMA RepairAnswers ==
    ASSUME NEW h \in Seq(Message), Paired(h)
    PROVE  Paired(RepairDanglingToolUses(h)) /\ AllDone(RepairDanglingToolUses(h))
<1> DEFINE Followed(i) == i < Len(h) /\ IsBlocks(h[i + 1])
           Led(i) == IF IsBlocks(h[i]) THEN [h[i] EXCEPT !.ids = @ \cup Asked(h, i)] ELSE h[i]
           Adds(i) == Asks(h[i]) /\ ~Followed(i)
<1>1. PICK N, s, g : /\ N = Len(h) /\ s = [i \in 1 .. Len(h) |-> OnLoad(h, i)]
                     /\ g = RepairDanglingToolUses(h)
  OBVIOUS
<1>2. /\ N \in Nat /\ s \in [1..N -> Seq(Message)] /\ g = FlattenSeq(s)
      /\ g \in Seq(Message) /\ DOMAIN h = 1..N
      /\ \A i \in 1..N : h[i] \in Message
  <2>1. N \in Nat /\ DOMAIN h = 1..N /\ \A i \in 1..N : h[i] \in Message
    BY <1>1
  <2>2. s \in [1..N -> Seq(Message)]
    BY <1>1, OnLoadIsTyped
  <2>. QED  BY <1>1, <2>1, <2>2, RepairIsTyped DEF RepairDanglingToolUses
<1>21. N \in Nat /\ s \in [1..N -> Seq(Message)]
  BY <1>2
<1>22. PICK p : Places(p, N, s, g)
  <2>1. g = FlattenSeq(s)
    BY <1>2
  <2>. QED  BY <1>21, <2>1, FlattenPlaces
<1>3. /\ p \in [1..(N + 1) -> Nat]
      /\ p[1] = 0 /\ p[N + 1] = Len(g)
      /\ \A k \in 1..N : p[k + 1] = p[k] + Len(s[k])
      /\ \A k \in 1..N : \A i \in 1..Len(s[k]) : g[p[k] + i] = s[k][i]
      /\ \A j \in 1..Len(g) : \E k \in 1..N : \E i \in 1..Len(s[k]) : j = p[k] + i
  BY <1>22 DEF Places
(* The list of each message. *)
<1>4. ASSUME NEW k \in 1..N
      PROVE  /\ Led(k).role = h[k].role /\ Led(k) \in Message
             /\ h[k].ids \subseteq Led(k).ids
             /\ ~IsBlocks(h[k]) => Led(k) = h[k]
             /\ IsBlocks(h[k]) => Led(k).ids = h[k].ids \cup Asked(h, k)
  <2>1. h[k] \in Message
    BY <1>2
  <2>2. Asked(h, k) \in SUBSET (Nat \X Tools)
    <3>1. k > 1 => k - 1 \in 1..N
      BY <1>2
    <3>. QED  BY <1>2, <3>1 DEF Asked, Message
  <2>. QED  BY <2>1, <2>2 DEF Message
<1>5. ASSUME NEW k \in 1..N
      PROVE  s[k] = IF Adds(k) THEN <<Led(k), Results(h[k].ids)>> ELSE <<Led(k)>>
  BY <1>1 DEF OnLoad
<1>. HIDE DEF Led, Followed
<1>6. ASSUME NEW k \in 1..N
      PROVE  /\ Len(s[k]) = IF Adds(k) THEN 2 ELSE 1
             /\ s[k][1] = Led(k)
             /\ Adds(k) => s[k][2] = Results(h[k].ids)
  <2>1. \A x, y : /\ Len(<<x>>) = 1 /\ <<x>>[1] = x
                  /\ Len(<<x, y>>) = 2 /\ <<x, y>>[1] = x /\ <<x, y>>[2] = y
    OBVIOUS
  <2>2. CASE Adds(k)
    <3>1. s[k] = <<Led(k), Results(h[k].ids)>>
      BY <1>5, <2>2
    <3>. HIDE DEF Adds
    <3>. QED  BY <2>1, <2>2, <3>1
  <2>3. CASE ~Adds(k)
    <3>1. s[k] = <<Led(k)>>
      BY <1>5, <2>3
    <3>. HIDE DEF Adds
    <3>. QED  BY <2>1, <2>3, <3>1
  <2>. QED  BY <2>2, <2>3
<1>. HIDE DEF Adds
(* Where it stands. *)
<1>7. ASSUME NEW k \in 1..N
      PROVE  /\ k \in Nat /\ k \in 1..(N + 1) /\ k + 1 \in 1..(N + 1) /\ p[k] \in Nat
             /\ p[k + 1] \in Nat
             /\ p[k + 1] = p[k] + (IF Adds(k) THEN 2 ELSE 1)
             /\ g[p[k] + 1] = Led(k)
             /\ Adds(k) => g[p[k] + 2] = Results(h[k].ids)
  <2>1. k \in Nat /\ k \in 1..(N + 1) /\ k + 1 \in 1..(N + 1) /\ p[k] \in Nat /\ p[k + 1] \in Nat
    BY <1>2, <1>3
  <2>2. 1 \in 1..Len(s[k]) /\ (Adds(k) => 2 \in 1..Len(s[k]))
    BY <1>6
  <2>3. p[k + 1] = p[k] + Len(s[k])
    BY <1>3
  <2>4. \A i \in 1..Len(s[k]) : g[p[k] + i] = s[k][i]
    BY <1>3
  <2>. QED  BY <1>6, <2>1, <2>2, <2>3, <2>4
<1>8. \A n \in 0..N : \A i \in 1..(n + 1) : i - 1 <= p[i] /\ p[i] <= p[n + 1] /\
          (i # n + 1 => p[i] < p[n + 1] /\ (Adds(i) => p[i] + 1 < p[n + 1]))
  <2> DEFINE Sorted(n) == \A i \in 1..(n + 1) : i - 1 <= p[i] /\ p[i] <= p[n + 1] /\
               (i # n + 1 => p[i] < p[n + 1] /\ (Adds(i) => p[i] + 1 < p[n + 1]))
             P == {n \in 0..N : Sorted(n)}
  <2>1. 0 \in P
    BY <1>2, <1>3
  <2>2. ASSUME NEW n \in 0..(N - 1), n \in P  PROVE n + 1 \in P
    <3>1. n + 1 \in 1..N /\ n + 1 \in 0..N /\ n \in Nat /\ n + 1 \in 1..(n + 1)
      BY <1>2
    <3>2. PICK m : m = n + 1
      OBVIOUS
    <3>3. /\ m \in Nat /\ p[m] \in Nat /\ p[m + 1] \in Nat /\ m - 1 <= p[m]
          /\ p[m + 1] = p[m] + (IF Adds(m) THEN 2 ELSE 1)
      BY <1>7, <2>2, <3>1, <3>2
    <3>4. \A i \in 1..m : p[i] \in Nat /\ i - 1 <= p[i] /\ p[i] <= p[m] /\
            (i # m => p[i] < p[m] /\ (Adds(i) => p[i] + 1 < p[m]))
      <4>1. \A i \in 1..m : i \in 1..(N + 1) /\ p[i] \in Nat
        BY <1>2, <1>3, <3>1, <3>2
      <4>. QED  BY <2>2, <3>2, <4>1
    <3>5. ASSUME NEW i \in 1..(m + 1)
          PROVE  i - 1 <= p[i] /\ p[i] <= p[m + 1] /\
                   (i # m + 1 => p[i] < p[m + 1] /\ (Adds(i) => p[i] + 1 < p[m + 1]))
      <4>1. CASE i = m + 1
        BY <3>3, <4>1
      <4>2. CASE i = m
        BY <3>3, <4>2
      <4>3. CASE i # m /\ i # m + 1
        <5>1. i \in 1..m
          BY <3>3, <4>3
        <5>. QED  BY <3>3, <3>4, <4>3, <5>1
      <4>. QED  BY <4>1, <4>2, <4>3
    <3>6. Sorted(m)
      BY <3>5
    <3>. HIDE DEF Sorted
    <3>. QED  BY <3>1, <3>2, <3>6
  <2>. HIDE DEF P
  <2>3. \A n \in 0..N : n \in P
    BY <1>2, <2>1, <2>2, EveryPlace
  <2>. QED  BY <2>3 DEF P
<1>9. ASSUME NEW i \in 1..N, NEW k \in 1..N, i # k
      PROVE  p[i] # p[k]
  <2>1. ASSUME NEW a \in 1..N, NEW b \in 1..N, a < b  PROVE p[a] < p[b]
    <3>1. b - 1 \in 0..N /\ (b - 1) + 1 = b /\ a \in 1..b /\ a # b
      BY <1>2, <2>1
    <3>. QED  BY <1>8, <3>1
  <2>. QED  BY <1>7, <1>9, <2>1
<1>10. ASSUME NEW k \in 1..N  PROVE k <= p[k] + 1 /\ p[k] + 1 \in DOMAIN g
                                    /\ (Adds(k) => p[k] + 2 \in DOMAIN g)
  <2>1. k - 1 <= p[k]
    <3>1. k - 1 \in 0..N /\ k \in 1..((k - 1) + 1)
      BY <1>2
    <3>. QED  BY <1>8, <3>1
  <2>2. p[k] < p[N + 1] /\ (Adds(k) => p[k] + 1 < p[N + 1])
    <3>1. N \in 0..N /\ k \in 1..(N + 1) /\ k # N + 1
      BY <1>2
    <3>. QED  BY <1>8, <3>1
  <2>3. DOMAIN g = 1..p[N + 1] /\ p[N + 1] \in Nat
    BY <1>2, <1>3
  <2>. QED  BY <1>7, <2>1, <2>2, <2>3
(* A message of the new history is an old one, led, or results added. *)
<1>11. ASSUME NEW j \in DOMAIN g
       PROVE  \E k \in 1..N :
                \/ j = p[k] + 1 /\ g[j] = Led(k)
                \/ j = p[k] + 2 /\ Adds(k) /\ g[j] = Results(h[k].ids)
  <2>1. j \in 1..Len(g)
    BY <1>2
  <2>2. PICK k \in 1..N : \E i \in 1..Len(s[k]) : j = p[k] + i
    BY <1>3, <2>1
  <2>3. PICK i \in 1..Len(s[k]) : j = p[k] + i
    BY <2>2
  <2>4. i = 1 \/ (i = 2 /\ Adds(k))
    BY <1>6, <2>3
  <2>. QED  BY <1>7, <2>3, <2>4
<1>12. \A k \in 1..N : Results(h[k].ids).ids = h[k].ids /\ Results(h[k].ids).role = "blocks"
  BY DEF Results
<1>13. \A k \in 1..N : \A id \in h[k].ids : id \in Nat \X Tools
  BY <1>2 DEF Message
<1>14. PlacesOK(g)
  <2> SUFFICES ASSUME NEW j \in DOMAIN g, NEW id \in g[j].ids  PROVE id[1] <= j
    BY DEF PlacesOK
  <2>1. PICK k \in 1..N : \/ j = p[k] + 1 /\ g[j] = Led(k)
                          \/ j = p[k] + 2 /\ Adds(k) /\ g[j] = Results(h[k].ids)
    BY <1>11
  <2>2. j \in Nat /\ k \in Nat /\ k <= j
    BY <1>7, <1>10, <2>1
  <2>3. id \in h[k].ids \/ (k - 1 \in 1..N /\ id \in h[k - 1].ids)
    <3>1. id \in h[k].ids \/ id \in Asked(h, k)
      BY <1>4, <1>12, <2>1
    <3>2. id \in Asked(h, k) => k - 1 \in 1..N /\ id \in h[k - 1].ids
      BY <1>2 DEF Asked
    <3>. QED  BY <3>1, <3>2
  <2>4. \A i \in 1..N : \A x \in h[i].ids : x[1] <= i /\ x[1] \in Nat
    BY <1>2, <1>13 DEF Paired, PlacesOK
  <2>5. id[1] \in Nat /\ id[1] <= k
    BY <2>2, <2>3, <2>4
  <2>. QED  BY <2>2, <2>5
<1>15. ASSUME NEW j \in DOMAIN g, g[j].role = "assistant"
       PROVE  \E k \in 1..N : j = p[k] + 1 /\ g[j] = h[k] /\ h[k].role = "assistant"
  <2>1. PICK k \in 1..N : \/ j = p[k] + 1 /\ g[j] = Led(k)
                          \/ j = p[k] + 2 /\ Adds(k) /\ g[j] = Results(h[k].ids)
    BY <1>11
  <2>. QED  BY <1>4, <1>12, <1>15, <2>1 DEF IsBlocks
<1>16. RepliesApart(g)
  <2> SUFFICES ASSUME NEW i \in DOMAIN g, NEW j \in DOMAIN g, NEW id \in g[i].ids,
                      g[i].role = "assistant", g[j].role = "assistant", i # j
               PROVE  id \notin g[j].ids
    BY DEF RepliesApart
  <2>1. PICK k \in 1..N : i = p[k] + 1 /\ g[i] = h[k] /\ h[k].role = "assistant"
    BY <1>15
  <2>2. PICK l \in 1..N : j = p[l] + 1 /\ g[j] = h[l] /\ h[l].role = "assistant"
    BY <1>15
  <2>. QED  BY <1>2, <2>1, <2>2 DEF Paired, RepliesApart
<1>17. ASSUME NEW k \in 1..N, h[k].role = "assistant"
       PROVE  g[p[k] + 1] = h[k] /\ p[k] + 1 \in DOMAIN g
  BY <1>4, <1>7, <1>10, <1>17 DEF IsBlocks
<1>18. ASSUME NEW k \in 1..N, k - 1 \in 1..N, IsBlocks(h[k])
       PROVE  p[k] = p[k - 1] + 1
  <2>1. ~Adds(k - 1)
    <3>1. k - 1 < Len(h) /\ (k - 1) + 1 = k
      BY <1>1, <1>2
    <3>. QED  BY <1>18, <3>1 DEF Adds, Followed
  <2>2. (k - 1) + 1 = k
    BY <1>2
  <2>. QED  BY <1>7, <1>18, <2>1, <2>2
<1>19. ResultsFollow(g)
  <2> SUFFICES ASSUME NEW j \in DOMAIN g, g[j].role # "assistant", g[j].ids # {}
               PROVE  /\ g[j].role # "text" /\ j - 1 \in DOMAIN g
                      /\ g[j - 1].role = "assistant" /\ g[j].ids \subseteq g[j - 1].ids
    BY DEF ResultsFollow
  <2>1. PICK k \in 1..N : \/ j = p[k] + 1 /\ g[j] = Led(k)
                          \/ j = p[k] + 2 /\ Adds(k) /\ g[j] = Results(h[k].ids)
    BY <1>11
  <2>2. CASE j = p[k] + 2 /\ Adds(k) /\ g[j] = Results(h[k].ids)
    <3>1. h[k].role = "assistant" /\ j - 1 = p[k] + 1
      BY <1>7, <2>2 DEF Adds, Asks
    <3>. QED  BY <1>12, <1>17, <2>2, <3>1
  <2>3. CASE j = p[k] + 1 /\ g[j] = Led(k)
    <3>1. Led(k).role = h[k].role /\ h[k] \in Message
      BY <1>2, <1>4
    <3>2. ASSUME h[k].ids # {}
          PROVE  /\ h[k].role # "text" /\ k - 1 \in 1..N
                 /\ h[k - 1].role = "assistant" /\ h[k].ids \subseteq h[k - 1].ids
      BY <1>2, <2>3, <3>1, <3>2 DEF Paired, ResultsFollow
    <3>3. IsBlocks(h[k])
      <4>1. ~IsBlocks(h[k]) => Led(k) = h[k]
        BY <1>4
      <4>2. h[k].role \in {"text", "blocks", "image", "assistant"}
        BY <3>1 DEF Message
      <4>. QED  BY <2>3, <3>1, <3>2, <4>1, <4>2 DEF IsBlocks
    <3>4. /\ k - 1 \in 1..N /\ h[k - 1].role = "assistant"
          /\ Led(k).ids \subseteq h[k - 1].ids
      <4>1. Led(k).ids = h[k].ids \cup Asked(h, k)
        BY <1>4, <3>3
      <4>2. Asked(h, k) # {} => k - 1 \in 1..N /\ h[k - 1].role = "assistant"
        BY <1>2 DEF Asked
      <4>3. k - 1 \in 1..N /\ h[k - 1].role = "assistant"
        BY <2>3, <3>2, <4>1, <4>2
      <4>4. Asked(h, k) \subseteq h[k - 1].ids
        BY <4>3 DEF Asked
      <4>. QED  BY <3>2, <4>1, <4>3, <4>4
    <3>5. j - 1 = p[k - 1] + 1
      BY <1>7, <1>18, <2>3, <3>3, <3>4
    <3>6. g[j].role # "text"
      BY <2>3, <3>1, <3>3 DEF IsBlocks
    <3>. QED  BY <1>17, <2>3, <3>4, <3>5, <3>6
  <2>. QED  BY <2>1, <2>2, <2>3
<1>20. AllDone(g)
  <2> SUFFICES ASSUME NEW j \in DOMAIN g, Asks(g[j])
               PROVE  /\ j + 1 \in DOMAIN g /\ g[j + 1].role # "assistant"
                      /\ g[j].ids \subseteq g[j + 1].ids
    BY DEF AllDone, Done
  <2>1. PICK k \in 1..N : j = p[k] + 1 /\ g[j] = h[k] /\ h[k].role = "assistant"
    BY <1>15 DEF Asks
  <2>2. CASE Adds(k)
    <3>1. j + 1 = p[k] + 2 /\ p[k] + 2 \in DOMAIN g
      BY <1>7, <1>10, <2>1, <2>2
    <3>. QED  BY <1>7, <1>12, <2>1, <2>2, <3>1
  <2>3. CASE ~Adds(k)
    <3>1. k < Len(h) /\ IsBlocks(h[k + 1])
      BY <2>1, <2>3 DEF Adds, Followed
    <3>2. k + 1 \in 1..N /\ (k + 1) - 1 = k /\ k + 1 > 1
      BY <1>1, <1>2, <3>1
    <3>3. j + 1 = p[k + 1] + 1 /\ p[k + 1] + 1 \in DOMAIN g
      BY <1>7, <1>10, <2>1, <2>3, <3>2
    <3>4. g[j + 1] = Led(k + 1) /\ Led(k + 1).role = h[k + 1].role
          /\ Led(k + 1).ids = h[k + 1].ids \cup Asked(h, k + 1)
      BY <1>4, <1>7, <3>1, <3>2, <3>3
    <3>5. Asked(h, k + 1) = h[k].ids
      BY <2>1, <3>2 DEF Asked
    <3>. QED  BY <2>1, <3>1, <3>3, <3>4, <3>5 DEF IsBlocks
  <2>. QED  BY <2>2, <2>3
<1>. QED  BY <1>1, <1>14, <1>16, <1>19, <1>20 DEF Paired

(* Where no message came in the middle of a turn and no turn runs beside     *)
(* another, the history, the file and the write under way are paired, a turn *)
(* with a round open has its reply at the end of the history, and unless a   *)
(* save failed no other reply is without its results.                        *)
AtWork == \E r \in Requests : Working(turn[r])
OpenReply(t) ==
    /\ history # <<>> /\ t.at = Len(history)
    /\ history[Len(history)] = Assistant(Ids(t.at, t.use))
HistoryOK ==
    /\ Paired(history) /\ Paired(file.messages)
    /\ writes # <<>> => Paired(snap.messages)
    /\ \A r \in Requests : Working(turn[r]) => OpenReply(turn[r])
    /\ ~failed => AllButLast(history) /\ (~AtWork => AllDone(history))
PairingInv == ~late /\ ~overtaken => HistoryOK

(* What becomes of the file and of the write under way. *)
DiskStep ==
    /\ file' = file \/ (writes # <<>> /\ file' = snap)
    /\ writes' # <<>> => (writes # <<>> /\ snap' = snap) \/ snap' = Memory'

LEMMA DiskIsPaired ==
    ASSUME HistoryOK, DiskStep, Paired(history')
    PROVE  Paired(file'.messages) /\ (writes' # <<>> => Paired(snap'.messages))
<1>1. Memory'.messages = history'
  BY DEF Memory
<1>. QED  BY <1>1 DEF HistoryOK, DiskStep

LEMMA WrittenStep ==
    ASSUME writes \in Seq(Waiter), writes # <<>>,
           NEW who, NEW r, NEW ok \in BOOLEAN, NEW new, Written(who, r, ok, new)
    PROVE  DiskStep /\ failed' = (failed \/ ~ok)
<1>1. Tail(writes) # writes
  BY TailFacts
<1>. QED  BY <1>1 DEF Written, Chain, DiskStep

(* A history that stays, while every turn keeps its round. *)
LEMMA PairingStays ==
    ASSUME HistoryOK, history' = history, DiskStep, ~failed' => ~failed,
           \A q \in Requests : Working(turn'[q]) <=> Working(turn[q]),
           \A q \in Requests : Working(turn[q]) =>
               turn'[q].at = turn[q].at /\ turn'[q].use = turn[q].use
    PROVE  HistoryOK'
<1>1. Paired(history') /\ Paired(file'.messages) /\ (writes' # <<>> => Paired(snap'.messages))
  BY DiskIsPaired DEF HistoryOK
<1>2. \A r \in Requests : Working(turn'[r]) => OpenReply(turn[r])' 
  BY DEF HistoryOK, OpenReply
<1>3. AtWork' <=> AtWork
  BY DEF AtWork
<1>4. ~failed' => AllButLast(history') /\ (~AtWork' => AllDone(history'))
  BY <1>3 DEF HistoryOK
<1>. QED  BY <1>1, <1>2, <1>4 DEF HistoryOK

(* A history that changes while nobody has a round open. *)
LEMMA PairingGoesOn ==
    ASSUME HistoryOK, DiskStep, Paired(history'), ~failed' => AllDone(history'),
           \A q \in Requests : ~Working(turn'[q])
    PROVE  HistoryOK'
<1>1. Paired(file'.messages) /\ (writes' # <<>> => Paired(snap'.messages))
  BY DiskIsPaired
<1>2. AllDone(history') => AllButLast(history')
  BY DEF AllDone, AllButLast
<1>. QED  BY <1>1, <1>2 DEF HistoryOK

LEMMA TurnStepPairs ==
    ASSUME SessionInv, AgentAssumption, PairingInv, NEW r \in Requests, NEW d, TurnStep(r, d)
    PROVE  PairingInv'
<1> SUFFICES ASSUME ~late', ~overtaken'  PROVE HistoryOK'
  BY DEF PairingInv
<1>1. HistoryOK /\ ~overtaken
  BY DEF TurnStep, TurnOnly, PairingInv
<1>2. DiskMoves
  BY TurnStepQueue
<1>3. DiskStep /\ (~failed' => ~failed)
  BY <1>2 DEF DiskMoves, DiskStep
<1>4. /\ history \in Seq(Message) /\ turn \in [Requests -> Turn] /\ d \in Turn
      /\ turn'[r] = d /\ \A q \in Requests : q # r => turn'[q] = turn[q]
  BY DEF TurnStep, SessionInv, TypeOK
<1>5. d.at \in Nat /\ d.use \in SUBSET Tools /\ turn[r].at \in Nat /\ turn[r].use \in SUBSET Tools
  BY <1>4, TurnFacts
<1>6. CASE ~InTurn(r)
  <2>1. history' = history /\ ~Working(turn[r]) /\ ~Working(d)
    BY <1>6 DEF TurnStep, InTurn, Working
  <2>. QED  BY <1>1, <1>3, <1>4, <2>1, PairingStays
<1>7. CASE InTurn(r)
  <2>1. \A q \in Requests : q # r => ~InTurn(q)
    BY <1>1, <1>7 DEF SessionInv, OneActive
  <2>2. \A q \in Requests : q # r => ~Working(turn[q]) /\ ~Working(turn'[q])
    BY <1>4, <2>1 DEF InTurn, Working
  <2>3. AtWork <=> Working(turn[r])
    BY <2>2 DEF AtWork
  <2>4. ~Working(d) => \A q \in Requests : ~Working(turn'[q])
    BY <1>4, <2>2
  <2>5. Paired(history) /\ (Working(turn[r]) => OpenReply(turn[r]))
        /\ (~failed => AllButLast(history) /\ (~Working(turn[r]) => AllDone(history)))
    BY <1>1, <2>3 DEF HistoryOK
  <2>6. CASE /\ \/ history' = history
                \/ history' = Append(history, Assistant({}))
                \/ history' = Append(history, Says("text"))
                \/ \E use \in SUBSET Tools :
                     history' = history \o SettledCalls(Len(history) + 1, use)
             /\ ~Working(turn[r]) /\ ~Working(d)
    <3>1. /\ Assistant({}) \in Message /\ Assistant({}).ids = {}
          /\ Says("text") \in Message /\ Says("text").ids = {}
      BY <1>5, MessagesAreTyped DEF Assistant, Says
    <3>2. Paired(history') /\ (AllDone(history) => AllDone(history'))
      <4>1. CASE history' = history
        BY <2>5, <4>1
      <4>2. CASE history' = Append(history, Assistant({}))
        BY <1>4, <2>5, <3>1, <4>2, PlainJoins
      <4>3. CASE history' = Append(history, Says("text"))
        BY <1>4, <2>5, <3>1, <4>3, PlainJoins
      <4>4. ASSUME NEW use \in SUBSET Tools,
                   history' = history \o SettledCalls(Len(history) + 1, use)
            PROVE  Paired(history') /\ (AllDone(history) => AllDone(history'))
        BY <1>4, <2>5, <4>4, SettledCallsJoin
      <4>. QED  BY <2>6, <4>1, <4>2, <4>3, <4>4
    <3>. QED  BY <1>1, <1>3, <2>4, <2>5, <2>6, <3>2, PairingGoesOn
  <2>7. CASE /\ history' = history
             /\ turn[r].pc = "asked" /\ turn[r].use = {} /\ ~Working(d)
    <3>1. OpenReply(turn[r]) /\ Ids(turn[r].at, {}) = {}
      BY <2>5, <2>7 DEF Working, Ids
    <3>2. history[Len(history)].ids = {}
      BY <2>7, <3>1 DEF OpenReply, Assistant
    <3>3. AllButLast(history) => AllDone(history)
      BY <3>2 DEF AllButLast, AllDone, Done, Asks
    <3>. QED  BY <1>1, <1>3, <2>4, <2>5, <2>7, <3>3, PairingGoesOn
  <2>8. CASE /\ history' = history
             /\ Working(turn[r]) /\ d.pc = "tools"
             /\ d.at = turn[r].at /\ d.use = turn[r].use
    <3>1. Working(d)
      BY <2>8 DEF Working
    <3>. QED  BY <1>1, <1>3, <1>4, <2>2, <2>8, <3>1, PairingStays
  <2>9. CASE /\ history' = Append(history, Assistant(Ids(Len(history) + 1, d.use)))
             /\ ~Working(turn[r]) /\ d.pc = "asked" /\ d.at = Len(history) + 1
    <3>1. /\ Paired(history') /\ history' \in Seq(Message) /\ Len(history') = Len(history) + 1
          /\ history'[Len(history')] = Assistant(Ids(Len(history) + 1, d.use))
          /\ AllDone(history) => AllButLast(history')
      BY <1>4, <1>5, <2>5, <2>9, ReplyJoins
    <3>2. OpenReply(turn[r])'
      <4>1. history' # <<>>
        BY <1>4, <3>1
      <4>. QED  BY <1>4, <2>9, <3>1, <4>1 DEF OpenReply
    <3>3. \A q \in Requests : Working(turn'[q]) => OpenReply(turn[q])'
      BY <2>2, <3>2
    <3>4. AtWork'
      BY <1>4, <2>9 DEF AtWork, Working
    <3>5. Paired(file'.messages) /\ (writes' # <<>> => Paired(snap'.messages))
      BY <1>1, <1>3, <3>1, DiskIsPaired
    <3>. QED  BY <1>3, <2>5, <2>9, <3>1, <3>3, <3>4, <3>5 DEF HistoryOK
  <2>10. CASE /\ history' = Append(history, Results(Ids(turn[r].at, turn[r].use)))
              /\ Working(turn[r]) /\ ~Working(d)
    <3>1. Ids(turn[r].at, turn[r].use) \in SUBSET (Nat \X Tools)
      BY <1>5 DEF Ids
    <3>2. Paired(history') /\ (AllButLast(history) => AllDone(history'))
      BY <1>4, <2>5, <2>10, <3>1, ResultsJoin DEF OpenReply
    <3>. QED  BY <1>1, <1>3, <2>4, <2>5, <2>10, <3>2, PairingGoesOn
  <2>11. HistoryStep(r, d)
    BY DEF TurnStep
  <2>. QED  BY <2>6, <2>7, <2>8, <2>9, <2>10, <2>11 DEF HistoryStep
<1>. QED  BY <1>6, <1>7

LEMMA PersonStepPairs ==
    ASSUME SessionInv, AgentAssumption, PairingInv, NEW r \in Requests, NEW d, PersonStep(r, d)
    PROVE  PairingInv'
<1> SUFFICES ASSUME ~late', ~overtaken'  PROVE HistoryOK'
  BY DEF PairingInv
<1>1. HistoryOK /\ history' = history
  BY DEF PersonStep, PeopleOnly, PairingInv
<1>2. DiskMoves
  BY PersonStepQueue
<1>3. DiskStep /\ (~failed' => ~failed)
  BY <1>2 DEF DiskMoves, DiskStep
<1>4. /\ turn'[r].pc = turn[r].pc /\ turn'[r].at = turn[r].at /\ turn'[r].use = turn[r].use
      /\ \A q \in Requests : q # r => turn'[q] = turn[q]
  BY DEF PersonStep, SessionInv, TypeOK
<1>5. \A q \in Requests : (Working(turn'[q]) <=> Working(turn[q])) /\
          turn'[q].at = turn[q].at /\ turn'[q].use = turn[q].use
  BY <1>4 DEF Working
<1>. QED  BY <1>1, <1>3, <1>5, PairingStays

LEMMA RequestStepPairs ==
    ASSUME SessionInv, AgentAssumption, PairingInv, NEW r \in Requests, NEW s, RequestStep(r, s)
    PROVE  PairingInv'
<1> SUFFICES ASSUME ~late', ~overtaken'  PROVE HistoryOK'
  BY DEF PairingInv
<1>1. HistoryOK /\ ~overtaken /\ turn' = turn
  <2>1. overtaken' = overtaken /\ turn' = turn
    BY DEF RequestStep
  <2>2. late' = late \/ late' = (late \/ \E q \in Requests : InTurn(q))
    BY DEF RequestStep
  <2>3. ~late
    BY <2>2
  <2>. QED  BY <2>1, <2>3 DEF PairingInv
<1>2. DiskStep /\ failed' = failed
  <2>1. CASE NoSave
    BY <2>1 DEF NoSave, diskVars, DiskStep
  <2>2. ASSUME NEW who, Save(who, r)  PROVE DiskStep /\ failed' = failed
    BY <2>2 DEF Save, Chain, DiskStep
  <2>. QED  BY <2>1, <2>2 DEF RequestStep
<1>3. history \in Seq(Message) /\ Paired(history)
      /\ (~failed => AllButLast(history) /\ (~AtWork => AllDone(history)))
  BY <1>1 DEF SessionInv, TypeOK, HistoryOK
<1>4. CASE history' = history
  BY <1>1, <1>2, <1>4, PairingStays
<1>5. ASSUME \A q \in Requests : ~InTurn(q)
      PROVE  (\A q \in Requests : ~Working(turn'[q])) /\ ~AtWork
  BY <1>1, <1>5 DEF InTurn, Working, AtWork
<1>6. Paired(Dehydrate(history)) /\ Dehydrate(history) \in Seq(Message)
      /\ (AllDone(history) => AllDone(Dehydrate(history)))
  BY <1>3, DehydrateKeeps
<1>7. CASE history' = Dehydrate(history) /\ active[gen] = Nobody
  <2>1. \A q \in Requests : ~InTurn(q)
    BY <1>1, <1>7 DEF SessionInv, OneActive, AgentAssumption
  <2>. QED  BY <1>1, <1>2, <1>3, <1>5, <1>6, <1>7, <2>1, PairingGoesOn
<1>8. ASSUME NEW h \in {history, Dehydrate(history)}, NEW role \in {"text", "image"},
             history' = Append(h, Says(role)),
             late' = (late \/ \E q \in Requests : InTurn(q))
      PROVE  HistoryOK'
  <2>1. \A q \in Requests : ~InTurn(q)
    BY <1>8
  <2>2. Says(role) \in Message /\ Says(role).ids = {}
    BY DEF Says, Message
  <2>3. h \in Seq(Message) /\ Paired(h) /\ (AllDone(history) => AllDone(h))
    BY <1>3, <1>6
  <2>4. Paired(history') /\ (AllDone(h) => AllDone(history'))
    BY <1>8, <2>2, <2>3, PlainJoins
  <2>. QED  BY <1>1, <1>2, <1>3, <1>5, <2>1, <2>3, <2>4, PairingGoesOn
<1>9. HistoryJoins
  BY DEF RequestStep
<1>. QED  BY <1>4, <1>7, <1>8, <1>9 DEF HistoryJoins

LEMMA AnswerStepPairs ==
    ASSUME SessionInv, AgentAssumption, PairingInv, NEW r \in Requests,
           NEW who \in {"message", "notice"}, NEW ok \in BOOLEAN, AnswerStep(r, who, ok)
    PROVE  PairingInv'
<1> SUFFICES ASSUME ~late', ~overtaken'  PROVE HistoryOK'
  BY DEF PairingInv
<1>1. HistoryOK /\ history' = history /\ writes # <<>> /\ Written(who, r, ok, <<>>)
  BY DEF AnswerStep, PairingInv
<1>2. DiskStep /\ (~failed' => ~failed)
  BY <1>1, WrittenStep DEF SessionInv, TypeOK
<1>3. turn[r].pc = "none"
  <2>1. Awaits(who, r)
    BY <1>1 DEF Written, Awaits
  <2>. QED  BY <2>1, HeadStands DEF SessionInv, OneActive
<1>4. ~Working(turn[r]) /\ ~Working(Started)
  BY <1>3 DEF Working, Started, Idle
<1>5. /\ turn \in [Requests -> Turn]
      /\ turn' = turn \/ turn' = [turn EXCEPT ![r] = Started]
  BY DEF AnswerStep, StartTurn, SessionInv, TypeOK
<1>6. \A q \in Requests : /\ Working(turn'[q]) <=> Working(turn[q])
                          /\ Working(turn[q]) => turn'[q] = turn[q]
  BY <1>4, <1>5
<1>. QED  BY <1>1, <1>2, <1>6, PairingStays

LEMMA TurnLeavesPairs ==
    ASSUME SessionInv, AgentAssumption, PairingInv, NEW r \in Requests, TurnLeaves(r)
    PROVE  PairingInv'
<1> SUFFICES ASSUME ~late', ~overtaken'  PROVE HistoryOK'
  BY DEF PairingInv
<1>1. HistoryOK /\ ~overtaken /\ history' = Dehydrate(history) /\ Awaits("turn", r)
      /\ writes # <<>>
  BY DEF TurnLeaves, PairingInv, Awaits
<1>2. PICK ok \in BOOLEAN, p \in {"refreshing", "tidying"} :
        /\ ~ok \/ turn[r].pc \in {"finishing", "failing"}
        /\ Written("turn", r, ok, <<>>) \/ Written("turn", r, ok, Again("tidy", r))
        /\ turn' = [turn EXCEPT ![r] = [Idle EXCEPT !.pc = p]]
  BY DEF TurnLeaves, To
<1>3. DiskStep /\ failed' = (failed \/ ~ok)
  BY <1>1, <1>2, WrittenStep DEF SessionInv, TypeOK
<1>4. InTurn(r)
  BY <1>1, HeadStands DEF InTurn, SavingPc
<1>5. \A q \in Requests : q # r => ~InTurn(q)
  BY <1>1, <1>4 DEF SessionInv, OneActive
<1>6. \A q \in Requests : q # r => ~Working(turn[q])
  BY <1>5 DEF InTurn, Working
<1>7. \A q \in Requests : ~Working(turn'[q])
  <2>1. turn \in [Requests -> Turn]
    BY DEF SessionInv, TypeOK
  <2>2. ~Working([Idle EXCEPT !.pc = p])
    BY DEF Working, Idle
  <2>. QED  BY <1>2, <1>6, <2>1, <2>2
<1>8. history \in Seq(Message) /\ Paired(history)
  BY <1>1 DEF SessionInv, TypeOK, HistoryOK
<1>9. Paired(history') /\ (AllDone(history) => AllDone(history'))
  BY <1>1, <1>8, DehydrateKeeps
<1>10. ~failed' => AllDone(history)
  <2>1. ~failed' => ~failed /\ ~Working(turn[r])
    BY <1>2, <1>3 DEF Working
  <2>. QED  BY <1>1, <1>6, <2>1 DEF HistoryOK, AtWork
<1>. QED  BY <1>1, <1>3, <1>7, <1>9, <1>10, PairingGoesOn

LEMMA DeletesPairs ==
    ASSUME SessionInv, AgentAssumption, PairingInv, Deletes
    PROVE  PairingInv'
<1> SUFFICES ASSUME ~late', ~overtaken'  PROVE HistoryOK'
  BY DEF PairingInv
<1>1. turn \in [Requests -> Turn] /\ active \in [Gens -> Requests \cup {Nobody}] /\ gen \in Gens
  BY DEF SessionInv, TypeOK
<1>2. CASE DeleteSession \/ TurnAwaited
  <2>1. /\ history' = history /\ file' = file /\ writes' = writes /\ snap' = snap
        /\ late' = late /\ failed' = failed
    BY <1>2 DEF DeleteSession, TurnAwaited, DeleteOnly, recVars
  <2>2. ~overtaken
    BY <1>2 DEF DeleteSession, TurnAwaited, SessionInv, OneActive
  <2>3. \/ turn' = turn
        \/ \E q \in Requests : turn' = [turn EXCEPT ![q] = Cancelled(turn[q])]
    BY <1>1, <1>2 DEF DeleteSession, TurnAwaited, CancelTurn, To
  <2>4. \A t \in Turn : Cancelled(t).pc = t.pc /\ Cancelled(t).at = t.at /\ Cancelled(t).use = t.use
    BY DEF Cancelled, Turn
  <2>5. \A q \in Requests : turn'[q].pc = turn[q].pc /\ turn'[q].at = turn[q].at
                            /\ turn'[q].use = turn[q].use
    BY <1>1, <2>3, <2>4
  <2>6. \A q \in Requests : Working(turn'[q]) <=> Working(turn[q])
    BY <2>5 DEF Working
  <2>. QED  BY <2>1, <2>2, <2>5, <2>6, PairingStays DEF PairingInv, DiskStep
<1>3. CASE EraseFile
  <2>1. /\ history' = history /\ file' = NoFile /\ writes' = writes /\ snap' = snap
        /\ late' = late /\ failed' = failed /\ overtaken' = overtaken /\ turn' = turn
    BY <1>3 DEF EraseFile, recVars, seenVars
  <2>2. Paired(file'.messages)
    BY <2>1 DEF NoFile, Paired, PlacesOK, RepliesApart, ResultsFollow
  <2>3. HistoryOK
    BY <2>1 DEF PairingInv
  <2>. QED  BY <2>1, <2>2, <2>3 DEF HistoryOK, OpenReply, AtWork
<1>. QED  BY <1>2, <1>3 DEF Deletes

LEMMA RestartPairs ==
    ASSUME SessionInv, AgentAssumption, PairingInv, Restart
    PROVE  PairingInv'
<1> SUFFICES ASSUME ~late', ~overtaken'  PROVE HistoryOK'
  BY DEF PairingInv
<1>1. /\ HistoryOK /\ file' = file /\ writes' = <<>>
      /\ history' = RepairDanglingToolUses(file.messages)
      /\ turn' = [q \in Requests |-> Idle]
  BY DEF Restart, PairingInv
<1>2. file.messages \in Seq(Message) /\ Paired(file.messages)
  BY <1>1 DEF SessionInv, TypeOK, File, HistoryOK
<1>3. Paired(history') /\ AllDone(history')
  BY <1>1, <1>2, RepairAnswers
<1>4. \A q \in Requests : ~Working(turn'[q])
  BY <1>1 DEF Working, Idle
<1>5. DiskStep
  BY <1>1 DEF DiskStep
<1>. QED  BY <1>1, <1>3, <1>4, <1>5, PairingGoesOn

(* Calls and results in the history stay paired while a round is at work,    *)
(* when it is over, and when a restart repairs what was saved (loop.ts).     *)
THEOREM PairingHolds == Spec => []PairingInv
<1>1. ASSUME Init  PROVE PairingInv
  BY <1>1 DEF Init, Idle, PairingInv, HistoryOK, Paired, PlacesOK, RepliesApart, ResultsFollow,
              AtWork, Working, AllButLast, AllDone, Memory
<1>2. ASSUME SessionInv, PairingInv, [Next]_vars  PROVE PairingInv'
  <2>1. CASE Next
    <3>1. Steps
      BY <2>1, <1>2, AgentAssumption, NextSteps
    <3>. QED  BY <1>2, <3>1, AgentAssumption, TurnStepPairs, PersonStepPairs, RequestStepPairs,
                 AnswerStepPairs, TurnLeavesPairs, DeletesPairs, RestartPairs DEF Steps
  <2>2. CASE UNCHANGED vars
    <3>1. /\ history' = history /\ file' = file /\ writes' = writes /\ snap' = snap
          /\ late' = late /\ failed' = failed /\ overtaken' = overtaken /\ turn' = turn
      BY <2>2 DEF vars, recVars, diskVars, seenVars
    <3>. QED  BY <1>2, <3>1, PairingStays DEF PairingInv, DiskStep
  <2>. QED  BY <1>2, <2>1, <2>2
<1>3. Init => PairingInv
  BY <1>1
<1>4. SessionInv /\ PairingInv /\ [Next]_vars => PairingInv'
  BY <1>2
<1>. QED  BY <1>3, <1>4, SessionHolds, PTL DEF Spec

(* Every call in the history is answered once, by the message that follows,  *)
(* but for the round a turn is in the middle of: whichever way a turn ends   *)
(* and after a restart too, where no message came in the middle of a turn,   *)
(* no save failed and the session was not deleted under a request (loop.ts,  *)
(* repairPartial and repairDanglingToolUses).                                *)
THEOREM CallsAreAnsweredOnce == Spec => []AnsweredUnlessUpset
<1>1. ASSUME SessionInv, PairingInv  PROVE AnsweredUnlessUpset
  <2> SUFFICES ASSUME ~Upset, NEW i \in DOMAIN history, Asks(history[i])
               PROVE  Answered(history, i) \/ Open(i)
    BY DEF AnsweredUnlessUpset, AnsweredOnce
  <2>1. HistoryOK /\ ~failed /\ history \in Seq(Message)
    BY <1>1 DEF Upset, PairingInv, SessionInv, TypeOK
  <2>2. CASE Done(history, i)
    BY <2>1, <2>2, DoneIsAnswered DEF HistoryOK
  <2>3. CASE ~Done(history, i)
    <3>1. i = Len(history) /\ AtWork
      BY <2>1, <2>3 DEF HistoryOK, AllButLast, AllDone
    <3>. QED  BY <2>1, <3>1 DEF HistoryOK, OpenReply, AtWork, Working, Open
  <2>. QED  BY <2>2, <2>3
<1>2. SessionInv /\ PairingInv => AnsweredUnlessUpset
  BY <1>1
<1>. QED  BY <1>2, SessionHolds, PairingHolds, PTL

=============================================================================
