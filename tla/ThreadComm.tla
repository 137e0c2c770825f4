----------------------------- MODULE ThreadComm -----------------------------
(***************************************************************************)
(* The transport of an SPMD run inside one process (rust/src/comm): N      *)
(* ranks as N threads that share two mailbox maps and an abort slot behind *)
(* one mutex and one condition variable.                                   *)
(*                                                                         *)
(* The mutex is modelled: an action that reads or writes the shared state  *)
(* is taken by its holder, and a rank gives it up only where the code      *)
(* does, so a call runs through its messages as far as they have arrived   *)
(* before any other thread comes in.  A rank's program is the sequence of  *)
(* calls its closure makes; a rank whose call fails makes no further call  *)
(* (after any Err the world is spent).                                     *)
(***************************************************************************)
EXTENDS Naturals, Sequences

CONSTANTS
    N,         \* the size of the world
    Bytes,     \* the byte strings that are sent
    Empty,     \* the byte string of length 0
    Size,      \* the length of each
    MaxTag,    \* MAX_TAG
    Worlds,    \* what the ranks' closures may be: a program for each rank
    Timed,     \* those whose timeout is not too long for the clock to reach
    Failures   \* what may go wrong: "panic", "spawn", "spurious"

Ranks == 0..(N - 1)
Nobody == N    \* no rank: the free mutex, the empty abort slot

Kinds == {"barrier", "allgather", "allgatherv", "bcast"}

(* The calls of a closure.  room is all.len() of an allgather.              *)
CollectiveCall == [op : Kinds, root : Nat, data : Bytes, room : Nat]
ExchangeCall ==
    [op : {"exchange"}, tag : Nat,
     sends : Seq([peer : Nat, data : Bytes]), recvs : Seq([peer : Nat, len : Nat])]
Call == CollectiveCall \cup ExchangeCall

ASSUME WorldAssumption ==
    /\ N \in Nat \ {0}
    /\ Empty \in Bytes
    /\ Size \in [Bytes -> Nat]
    /\ Size[Empty] = 0
    /\ MaxTag \in Nat
    /\ Worlds \subseteq [Ranks -> Seq(Call)]
    /\ Timed \subseteq Worlds
    /\ Failures \subseteq {"panic", "spawn", "spurious"}

(* What a rank says about a collective: the part every rank must agree on.  *)
Header == [kind : Kinds, root : Ranks, len : {Size[x] : x \in Bytes}]

(* The key of a point-to-point mailbox: who sends, who receives, which tag. *)
Envelope == Ranks \X Ranks \X (0..MaxTag)

VARIABLES
    program,    \* the calls of each rank's closure
    main,       \* the thread that called run(): where it is
    spawned,    \* how many rank threads it has started
    outcome,    \* what run() returned: how it went, and the rank it names
    pc,         \* where each rank is
    calls,      \* how many calls of its program each rank has finished
    unread,     \* the peers whose message the call in progress still needs
    got,        \* the messages that call has taken
    lock,       \* the holder of the mutex
    asleep,     \* the ranks blocked on the condition variable
    late,       \* the ranks whose wait is past its deadline
    abort,      \* the rank named by the abort slot
    coll,       \* the collective mailboxes
    p2p,        \* the point-to-point mailboxes
    entered,    \* history: the collectives each rank has entered
    answers,    \* history: what they returned
    sent,       \* history: the messages put in each envelope
    delivered   \* history: the messages that exchange() delivered from it

mainVars == <<program, main, spawned, outcome>>
callVars == <<calls, unread, got>>
waitVars == <<asleep, late>>
mailVars == <<coll, p2p, sent>>
vars == <<mainVars, pc, callVars, lock, waitVars, abort, mailVars,
          entered, answers, delivered>>

NoBytes == [q \in Ranks |-> Empty]

Outcomes == [how : {"pending", "results", "panicked", "unstarted"}, rank : Ranks \cup {Nobody}]

TypeOK ==
    /\ program \in Worlds
    /\ main \in {"spawning", "aborting", "notifying", "joining", "done"}
    /\ spawned \in 0..N
    /\ outcome \in Outcomes
    /\ pc \in [Ranks -> {"unborn", "idle", "reading", "waiting", "failed",
                         "returned", "panicking", "notifying", "panicked"}]
    /\ calls \in [Ranks -> Nat]
    /\ unread \in [Ranks -> SUBSET Ranks]
    /\ got \in [Ranks -> [Ranks -> Bytes]]
    /\ lock \in Ranks \cup {Nobody}
    /\ asleep \in SUBSET Ranks
    /\ late \in SUBSET Ranks
    /\ abort \in Ranks \cup {Nobody}
    /\ coll \in SUBSET [src : Ranks, dst : Ranks, seq : Nat, header : Header, data : Bytes]
    /\ p2p \in [Envelope -> Seq(Bytes)]
    /\ entered \in [Ranks -> Seq([header : Header, data : Bytes])]
    /\ answers \in [Ranks -> Seq([ok : BOOLEAN, out : [Ranks -> Bytes]])]
    /\ sent \in [Envelope -> Seq(Bytes)]
    /\ delivered \in [Envelope -> Seq(Bytes)]

Init ==
    /\ program \in Worlds
    /\ main = "spawning"
    /\ spawned = 0
    /\ outcome = [how |-> "pending", rank |-> Nobody]
    /\ pc = [r \in Ranks |-> "unborn"]
    /\ calls = [r \in Ranks |-> 0]
    /\ unread = [r \in Ranks |-> {}]
    /\ got = [r \in Ranks |-> NoBytes]
    /\ lock = Nobody
    /\ asleep = {}
    /\ late = {}
    /\ abort = Nobody
    /\ coll = {}
    /\ p2p = [e \in Envelope |-> <<>>]
    /\ entered = [r \in Ranks |-> <<>>]
    /\ answers = [r \in Ranks |-> <<>>]
    /\ sent = [e \in Envelope |-> <<>>]
    /\ delivered = [e \in Envelope |-> <<>>]

-----------------------------------------------------------------------------
(* What a call is. *)

HasCall(r) == calls[r] < Len(program[r])
CallOf(r) == program[r][calls[r] + 1]
IsCollective(c) == c.op # "exchange"

(* A rank numbers its collectives: 1 for the first. *)
Round(r) == Len(entered[r])

HeaderOf(c) ==
    [kind |-> c.op,
     root |-> IF c.op = "bcast" THEN c.root ELSE 0,
     len  |-> IF c.op \in {"allgather", "bcast"} THEN Size[c.data] ELSE 0]

(* Only the root of a bcast sends bytes. *)
Payload(r, c) ==
    IF c.op = "barrier" \/ (c.op = "bcast" /\ c.root # r) THEN Empty ELSE c.data

(* What the caller of a collective gets: the blocks in rank order, its own  *)
(* filled in from its argument, or the root's bytes in every place.         *)
OutOf(r, c, blocks) ==
    [q \in Ranks |->
        CASE c.op = "barrier" -> Empty
          [] c.op = "bcast"   -> IF c.root = r THEN c.data ELSE blocks[c.root]
          [] OTHER            -> IF q = r THEN c.data ELSE blocks[q]]

PeersFitOffByOne(list) ==    \* mutant: a rank too many
    /\ \A i \in 1..Len(list) : list[i].peer <= N
    /\ \A i, j \in 1..Len(list) : list[i].peer = list[j].peer => i = j

(* Every peer is a rank, and none is listed twice. *)
PeersFit(list) ==
    /\ \A i \in 1..Len(list) : list[i].peer < N
    /\ \A i, j \in 1..Len(list) : list[i].peer = list[j].peer => i = j

(* What a caller can get wrong alone. *)
BadArguments(c) ==
    \/ c.op = "exchange" /\ (c.tag > MaxTag \/ ~PeersFit(c.sends) \/ ~PeersFit(c.recvs))
    \/ c.op = "allgather" /\ c.room # Size[c.data] * N
    \/ c.op = "bcast" /\ c.root >= N

-----------------------------------------------------------------------------
(* The condition variable. *)

NobodyNotified == asleep    \* mutant: no notify_all

(* Who still sleeps after notify_all(). *)
Notified == {}

(* A call fails: the guard is dropped on the way out. *)
Fail(r) ==
    /\ pc' = [pc EXCEPT ![r] = "failed"]
    /\ unread' = [unread EXCEPT ![r] = {}]
    /\ lock' = Nobody
    /\ late' = late \ {r}

FailedAnswer(r) ==
    IF IsCollective(CallOf(r))
      THEN [answers EXCEPT ![r] = Append(@, [ok |-> FALSE, out |-> NoBytes])]
      ELSE answers

-----------------------------------------------------------------------------
(* Entering a call. *)

(* Refused before anything is sent, without the mutex and without a         *)
(* sequence number.                                                         *)
Refuse(r) ==
    /\ pc[r] = "idle" /\ HasCall(r)
    /\ BadArguments(CallOf(r))
    /\ pc' = [pc EXCEPT ![r] = "failed"]
    /\ UNCHANGED <<mainVars, callVars, lock, waitVars, abort, mailVars, entered,
                   answers, delivered>>

NeverSpent == FALSE    \* mutant: the abort slot is not read on entry

(* The world was aborted. *)
Spent == abort # Nobody

CanEnter(r) ==
    /\ pc[r] = "idle" /\ HasCall(r)
    /\ ~BadArguments(CallOf(r))
    /\ lock = Nobody

(* A collective message goes to every other rank. *)
Others(r) == Ranks \ {r}

(* collective(): takes a sequence number, posts its message to everybody.   *)
EnterCollective(r) ==
    LET c == CallOf(r)
        h == HeaderOf(c)
        k == Round(r) + 1
    IN  /\ CanEnter(r) /\ IsCollective(c)
        /\ ~Spent
        /\ entered' = [entered EXCEPT ![r] = Append(@, [header |-> h, data |-> c.data])]
        /\ coll' = {m \in coll : m.src # r \/ m.seq # k} \cup
                   {[src |-> r, dst |-> q, seq |-> k, header |-> h,
                     data |-> Payload(r, c)] : q \in Others(r)}
        /\ unread' = [unread EXCEPT ![r] = Ranks \ {r}]
        /\ got' = [got EXCEPT ![r] = NoBytes]
        /\ asleep' = IF N > 1 THEN Notified ELSE asleep
        /\ pc' = [pc EXCEPT ![r] = "reading"]
        /\ lock' = r
        /\ UNCHANGED <<mainVars, calls, late, abort, p2p, sent, answers, delivered>>

(* The bytes an exchange puts in envelope e. *)
Posted(r, c, e) ==
    LET mine == {i \in 1..Len(c.sends) : <<r, c.sends[i].peer, c.tag>> = e}
    IN  IF mine = {} THEN <<>> ELSE <<c.sends[CHOOSE i \in mine : TRUE].data>>

(* exchange(): everything is sent before the call waits for anything.       *)
EnterExchange(r) ==
    LET c == CallOf(r)
    IN  /\ CanEnter(r) /\ ~IsCollective(c)
        /\ ~Spent
        /\ p2p' = [e \in Envelope |-> p2p[e] \o Posted(r, c, e)]
        /\ sent' = [e \in Envelope |-> sent[e] \o Posted(r, c, e)]
        /\ unread' = [unread EXCEPT ![r] = {c.recvs[i].peer : i \in 1..Len(c.recvs)}]
        /\ got' = [got EXCEPT ![r] = NoBytes]
        /\ asleep' = IF c.sends # <<>> THEN Notified ELSE asleep
        /\ pc' = [pc EXCEPT ![r] = "reading"]
        /\ lock' = r
        /\ UNCHANGED <<mainVars, calls, late, abort, coll, entered, answers, delivered>>

(* Either call in an aborted world: a collective has used up its number.    *)
EnterSpent(r) ==
    LET c == CallOf(r)
    IN  /\ CanEnter(r)
        /\ Spent
        /\ entered' = IF IsCollective(c)
                        THEN [entered EXCEPT ![r] =
                                Append(@, [header |-> HeaderOf(c), data |-> c.data])]
                        ELSE entered
        /\ answers' = FailedAnswer(r)
        /\ pc' = [pc EXCEPT ![r] = "failed"]
        /\ UNCHANGED <<mainVars, callVars, lock, waitVars, abort, mailVars, delivered>>

-----------------------------------------------------------------------------
(* wait_for(): the abort slot first, then the message, then the clock.      *)

(* The holder of the mutex in its wait for the message of p: in rank order  *)
(* for a collective, in list order for an exchange.                         *)
WaitsFor(r, p) ==
    LET c == CallOf(r)
    IN  /\ p \in unread[r]
        /\ IF IsCollective(c)
             THEN \A q \in unread[r] : p <= q
             ELSE \E i \in 1..Len(c.recvs) :
                     /\ c.recvs[i].peer = p
                     /\ \A j \in 1..(i - 1) : c.recvs[j].peer \notin unread[r]

(* The one collective message rank r wants from p. *)
Matches(m, p, r) == m.src = p /\ m.dst = r /\ m.seq = Round(r)

HasMessage(r, p) ==
    IF IsCollective(CallOf(r))
      THEN \E m \in coll : Matches(m, p, r)
      ELSE p2p[<<p, r, CallOf(r).tag>>] # <<>>

Reading(r, p) == pc[r] = "reading" /\ lock = r /\ WaitsFor(r, p)

SeeAbort(r) ==
    /\ \E p \in Ranks : Reading(r, p)
    /\ abort # Nobody
    /\ Fail(r)
    /\ answers' = FailedAnswer(r)
    /\ UNCHANGED <<mainVars, calls, got, asleep, abort, mailVars, entered, delivered>>

AnyHeader(mine, theirs) == TRUE    \* mutant: headers are not compared

(* R6: the ranks agree on the call. *)
SameHeader(mine, theirs) == mine = theirs

(* The message is there: it leaves the mailbox, and its header must agree.  *)
TakeCollective(r, p) ==
    /\ Reading(r, p) /\ abort = Nobody
    /\ IsCollective(CallOf(r))
    /\ \E m \in coll :
         /\ Matches(m, p, r)
         /\ coll' = coll \ {m}
         /\ IF SameHeader(HeaderOf(CallOf(r)), m.header)
              THEN /\ unread' = [unread EXCEPT ![r] = @ \ {p}]
                   /\ got' = [got EXCEPT ![r][p] = m.data]
                   /\ late' = late \ {r}
                   /\ UNCHANGED <<pc, lock, answers>>
              ELSE /\ Fail(r)
                   /\ answers' = FailedAnswer(r)
                   /\ UNCHANGED got
    /\ UNCHANGED <<mainVars, calls, asleep, abort, p2p, sent, entered, delivered>>

NewestFirst(q) == q[Len(q)]    \* mutant: the back of the queue

(* The front of a mailbox. *)
OldestFirst(q) == Head(q)

(* A popped message must have exactly the length of its buffer. *)
TakeMessage(r, p) ==
    LET c == CallOf(r)
        e == <<p, r, c.tag>>
    IN  /\ Reading(r, p) /\ abort = Nobody
        /\ ~IsCollective(c)
        /\ p2p[e] # <<>>
        /\ p2p' = [p2p EXCEPT ![e] = Tail(@)]
        /\ IF \A i \in 1..Len(c.recvs) :
                c.recvs[i].peer = p => c.recvs[i].len = Size[OldestFirst(p2p[e])]
             THEN /\ unread' = [unread EXCEPT ![r] = @ \ {p}]
                  /\ got' = [got EXCEPT ![r][p] = OldestFirst(p2p[e])]
                  /\ late' = late \ {r}
                  /\ UNCHANGED <<pc, lock>>
             ELSE /\ Fail(r)
                  /\ UNCHANGED got
        /\ UNCHANGED <<mainVars, calls, asleep, abort, coll, sent, entered, answers,
                       delivered>>

(* The deadline of the wait in progress has passed. *)
IsLate(r) == r \in late

(* Nothing arrived and time is up. *)
TimeOut(r, p) ==
    /\ Reading(r, p) /\ abort = Nobody
    /\ ~HasMessage(r, p)
    /\ IsLate(r)
    /\ Fail(r)
    /\ answers' = FailedAnswer(r)
    /\ UNCHANGED <<mainVars, calls, got, asleep, abort, mailVars, entered, delivered>>

(* Nothing arrived: the rank sleeps and gives up the mutex. *)
Sleep(r, p) ==
    /\ Reading(r, p) /\ abort = Nobody
    /\ ~HasMessage(r, p)
    /\ ~IsLate(r)
    /\ asleep' = asleep \cup {r}
    /\ pc' = [pc EXCEPT ![r] = "waiting"]
    /\ lock' = Nobody
    /\ UNCHANGED <<mainVars, callVars, late, abort, mailVars, entered, answers, delivered>>

(* Awake again, by a notification, by the clock or for no reason. *)
Reacquire(r) ==
    /\ pc[r] = "waiting" /\ r \notin asleep
    /\ lock = Nobody
    /\ lock' = r
    /\ pc' = [pc EXCEPT ![r] = "reading"]
    /\ UNCHANGED <<mainVars, callVars, waitVars, abort, mailVars, entered, answers, delivered>>

Expire(r) ==
    /\ program \in Timed
    /\ pc[r] \in {"reading", "waiting"} /\ unread[r] # {}
    /\ r \notin late
    /\ late' = late \cup {r}
    /\ asleep' = asleep \ {r}
    /\ UNCHANGED <<mainVars, pc, callVars, lock, abort, mailVars, entered, answers,
                   delivered>>

SpuriousWake(r) ==
    /\ "spurious" \in Failures
    /\ r \in asleep
    /\ asleep' = asleep \ {r}
    /\ UNCHANGED <<mainVars, pc, callVars, lock, late, abort, mailVars, entered,
                   answers, delivered>>

(* The buffers an exchange fills, all of them or none. *)
Filled(r, c, e) ==
    IF \E i \in 1..Len(c.recvs) : <<c.recvs[i].peer, r, c.tag>> = e
      THEN <<got[r][e[1]]>> ELSE <<>>

(* The last message was there: the call returns Ok. *)
Complete(r) ==
    LET c == CallOf(r)
    IN  /\ pc[r] = "reading" /\ lock = r /\ unread[r] = {}
        /\ calls' = [calls EXCEPT ![r] = @ + 1]
        /\ pc' = [pc EXCEPT ![r] = "idle"]
        /\ lock' = Nobody
        /\ IF IsCollective(c)
             THEN /\ answers' = [answers EXCEPT ![r] =
                        Append(@, [ok |-> TRUE, out |-> OutOf(r, c, got[r])])]
                  /\ UNCHANGED delivered
             ELSE /\ delivered' = [e \in Envelope |-> delivered[e] \o Filled(r, c, e)]
                  /\ UNCHANGED answers
        /\ UNCHANGED <<mainVars, unread, got, waitVars, abort, mailVars, entered>>

-----------------------------------------------------------------------------
(* The threads. *)

(* run() starts the ranks in order. *)
Spawn ==
    /\ main = "spawning"
    /\ pc' = [pc EXCEPT ![spawned] = "idle"]
    /\ spawned' = spawned + 1
    /\ main' = IF spawned + 1 = N THEN "joining" ELSE "spawning"
    /\ UNCHANGED <<program, outcome, callVars, lock, waitVars, abort, mailVars,
                   entered, answers, delivered>>

(* The thread of the next rank could not start. *)
SpawnFails ==
    /\ "spawn" \in Failures
    /\ main = "spawning"
    /\ main' = "aborting"
    /\ UNCHANGED <<program, spawned, outcome, pc, callVars, lock, waitVars, abort,
                   mailVars, entered, answers, delivered>>

(* The closure returns: it has made its calls, or one has failed. *)
Return(r) ==
    /\ pc[r] = "failed" \/ (pc[r] = "idle" /\ ~HasCall(r))
    /\ pc' = [pc EXCEPT ![r] = "returned"]
    /\ UNCHANGED <<mainVars, callVars, lock, waitVars, abort, mailVars, entered,
                   answers, delivered>>

(* The closure panics, between calls or on a failed one; it is caught. *)
Panic(r) ==
    /\ "panic" \in Failures
    /\ pc[r] \in {"idle", "failed"}
    /\ pc' = [pc EXCEPT ![r] = "panicking"]
    /\ UNCHANGED <<mainVars, callVars, lock, waitVars, abort, mailVars, entered,
                   answers, delivered>>

(* abort(): the first reason wins, and the mutex is dropped before the      *)
(* waiters are woken.                                                       *)
FirstReason(r) == IF abort = Nobody THEN r ELSE abort

SetAbort(r) ==
    /\ pc[r] = "panicking"
    /\ lock = Nobody
    /\ abort' = FirstReason(r)
    /\ pc' = [pc EXCEPT ![r] = "notifying"]
    /\ UNCHANGED <<mainVars, callVars, lock, waitVars, mailVars, entered, answers, delivered>>

NotifyAbort(r) ==
    /\ pc[r] = "notifying"
    /\ asleep' = Notified
    /\ pc' = [pc EXCEPT ![r] = "panicked"]
    /\ UNCHANGED <<mainVars, callVars, lock, late, abort, mailVars, entered, answers, delivered>>

MainSetsAbort ==
    /\ main = "aborting"
    /\ lock = Nobody
    /\ abort' = FirstReason(spawned)
    /\ main' = "notifying"
    /\ UNCHANGED <<program, spawned, outcome, pc, callVars, lock, waitVars, mailVars,
                   entered, answers, delivered>>

MainNotifies ==
    /\ main = "notifying"
    /\ asleep' = Notified
    /\ main' = "joining"
    /\ UNCHANGED <<program, spawned, outcome, pc, callVars, lock, late, abort, mailVars,
                   entered, answers, delivered>>

Panicked == {r \in Ranks : pc[r] = "panicked"}

(* What run() returns: a thread that could not start, else the lowest rank  *)
(* that panicked, else the results.                                         *)
Verdict(v) ==
    \/ /\ spawned < N
       /\ v = [how |-> "unstarted", rank |-> spawned]
    \/ /\ spawned = N /\ Panicked # {}
       /\ v.how = "panicked"
       /\ v.rank \in Panicked /\ \A q \in Panicked : v.rank <= q
    \/ /\ spawned = N /\ Panicked = {}
       /\ v = [how |-> "results", rank |-> Nobody]

Join ==
    /\ main = "joining"
    /\ \A r \in Ranks : r < spawned => pc[r] \in {"returned", "panicked"}
    /\ main' = "done"
    /\ \E v \in Outcomes : Verdict(v) /\ outcome' = v
    /\ UNCHANGED <<program, spawned, pc, callVars, lock, waitVars, abort, mailVars,
                   entered, answers, delivered>>

-----------------------------------------------------------------------------
EnterCall(r) == EnterCollective(r) \/ EnterExchange(r) \/ EnterSpent(r) \/ Refuse(r)

WaitStep(r) ==
    \/ SeeAbort(r) \/ Reacquire(r) \/ Complete(r)
    \/ \E p \in Ranks : TakeCollective(r, p) \/ TakeMessage(r, p) \/ TimeOut(r, p) \/ Sleep(r, p)

AbortStep(r) == SetAbort(r) \/ NotifyAbort(r)

(* What a thread does by itself, and what happens to it. *)
RankStep(r) == EnterCall(r) \/ WaitStep(r) \/ AbortStep(r) \/ Return(r)
Mishap(r) == Panic(r) \/ Expire(r) \/ SpuriousWake(r)

MainStep == Spawn \/ MainSetsAbort \/ MainNotifies \/ Join

Next == (\E r \in Ranks : RankStep(r) \/ Mishap(r)) \/ MainStep \/ SpawnFails

Spec == Init /\ [][Next]_vars
=============================================================================
