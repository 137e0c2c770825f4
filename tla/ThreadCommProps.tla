--------------------------- MODULE ThreadCommProps ---------------------------
(***************************************************************************)
(* What must be true of the thread transport: the rules R3, R4, R6 and R8  *)
(* of rust/src/comm.rs, and what the abort and the timeout are for.        *)
(***************************************************************************)
EXTENDS ThreadComm

(* R6 and R8: a collective that returns Ok on one rank was entered by every  *)
(* rank with the same header, so nobody passes a barrier early, and where    *)
(* two ranks disagree on a round the round succeeds on no rank at all.       *)
Agreement ==
    \A r \in Ranks : \A k \in 1..Len(answers[r]) : answers[r][k].ok =>
        \A q \in Ranks :
            /\ Len(entered[q]) >= k
            /\ entered[q][k].header = entered[r][k].header

(* R8: what a collective returns is what the ranks passed to it in the same  *)
(* round, whoever ran ahead: the same vector on every rank, the root's bytes *)
(* from a bcast.                                                             *)
SameBytes ==
    \A r \in Ranks : \A k \in 1..Len(answers[r]) : answers[r][k].ok =>
        \A q \in Ranks :
            LET kind == entered[r][k].header.kind
                root == entered[r][k].header.root
            IN  /\ kind \in {"allgather", "allgatherv"} =>
                      answers[r][k].out[q] = entered[q][k].data
                /\ kind = "bcast" => answers[r][k].out[q] = entered[root][k].data

(* The copies at the end of allgather and bcast cannot panic: a block that   *)
(* was taken has the length of the caller's own.                             *)
CopiesFit ==
    \A r \in Ranks : \A k \in 1..Len(answers[r]) :
        answers[r][k].ok /\ entered[r][k].header.kind \in {"allgather", "bcast"} =>
            \A q \in Ranks : Size[answers[r][k].out[q]] = entered[r][k].header.len

(* R3: the k-th message put in an envelope fills the k-th receive posted for *)
(* it, although the ranks run ahead of each other and share tags.            *)
NoOvertaking ==
    \A e \in Envelope :
        /\ Len(delivered[e]) <= Len(sent[e])
        /\ \A i \in 1..Len(delivered[e]) : delivered[e][i] = sent[e][i]

(* No wake-up is lost: a rank sleeps only while its message is missing and   *)
(* nothing was aborted, or somebody is between the abort and its notify_all. *)
NoLostWakeup ==
    \A r \in asleep :
        /\ \A p \in Ranks : WaitsFor(r, p) => ~HasMessage(r, p)
        /\ abort # Nobody => main = "notifying" \/ \E q \in Ranks : pc[q] = "notifying"

(* run() returns results only when every rank was started and none panicked, *)
(* so nobody's results come from a world that was aborted.                   *)
ResultsAreWhole ==
    outcome.how = "results" => abort = Nobody /\ \A r \in Ranks : pc[r] = "returned"

(* Once the world is aborted every blocked or later call fails.              *)
NoSuccessAfterAbort ==
    [][abort # Nobody => calls' = calls]_vars

(* ThreadComm implements the collectives of CollectiveRounds. *)
Rounds == INSTANCE CollectiveRounds

ImplementsRounds == Rounds!RoundsSpec

-----------------------------------------------------------------------------
(* The inductive invariant behind the theorems of ThreadCommProofs.          *)

InCall(r) == pc[r] \in {"reading", "waiting"}
Gathering(r) == InCall(r) /\ IsCollective(CallOf(r))

(* Where a rank is in its call, and what that has to do with the mutex, the  *)
(* condition variable and the abort slot.                                    *)
CallInv(r) ==
    /\ InCall(r) => HasCall(r) /\ ~BadArguments(CallOf(r))
    /\ pc[r] = "reading" <=> lock = r
    /\ pc[r] = "waiting" => unread[r] # {}
    /\ pc[r] = "reading" /\ abort # Nobody => unread[r] # {}
    /\ r \in asleep => pc[r] = "waiting"

(* The bytes rank src sends for what it entered. *)
PayloadIn(src, entry) ==
    IF entry.header.kind = "barrier" \/ (entry.header.kind = "bcast" /\ entry.header.root # src)
      THEN Empty ELSE entry.data

(* The length a header states is the length of the bytes it came with.       *)
EntryInv ==
    \A r \in Ranks : \A k \in 1..Len(entered[r]) :
        entered[r][k].header.kind \in {"allgather", "bcast"} =>
            entered[r][k].header.len = Size[entered[r][k].data]

(* A message in a collective mailbox says what its sender entered.           *)
MessageInv ==
    \A m \in coll :
        /\ m.seq \in 1..Len(entered[m.src])
        /\ m.header = entered[m.src][m.seq].header
        /\ m.data = PayloadIn(m.src, entered[m.src][m.seq])

(* Rank r has heard p in round k: p is in that round, with r's header.       *)
Heard(r, p, k) ==
    /\ Len(entered[p]) >= k
    /\ entered[p][k].header = entered[r][k].header
    /\ got[r][p] = PayloadIn(p, entered[p][k])

RoundInv(r) ==
    /\ Gathering(r) =>
         /\ Len(entered[r]) = Len(answers[r]) + 1
         /\ entered[r][Round(r)] = [header |-> HeaderOf(CallOf(r)), data |-> CallOf(r).data]
         /\ \A p \in Ranks : p # r /\ p \notin unread[r] => Heard(r, p, Round(r))
    /\ ~Gathering(r) => Len(entered[r]) = Len(answers[r])

MainInv ==
    /\ main \in {"spawning", "aborting", "notifying"} => spawned < N
    /\ \A r \in Ranks : pc[r] = "unborn" <=> r >= spawned
    /\ abort # Nobody =>
         \/ main \in {"notifying", "joining", "done"} /\ spawned < N
         \/ \E r \in Ranks : pc[r] \in {"notifying", "panicked"}
    /\ main # "done" => outcome.how = "pending"

IInv ==
    /\ TypeOK
    /\ \A r \in Ranks : CallInv(r) /\ RoundInv(r)
    /\ EntryInv
    /\ MessageInv
    /\ MainInv
    /\ Agreement
    /\ SameBytes

-----------------------------------------------------------------------------
(* Fairness: a runnable thread runs, and one that wants the mutex gets it at *)
(* some time, though others take it again and again (strong fairness: a      *)
(* sleeper that is woken for no reason takes it and gives it back).  The     *)
(* clock moves where the world has a timeout it can reach; nobody has to     *)
(* panic and nothing has to wake a sleeper for no reason.                    *)
FairSpec ==
    /\ Spec
    /\ \A r \in Ranks : SF_vars(RankStep(r)) /\ WF_vars(Expire(r))
    /\ SF_vars(MainStep)

(* R4: ranks whose programs fit each other finish them whatever order they  *)
(* run in, and a panic or a thread that does not start ends the world: run() *)
(* returns without the help of any timeout, and so does a collective whose   *)
(* callers disagree.  With a timeout it returns whatever the programs are: a *)
(* named failure, never a hang.                                              *)
RunReturns == <>(main = "done")
=============================================================================
