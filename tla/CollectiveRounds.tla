-------------------------- MODULE CollectiveRounds --------------------------
(***************************************************************************)
(* What the collectives of rust/src/comm.rs promise (rules R6 and R8),     *)
(* whatever the transport: the k-th collective of a rank returns only when *)
(* every rank has entered its own k-th collective with the same header,    *)
(* and what it returns is made of what the ranks passed.  ThreadComm       *)
(* implements this module.                                                 *)
(***************************************************************************)
EXTENDS Naturals, Sequences

CONSTANTS Ranks, Bytes, Empty, Header

VARIABLES entered,   \* the collectives each rank has entered, in order
          answers    \* what each of them returned

roundVars == <<entered, answers>>

NoBytes == [q \in Ranks |-> Empty]

RoundsInit ==
    /\ entered = [r \in Ranks |-> <<>>]
    /\ answers = [r \in Ranks |-> <<>>]

Inside(r) == Len(answers[r]) < Len(entered[r])

(* Rank r enters its next collective. *)
Enter(r, h, data) ==
    /\ ~Inside(r)
    /\ entered' = [entered EXCEPT ![r] = Append(@, [header |-> h, data |-> data])]
    /\ UNCHANGED answers

(* Every rank has entered its k-th collective with header h. *)
Agreed(k, h) ==
    \A q \in Ranks : Len(entered[q]) >= k /\ entered[q][k].header = h

(* What rank r gets in round k: nothing from a barrier, the block of every  *)
(* rank from a gather, the root's bytes from a bcast.                       *)
Gathered(k, h) ==
    [q \in Ranks |->
        CASE h.kind = "barrier" -> Empty
          [] h.kind = "bcast"   -> entered[h.root][k].data
          [] OTHER              -> entered[q][k].data]

Succeed(r) ==
    LET k == Len(entered[r])
        h == entered[r][k].header
    IN  /\ Inside(r)
        /\ Agreed(k, h)
        /\ answers' = [answers EXCEPT ![r] = Append(@, [ok |-> TRUE, out |-> Gathered(k, h)])]
        /\ UNCHANGED entered

FailRound(r) ==
    /\ Inside(r)
    /\ answers' = [answers EXCEPT ![r] = Append(@, [ok |-> FALSE, out |-> NoBytes])]
    /\ UNCHANGED entered

(* A rank enters a world that is spent: the call fails at once. *)
EnterAndFail(r, h, data) ==
    /\ ~Inside(r)
    /\ entered' = [entered EXCEPT ![r] = Append(@, [header |-> h, data |-> data])]
    /\ answers' = [answers EXCEPT ![r] = Append(@, [ok |-> FALSE, out |-> NoBytes])]

RoundsNext ==
    \E r \in Ranks :
        \/ \E h \in Header, data \in Bytes : Enter(r, h, data) \/ EnterAndFail(r, h, data)
        \/ Succeed(r)
        \/ FailRound(r)

RoundsSpec == RoundsInit /\ [][RoundsNext]_roundVars
=============================================================================
