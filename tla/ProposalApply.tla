---------------------------- MODULE ProposalApply ----------------------------
(***************************************************************************)
(* The action engine of the ontology (gui/server/src/ontology/engine.ts,   *)
(* apply.ts, sideEffects.ts): a proposal is rendered, authorised by the    *)
(* call that applies it, and becomes rows and an entry of the edit log in  *)
(* one transaction.  apply() awaits between its steps, so that other calls *)
(* of an agent's message, or other requests, run in between.               *)
(*                                                                         *)
(* Three kinds of action stand for all: "startRun" starts a run before it  *)
(* writes, and writes that run's row; "attachFile" writes the row of a     *)
(* file, whoever attached it before; "scaleFanCurve" names the value that  *)
(* it scales from, and refuses another one.  A row's value is the call     *)
(* that wrote it.  Nothing else writes the rows: the import is a program   *)
(* of its own.                                                             *)
(***************************************************************************)
EXTENDS FiniteSets, Naturals, Sequences

CONSTANTS Proposals, Calls,
          Kind,      \* the action of a proposal
          Row,       \* the row that it writes, when that is no run
          Nothing,   \* no value, no proposal
          MaxDeaths  \* bound: how often the server dies

ASSUME ProposalAssumption ==
  /\ Kind \in [Proposals -> {"startRun", "attachFile", "scaleFanCurve"}]
  /\ \A p \in Proposals : Row[p] \notin Calls
  /\ Nothing \notin Proposals \union Calls /\ MaxDeaths \in Nat

VARIABLES
  state,    \* of each proposal: "none" before it is made, "gone" when the engine lost it
  from,     \* what a proposal to scale names as the value on the row
  expired,  \* the proposals whose time is over
  pc,       \* where the apply of each call is
  target,   \* its proposal
  started,  \* the calls whose run the run manager has
  rows, log,
  overlap,  \* history: the pairs of calls that were under way together
  deaths

vars == <<state, from, expired, pc, target, started, rows, log, overlap, deaths>>

Keys == {Row[p] : p \in Proposals} \union Calls

UnderWay == {c \in Calls : pc[c] \notin {"idle", "done", "failed", "dead"}}

\* The row that a call writes: a run is named by the manager, here after its call.
KeyOf(c) == IF Kind[target[c]] = "startRun" THEN c ELSE Row[target[c]]

Init ==
  /\ state = [p \in Proposals |-> "none"] /\ from = [p \in Proposals |-> Nothing]
  /\ expired = {} /\ pc = [c \in Calls |-> "idle"]
  /\ target = [c \in Calls |-> Nothing] /\ started = {}
  /\ rows = [k \in Keys |-> Nothing] /\ log = <<>> /\ overlap = {} /\ deaths = 0

\* propose: what blocks the proposal rejects it; a scaling names the value that it saw.
Propose(p) ==
  /\ state[p] = "none"
  /\ \E verdict \in {"rendered", "rejected"} : state' = [state EXCEPT ![p] = verdict]
  /\ from' = [from EXCEPT ![p] = IF Kind[p] = "scaleFanCurve" THEN rows[Row[p]] ELSE Nothing]
  /\ UNCHANGED <<expired, pc, target, started, rows, log, overlap, deaths>>

Expire(p) ==
  /\ state[p] # "none" /\ p \notin expired /\ expired' = expired \union {p}
  /\ UNCHANGED <<state, from, pc, target, started, rows, log, overlap, deaths>>

\* Mutant: an applied proposal is not refused.
RefusesOnlyRejected(s, p) == s \in {"none", "gone", "rejected"} \/ p \in expired

Refuses(s, p) == s \notin {"rendered", "authorised"} \/ p \in expired

\* The route or the tool: authorise() takes a rendered proposal and its refusal of any other
\* is left to apply(), which refuses all but an authorised one in time.
Call(c, p) ==
  /\ pc[c] = "idle"
  /\ state' = [state EXCEPT ![p] = IF @ = "rendered" THEN "authorised" ELSE @]
  /\ target' = [target EXCEPT ![c] = p]
  /\ pc' = [pc EXCEPT ![c] = IF Refuses(state[p], p) THEN "failed" ELSE "before"]
  /\ overlap' = IF Refuses(state[p], p) THEN overlap
                ELSE overlap \union {{c, d} : d \in UnderWay}
  /\ UNCHANGED <<from, expired, started, rows, log, deaths>>

\* Mutant: every action starts a run.
BeforeStartsAll(c) ==
  /\ pc[c] = "before"
  /\ started' = started \union {c} /\ pc' = [pc EXCEPT ![c] = "check"]
  /\ UNCHANGED <<state, from, expired, target, rows, log, overlap, deaths>>

\* runBeforeEffects, then the preparer, which only reads: the run starts, or the run manager
\* refuses it and the call ends.
Before(c) ==
  /\ pc[c] = "before"
  /\ \/ /\ started' = IF Kind[target[c]] = "startRun" THEN started \union {c} ELSE started
        /\ pc' = [pc EXCEPT ![c] = "check"]
     \/ /\ Kind[target[c]] = "startRun"
        /\ pc' = [pc EXCEPT ![c] = "failed"] /\ UNCHANGED started
  /\ UNCHANGED <<state, from, expired, target, rows, log, overlap, deaths>>

\* Mutant: the criteria of the rendering are trusted.
MatchesAlways(c) == TRUE

\* dcFromCurveMatches; what the other criteria look at is left open.
Matches(c) == Kind[target[c]] = "scaleFanCurve" => rows[Row[target[c]]] = from[target[c]]

\* evaluateCriteria.
Check(c) ==
  /\ pc[c] = "check"
  /\ \/ Matches(c) /\ pc' = [pc EXCEPT ![c] = "commit"]
     \/ pc' = [pc EXCEPT ![c] = "failed"]
  /\ UNCHANGED <<state, from, expired, target, started, rows, log, overlap, deaths>>

Entry(c) == [call |-> c, proposal |-> target[c], key |-> KeyOf(c), before |-> rows[KeyOf(c)]]

\* Mutant: the log entry is appended after the transaction, and may fail alone.
WrittenApart(c) ==
  /\ rows' = [rows EXCEPT ![KeyOf(c)] = c]
  /\ log' \in {log, Append(log, Entry(c))}

\* The transaction: the row and the log entry, or neither.
Written(c) ==
  /\ rows' = [rows EXCEPT ![KeyOf(c)] = c]
  /\ log' = Append(log, Entry(c))

\* computeEditSet and the transaction, in one turn; a failed one leaves the proposal as it is.
Commit(c) ==
  /\ pc[c] = "commit"
  /\ \/ /\ Written(c)
        /\ state' = [state EXCEPT ![target[c]] = "applied"]
        /\ pc' = [pc EXCEPT ![c] = "after"]
     \/ /\ pc' = [pc EXCEPT ![c] = "failed"]
        /\ UNCHANGED <<state, rows, log>>
  /\ UNCHANGED <<from, expired, target, started, overlap, deaths>>

\* runAfterEffects: what fails is only noted.
After(c) ==
  /\ pc[c] = "after"
  /\ state' = [state EXCEPT ![target[c]] = "effected"]
  /\ pc' = [pc EXCEPT ![c] = "done"]
  /\ UNCHANGED <<from, expired, target, started, rows, log, overlap, deaths>>

\* The server dies: the proposals were only in its memory, the rows and the log were not.
Die ==
  /\ deaths < MaxDeaths /\ deaths' = deaths + 1
  /\ state' = [p \in Proposals |-> IF state[p] = "none" THEN "none" ELSE "gone"]
  /\ pc' = [c \in Calls |-> IF c \in UnderWay THEN "dead" ELSE pc[c]]
  /\ UNCHANGED <<from, expired, target, started, rows, log, overlap>>

Next ==
  \/ \E p \in Proposals : Propose(p) \/ Expire(p)
  \/ \E c \in Calls : \/ \E p \in Proposals : Call(c, p)
                      \/ Before(c) \/ Check(c) \/ Commit(c) \/ After(c)
  \/ Die

Spec == Init /\ [][Next]_vars
=============================================================================
