------------------------- MODULE ProposalApplyProps -------------------------
(***************************************************************************)
(* What the application of proposals keeps.                                *)
(***************************************************************************)
EXTENDS ProposalApply

Entries == [call : Calls, proposal : Proposals, key : Keys, before : Calls \union {Nothing}]

\* Types; and only an action that starts runs has started one, whose row is that of a run the
\* manager has (sideEffects.ts runEffect, prepare.ts startRunPrepare).
TypeOK ==
  /\ state \in [Proposals -> {"none", "gone", "rendered", "rejected", "authorised",
                              "applied", "effected"}]
  /\ from \in [Proposals -> Calls \union {Nothing}] /\ expired \subseteq Proposals
  /\ pc \in [Calls -> {"idle", "before", "check", "commit", "after", "done", "failed", "dead"}]
  /\ target \in [Calls -> Proposals \union {Nothing}]
  /\ started \subseteq {c \in Calls : target[c] # Nothing /\ Kind[target[c]] = "startRun"}
  /\ rows \in [Keys -> Calls \union {Nothing}]
  /\ \A c \in Calls : rows[c] # Nothing => c \in started
  /\ log \in Seq(Entries)

LastWriter(s, i, k) ==
  LET earlier == {j \in 1..i : s[j].key = k}
  IN IF earlier = {} THEN Nothing ELSE s[CHOOSE j \in earlier : \A m \in earlier : m <= j].call

\* The edit log alone tells the history of every row: each entry's "before" is what the entry
\* before it wrote, and the row is what the last one wrote, whichever calls run in between, fail
\* or are cut off by a death of the server (apply.ts: "the objects, the links AND the log row,
\* or nothing"; computeEditSet has no await between it and the transaction).
LogIsTheHistory ==
  /\ \A i \in 1..Len(log) : log[i].before = LastWriter(log, i - 1, log[i].key)
  /\ \A k \in Keys : rows[k] = LastWriter(log, Len(log), k)

Times(p) == {i \in 1..Len(log) : log[i].proposal = p}

\* A proposal is applied twice only by calls that were under way together: a retry after an
\* answer, after a failure or after the time is over does not apply it again (apply.ts, step 1).
OnceUnlessOverlapped ==
  \A p \in Proposals : \A i, j \in Times(p) : i = j \/ {log[i].call, log[j].call} \in overlap

\* A scaling that is applied found the value that it names on the row, unless another apply to
\* that row was under way with it: the criterion is looked at again, but before an await
\* (apply.ts steps 6-9; actions.dc.ts dcFromCurveMatches).
FromUnlessOverlapped ==
  \A i \in 1..Len(log) :
    \/ Kind[log[i].proposal] # "scaleFanCurve"
    \/ log[i].before = from[log[i].proposal]
    \/ \E j \in 1..(i - 1) : log[j].key = log[i].key /\ {log[i].call, log[j].call} \in overlap

\* "an authorised proposal becomes rows, in ONE transaction, exactly once" (apply.ts:2): never
\* twice.  The code does not keep it: two calls that pass step 1 before either commits.
OnceApplied == \A p \in Proposals : Cardinality(Times(p)) <= 1
=============================================================================
