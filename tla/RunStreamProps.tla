--------------------------- MODULE RunStreamProps ---------------------------
(***************************************************************************)
(* What the stream of one run to one tab keeps.                            *)
(***************************************************************************)
EXTENDS RunStream

LineSeq == Seq(1..MaxLines)

Frame == [t : {"hello", "run.started", "run.updated", "run.exit", "run.log"},
          status : Statuses, lines : LineSeq]

\* Types: every variable has the values the code gives it (all of RunStream).
TypeOK ==
  /\ run \in Statuses /\ ending \in {"no", "due", "told"} /\ printed \in 0..MaxLines
  /\ link \in {"down", "half", "up"} /\ down \in Seq(Frame)
  /\ \A i \in 1..Len(up) : up[i].t \in {"run.subscribe", "run.unsubscribe"}
                           /\ up[i].from \in 0..MaxLines + 1
  /\ follows \in BOOLEAN /\ batch \in LineSeq
  /\ shown \in LineSeq /\ status \in Statuses
  /\ subscribed \in BOOLEAN /\ displayed \in BOOLEAN /\ overtaken \in BOOLEAN
  /\ \A k \in 1..Len(fetches) : fetches[k] \in Statuses \union {"asked", "empty"}

\* The lines a tab shows are in their order and none is there twice, and the only lines it
\* skips, before the first one or between two, are lines that the server's ring has dropped:
\* no replay, batch or reconnection makes a hole of its own (hub.ts queueLog and replayRun,
\* client.ts subscribeRun, applyEvent.ts pushLogs; protocol.ts: "lets a reconnecting client
\* replay without duplicates").
OnlyTheRingLoses ==
  \A i \in 1..Len(shown) :
    LET before == IF i = 1 THEN 0 ELSE shown[i - 1]
    IN /\ before < shown[i]
       /\ shown[i] # before + 1 => shown[i] <= FirstHeld

\* A tab that in the end shows the run over a connection that lasts comes to show every line
\* the server still holds, however many connections, batches and changes of the screen came
\* before (client.ts syncRunSubscriptions, onHello).
LinesArrive ==
  <>[](displayed /\ link = "up")
    => <>[](\A n \in FirstHeld..printed : n \in Range(shown))

\* Over a connection that lasts the tab comes to know for good whether the run has ended: the
\* end is sent to everybody, a hello and an answered list repeat it, and a list older than the
\* end makes the tab subscribe again and the replay repeat it.  The one exception is such a
\* list when the tab is subscribed already: then nothing repeats the end before the next
\* connection (client.ts reconcileRuns, syncRunSubscriptions; hub.ts replayRun).
StatusSettles == <>[](link = "up") => <>[](status = run \/ overtaken)
=============================================================================
