------------------------------ MODULE RunStream ------------------------------
(***************************************************************************)
(* How the lines and the status of one run reach one browser tab: the      *)
(* WebSocket hub of the server (gui/server/src/ws/hub.ts) with the ring of *)
(* the run manager behind it, and the client of the tab                    *)
(* (gui/web/src/ws/client.ts, state/applyEvent.ts, state/sessionStore.ts). *)
(*                                                                         *)
(* The hub sends every frame at once except log lines, which it collects   *)
(* for 50 ms (LOG_FLUSH_MS).  The tab subscribes to the runs that live or  *)
(* that it shows, collects frames until the next paint, and after every    *)
(* reconnection asks for the list of runs by HTTP as well, whose answer    *)
(* comes whenever it comes.  Both sides are single threads: an action is   *)
(* one turn of one of the event loops.                                     *)
(*                                                                         *)
(* A status that has ended is not the end of the run: a NaN line or stop() *)
(* sets it while the process prints on, the subscribers hear of it with    *)
(* the next run.updated, and everybody with the run.exit of finish().      *)
(* Residuals and metrics are left out: they are sent at once like a        *)
(* run.updated, and a replay sends the whole series.  A run that waits and *)
(* one that runs are the same to the tab and have one status here.         *)
(***************************************************************************)
EXTENDS Integers, Sequences, SequencesExt

CONSTANTS LogRing,      \* LOG_RING of the run manager
          ReplayBatch,  \* REPLAY_BATCH
          MaxLines,     \* bound: lines the run prints; a reconnection counts as one
          MaxSockets,   \* bound: how often the tab connects
          MaxLooks      \* bound: how often the person shows or hides the run, likewise

ASSUME RingAssumption ==
  /\ LogRing \in Nat \ {0} /\ ReplayBatch \in Nat \ {0}
  /\ MaxLines \in Nat /\ MaxSockets \in Nat /\ MaxLooks \in Nat

VARIABLES
  run,         \* its status on the server: "none", "running" or, terminal, "done"
  ending,      \* finish(): "no" while nothing leads to it, "due" by stop(), "told"
  printed,     \* the number of the last line
  link,        \* "down", "up", or "half": the tab does not know yet that it is dead
  down, up,    \* the frames under way; those the tab has, and collects for a paint, in down
  follows,     \* c.runs: the hub sends this tab the run's frames
  batch,       \* c.logBatches: the lines that wait for their timer
  shown,       \* the lines in the store (its own ring left out)
  status,      \* the status in the store
  subscribed,  \* the tab believes that it is subscribed
  displayed,   \* the run panel, the terminal or a residuals tab shows the run
  fetches,     \* per connection, the request for the list: "asked", its answer, or "none"
  overtaken,   \* history: an older list has put back the status of a subscribed run
  looks

server == <<run, ending, printed, follows, batch>>
wire == <<link, down, up>>
tab == <<shown, status, subscribed, displayed, fetches, overtaken>>
vars == <<server, wire, tab, looks>>

Statuses == {"none", "running", "done"}

\* The lines the ring still holds, from a number on.
FirstHeld == Max({1, printed - LogRing + 1})
From(n) == LET a == Max({n, FirstHeld})
           IN [i \in 1..Max({0, printed - a + 1}) |-> a + i - 1]

LastSeq(lines) == IF lines = <<>> THEN 0 ELSE Last(lines)

Hello(s) == [t |-> "hello", status |-> s, lines |-> <<>>]
Started == [t |-> "run.started", status |-> "running", lines |-> <<>>]
Updated(s) == [t |-> "run.updated", status |-> s, lines |-> <<>>]
Exit == [t |-> "run.exit", status |-> "done", lines |-> <<>>]
LogFrame(lines) == [t |-> "run.log", status |-> "none", lines |-> lines]

\* The tab is open, its first list of runs has come, and the run has not started.
Init ==
  /\ run = "none" /\ ending = "no" /\ printed = 0
  /\ link = "up" /\ down = <<>> /\ up = <<>>
  /\ follows = FALSE /\ batch = <<>>
  /\ shown = <<>> /\ status = "none"
  /\ subscribed = FALSE /\ displayed = FALSE
  /\ fetches = <<"none">> /\ overtaken = FALSE /\ looks = 0

----------------------------------------------------------------------------
(* The server *)

\* rawSend: only on an open socket.
Sent(frames) == IF link = "up" THEN down \o frames ELSE down

StartRun ==
  /\ run = "none" /\ run' = "running"
  /\ down' = Sent(<<Started>>)
  /\ UNCHANGED <<ending, printed, follows, batch, link, up, tab, looks>>

\* A line goes to the subscribers, through the batch of each, whatever the status.  One that
\* changes what is known of the run, as a NaN line its status, sends them the run at once.
PrintLine ==
  /\ run # "none" /\ printed < MaxLines /\ printed + Len(fetches) <= MaxLines
  /\ printed' = printed + 1
  /\ batch' = IF follows THEN Append(batch, printed + 1) ELSE batch
  /\ \/ UNCHANGED <<run, down>>
     \/ /\ run' \in {run, "done"}
        /\ down' = IF follows THEN Sent(<<Updated(run')>>) ELSE down
  /\ UNCHANGED <<ending, follows, link, up, tab, looks>>

\* stop() of a running run: the status at once and to nobody, the end by its timers.
StopRun ==
  /\ run = "running" /\ run' = "done"
  /\ ending = "no" /\ ending' = "due"
  /\ UNCHANGED <<printed, follows, batch, wire, tab, looks>>

\* finish(): the end goes to everybody, and does not wait for the batch.
EndRun ==
  /\ run # "none" /\ ending # "told"
  /\ run' = "done" /\ ending' = "told"
  /\ down' = Sent(<<Exit>>)
  /\ UNCHANGED <<printed, follows, batch, link, up, tab, looks>>

\* The timer of queueLog.
FlushBatch ==
  /\ batch # <<>>
  /\ down' = Sent(<<LogFrame(batch)>>)
  /\ batch' = <<>>
  /\ UNCHANGED <<run, ending, printed, follows, link, up, tab, looks>>

\* Mutant: the replay leaves the run itself out.
ReplayWithoutRun(from) ==
  LET lines == From(from) IN [i \in 1..Len(lines) |-> LogFrame(<<lines[i]>>)]

\* replayRun: the held lines from a number on, in batches, then the run itself.
Replay(from) ==
  LET lines == From(from)
      frame(i) == SubSeq(lines, (i - 1) * ReplayBatch + 1,
                         Min({i * ReplayBatch, Len(lines)}))
  IN [i \in 1..((Len(lines) + ReplayBatch - 1) \div ReplayBatch) |-> LogFrame(frame(i))]
       \o <<Updated(run)>>

ReadSubscribe ==
  /\ link = "up" /\ up # <<>> /\ Head(up).t = "run.subscribe"
  /\ up' = Tail(up)
  /\ follows' = TRUE
  /\ down' = Sent(Replay(Head(up).from))
  /\ UNCHANGED <<run, ending, printed, batch, link, tab, looks>>

ReadUnsubscribe ==
  /\ link = "up" /\ up # <<>> /\ Head(up).t = "run.unsubscribe"
  /\ up' = Tail(up)
  /\ follows' = FALSE
  /\ UNCHANGED <<run, ending, printed, batch, link, down, tab, looks>>

\* GET /api/runs is answered with the list as it is now.
AnswerFetch(k) ==
  /\ fetches[k] = "asked"
  /\ fetches' = [fetches EXCEPT ![k] = IF run = "none" THEN "empty" ELSE run]
  /\ UNCHANGED <<server, wire, shown, status, subscribed, displayed, overtaken, looks>>

----------------------------------------------------------------------------
(* The socket *)

\* open() and accept(): a new client on the hub, and its hello.
Connect ==
  /\ link = "down" /\ Len(fetches) < MaxSockets /\ looks + Len(fetches) <= MaxLooks
  /\ link' = "up" /\ down' = Append(down, Hello(run)) /\ up' = <<>>
  /\ follows' = FALSE /\ batch' = <<>>
  /\ fetches' = Append(fetches, "none")
  /\ UNCHANGED <<run, ending, printed, shown, status, subscribed, displayed, overtaken,
                 looks>>

\* The connection dies; some of the frames under way still arrive.
Break ==
  /\ link = "up" /\ link' = "half"
  /\ \E n \in 0..Len(down) : down' = SubSeq(down, 1, n)
  /\ up' = <<>> /\ follows' = FALSE /\ batch' = <<>>
  /\ UNCHANGED <<run, ending, printed, tab, looks>>

\* onclose: comes after the last message, and a hello never waits.
NoticeClose ==
  /\ link = "half" /\ \A i \in 1..Len(down) : down[i].t # "hello"
  /\ link' = "down"
  /\ UNCHANGED <<server, down, up, tab, looks>>

----------------------------------------------------------------------------
(* The tab *)

\* Mutant: every line that comes is taken.
PushLogsAll(have, lines) == have \o lines

\* A line is taken when it is above the last one seen.
TakeLine(have, n) == IF n > LastSeq(have) THEN Append(have, n) ELSE have

\* pushLogs: line by line.
PushLogs(have, lines) ==
  LET taken[k \in 0..Len(lines)] ==
        IF k = 0 THEN have ELSE TakeLine(taken[k - 1], lines[k])
  IN taken[Len(lines)]

\* applyEvent.
ApplyFrame(s, f) ==
  CASE f.t = "run.log" -> [s EXCEPT !.shown = PushLogs(@, f.lines)]
    [] f.t = "hello" -> [s EXCEPT !.status = IF f.status = "none" THEN @ ELSE f.status,
                                  !.hello = TRUE]
    [] f.t = "run.started" -> [s EXCEPT !.status = f.status, !.started = TRUE]
    [] OTHER -> [s EXCEPT !.status = f.status]

\* applyEvents: the store after a batch of frames, and whether a hello or a start was in it.
Applied(frames) ==
  LET after[k \in 0..Len(frames)] ==
        IF k = 0
          THEN [shown |-> shown, status |-> status, hello |-> FALSE, started |-> FALSE]
          ELSE ApplyFrame(after[k - 1], frames[k])
  IN after[Len(frames)]

Subscribe(from) == [t |-> "run.subscribe", from |-> from]
Unsubscribe == [t |-> "run.unsubscribe", from |-> 0]

\* What the tab sends is lost on a socket that is dead.
Posted(frames) == IF link = "up" THEN up \o frames ELSE up

\* Mutant: a run that has ended is not looked at any more.
WantedLive(st, shows) == st = "running"

\* displayedRunIds and wantedRunIds.
Wanted(st, shows) == shows \/ st = "running"

\* Mutant: it asks for the lines after the next one.
SyncFromTheNext(st, shows, sub, last) ==
  IF link = "down" \/ Wanted(st, shows) = sub
    THEN [sub |-> sub, frames |-> <<>>]
    ELSE [sub |-> ~sub, frames |-> IF sub THEN <<Unsubscribe>> ELSE <<Subscribe(last + 2)>>]

\* syncRunSubscriptions, given what the store and the screen hold.
Sync(st, shows, sub, last) ==
  IF link = "down" \/ Wanted(st, shows) = sub
    THEN [sub |-> sub, frames |-> <<>>]
    ELSE [sub |-> ~sub, frames |-> IF sub THEN <<Unsubscribe>> ELSE <<Subscribe(last + 1)>>]

\* subscribed.clear() of onHello.
ForgetsSubscription(sub) == FALSE

\* dispatch and runEffects: a started run is subscribed whatever else there is; hello, the
\* last of its batch, forgets the subscriptions of the old socket and asks for the list.
GiveToStore(frames) ==
  LET s == Applied(frames)
      last == LastSeq(s.shown)
      sync == IF s.hello
                THEN Sync(s.status, displayed, ForgetsSubscription(subscribed), last)
                ELSE [sub |-> subscribed, frames |-> <<>>]
      first == IF s.started THEN <<Subscribe(last + 1)>> ELSE <<>>
  IN /\ shown' = s.shown /\ status' = s.status
     /\ subscribed' = (sync.sub \/ (s.started /\ ~s.hello))
     /\ up' = Posted(first \o sync.frames)
     /\ overtaken' = (overtaken /\ s.status # "done")
     /\ fetches' = IF s.hello THEN [fetches EXCEPT ![Len(fetches)] = "asked"] ELSE fetches

\* flush: the frames that have come so far, at the next paint, when the timer of a hidden tab
\* runs out, or at once with a hello.
Flush ==
  /\ \E n \in 1..Len(down) :
       /\ \A i \in 1..(n - 1) : down[i].t # "hello"
       /\ GiveToStore(SubSeq(down, 1, n))
       /\ down' = SubSeq(down, n + 1, Len(down))
  /\ UNCHANGED <<server, link, displayed, looks>>

\* A person shows the run or moves off it: the watcher of the ui store.
Look ==
  /\ status # "none" /\ looks + Len(fetches) <= MaxLooks /\ looks' = looks + 1
  /\ displayed' = ~displayed
  /\ LET sync == Sync(status, ~displayed, subscribed, LastSeq(shown))
     IN subscribed' = sync.sub /\ up' = Posted(sync.frames)
  /\ UNCHANGED <<server, link, down, shown, status, fetches, overtaken>>

\* reconcileRuns: the answer replaces what the store knows, whatever came meanwhile.
Reconcile(k) ==
  LET list == fetches[k]
      st == IF list = "empty" THEN status ELSE list
      sync == Sync(st, displayed, subscribed, LastSeq(shown))
  IN /\ list \in {"empty", "running", "done"}
     /\ fetches' = [fetches EXCEPT ![k] = "none"]
     /\ status' = st
     /\ overtaken' = ((overtaken \/ (status = "done" /\ subscribed)) /\ st # "done")
     /\ subscribed' = sync.sub /\ up' = Posted(sync.frames)
     /\ UNCHANGED <<server, link, down, shown, displayed, looks>>

\* The request fails: a warning on the console.
FetchFails(k) ==
  /\ fetches[k] = "asked"
  /\ fetches' = [fetches EXCEPT ![k] = "none"]
  /\ UNCHANGED <<server, wire, shown, status, subscribed, displayed, overtaken, looks>>

Hub == StartRun \/ PrintLine \/ StopRun \/ EndRun \/ FlushBatch \/ ReadSubscribe \/ ReadUnsubscribe
Client == Flush \/ NoticeClose \/ Connect
Http == \E k \in 1..Len(fetches) : AnswerFetch(k) \/ Reconcile(k) \/ FetchFails(k)

Next == Hub \/ Client \/ Http \/ Break \/ Look

Spec == Init /\ [][Next]_vars

(* Timers run out, frames under way arrive, a closed socket is noticed and   *)
(* opened again, and stop() ends the run within its guard timer; nothing     *)
(* else makes the run go on or end, the link break or the person look.       *)
FairSpec ==
  /\ Spec
  /\ WF_vars(ending = "due" /\ EndRun)
  /\ WF_vars(FlushBatch) /\ WF_vars(ReadSubscribe \/ ReadUnsubscribe)
  /\ WF_vars(Flush) /\ WF_vars(NoticeClose) /\ WF_vars(Connect)
  /\ WF_vars(Http)
=============================================================================
