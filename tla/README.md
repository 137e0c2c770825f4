# Iteration-CFD: TLA+ models, model checking and proofs

This directory is the verification project of Iteration-CFD: TLA+ modules for the
parts of the program whose correctness is a matter of order, interleaving and
failure, the TLC runs that check them on small instances, and theorems, checked by
TLAPS, that hold for every value of the constants. Paths are relative to `src/`.

The floating-point numerics of the solver are not the subject here: they are
sequential, they are covered by the cases of `docs/vv`, and neither tool could say
anything about them. What is here is the code around them that many events and
threads go through at once.

- [1. The system](#1-the-system): components, state, operations, what is hard
- [2. The modules](#2-the-modules): what models what, and how
- [3. The runs](#3-the-runs): bounds and what they show
- [4. Fairness](#4-fairness)
- [5. The proofs](#5-the-proofs)
- [6. What the code does not keep](#6-what-the-code-does-not-keep)
- [7. What is not modelled](#7-what-is-not-modelled)
- [8. The plan](#8-the-plan)

To check: `tlc -workers 2 -config <Run>.cfg <Module>` and `tlapm <Module>Proofs.tla`;
`PROJECT.json` lists the runs, the mutants each property is tried against, the source
lines of each definition, the hazards and the theorems.

## 1. The system

Iteration-CFD is a finite-volume CFD solver in Rust and CUDA (`rust/`), a studio
around it made of a Node.js server (`gui/server`) and a browser client (`gui/web`)
that share message types (`gui/shared`), an MCP adapter (`mcp/`), and scripts, cases
and documents. Solver programs are started by the server as child processes; an
assistant in the server calls tools that start runs, edit cases and draw pictures,
and the browser sees everything through one WebSocket.

### Studio server (`gui/server/src`): one event loop, many awaits

| component | state | operations | hard behaviour | what makes it correct |
|---|---|---|---|---|
| run manager (`runs/manager.ts`, `types.ts`) | the map of runs with status, end word, error, `endedAt`; waiting line; `gpuBusy`; `closing`; per run the process, the files, the waiters, the timers of a stop | `start` (two stretches around an await), `pump`, `launch` (likewise), `onLine`, `attach`'s close and error handlers, `finish`, `stop` and its 4 s and 8 s timers, `wait`, `shutdown` | cancel or shutdown during an await; five ways to end a run racing each other; processes that ignore SIGTERM; late lines; spawn or file failures half-way | one end per run, with a verdict that stays; no process for a run that is over; no phantom that keeps the GPU slot; the line never sleeps for nothing; `stop`, `wait` and `shutdown` resolve |
| run store, child process (`runs/store.ts`, `dispatch.ts`) | `run.json`, logs and series on disk; a process group | `openRun`, `saveInfo`, `killTree`, `loadPastRuns` | files that break during a run; a server that dies with runs alive | the record on disk tells of no end but the announced one; ids are not used twice |
| agent service (`agent/service.ts`, `loop.ts`, `approvals.ts`, `session.ts`, `policy.ts`) | per session the record (messages, screen messages, allowed tools), the active turn, `starting`, pending approvals; session files | `userMessage`, `chat`, `quick`, `startTurn`, `runTurn` with rounds of tools, `tool.approve`, `tool.deny`, `cancelTurn`, `notifyRunEnded`, `deleteSession`, shutdown | messages, notices, cancels, approvals, expiries and deletions between any two awaits of a turn; crash between a tool call and its result | one turn at a time; every tool call gets one result before the next request; no tool that needs approval runs without it; a deleted session stays deleted |
| WebSocket hub (`ws/hub.ts`) | clients with their session, subscriptions and log batches; pending viewer and ui requests | `send`, `queueLog`, `replayRun`, broadcast, request with timeout | a subscription during a run; batches against events that are not batched; a client that answers late | a subscriber sees every line that the ring holds once, in order, and learns of the end |
| ontology engine (`ontology/*.ts`) | objects, links, edit log (SQLite); proposals in memory | `propose`, `authorise`, `applyProposal`, `preview`, side effects | two applications of one proposal; a world that moved between check and commit; a failed transaction after a side effect | an edit set is committed at most once, against the world it was checked on, with its log row |
| server start and stop (`main.ts`) | the order of closing, the 8 s hard exit | `shutdown`, signals, uncaught errors | hard exit against the guard timers it waits for | whatever was running is recorded as ended |
| datasets, formats, corpus, tools, http, registry, attachments, workspace, monitors, mocks | caches and files | parsers, queries, tools | little: sequential code | tested on fixtures |

### Studio client (`gui/web/src`)

| component | state | operations | hard behaviour | what makes it correct |
|---|---|---|---|---|
| socket client and stores (`ws/client.ts`, `state/`) | socket, subscriptions, frame queue, runs with the last line seen | connect, back-off, `onHello`, `flush`, `syncRunSubscriptions`, `reconcileRuns` | frames lost with a socket; a list fetched by HTTP applied after newer frames | after a reconnection the screen converges to the server's state |
| viewer, editor, charts, assistant panels | scenes, buffers | rendering | none that is control | looked at |

### Solver (`rust/src`)

| component | state | operations | hard behaviour | what makes it correct |
|---|---|---|---|---|
| SPMD transport (`comm.rs`, `comm/thread.rs`) | two mailbox maps and the abort slot behind one mutex and one condition variable; per rank a sequence number | `barrier`, `allgather`, `allgatherv`, `bcast`, `exchange`, the wait with its deadline, `abort`, `run_with_timeout` with its threads, panics and spawn failures | every schedule of the ranks; ranks whose calls do not fit; a rank that panics or never starts; a missed notification | rules R1-R10 of `SPEC-LIT.md` 138.1.2: ordered envelopes, collectives that agree on their header or fail on every rank, no hang where programs fit or a timeout is set, results only of whole worlds |
| distributed solvers (`distsolve/spmd.rs`, `distsolve/refine.rs`, `halo/spmd.rs`, `exactsum/spmd.rs`, `amg/distcycle.rs`) | a part of the mesh per rank, where it is in the loop, the flag it read | preflight refusals, halo exchange, reductions, the flag vote, iterative refinement | a rank that decides alone and differently; equal lengths, so that no header tells | every rank takes the same branch at every iteration, or all of them stop |
| restart files (`restart.rs`, `bin/lowmach.rs`) | files in place; the list of checkpoints written; the schedule | `write_restart`, `read_restart`, `Checkpoints::due`, `write` and `prune`, resumption | a crash while a file is rewritten, a write that fails, a label that repeats | never deletes what it did not write; the newest files stay readable; little work is lost |
| numerics, physics, meshing, input and output | fields | kernels | floating point | verification cases |

### Interactions

The server starts a solver program as a child process (run manager, `dispatch.ts`)
and reads its lines; what the run manager emits (`started`, `updated`, `log`, `exit`)
goes to the hub, which sends it to the clients subscribed, and to the agent service,
which may begin a turn about it. The agent's tools call the run manager, the ontology
engine, the datasets and, through the hub, the screen of one client. An applied proposal
may start a run before it writes rows. Inside the solver the drivers of an SPMD run are
one closure per rank that calls the transport; the transport is the only thing the ranks
share. Between two solver processes the restart files are.

## 2. The modules

### RunManager, the run manager of the server

`RunManager.tla` models `runs/manager.ts`. The server is one event loop, so one
action is one uninterrupted stretch of it: from the event that wakes a handler to the
handler's next `await`. `start()` awaits the provenance of the run and `launch()`
awaits `openRun`, so each of them is two actions with a set, `collecting` and
`launching`, that holds the calls in between; everything a stretch calls, `pump()`,
`finish()`, `wake()`, `saveInfo()`, is part of its action. `Rest` computes in one step
what the loop of `pump()` shifts out of the line.

| code | model |
|---|---|
| `info.status`, `info.endedAt` with the status it is stamped with | `status`, `outcome` |
| exit events emitted | `exits` (history) |
| `info.endWord`, `info.error` | `endWord`, `errored` |
| `queue`, `gpuBusy`, `closing` | `queue`, `gpuBusy`, `closing` |
| inside `await collectRunProvenance` / `await openRun` | `collecting`, `launching` |
| `rec.files`, the sinks' error latch, the status in `run.json` | `sink`, `saved` (`"torn"`: a write that failed half-way) |
| runs whose last `saveInfo` did not take | `unsaved` (history) |
| the child, the signal its group got | `proc`, `sig` (environment) |
| the timers of `stop()` | `timers`: off, hard (4 s), guard (8 s) |
| `rec.waiters` | `waits`: sets of statuses, the one thing that tells waiters apart |
| `Promise.all` of `shutdown()`, its return | `awaited`, `closed` |

The actions are the handlers: `StartRequest`, `StartQueued`, `LaunchSkipped`,
`LaunchSpawned`, `OpenFailed`, `SpawnFailed`, `DivergedLine`, `ErrorLine`, `EndedLine`,
`ProcessExit`, `ChildError`, `ChildClose`, `SinkBreaks`, `StopQueued`, `StopRunning`,
`HardTimer`, `GuardTimer`, `WaitFor`, `WaitTimeout`, `Shutdown`,
`ShutdownDone`. `Failures` names what may go wrong around a driver: `open` (its
directory), `spawn` (a synchronous error), `child` (an error event), `sink` (a file);
`Unsavable` the runs whose writes of `run.json` may fail, which is caught and only logged: the
file stays as it was, or torn.
Lines that change nothing the properties see (residuals, metrics, plain log) are left
out, and so are the series and the log ring (which `RunStream` has). `stop()` of a run whose
status is terminal changes nothing and is no action.

`RunLifecycle.tla` is what a run looks like from outside: submitted once, live at most
once, over once, with one verdict. `RunManagerProps.tla` holds the properties, the
inductive invariant, the fair specifications and the refinement mapping (`LifeOf`);
`RunManagerProofs.tla` the theorems; `MCRunManager.tla` two constants of the runs.

### ThreadComm, the transport of the solver

`ThreadComm.tla` models `comm/thread.rs` and the contract of `comm.rs`. The mutex is
in the model: a rank in its collective holds it from the post of its messages until it
finishes or sleeps on the condition variable, as the code does, and an action that
reads or writes the shared state is the holder's. A program is the sequence of calls
of a rank's closure; a rank whose call fails makes no further one. Data is a set
`Bytes` with a `Size`, which is what headers, buffer checks and copies tell apart.

| code | model |
|---|---|
| thread of `run_with_timeout`: spawn, spawn failure, join, verdict | `main`, `spawned`, `outcome`; `Spawn`, `SpawnFails`, `MainSetsAbort`, `MainNotifies`, `Join` |
| where a rank is | `pc`: unborn, idle, reading (holds the mutex), waiting, failed, panicking, notifying, panicked, returned |
| `Mutex`, `Condvar`, the deadline | `lock`, `asleep`, `late`; `Sleep`, `Reacquire`, `SpuriousWake`, `Expire`, `TimeOut` |
| the two maps, the abort slot | `coll`, `p2p`, `abort` |
| the call in progress | `unread`, `got`; `EnterCollective`, `EnterExchange`, `TakeCollective`, `TakeMessage`, `Complete`, `SeeAbort` |
| checks of arguments, calls on a spent world | `BadArguments`, `Refuse`, `EnterSpent` |
| sequence number of a collective | the length of `entered` (history) |
| `abort()`: sets the slot, drops the mutex, notifies | `SetAbort`, `NotifyAbort`, two actions |

`Timed` is the set of worlds whose timeout the clock can reach: one that is too long to be
added to the clock never expires (`thread.rs:154`), and what its ranks do must end by their
calls alone. `answers`, `sent` and `delivered` are histories. `CollectiveRounds.tla` is the
abstract specification: the k-th collective of a rank succeeds only when every rank has entered
its own k-th with the same header, and what it returns is made of what they passed.
`ThreadCommProps.tla`, `ThreadCommProofs.tla` and `MCThreadComm.tla` are as above;
`MCThreadComm` holds the programs.

### AgentTurns, a session of the assistant

`AgentTurns.tla` models one chat session: `agent/service.ts`, `loop.ts`, `approvals.ts`,
`session.ts` and `policy.ts`, as far as they hold state across an await. Again an action
is a stretch of the event loop. A turn awaits a stream, a tool, a person, a repair call
or a save, and between any two of these everything else can happen. `turn[r].pc` names
the await that the turn of request `r` is in; the requests are user messages (also quick
actions and `POST /api/chat`) and notices of ended runs.

| code | model |
|---|---|
| `rec.messages`, `rec.allowedTools` | `history`: per message its role, the ids of the calls or results in it, whether it holds an image; `allowed` |
| the store's map, the file, the chain of `pending` saves | `live`, `file`, `writes` with who awaits each, `snap`: what the write under way serialised |
| `runtimes`, `rt.active`, `rt.starting` | `gen`, `active`, `starting`, the last two per `SessionRuntime` that has existed |
| `userMessage`, `notifyRunEnded` between their awaits; the `rt` a handler captured | `req`, `home` |
| locals of `runTurn` and `executeRound`, the waiters of `approvals` | `turn` |
| `tool.approve` with `remember` during its save; `deleteSession` | `frame`, `del` |

A write takes the record as it is when the writes before it are done, and is renamed
into place whole, as `save()` does; a write that fails throws into whoever awaits it. A
message of the history is kept down to what the API's rules are about: which calls it
makes, which it answers. The model's replies are any subset of the tools. `Restart` drops
everything but the file and puts the history through `RepairDanglingToolUses`. A call
with a bad input or an unknown name is a tool that ends at once. Assumed of the API:
`tool_use` blocks come with the stop reasons `tool_use`, `max_tokens`, context window
exceeded and `refusal` only.

`consent`, `owed`, `late`, `failed` and `overtaken` are histories: the calls a person has
approved; the requests whose message no stream has been given; and three things the code
does not guard against, a message appended while a turn runs, a save that failed, and a
deletion under a request. Properties that say "unless" name one of these, never less:
each is reachable, and section 6 says what follows. `AgentTurnsProps.tla` holds the
properties and fairness, `AgentTurnsProofs.tla` the theorems, `MCAgentTurns.tla` the tools of
the runs.

### Checkpoints, the restart files of a solver process

`Checkpoints.tla` models `restart.rs` and the time loop of `bin/lowmach.rs` around it. One
process at a time works in the output directory; it steps, writes, prunes, ends or dies,
and the next one starts afresh or resumes from any file it can read. Times are integers,
and a label is the time rounded to a `Grain`, as `format_time_name` rounds to six digits, so
that two times can have one label.

| code | model |
|---|---|
| the `.mcr` files | `disk`: absent, torn (created or cut short), or whole with its mesh and time |
| `-restartFrom`, `-restartWrite`, `output.restart` of the case | `job`: route, `keep`, interval, step, end, mesh |
| `t_phys`, `n_steps`, the step counter | `t`, `left`, `done` |
| `Checkpoints::next`, `written` | `next`, `written` |
| the call that writes | `pc`: `Create` truncates, `LengthsRefused` or `Fill`, then one `Prune` per file, `PruneFails`, `Pruned` |
| checkpoint after a step, after the loop | `Step`, `TouchDown`, `Final` |

`Dies` (a kill, a full disk, a diverged field) may come at any point of it. `finished`, `mine`,
`saved` and `hands` are histories: what this process finished and created, the time it last
saved, and what a person has deleted.

### SpmdSolve, the distributed solvers

`SpmdSolve.tla` models what `spmd_pcg`, `spmd_pbicgstab` and `spmd_gamg`, and the refined
forms of the `single` build, do to each other: the sequence of calls each rank makes of the
transport, and each decision between two calls. The arithmetic is a bit: at a
decision the ranks read the same flag, since they reduced the same bytes, unless one of them
errs (`MaxErrs`), which is what the flag vote is there for.

| code | model |
|---|---|
| the controls and the workspace of a solve | a record of `Solves` |
| the position in the loops of the solver and of `refine` | `at`: solve, phase, outer steps, sweeps, iteration |
| the calls up to the next decision | `todo`: of `"halo"`, `"word"`, `"limbs"`, `"vote"`, `"gatherv"`, built by `Setup`, `Body`, `Check`, `Rest`, `Finish`, `Cycle` and `FillHalo` in the order of the code |
| refusals before the first message | `Preflight`, with `Fits` and `Lopsided` |
| `convergence_test` and the read of the flag; `ir_verdict` | `Test`, `Verdict`, `Reads` |
| `take_vote` | `Split`, in `Leave` |
| the transport | `Enter`, `Leave`, `Mismatch`, `TimeOut`: what `ThreadComm` is shown to do |

The names of the calls are what headers can tell: a sum of eight bytes and another one
cannot be told apart, and this is why `OneSequence` compares places in the program.
`Trusted` is the condition of the three safety properties: nobody has misread a flag, or
every solve of the world votes on its flags. The refusals are those of the strict contract:
under `-permissive` a workspace without a colouring or a cycle is not refused but takes the
diagonal (`spmd.rs:443`, 458), and a rank that alone lacks the cycle then makes other calls.

### RunStream, from a run to a browser tab

`RunStream.tla` composes the server side (`ws/hub.ts`, the ring and the log windows of the run
manager, the events of `main.ts`) with the client (`ws/client.ts`, `state/applyEvent.ts`,
`state/sessionStore.ts`), for one run and one tab.

| code | model |
|---|---|
| `info.status`, `logLines`, `firstSeq` | `run`, `printed`, `FirstHeld` |
| whether `stop()` or `finish()` has been there | `ending` |
| the socket, seen from both ends; frames under way | `link` (up, half: dead and not noticed, down); `down`, `up` |
| `c.runs`, `c.logBatches` | `follows`, `batch` |
| `runData.logs`, `runs[id].status` | `shown`, `status` |
| `subscribed`; what the screen shows | `subscribed`, `displayed` |
| `GET /api/runs` of each connection | `fetches` |

Both ends are event loops, and an action is one turn of one of them. A frame that is not a log
line goes out at once, lines wait for the timer of their batch; the tab collects frames until
the next paint, a `hello` flushes at once. A status that is terminal is not the last line: a
NaN line (`DivergedLine` of `RunManager`) or `stop()` sets it while the process prints on, also
after the guard timer, so `PrintLine` asks only that the run has begun; a line that changes the
run sends its subscribers a `run.updated`, `StopRun` tells nobody, and `EndRun` is the
`run.exit` of `finish()`. A tab that does not show a run whose status is terminal has
unsubscribed while lines still come. Residuals and metrics are sent at once and replayed whole,
and are left out; a queued run and a running one are one status. Frames the tab already holds
when the socket dies are still reduced, before and after `onclose`, as the code does.
`overtaken` is a history: an older list put back the status of a run the tab was subscribed to.

### ProposalApply, from a proposal to rows

`ProposalApply.tla` models `ontology/engine.ts` and `apply.ts` with the effects, criteria and
transaction they call. A call is one request or one tool call that authorises and applies a
proposal; between its steps it awaits, and other calls run.

| code | model |
|---|---|
| `proposal.state`, `expiresAt`, the value a scaling names | `state`, `expired`, `from` |
| where `applyProposal` is | `pc`: `Call` (step 1), `Before` (4-5), `Check` (6-7), `Commit` (8-9), `After` (10) |
| runs started by before-effects | `started` |
| objects, the edit log | `rows`: the call that wrote each; `log` |
| the proposals map, lost with the server | `Die` |

Three kinds of action stand for all: one that starts a run and writes its row, one whose
criterion compares the row with what the proposal names, and one without either. `overlap`
is a history: which calls were under way together.

For these four the properties are in `<Module>Props.tla`, the theorems in
`<Module>Proofs.tla`, and the constants of the runs in `MC<Module>.tla` (`RunStream` needs
none). `Counting.tla` has what several proofs need about counting: induction over the naturals
and over bounded places for sets, and that a fold over a bounded number of steps exists.

## 3. The runs

| run | instance | what it shows |
|---|---|---|
| `RunQueue` | two GPU runs and a CPU run, `MaxConcurrent` 2; directories, spawns and files that fail, and of one run any save of `run.json`; drivers that end | the head of the line waits only for a reason that will pass, so the slot is not leaked; `run.json` tells of no end but the announced one, and lacks that one only when the last save did not take; every accepted run is over at some time |
| `RunEnds` | a GPU run and a CPU run; NaN and error lines, three ways to exit, failing directory and child errors, waiters, shutdown | one end with one verdict that fits what happened; timers and waiters know of it; no process after the end; `shutdown()` returns although processes may ignore SIGTERM; `RunLifecycle` is implemented |
| `CommWorlds` | three ranks. Fitting programs (a halo with opposite neighbour lists, a ring with collectives, collectives alone) and programs whose collectives disagree, without a clock; swapped, missing and self-addressed exchanges, shared tags, wrong buffers and peers, with one; panics, spawn failures, spurious wake-ups | messages keep their order, no wake-up is lost, nothing succeeds after an abort; `run()` always returns, and needs no timeout where programs fit or headers disagree; `CollectiveRounds` is implemented |
| `AgentRounds` | one message; a tool that runs at once (also the one for follow-ups) and one that is asked about and makes a campaign turn; 3 rounds; refusal, truncation, rejected role, retry, error; failing saves, cancel, one crash | whatever ends the turn, each call of the history has one result in the message after it; a tool at work is in the file, approved and not cancelled; every turn ends, and a cancelled one without a person or a timer |
| `AgentRaces` | a message with an attachment and a run notice, one asked tool, 1 round, a retry, failing saves, a deletion | one turn at a time, no session that refuses messages for nothing, nobody forgotten outside the named cases, a deletion lasts |
| `Checkpoints` | ten jobs: rotations that keep all, one and two; steps as long as, shorter and longer than the interval; an end between two steps; labels that repeat; a steady run; the command-line route; two meshes; two processes in a row; one file deleted by hand | whenever the process dies the newest files it finished are whole; `written` is what is on disk; less than an interval of work is lost; no file of another process is removed |
| `SpmdSolve` | three ranks, one without cells; eight sequences of solves over the three methods, both reductions, both builds, the cycle as method and as preconditioner, skipped checks, fixed iterations, an empty mesh; refusals by one rank and by all; one misread flag | the ranks make one sequence of calls; a split vote stops all of them in that solve; a solve that one rank refuses nobody finishes (all three in trusted runs); everybody returns in every run |
| `RunStream` | three lines behind a ring of two, replays in batches of one, two connections; stop, divergence and end with lines after them; the run shown and hidden, over one connection twice | lines are shown in order, once, and skipped only where the ring has dropped them, also when lines and batches go on while the tab has unsubscribed and subscribes again; every held line arrives; the status settles |
| `ProposalApply` | a run, two scalings of one fan and a file; three calls; expiry, refusals, failed transactions, one death of the server | the log is the history of the rows; outside of overlapping calls nothing is applied twice and a scaling finds the value it names |
| `RunGpuTwice`, `AgentLate`, `ProposalTwice` | one property each | see section 6 |

Why the bounds are enough to be worth something. A run interacts with others only
through the line, the slot and the count of running ones, so three runs show every
pair and the head behind which another one waits; the life of a single run is
explored with every event at every point. Three ranks are needed for a neighbour list with
an order and for a round that a third rank has not entered; calls are chosen so that every
check and every kind of message meets the others. In a session two requests meet in every
order, and with the deletion they are all that can touch it; two tools show a round that is
half at work and half waiting; three rounds reach both loop guards (`MaxIdentical` is 2 in
the runs, 3 in the code) and the round after the budget notice (`MAX_TOOL_ROUNDS` is 40 in
the code). Six units of time and a grain of two give every job at least two checkpoints, two
times with one label, and a rotation that removes; a second process meets whatever the first
one left. A solve of two iterations has a first, a middle and a last decision; a second solve
shows what a rank that went on alone would mix. A ring that is shorter than the run and a
second connection are what it takes for a replay to meet a gap; to meet a batch that waited
across an unsubscribe takes two looks at a run that has ended and still
prints, over one connection. Three calls can overlap in pairs that do not overlap each other.
`AgentRaces` has one message and one notice; two messages are beyond its bound, and what keeps
their turns apart (`OneTurnAtATime`) is proved for any number of them.

Bounds that cut a counter: `MaxCrashes`, `MaxProcs`, `MaxHands`, `MaxErrs`, `MaxLines`,
`MaxSockets`, `MaxLooks`, `MaxDeaths` (in `RunStream` a reconnection uses up a line and a look
as well: a line is printed or a look taken after it only if one is left); in `AgentTurns` a
request comes once, the session is deleted at most once and one remembered approval is being
saved at a time. Everything else is finite by itself: a run ends once, a program is finite, a
line that repeats changes nothing. `ProposalApply` uses symmetry over calls and over the two
scalings, which no property tells apart; it has no liveness. The runs do not check for
deadlock, since a server whose runs are over, a world whose `run()` has returned and a tab that
has seen everything do stop; what must not stop is stated as liveness.

## 4. Fairness

For the server (`FairSpec`): an await that can settle settles, a timer that is armed
fires, an error or close event that is due is delivered, a process that got SIGKILL
ends. Node's event loop and the operating system give exactly this. Nothing is
assumed of users, of what a driver prints, or of a driver that got SIGTERM.
`EveryRunEnds` alone adds that drivers end (`DriversEnd`), which the iteration budget
of a case gives, and is checked without `shutdown()`: a run that is queued by a
`start()` whose await outlives the shutdown is never launched.

For a session (`Progress`): a stream ends or fails, a file operation ends, a tool ends -
`withTimeout()` and the signal see to that - a preview is ready, and what is due is
delivered. Nothing is assumed of people. `EveryTurnEnds` has two parts: that every turn ends
is under the ten minutes' timer of a card (`CardsExpire`), that a cancelled one ends is not.

For the transport: a runnable thread gets its turn, and the fairness of a rank and of the main
thread is strong, because the mutex is taken and given back while they want it: a thread that
is woken again and again finds it free at some time, as `std::sync::Mutex` does on any
scheduler that runs every thread. The clock moves (`Expire`) only for worlds in `Timed`. No
fairness for panics, spawn failures or spurious wake-ups.

For the solvers: every rank is a running thread, and the deadline of a wait runs out. For the
stream: timers run out, frames under way arrive, a dead socket is noticed and opened again, and
`stop()` ends the run when its guard timer does, if nothing ends it before; the run need not go
on or print, the link need not break and the person need not look. `LinesArrive` and
`StatusSettles` are about connections that last. `Checkpoints` and `ProposalApply` have safety
properties only: a solver may die and a call may fail, so nothing is promised to happen.

## 5. The proofs

All proofs are checked by TLAPS down to the last leaf, each for every value of the
constants. Their assumptions are the named ones of the modules: `RunsAssumption`,
`WorldAssumption`, `ProposalAssumption`, `AgentAssumption`, `JobsAssumption`,
`GrainAssumption`, `TimeAssumption`, `SingleAssumption`, `ContentAssumption`,
`RingAssumption` and `SolveAssumption`. They say which sets the constants are taken from,
that there is a concurrent run, a rank, a round of tools and a solve, that neighbour lists
mirror each other, and that a missing, a torn and a whole file are three things. No
finiteness is assumed of runs, bytes, requests, tools, jobs or solves; of ranks only where
the solvers count them. TLC evaluates every assumption on the runs.

**Run manager** (`RunManagerProofs`). `TypeOK` is inductive by itself (`TypeCorrect`). That
a running run has a process (`NoPhantom`), that one end is announced (`OneExit`) and that
the GPU slot has a holder (`NoGpuLeak`) are not inductive by themselves: whether `finish()`
is reached twice depends on which timers are armed and on whether a launch is under way.
`RunInv(r)` says, at every await, how status, process, launch, timers and end of one run go
together; `IInv` is `RunInv` for every run and `GpuSlotHasHolder`. Each action is shown to
keep it in a lemma that says what the action does to the run it is about and that it leaves
the others alone; `pump()` appears as a lemma on `Rest`. From it: these three, the action
property `CancelWins` (`NoSpawnAfterEnd`), and `Refinement`, which maps every action to a
step of `RunLifecycle` or to a stutter (`Shutdown` to `CancelWaiting`, the cancel of all
that wait). Two more invariants stand on `IInv`. `EndInv` says what status, error, waiters
and record of a run are before and after its end, whichever saves failed; from it
`EndReachesEveryone` (`EndIsKnown`: timers and waiters), `RecordNeverLies` (`RecordIsTrue`:
`run.json`) and the action property `VerdictIsFair` (`VerdictFits`). `LineInv` says that
the line holds each run once and that its head is queued and blocked; that "blocked" counts
live runs needs the set of them to be finite, which is part of it, and every step to leave
the count alone or to end in `pump()` (`LineMoves`, which is `HeadWaitsForAReason`).

**Transport** (`ThreadCommProofs`). The control part comes first (`ControlHolds`): the mutex
is held by exactly the reading rank, a sleeper is waiting for somebody, an abort was set by
a rank that is about to notify or has, or by the main thread. Then `MessageInv`, that a
message in a mailbox says what its sender entered in that round, and `RoundInv`, that what a
rank has gathered so far is what its peers entered with its header; histories only grow, so
both survive every step of another rank. `EntryInv` ties the length in a header to the
bytes. `IInv` (`InvariantHolds`) is all of these with `Agreement` and `SameBytes`. From it:
`RanksAgree`, `RanksGetTheSame`, `NoCopyPanics`, `WakeupHolds` (no wake-up lost, also
between an abort's unlock and its `notify_all`), `WholeResults`, the action property
`NothingSucceedsAfterAbort`, and `Refinement`: entering is `Enter`, completing is `Succeed`,
every error path is `FailRound` or `EnterAndFail`. `Agreement`, `SameBytes`, `CopiesFit` and
`ResultsAreWhole` are not checked by a run of their own: the first two say in the words of
the code what `ImplementsRounds` checks, and the theorems hold for every world.

`FlowInv` is for exchanges: what was sent in an envelope is what was delivered from it, what the
call of the receiver holds and what is in the mailbox, in this order, until the receiver fails;
after that, what was delivered stays the beginning of it. A step posts to the envelope, takes its
oldest message, delivers what was taken, or loses the receiver (`FlowStep`), and each of the four
keeps the order (`OrderIsKept`, which is `NoOvertaking`).

**Session** (`AgentTurnsProofs`). `SessionInv` says, at every await of every handler, how
the parts of a session go together: rounds and tools of a turn (`TurnsOK`); that each entry
of the save chain is there once and whoever awaits it stands at that await (`QueueInv`);
which turn holds which `SessionRuntime` (`OneActive`), and which message holds its
reservation (`Reserved`); what is left to do for a deletion (`DeletionOK`); that the reply
whose tools are at work is in the history, in the file and in what the write under way will
leave (`DiskInv`); who is still owed an answer (`OwedOK`). `NextSteps` sorts the actions by
what they do to the turn, the chain and the record, so that each part is proved once per
sort of step. From it `OneTurnAtATime`, `ToolsWaitForTheFile`, `NobodyIsForgotten`,
`DeletionLasts` and the action property `ConsentComesFirst`. `CallsAreAnsweredOnce` needs
`PairingInv` on top of it: ids belong to the place of their reply and results follow their
calls, in the history, in the file and in the write under way; a turn with a round open has
its reply at the end of the history; and unless a save failed no other reply lacks results.
A restart repairs the history with `FlattenSeq`, a fold over the messages: `FlattenPlaces`
says where each message goes, `RepairAnswers` that every call of the repaired history is
answered.

**Checkpoints** (`CheckpointsProofs`). The list of the rotation is the newer end of what the
process has finished, and every whole file of its own is on it (`ListInv`); the file under
way has the label of now and is torn once truncated (`TargetInv`); the next write falls due
within an interval of the last (`ScheduleInv`); and the newest `keep` names are whole
(`FileInv`). A label that comes again moves to the end of the list, and the lemmas on
`Moved` say what that does to the places of the others. From these `NewestAreDurable`,
`LossIsBounded`, and for the two parts of `RotationOK`, `SeriesOK` and the action property
`ForeignSafe`, `ListIsSeries` and `RemovesOnlyItsOwn`, which `RotationIsSound` joins.

**Solvers** (`SpmdSolveProofs`). The proof builds the one road that all ranks travel: a
sequence of stations, each with a place in the program, the calls left there and the numbers
of rounds and swaps behind it, where each station is what the code makes of the one before
it and of the flag read there (`Road`). `RoadInv` says that every rank stands at a station
of such a road, that each call a rank made was made at a station, and that the ranks agree
behind it; `OneTruth` that a place has one flag, `ReadersVote` that whoever read it has
voted for it or is about to. The road and the flags are claimed while the run is trusted,
and a rank that misreads a flag under a vote never leaves that vote (`GoesOnRight`). From it
`OneSequenceOfCalls`, `SplitVotesStop` and `RefusalsStop`. `RefusalsStop` needs the
condition: without the vote, a rank that misreads a flag in a BiCGStab solve can reach the
next, short solve and pair its rounds with those of the one its peers are still in, so that
it finishes a solve which one of them refused. TLC finds this with two solves and one error.
`SplitVotesStop` has it because votes of unlike solves could be paired in the same way.

**Stream** (`RunStreamProofs`). Lines that a tab has seen, lines in frames under way and
lines in the batch come without gaps but for those the ring has dropped (`FramesInv`,
`BatchInv`); a client that follows the run has every held line in one of the three
(`FollowInv`); no request asks beyond what the tab has seen (`AskInv`), and a dead link
carries neither batch nor request (`LinkInv`). Nothing in it depends on the status, so lines may
come at any time after the start. `StreamHasNoHoles` follows. A replay cuts the
ring into frames of a batch each, and a flush reduces any number of frames: both are treated
as folds.

**Proposals** (`ProposalApplyProofs`). `TypeOK` needs `CallsOK`: what a call has at each
await. `LogOK` says that a proposal with an entry in the log is never authorised again, and
`OverlapOK` that two calls under way know of each other, and one that may still commit knows
of whoever applied its proposal; `OnceUnlessOverlapped` follows at the moment a call
commits. `ScalingOK` is the same for the row: a checked scaling still finds the value that
it names, or knows who changed it. `LogIsTheHistory` needs that "the last entry of a row"
means something (`LastOK`), which is carried along with the growing log.
`ProposalAssumption` asks that a row of a proposal is not the name of a run.

**Counting** (`Counting`). The induction theorems of the library take a predicate, which
these provers cannot instantiate. `EveryNatural` and `EveryPlace` say the same for a set,
`P`, from the well-foundedness of the finite subsets of the naturals, and `FoldExists` that
a fold over a bounded number of steps exists; so a recursive function unfolds at every
place. What is proved of `pushLogs`, of the reduction of frames and of the repair on load
rests on these three. They are lemmas of mathematics and say nothing about the program; they
are here because the library has them in a form that cannot be cited.

**What the prover takes for granted.** The SMT encoding of TLAPS 1.4.5 identifies, for any
function, "its domain is `1..n`" with "its length is `n`", and takes every length for a natural
number. A step that mentions lengths together with a function of another known domain could be
proved from that alone. All proofs were therefore also checked with the equivalence weakened to
an implication.

**Model-checked only.** Liveness (`EveryRunEnds`, `ShutdownReturns`, `RunReturns`,
`EveryTurnEnds`, `EverybodyReturns`, `LinesArrive`, `StatusSettles`): TLAPS 1.4 has no ENABLED,
and so no weak fairness. Every safety property of a passing run is a theorem.

## 6. What the code does not keep

Three runs find a counterexample to what a comment or a type says.

- **GPU runs are not serialised** (`RunGpuTwice`). `registry.ts:53` of `gui/shared` says
  they are. `pump()` tests `gpuBusy` (`manager.ts:180`), `launch()` sets it after awaiting
  `openRun` (213): two runs queued within one tick both pass. `MaxConcurrent` does not prevent
  it: it counts runs whose status is running, which `launch()` sets after the same await.
- **A message is forgotten** (`AgentLate`). `userMessage()` reserves `starting` before it
  awaits the attachments, since otherwise a "second turn would then be appended to the
  history and never answered" (`service.ts:229`). `notifyRunEnded()` tests only `active`
  (476): its turn starts during the assembly, the message is appended in the middle of
  it, and `startTurn()` returns null. It can also land between a call and its result,
  which the API refuses.
- **A proposal is applied twice** (`ProposalTwice`). "An authorised proposal becomes rows, in
  ONE transaction, exactly once" (`apply.ts:1`). The state is tested in step 1 and set after the
  transaction, with awaits in between, and a second call's `authorise()` is refused without
  effect (`routes.ts:667`): two calls under way together both commit. For an action that starts a
  run, two runs start.

Further disagreements met while modelling, and built into the models as the code has them:

- "A driver that ignores SIGTERM still has to go" (`manager.ts:450`), but `stop()` has already
  made the status terminal, and the hard timer sends SIGKILL only when it is not (452). The run
  is declared over at 8 s and the process stays.
- A NaN line makes the status terminal while the process goes on, and `stop()` returns at once
  for a terminal status (440), while `types.ts:54` says that it kills the process group.
- `store.ts:77-86` catches a failed write of `run.json` and only logs it: a later server may
  read a status that is older than the end, or half a file. `RecordIsTrue` says what is kept
  all the same.
- The end of any GPU run, also of one cancelled in the line, clears the slot another one holds
  (`manager.ts:352`); `launch()` makes a run running without waking those who wait for
  that (211); lines that come after the guard timer's end still change status and error,
  though not the announced outcome (300-304); `MaxConcurrent` counts runs whose status
  is running, so a stopped or diverged one whose process lives no longer counts (181).
- A save that fails after the reply joined the history and before its round (`loop.ts:319`)
  leaves a call without a result until the server is restarted, though `loop.ts:3` says that
  every error path leaves the history consistent. `deleteSession()` awaits the active turn
  only: a message or a notice under way saves the record again after it is deleted, and its
  turn, under a new `SessionRuntime`, may run beside another. A cancel reaches only `active`: a
  message still being assembled or saved starts its turn after it.
- `write_restart` creates the file before it tests the lengths (`restart.rs:316`, 319), though
  its comment says that they are checked "before anything is written" (310): a refused write
  destroys the file that had that label. With `keep` at one, the checkpoint after the loop
  rewrites the only file in place when the last step has already written it, and a death at that
  moment leaves none. `keep` counts the files of one process: a resumed run never prunes those of
  the run before it, which is what `ForeignSafe` is about.
- The flag vote of the solvers is on in debug builds only (`spmd.rs:250`). With it off a rank
  that misreads a flag goes on to the next solve while the others iterate, and the transport
  cannot tell the sums apart, since they have the same length.
- `reconcileRuns()` replaces the status of a run by that of the list even when a newer event has
  come meanwhile. A list older than the end makes the run look alive; the tab then subscribes and
  the replay puts it right, unless it is subscribed already: then it stays wrong until the next
  connection (`overtaken`).
- When a criterion or the transaction fails after a run has been started by a before-effect, the
  run goes on without a row (`apply.ts:49` says so).

## 7. What is not modelled

`PROJECT.json` lists every component with its reason. In short: numerics, physics and
meshing are floating point; parsers, prompts, corpus and schemas are functions of
their input; viewer and editor are pictures and text; real time is not modelled, a
timer is an event that may come at any moment after it is armed.

Of the components that are modelled in part: in the agent service rename and settings, the mesh
dialog's frames, the temporary session of `POST /api/chat` with its time limit, and what the
tools themselves do; a notice whose save fails is an unhandled rejection that shuts the server
down, which for the session is a cancel and a `Restart`. In the hub the viewer and ui requests
and the heartbeat; in the client everything but runs. In the ontology engine `reject`, the
approvals that the agent's tool remembers, webhooks, import and queries. Of the distributed
solvers the time loop around the solves (`distflow.rs`), the decomposition and `-permissive`.
`loadPastRuns`, the ids it continues and the hard exit of `main.ts` are in the plan.

## 8. The plan

1. `RunManager`, `RunLifecycle` and their proofs. *Done.*
2. `ThreadComm`, `CollectiveRounds` and their proofs. *Done.*
3. `AgentTurns` and its proofs. *Done.*
4. `Checkpoints`, `SpmdSolve`, `RunStream`, `ProposalApply` and their proofs. *Done.*
5. `RunRestart`: `loadPastRuns`, ids, the hard exit of `main.ts`; composes with the
   `saved` and `proc` of `RunManager`. *To do.*
