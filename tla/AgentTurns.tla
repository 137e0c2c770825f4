----------------------------- MODULE AgentTurns -----------------------------
(***************************************************************************)
(* One chat session of the studio's agent (gui/server/src/agent): messages *)
(* of the user and notices of ended runs start turns, a turn streams       *)
(* replies of the model and runs the tools they call, some of them after a *)
(* person approved, and the session's record is saved after every message. *)
(* The session can be cancelled, deleted, and lost in a crash.             *)
(*                                                                         *)
(* The server is one Node.js event loop: an action is one uninterrupted    *)
(* stretch of it, from the event that wakes it to its next await.  Every   *)
(* await is a place where other events slip in.  The model's replies, the  *)
(* tools, the people and the disk are the environment.                     *)
(***************************************************************************)
EXTENDS Naturals, Sequences, SequencesExt

CONSTANTS
    Messages,      \* user messages (user.message, quick, POST /api/chat)
    Attached,      \* the messages whose attachments, images, take time to read
    Notices,       \* ends of the session's runs that are to be told to the model
    Tools,         \* tools the model may call in one round
    Policy,        \* what classifyTool says of each: "auto", "ask", "always", "never"
    Chips,         \* the tool suggest_followups, as a set
    Campaign,      \* CAMPAIGN_TOOLS: their turns may end in a repair call
    MaxRounds,     \* MAX_TOOL_ROUNDS
    MaxIdentical,  \* MAX_IDENTICAL_ROUNDS
    Upsets,        \* what may go wrong with a stream
    SaveMayFail,   \* whether a write of the session file may fail
    MayDelete,     \* whether the session may be deleted (once)
    MaxCrashes,    \* how often the server may die and be started again
    Nobody         \* no request

Requests == Messages \cup Notices

ASSUME AgentAssumption ==
    /\ Attached \subseteq Messages
    /\ Messages \cap Notices = {}
    /\ Nobody \notin Requests
    /\ Policy \in [Tools -> {"auto", "ask", "always", "never"}]
    /\ Chips \subseteq Tools
    /\ Campaign \subseteq Tools
    /\ MaxRounds \in Nat \ {0}
    /\ MaxIdentical \in Nat \ {0}
    /\ Upsets \subseteq {"refusal", "truncated", "role", "retry", "fatal"}
    /\ SaveMayFail \in BOOLEAN
    /\ MayDelete \in BOOLEAN
    /\ MaxCrashes \in Nat

VARIABLES
    history,    \* rec.messages
    allowed,    \* rec.allowedTools
    live,       \* whether the store's map holds the record
    file,       \* the session file, NoFile when there is none
    writes,     \* the chain of saves, each with whoever awaits it
    snap,       \* what the write under way will leave in the file
    gen,        \* which SessionRuntime the runtimes map holds
    active,     \* rt.active of each SessionRuntime: the request whose turn it is
    starting,   \* rt.starting of each SessionRuntime
    req,        \* how far the handler of each request has come
    home,       \* the SessionRuntime the handler of a message captured
    turn,       \* the turn each request started
    frame,      \* the tool.approve frame that awaits a save: its tool calls
    del,        \* session.delete: where it stands, saves and turn it awaits
    crashes     \* how often the server has died

(* What only the properties look at. *)
VARIABLES
    consent,    \* the calls a person has approved
    owed,       \* the requests whose message no stream has been given yet
    late,       \* a message was appended while a turn was running
    failed,     \* a save has failed since the server started
    overtaken   \* the deletion did not wait for a request or turn under way

recVars == <<history, allowed>>
diskVars == <<live, file, writes, snap>>
rtVars == <<gen, active, starting>>
seenVars == <<consent, owed, late, failed, overtaken>>
vars == <<recVars, diskVars, rtVars, req, home, turn, frame, del, crashes,
          seenVars>>

Gens == {0, 1}
NoFile == [messages |-> <<>>, allowed |-> {}, exists |-> FALSE]
Memory == [messages |-> history, allowed |-> allowed, exists |-> TRUE]

(* The messages of the history.  Of a user message the content may be a      *)
(* string ("text") or blocks; the blocks may hold an image, or results.      *)
Says(role) == [role |-> role, ids |-> {}]
Assistant(ids) == [role |-> "assistant", ids |-> ids]
Results(ids) == [role |-> "blocks", ids |-> ids]
IsBlocks(m) == m.role \in {"blocks", "image"}

(* A call's id: unique, for it holds the place its message was appended at.  *)
Ids(at, names) == {<<at, t>> : t \in names}

Idle == [pc |-> "none", gen |-> 0, aborted |-> FALSE, rounds |-> 0,
         budget |-> FALSE, retried |-> FALSE, folded |-> FALSE,
         campaign |-> FALSE, chips |-> 0, last |-> {}, same |-> 0,
         at |-> 0, use |-> {}, running |-> {}, previewing |-> {},
         waiting |-> {}]
Started == [Idle EXCEPT !.pc = "stream", !.gen = gen]

InTurn(r) == turn[r].pc \notin {"none", "tidying", "refreshing"}

NoFrame == [of |-> Nobody, calls |-> {}]

Init ==
    /\ history = <<>> /\ allowed = {} /\ live = TRUE
    /\ file = Memory /\ writes = <<>> /\ snap = NoFile
    /\ gen = 0
    /\ active = [g \in Gens |-> Nobody]
    /\ starting = [g \in Gens |-> FALSE]
    /\ req = [r \in Requests |-> "new"]
    /\ home = [r \in Requests |-> 0]
    /\ turn = [r \in Requests |-> Idle]
    /\ frame = NoFrame
    /\ del = [pc |-> "no", left |-> 0, turn |-> Nobody]
    /\ crashes = 0
    /\ consent = {} /\ owed = {}
    /\ late = FALSE /\ failed = FALSE /\ overtaken = FALSE

-----------------------------------------------------------------------------
(* The session store.  save() puts the record back into the map and chains   *)
(* a write behind those under way; a write takes the record as it is when    *)
(* its turn comes, and renames the whole file into place.                    *)

(* A fault: the write leaves the record as it was before the last change. *)
StaleChain(rest, new) ==
    /\ writes' = rest \o new
    /\ snap' = CASE rest \o new = <<>> -> NoFile
                 [] rest = writes /\ writes # <<>> -> snap
                 [] OTHER -> Memory

Chain(rest, new) ==
    /\ writes' = rest \o new
    /\ snap' = CASE rest \o new = <<>> -> NoFile
                 [] rest = writes /\ writes # <<>> -> snap
                 [] OTHER -> Memory'

Save(who, r) ==
    /\ Chain(writes, <<[who |-> who, of |-> r]>>)
    /\ live' = TRUE
    /\ UNCHANGED <<file, del, failed>>

NoSave == UNCHANGED <<diskVars, del, failed>>

(* The write at the head of the chain is over, and whoever awaited it goes   *)
(* on, perhaps to save again.                                                *)
Written(who, r, ok, new) ==
    /\ Head(writes) = [who |-> who, of |-> r]
    /\ ok \/ SaveMayFail
    /\ Chain(Tail(writes), new)
    /\ file' = IF ok THEN snap ELSE file
    /\ live' = (live \/ new # <<>>)
    /\ del' = [del EXCEPT !.left = IF @ = 0 THEN 0 ELSE @ - 1]
    /\ failed' = (failed \/ ~ok)

Awaits(who, r) == writes # <<>> /\ Head(writes) = [who |-> who, of |-> r]
Again(who, r) == <<[who |-> who, of |-> r]>>

-----------------------------------------------------------------------------
(* Requests: user messages, and notices of ended runs.                       *)

(* A session refuses a message in a turn and while it reads another one.     *)
Busy == active[gen] # Nobody \/ starting[gen]

Appends(m) == history' = Append(history, m)

(* A fault: a turn that its own request's reservation keeps from starting.   *)
StartTurnUnreserved(r) ==
    IF ~Busy
    THEN /\ active' = [active EXCEPT ![gen] = r]
         /\ turn' = [turn EXCEPT ![r] = Started]
         /\ owed' = {}
    ELSE UNCHANGED <<active, turn, owed>>

(* startTurn(): nothing when the session has a turn already.  The turn's     *)
(* first stream is given the whole history.                                  *)
StartTurn(r) ==
    IF active[gen] = Nobody
    THEN /\ active' = [active EXCEPT ![gen] = r]
         /\ turn' = [turn EXCEPT ![r] = Started]
         /\ owed' = {}
    ELSE UNCHANGED <<active, turn, owed>>

(* Images go home before a new message and when a turn ends. *)
Dehydrate(h) == [i \in DOMAIN h |->
                   IF h[i].role = "image" THEN [h[i] EXCEPT !.role = "blocks"]
                   ELSE h[i]]

AddMessage(r, h, role) ==
    /\ history' = Append(h, Says(role))
    /\ owed' = owed \cup {r}
    /\ late' = (late \/ \E q \in Requests : InTurn(q))
    /\ req' = [req EXCEPT ![r] = "saving"]

MessageArrives(m) ==
    /\ req[m] = "new" /\ live /\ ~Busy
    /\ starting' = [starting EXCEPT ![gen] = TRUE]
    /\ home' = [home EXCEPT ![m] = gen]
    /\ IF m \in Attached
       THEN /\ req' = [req EXCEPT ![m] = "assembling"]
            /\ history' = Dehydrate(history)
            /\ NoSave
            /\ UNCHANGED <<owed, late, allowed>>
       ELSE /\ UNCHANGED allowed
            /\ AddMessage(m, Dehydrate(history), "text")
            /\ Save("message", m)
    /\ UNCHANGED <<gen, active, turn, frame, crashes, consent, overtaken>>

Assembled(m) ==
    /\ req[m] = "assembling"
    /\ UNCHANGED allowed
    /\ AddMessage(m, history, "image")
    /\ Save("message", m)
    /\ UNCHANGED <<rtVars, home, turn, frame, crashes, consent, overtaken>>

(* A fault: only a turn that starts releases the reservation. *)
HandlerEndsByTurn(m) ==
    /\ starting' = [starting EXCEPT ![home[m]] = active' = active]
    /\ req' = [req EXCEPT ![m] = "over"]

(* The finally releases the reservation, also when the save has failed. *)
HandlerEnds(m) ==
    /\ starting' = [starting EXCEPT ![home[m]] = FALSE]
    /\ req' = [req EXCEPT ![m] = "over"]

MessageSaved(m) ==
    /\ Awaits("message", m)
    /\ UNCHANGED recVars
    /\ \E ok \in BOOLEAN :
         /\ Written("message", m, ok, <<>>)
         /\ IF ok THEN StartTurn(m) ELSE UNCHANGED <<active, turn, owed>>
    /\ HandlerEnds(m)
    /\ UNCHANGED <<gen, home, frame, crashes, consent, late, overtaken>>

(* notifyRunEnded(): a notice is dropped when a turn is active. *)
NoticeArrives(n) ==
    /\ req[n] = "new" /\ live
    /\ UNCHANGED allowed
    /\ IF active[gen] = Nobody
       THEN AddMessage(n, history, "text") /\ Save("notice", n)
       ELSE /\ req' = [req EXCEPT ![n] = "over"]
            /\ NoSave
            /\ UNCHANGED <<history, owed, late>>
    /\ UNCHANGED <<rtVars, home, turn, frame, crashes, consent, overtaken>>

NoticeSaved(n) ==
    /\ Awaits("notice", n)
    /\ UNCHANGED recVars
    /\ \E ok \in BOOLEAN :
         /\ Written("notice", n, ok, <<>>)
         /\ IF ok THEN StartTurn(n) ELSE UNCHANGED <<active, turn, owed>>
    /\ req' = [req EXCEPT ![n] = "over"]
    /\ UNCHANGED <<gen, starting, home, frame, crashes, consent, late,
                   overtaken>>

-----------------------------------------------------------------------------
(* The turn: runTurn().  To(r, t) gives the turn of r its next state.        *)

To(r, t) == turn' = [turn EXCEPT ![r] = t]

AtPc(r, pc) == turn[r].pc = pc

(* The loop goes round: the next stream is given the whole history. *)
StreamAgain(r, t) == To(r, [t EXCEPT !.pc = "stream"]) /\ owed' = {}

(* finish(): one more save, then the turn is done. *)
Finish(r, t) == To(r, [t EXCEPT !.pc = "finishing"])

TurnOnly == UNCHANGED <<allowed, rtVars, req, home, frame, crashes, consent,
                        late, overtaken>>

(* A fault: the calls of a broken stream are kept without results. *)
UnsettledCalls(at, use) == <<Assistant(Ids(at, use))>>

(* repairPartial(): calls that are answered the moment they are kept. *)
SettledCalls(at, use) == <<Assistant(Ids(at, use)), Results(Ids(at, use))>>

(* The signal ends the stream: complete calls are kept as cancelled. *)
StreamCancelled(r) ==
    /\ AtPc(r, "stream") /\ turn[r].aborted
    /\ TurnOnly
    /\ \E use \in SUBSET Tools :
         history' = IF use = {} THEN history
                    ELSE history \o SettledCalls(Len(history) + 1, use)
    /\ Finish(r, turn[r])
    /\ Save("turn", r)
    /\ UNCHANGED owed

(* The response was cut off; complete calls are kept as not executed. *)
Truncated(r) ==
    /\ AtPc(r, "stream") /\ "truncated" \in Upsets
    /\ TurnOnly
    /\ \/ UNCHANGED history
       \/ Appends(Assistant({}))
       \/ \E use \in SUBSET Tools \ {{}} :
            history' = history \o SettledCalls(Len(history) + 1, use)
    /\ Finish(r, [turn[r] EXCEPT !.rounds = @ + 1])
    /\ Save("turn", r)
    /\ UNCHANGED owed

(* A refusal: its text may be kept, its calls are not. *)
Refused(r) ==
    /\ AtPc(r, "stream") /\ "refusal" \in Upsets
    /\ TurnOnly
    /\ UNCHANGED history \/ Appends(Assistant({}))
    /\ Finish(r, [turn[r] EXCEPT !.rounds = @ + 1])
    /\ Save("turn", r)
    /\ UNCHANGED owed

(* The API does not take the system role: fold it into the user turn. *)
RoleRejected(r) ==
    /\ AtPc(r, "stream") /\ "role" \in Upsets
    /\ ~turn[r].aborted /\ ~turn[r].folded
    /\ TurnOnly
    /\ StreamAgain(r, [turn[r] EXCEPT !.folded = TRUE])
    /\ NoSave
    /\ UNCHANGED history

Retries(t) == [t EXCEPT !.pc = "sleeping", !.retried = TRUE]

RetryLater(r) ==
    /\ AtPc(r, "stream") /\ "retry" \in Upsets
    /\ ~turn[r].aborted /\ ~turn[r].retried
    /\ TurnOnly
    /\ To(r, Retries(turn[r]))
    /\ NoSave
    /\ UNCHANGED <<history, owed>>

SleepOver(r) ==
    /\ AtPc(r, "sleeping")
    /\ TurnOnly
    /\ IF turn[r].aborted
       THEN Finish(r, turn[r]) /\ UNCHANGED <<history, owed>> /\ Save("turn", r)
       ELSE StreamAgain(r, turn[r]) /\ UNCHANGED history /\ NoSave

(* Any other error, and one that was retried already. *)
StreamFails(r) ==
    /\ AtPc(r, "stream") /\ ~turn[r].aborted
    /\ \/ "fatal" \in Upsets
       \/ "retry" \in Upsets /\ turn[r].retried
    /\ TurnOnly
    /\ UNCHANGED <<history, owed>>
    /\ To(r, [turn[r] EXCEPT !.pc = "failing"])
    /\ Save("turn", r)

(* The reply joins the history and is saved before any of its tools runs. *)
AppendReply(r, t, use) ==
    /\ Appends(Assistant(Ids(Len(history) + 1, use)))
    /\ To(r, [t EXCEPT !.pc = "asked", !.at = Len(history) + 1, !.use = use,
                       !.campaign = @ \/ use \cap Campaign # {}])
    /\ Save("turn", r)

(* A whole reply.  In a campaign turn the reply that ends it may take a      *)
(* repair call first, when it holds a number no tool result holds.           *)
Replied(r) ==
    /\ AtPc(r, "stream")
    /\ TurnOnly
    /\ UNCHANGED owed
    /\ \E use \in SUBSET Tools :
         LET t == [turn[r] EXCEPT !.rounds = @ + 1]
         IN \/ AppendReply(r, t, use)
            \/ /\ t.campaign /\ use \subseteq Chips
               /\ To(r, [t EXCEPT !.pc = "repairing", !.use = use])
               /\ NoSave
               /\ UNCHANGED history

(* The repair call ended, with a better text or without. *)
Repaired(r) ==
    /\ AtPc(r, "repairing")
    /\ TurnOnly
    /\ AppendReply(r, turn[r], turn[r].use)
    /\ UNCHANGED owed

-----------------------------------------------------------------------------
(* The round of tools: executeRound().                                       *)

Saved(r, pc) == Awaits("turn", r) /\ AtPc(r, pc)

(* No call in the reply: the turn is done. *)
ReplyEnds(r) ==
    /\ Saved(r, "asked") /\ turn[r].use = {}
    /\ TurnOnly
    /\ UNCHANGED <<history, owed>>
    /\ Finish(r, turn[r])
    /\ Written("turn", r, TRUE, Again("turn", r))

(* The model called tools after it was told to answer without. *)
BudgetSpent(r) ==
    /\ Saved(r, "asked") /\ turn[r].use # {} /\ turn[r].budget
    /\ TurnOnly
    /\ Appends(Results(Ids(turn[r].at, turn[r].use)))
    /\ Finish(r, turn[r])
    /\ Written("turn", r, TRUE, Again("turn", r))
    /\ UNCHANGED owed

(* classifyTool(): a person's "for this session" relaxes ask, not always. *)
RunsAtOnce(t) == \/ Policy[t] = "auto"
                 \/ Policy[t] = "ask" /\ t \in allowed
NeedsAPerson(t) == ~RunsAtOnce(t) /\ Policy[t] # "never"

(* The calls of a cancelled turn settle without running or asking. *)
UnlessAborted(t, calls) == IF t.aborted THEN {} ELSE calls

ExecuteRound(r) ==
    /\ Saved(r, "asked") /\ turn[r].use # {} /\ ~turn[r].budget
    /\ TurnOnly
    /\ UNCHANGED <<history, owed>>
    /\ LET t == turn[r]
           atOnce == {x \in t.use : RunsAtOnce(x)}
           asks == {x \in t.use : NeedsAPerson(x)}
       IN To(r, [t EXCEPT
                   !.pc = "tools",
                   !.same = IF t.use = t.last THEN @ + 1 ELSE 1,
                   !.last = t.use,
                   !.chips = IF t.use \subseteq Chips THEN @ + 1 ELSE @,
                   !.running = UnlessAborted(t, atOnce),
                   !.previewing = UnlessAborted(t, asks)])
    /\ Written("turn", r, TRUE, <<>>)

(* A tool returns, throws, times out or gives way to the signal. *)
ToolEnds(r) ==
    /\ AtPc(r, "tools")
    /\ TurnOnly
    /\ \E x \in turn[r].running :
         To(r, [turn[r] EXCEPT !.running = @ \ {x}])
    /\ NoSave
    /\ UNCHANGED <<history, owed>>

(* The card is asked for; a turn cancelled by now gets no card. *)
PreviewsReady(r) ==
    /\ AtPc(r, "tools") /\ turn[r].previewing # {}
    /\ TurnOnly
    /\ To(r, [turn[r] EXCEPT
                !.waiting = UnlessAborted(turn[r], turn[r].previewing),
                !.previewing = {}])
    /\ NoSave
    /\ UNCHANGED <<history, owed>>

(* Every call is settled: their results enter the history in one message. *)
RoundOver(r) ==
    /\ AtPc(r, "tools")
    /\ turn[r].running \cup turn[r].previewing \cup turn[r].waiting = {}
    /\ TurnOnly
    /\ Appends(Results(Ids(turn[r].at, turn[r].use)))
    /\ To(r, [turn[r] EXCEPT !.pc = "answered"])
    /\ Save("turn", r)
    /\ UNCHANGED owed

(* The loop guards: the same calls again, or nothing but chips again. *)
GoesInCircles(t) == \/ t.use \subseteq Chips /\ t.chips >= 2
                    \/ t.same >= MaxIdentical

RoundEndsTurn(r) ==
    /\ Saved(r, "answered")
    /\ turn[r].aborted \/ GoesInCircles(turn[r])
    /\ TurnOnly
    /\ UNCHANGED <<history, owed>>
    /\ Finish(r, turn[r])
    /\ Written("turn", r, TRUE, Again("turn", r))

(* A fault: one round too many. *)
BudgetIsOverspent(t) == t.rounds > MaxRounds /\ ~t.budget

BudgetIsSpent(t) == t.rounds >= MaxRounds /\ ~t.budget

NextRound(r) ==
    /\ Saved(r, "answered")
    /\ ~turn[r].aborted /\ ~GoesInCircles(turn[r])
    /\ TurnOnly
    /\ IF BudgetIsSpent(turn[r])
       THEN /\ Appends(Says("text"))
            /\ To(r, [turn[r] EXCEPT !.pc = "noticed", !.budget = TRUE])
            /\ Written("turn", r, TRUE, Again("turn", r))
            /\ UNCHANGED owed
       ELSE /\ UNCHANGED history
            /\ StreamAgain(r, turn[r])
            /\ Written("turn", r, TRUE, <<>>)

BudgetNoticed(r) ==
    /\ Saved(r, "noticed")
    /\ TurnOnly
    /\ UNCHANGED history
    /\ StreamAgain(r, turn[r])
    /\ Written("turn", r, TRUE, <<>>)

(* The turn is over, by its last save or because a save threw: the session   *)
(* is free again, images go home.                                            *)
TurnLeaves(r) ==
    /\ Awaits("turn", r)
    /\ UNCHANGED allowed
    /\ history' = Dehydrate(history)
    /\ \E ok \in BOOLEAN :
         /\ ~ok \/ turn[r].pc \in {"finishing", "failing"}
         /\ IF history' = history
            THEN /\ To(r, [Idle EXCEPT !.pc = "refreshing"])
                 /\ Written("turn", r, ok, <<>>)
            ELSE /\ To(r, [Idle EXCEPT !.pc = "tidying"])
                 /\ Written("turn", r, ok, Again("tidy", r))
    /\ active' = [active EXCEPT ![turn[r].gen] = IF @ = r THEN Nobody ELSE @]
    /\ UNCHANGED <<gen, starting, req, home, frame, crashes, consent, owed,
                   late, overtaken>>

TidySaved(r) ==
    /\ Awaits("tidy", r)
    /\ TurnOnly
    /\ UNCHANGED <<history, owed>>
    /\ \E ok \in BOOLEAN :
         /\ Written("tidy", r, ok, <<>>)
         /\ To(r, IF ok THEN [Idle EXCEPT !.pc = "refreshing"] ELSE Idle)

(* refreshCustomTools() is done: whoever awaits the turn goes on. *)
Refreshed(r) ==
    /\ AtPc(r, "refreshing")
    /\ TurnOnly
    /\ To(r, Idle)
    /\ NoSave
    /\ UNCHANGED <<history, owed>>

-----------------------------------------------------------------------------
(* The people: approvals, and the cancel button.                             *)

(* A card can be answered while its turn's SessionRuntime is in the map. *)
OnScreen(r, calls) == /\ live /\ turn[r].gen = gen
                      /\ calls # {} /\ calls \subseteq turn[r].waiting

Settled(t, calls) == [t EXCEPT !.waiting = @ \ calls]
Executes(t, calls) ==
    [Settled(t, calls) EXCEPT !.running = @ \cup UnlessAborted(t, calls)]

PeopleOnly == UNCHANGED <<history, rtVars, req, home, crashes, owed, late,
                          overtaken>>

Approve(r) ==
    /\ \E calls \in SUBSET Tools :
         /\ OnScreen(r, calls)
         /\ To(r, Executes(turn[r], calls))
         /\ consent' = consent \cup Ids(turn[r].at, calls)
    /\ NoSave
    /\ PeopleOnly /\ UNCHANGED <<allowed, frame>>

(* "For this session": the names are kept and saved before the calls run. *)
ApproveForSession(r) ==
    /\ frame = NoFrame
    /\ PeopleOnly /\ UNCHANGED turn
    /\ \E calls \in SUBSET Tools :
         /\ OnScreen(r, calls)
         /\ allowed' = allowed \cup calls
         /\ frame' = [of |-> r, calls |-> Ids(turn[r].at, calls)]
         /\ consent' = consent \cup Ids(turn[r].at, calls)
         /\ Save("frame", r)

(* Only what still waits is resolved: each call is settled once. *)
FrameSaved(r) ==
    /\ Awaits("frame", r)
    /\ PeopleOnly /\ UNCHANGED <<allowed, consent>>
    /\ \E ok \in BOOLEAN :
         /\ Written("frame", r, ok, <<>>)
         /\ LET still == {x \in turn[r].waiting :
                            <<turn[r].at, x>> \in frame.calls}
            IN To(r, IF ok THEN Executes(turn[r], still) ELSE turn[r])
    /\ frame' = NoFrame

Deny(r) ==
    /\ \E calls \in SUBSET Tools :
         OnScreen(r, calls) /\ To(r, Settled(turn[r], calls))
    /\ NoSave
    /\ PeopleOnly /\ UNCHANGED <<allowed, frame, consent>>

(* A fault: whatever is not denied runs. *)
ExpireRuns(r) ==
    /\ turn[r].waiting # {}
    /\ To(r, Executes(turn[r], turn[r].waiting))
    /\ NoSave
    /\ PeopleOnly /\ UNCHANGED <<allowed, frame, consent>>

(* Nobody answered for APPROVAL_TTL_MS. *)
Expire(r) ==
    /\ turn[r].waiting # {}
    /\ To(r, Settled(turn[r], turn[r].waiting))
    /\ NoSave
    /\ PeopleOnly /\ UNCHANGED <<allowed, frame, consent>>

(* A fault: the waiters are left to the timer. *)
SignalOnly(t) == [t EXCEPT !.aborted = TRUE]

(* cancelTurn(): the signal, and with it the waiters. *)
Cancelled(t) == [t EXCEPT !.aborted = TRUE, !.waiting = {}]
CancelTurn ==
    IF active[gen] = Nobody THEN UNCHANGED turn
    ELSE To(active[gen], Cancelled(turn[active[gen]]))

Cancel ==
    /\ live /\ active[gen] # Nobody /\ ~turn[active[gen]].aborted
    /\ CancelTurn
    /\ NoSave
    /\ PeopleOnly /\ UNCHANGED <<allowed, frame, consent>>

-----------------------------------------------------------------------------
(* Deletion.  It cancels and awaits the active turn, and nothing else: the   *)
(* runtime goes, then the record, then the saves under way end, then the     *)
(* file goes.                                                                *)

UnderWay(r) == req[r] \in {"assembling", "saving"} \/ turn[r].pc # "none"

RemoveSession ==
    /\ gen' = 1
    /\ live' = FALSE
    /\ del' = [pc |-> "removing", left |-> Len(writes), turn |-> Nobody]
    /\ overtaken' = \E r \in Requests \ {del.turn} : UnderWay(r)

DeleteOnly == UNCHANGED <<recVars, file, writes, snap, active, starting, req,
                          home, frame, crashes, consent, owed, late, failed>>

DeleteSession ==
    /\ MayDelete /\ del.pc = "no" /\ live
    /\ CancelTurn
    /\ IF active[gen] = Nobody
       THEN RemoveSession
       ELSE /\ del' = [del EXCEPT !.pc = "waiting", !.turn = active[gen]]
            /\ UNCHANGED <<gen, live, overtaken>>
    /\ DeleteOnly

(* A fault: the record goes while the turn still runs. *)
TurnNotAwaited ==
    /\ del.pc = "waiting"
    /\ RemoveSession
    /\ DeleteOnly /\ UNCHANGED turn

TurnAwaited ==
    /\ del.pc = "waiting" /\ turn[del.turn].pc = "none"
    /\ RemoveSession
    /\ DeleteOnly /\ UNCHANGED turn

EraseFile ==
    /\ del.pc = "removing" /\ del.left = 0
    /\ file' = NoFile
    /\ del' = [del EXCEPT !.pc = "gone"]
    /\ UNCHANGED <<recVars, live, writes, snap, rtVars, req, home, turn, frame,
                   crashes, seenVars>>

-----------------------------------------------------------------------------
(* The server dies, and another reads the file.  A call its history leaves   *)
(* without a result gets one on load: in the blocks of the message after it, *)
(* else in a message of its own.                                             *)

Asks(m) == m.role = "assistant" /\ m.ids # {}

Asked(h, i) == IF i > 1 /\ h[i - 1].role = "assistant"
               THEN h[i - 1].ids ELSE {}

OnLoad(h, i) ==
    LET led == IF IsBlocks(h[i]) THEN [h[i] EXCEPT !.ids = @ \cup Asked(h, i)]
               ELSE h[i]
        followed == i < Len(h) /\ IsBlocks(h[i + 1])
    IN IF Asks(h[i]) /\ ~followed THEN <<led, Results(h[i].ids)>> ELSE <<led>>

RepairDanglingToolUses(h) == FlattenSeq([i \in 1 .. Len(h) |-> OnLoad(h, i)])

Restart ==
    /\ crashes < MaxCrashes
    /\ crashes' = crashes + 1
    /\ history' = RepairDanglingToolUses(file.messages)
    /\ allowed' = file.allowed
    /\ live' = file.exists
    /\ writes' = <<>> /\ snap' = NoFile
    /\ active' = [g \in Gens |-> Nobody]
    /\ starting' = [g \in Gens |-> FALSE]
    /\ req' = [r \in Requests |-> IF req[r] = "new" THEN "new" ELSE "over"]
    /\ turn' = [r \in Requests |-> Idle]
    /\ frame' = NoFrame
    /\ del' = [pc |-> IF del.pc \in {"no", "gone"} THEN del.pc ELSE "lost",
               left |-> 0, turn |-> Nobody]
    /\ consent' = {} /\ owed' = {} /\ failed' = FALSE
    /\ UNCHANGED <<file, gen, home, late, overtaken>>

-----------------------------------------------------------------------------
StreamEnds(r) ==
    \/ StreamCancelled(r) \/ Truncated(r) \/ Refused(r) \/ RoleRejected(r)
    \/ RetryLater(r) \/ StreamFails(r) \/ Replied(r)

Waits(r) == SleepOver(r) \/ Repaired(r) \/ Refreshed(r)

Rounds(r) == ToolEnds(r) \/ PreviewsReady(r) \/ RoundOver(r)

TurnSaved(r) ==
    \/ ReplyEnds(r) \/ BudgetSpent(r) \/ ExecuteRound(r) \/ RoundEndsTurn(r)
    \/ NextRound(r) \/ BudgetNoticed(r) \/ TurnLeaves(r) \/ TidySaved(r)

DiskEnds ==
    \/ \E m \in Messages : MessageSaved(m)
    \/ \E n \in Notices : NoticeSaved(n)
    \/ \E r \in Requests : TurnSaved(r) \/ FrameSaved(r)

Person(r) == Approve(r) \/ ApproveForSession(r) \/ Deny(r)

Next ==
    \/ \E m \in Messages : MessageArrives(m) \/ Assembled(m)
    \/ \E n \in Notices : NoticeArrives(n)
    \/ \E r \in Requests :
         StreamEnds(r) \/ Waits(r) \/ Rounds(r) \/ Person(r) \/ Expire(r)
    \/ DiskEnds
    \/ Cancel
    \/ DeleteSession \/ TurnAwaited \/ EraseFile
    \/ Restart

Spec == Init /\ [][Next]_vars
=============================================================================
