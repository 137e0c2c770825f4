--------------------------- MODULE AgentTurnsProps ---------------------------
(* What a chat session owes its user, its history and its file. *)
EXTENDS AgentTurns, FiniteSets

Message == [role : {"text", "blocks", "image", "assistant"},
            ids : SUBSET (Nat \X Tools)]
File == [messages : Seq(Message), allowed : SUBSET Tools, exists : BOOLEAN]
Turn == [pc : {"none", "stream", "sleeping", "repairing", "asked", "tools",
               "answered", "noticed", "finishing", "failing", "tidying",
               "refreshing"},
         gen : Gens, aborted : BOOLEAN, rounds : 0 .. MaxRounds + 1,
         budget : BOOLEAN, retried : BOOLEAN, folded : BOOLEAN,
         campaign : BOOLEAN, chips : Nat, last : SUBSET Tools, same : Nat,
         at : Nat, use : SUBSET Tools, running : SUBSET Tools,
         previewing : SUBSET Tools, waiting : SUBSET Tools]
Waiter == [who : {"turn", "message", "notice", "tidy", "frame"}, of : Requests]

(* The shape of the state; a turn makes at most MAX_TOOL_ROUNDS rounds and   *)
(* one more to answer without tools (loop.ts).                               *)
TypeOK ==
    /\ history \in Seq(Message)
    /\ allowed \in SUBSET Tools
    /\ live \in BOOLEAN
    /\ file \in File
    /\ writes \in Seq(Waiter)
    /\ snap \in File
    /\ gen \in Gens
    /\ active \in [Gens -> Requests \cup {Nobody}]
    /\ starting \in [Gens -> BOOLEAN]
    /\ req \in [Requests -> {"new", "assembling", "saving", "over"}]
    /\ home \in [Requests -> Gens]
    /\ turn \in [Requests -> Turn]
    /\ frame \in [of : Requests \cup {Nobody}, calls : SUBSET (Nat \X Tools)]
    /\ del \in [pc : {"no", "waiting", "removing", "gone", "lost"},
                left : Nat, turn : Requests \cup {Nobody}]
    /\ crashes \in 0 .. MaxCrashes
    /\ consent \in SUBSET (Nat \X Tools)
    /\ owed \in SUBSET Requests
    /\ late \in BOOLEAN /\ failed \in BOOLEAN /\ overtaken \in BOOLEAN

(* The calls of message i have one result each, in the message after it.     *)
Answered(h, i) ==
    \A id \in h[i].ids :
        {j \in DOMAIN h : h[j].role # "assistant" /\ id \in h[j].ids} = {i + 1}

(* The round a turn is in the middle of. *)
Open(i) == i = Len(history) /\ \E r \in Requests :
              turn[r].pc \in {"asked", "tools"} /\ turn[r].at = i

(* Every call in the history is answered once, by the message that follows,  *)
(* but for the round a turn is in the middle of: whichever way a turn ends   *)
(* and after a restart too (loop.ts, repairDanglingToolUses).                *)
AnsweredOnce == \A i \in DOMAIN history :
    Asks(history[i]) => Answered(history, i) \/ Open(i)

(* The cases the server does not cover: a message added in the middle of     *)
(* somebody else's turn, a save that failed in the middle of a round, and a  *)
(* session deleted under a request, which then has turns side by side.       *)
Upset == late \/ failed \/ overtaken

(* The same, where nothing of that has happened. *)
AnsweredUnlessUpset == Upset \/ AnsweredOnce

(* A tool is at work only when the reply that called it is in the file: a    *)
(* server that dies now leaves a call to answer on load (session.ts).        *)
ToolsAreOnDisk ==
    del.pc \in {"no", "waiting"} =>
        \A r \in Requests : turn[r].running # {} =>
            /\ turn[r].at \in DOMAIN file.messages
            /\ Ids(turn[r].at, turn[r].running)
                 \subseteq file.messages[turn[r].at].ids

(* A tool is started only when nobody has cancelled the turn, and, where the *)
(* policy gives it to a person, only when a person has approved that very    *)
(* call or, before, its name for the session - which the file then holds, so *)
(* that a restart does not forget it.                                        *)
Remembered == IF failed \/ del.pc \in {"removing", "gone"} THEN allowed
              ELSE allowed \cap file.allowed
MayRun(r, x) ==
    \/ Policy[x] = "auto"
    \/ <<turn[r].at, x>> \in consent /\ Policy[x] # "never"
    \/ Policy[x] = "ask" /\ x \in Remembered
NothingWithoutConsent ==
    [][\A r \in Requests : \A x \in turn'[r].running \ turn[r].running :
           ~turn[r].aborted /\ MayRun(r, x)']_vars

(* One turn at a time works on a session, unless it was deleted under a      *)
(* request or turn the deletion does not await; and a session that refuses   *)
(* messages has that turn or a message under way: no early return, failed    *)
(* save or deletion leaves it refusing for ever.                             *)
OneTurn ==
    /\ ~overtaken => Cardinality({r \in Requests : InTurn(r)}) <= 1
    /\ \A g \in Gens : active[g] # Nobody => InTurn(active[g])
    /\ \A g \in Gens : starting[g] => \E m \in Messages :
           home[m] = g /\ req[m] \in {"assembling", "saving"}

(* When everything has come to rest, every message in the history has been   *)
(* given to the model: none is kept and never answered.                      *)
AtRest == \A r \in Requests : ~UnderWay(r)
NobodyForgotten == AtRest => owed = {}
NobodyForgottenUnlessUpset == Upset \/ NobodyForgotten

(* A session that is deleted stays deleted, record and file, when nothing    *)
(* was under way but the turn the deletion awaited.                          *)
DeletedStaysDeleted == del.pc = "gone" /\ ~overtaken => ~live /\ ~file.exists

-----------------------------------------------------------------------------
(* Fairness.  A stream, a file operation and a tool end - the tools have     *)
(* timeouts and the signal - and the event loop delivers what is ready.      *)
Progress ==
    /\ \A r \in Requests : WF_vars(StreamEnds(r)) /\ WF_vars(Waits(r))
    /\ \A r \in Requests : WF_vars(Rounds(r))
    /\ \A m \in Messages : WF_vars(Assembled(m))
    /\ WF_vars(DiskEnds)
    /\ WF_vars(TurnAwaited) /\ WF_vars(EraseFile)

FairSpec == Spec /\ Progress

(* Every turn ends, also when nobody answers: the timer of a card fires, the *)
(* rounds are bounded, a stream is retried once (approvals.ts, loop.ts).  And *)
(* a cancelled turn ends without that timer, whatever it was waiting for     *)
(* when the cancel came.                                                     *)
CardsExpire == \A r \in Requests : WF_vars(Expire(r))
EveryTurnEnds ==
    /\ CardsExpire => \A r \in Requests : InTurn(r) ~> ~InTurn(r)
    /\ \A r \in Requests : turn[r].aborted ~> ~InTurn(r)
=============================================================================
