----------------------------- MODULE TelegramBot -----------------------------
(***************************************************************************)
(* The Telegram bot process: the long-polling loop of backend/apps/        *)
(* telegram/management/commands/run_telegram_bot.py with its watchdog, and *)
(* the handlers of apps/telegram/service.py it awaits: replies typed in a  *)
(* session's topic, chat messages, /run, and taps on a prompt's buttons.   *)
(*                                                                         *)
(* Updates are numbered as the operator sends them.  Telegram redelivers   *)
(* what no getUpdates call has confirmed; the bot keeps the last id it     *)
(* handled in the cache, whose entries live KeyTTL ticks (cache.set is     *)
(* given no timeout: Django's default of 300 s).  Each await of a handler  *)
(* is a step: other processes, a crash or a stall come in between.         *)
(***************************************************************************)
EXTENDS Prompts, FiniteSets

CONSTANTS
    Mode,         \* [Threads -> Modes]: what a thread's topic drives
    ChatThread,   \* the thread of the operator's own chat
    AskTTL,       \* life of an ask_human question, in ticks
    ApprovalTTL,  \* life of an inject or launch approval, in ticks
    KeyTTL,       \* life of the persisted update id, in ticks
    Stall,        \* WATCHDOG_STALL_SECONDS, in ticks
    MaxUpdates,   \* bound: updates the operator sends
    MaxRestarts   \* bound: times the bot process ends

Modes   == {"api", "headless", "pty", "trusted"}
Updates == 1 .. MaxUpdates
NoId    == 0

Ref(action, thread, text) == [action |-> action, thread |-> thread, text |-> text]
NoRef == Ref("none", ChatThread, NoText)

ASSUME BotAssumption ==
    /\ Mode \in [Threads -> Modes] /\ ChatThread \in Threads
    /\ {AskTTL, ApprovalTTL, KeyTTL, Stall} \subseteq Nat \ {0}
    /\ MaxUpdates \in Nat /\ MaxRestarts \in Nat
    /\ Refs = [action : {"none", "pty_inject", "session_start"},
               thread : Threads, text : Texts \cup {NoText}]

VARIABLES
    updates,      \* what the operator sent, in order
    confirmed,    \* Telegram: updates up to here are never delivered again
    stored,       \* the cache entry telegram:last_update_id ...
    storedAt,     \* ... and when it was set
    bot,          \* the process: see BotType
    shown,        \* prompts whose buttons the operator has on screen
    effects,      \* history: what the handlers did to the outside world
    finished,     \* history: updates whose handler returned or raised
    restarts      \* times the process ended

botVars == <<updates, confirmed, stored, storedAt, bot, shown, effects,
             finished, restarts>>
vars    == <<promptVars, botVars>>

(* The loop's locals (last_stored, offset, the batch still to handle, the  *)
(* time of the last poll) and the handler's: its step and the prompt in    *)
(* its hands.  A hung process takes no further step.                       *)
BotType ==
    [pc : {"down", "poll", "next", "pick", "answer", "route", "deliver",
           "resolve", "act", "persist"},
     lastStored : Updates \cup {NoId}, offset : 1 .. MaxUpdates + 1,
     todo : Seq(Updates), prompt : PromptIds \cup {NoId},
     cycle : 0 .. MaxTime, hung : BOOLEAN]

Down == [pc |-> "down", lastStored |-> NoId, offset |-> 1, todo |-> <<>>,
         prompt |-> NoId, cycle |-> 0, hung |-> FALSE]

Update ==
    [kind : {"topic", "chat", "run", "tap", "other"}, thread : Threads,
     text : Texts \cup {NoText}, nonce : PromptIds \cup {NoId}, key : Keys]

(* Beyond the types: only a prompt that exists can be on screen, and a     *)
(* handler that holds a prompt is in one of the steps that need it.        *)
TypeOK ==
    /\ PromptTypeOK
    /\ updates \in Seq(Update) /\ Len(updates) <= MaxUpdates
    /\ confirmed \in 0 .. Len(updates)
    /\ stored \in 0 .. Len(updates) /\ storedAt \in 0 .. now
    /\ bot \in BotType
    /\ bot.pc \in {"answer", "deliver", "act"} => bot.prompt \in 1 .. nextId - 1
    /\ shown \subseteq 1 .. nextId - 1
    /\ finished \subseteq 1 .. Len(updates)
    /\ restarts \in 0 .. MaxRestarts

Init ==
    /\ PromptInit
    /\ updates = <<>> /\ confirmed = 0
    /\ stored = NoId /\ storedAt = 0
    /\ bot = Down
    /\ shown = {} /\ effects = <<>> /\ finished = {} /\ restarts = 0

-----------------------------------------------------------------------------
(* The outside: the operator's phone, agents that ask, time. *)

Send(u) ==
    /\ Len(updates) < MaxUpdates
    /\ updates' = Append(updates, u)
    /\ UNCHANGED <<promptVars, confirmed, stored, storedAt, bot, shown, effects,
                   finished, restarts>>

Message(kind, thread, text) ==
    [kind |-> kind, thread |-> thread, text |-> text, nonce |-> NoId, key |-> "allow"]

Operator ==
    \/ \E t \in Threads, x \in Texts : Send(Message("topic", t, x))
    \/ \E x \in Texts : Send(Message("chat", ChatThread, x)) \/ Send(Message("run", ChatThread, x))
    \/ \E p \in shown, k \in {"allow", "deny"} :
          Send([kind |-> "tap", thread |-> ChatThread, text |-> NoText, nonce |-> p, key |-> k])
    \/ Send(Message("other", ChatThread, NoText))   \* no text, no topic, not allowed

(* A connector's ask_human in a thread; its question has no buttons. *)
AgentAsks(t) ==
    /\ CreatePrompt("free_text", t, <<>>, NoRef, AskTTL)
    /\ UNCHANGED botVars

(* The loop spends time only in its awaits. *)
TimePasses == bot.pc \notin {"next", "persist"} /\ Tick /\ UNCHANGED botVars

-----------------------------------------------------------------------------
(* The process and its loop. *)

(* The loop's offset comes from the cache; an entry that has outlived      *)
(* KeyTTL is gone.                                                         *)
Start ==
    LET last == IF now - storedAt < KeyTTL THEN stored ELSE NoId
    IN  /\ bot.pc = "down"
        /\ bot' = [Down EXCEPT !.pc = "poll", !.lastStored = last,
                               !.offset = last + 1, !.cycle = now]
        /\ UNCHANGED <<promptVars, updates, confirmed, stored, storedAt, shown,
                       effects, finished, restarts>>

(* getUpdates, when it returns: the offset confirms all updates below it.  *)
Poll ==
    LET known == IF bot.offset - 1 > confirmed THEN bot.offset - 1 ELSE confirmed
    IN  /\ bot.pc = "poll"
        /\ confirmed' = known
        /\ bot' = [bot EXCEPT !.pc = "next", !.cycle = now,
                              !.todo = [i \in 1 .. Len(updates) - known |-> known + i]]
        /\ UNCHANGED <<promptVars, updates, stored, storedAt, shown, effects,
                       finished, restarts>>

Current == Head(bot.todo)
U       == updates[Current]

(* Where an update's handling begins. *)
FirstStep ==
    CASE U.kind \in {"topic", "chat"} -> "pick"
      [] U.kind = "run"               -> "route"
      [] U.kind = "tap"               -> "resolve"
      [] U.kind = "other"             -> "persist"

(* The next update of the batch, or the next poll. *)
Begin ==
    /\ bot.pc = "next"
    /\ bot' = IF bot.todo = <<>> THEN [bot EXCEPT !.pc = "poll"]
              ELSE IF Current <= bot.lastStored THEN [bot EXCEPT !.todo = Tail(@)]
              ELSE [bot EXCEPT !.pc = FirstStep, !.offset = Current + 1]
    /\ UNCHANGED <<promptVars, updates, confirmed, stored, storedAt, shown,
                   effects, finished, restarts>>

(* The handler goes on at step pc with prompt p. *)
Goto(pc, p) ==
    /\ bot' = [bot EXCEPT !.pc = pc, !.prompt = p]
    /\ UNCHANGED <<updates, confirmed, stored, storedAt, shown, finished, restarts>>

(* The id is persisted after the handler returned or raised. *)
Persist ==
    /\ bot.pc = "persist"
    /\ stored' = Current /\ storedAt' = now
    /\ finished' = finished \cup {Current}
    /\ bot' = [bot EXCEPT !.pc = "next", !.lastStored = Current, !.todo = Tail(@),
                          !.prompt = NoId]
    /\ UNCHANGED <<promptVars, updates, confirmed, shown, effects, restarts>>

-----------------------------------------------------------------------------
(* The handlers. *)

Effect(kind, thread, text, p) ==
    effects' = Append(effects, [kind |-> kind, thread |-> thread, text |-> text,
                                prompt |-> p, update |-> Current])

(* The questions a typed text may answer: of its topic's thread, or any.   *)
Waiting ==
    {p \in PromptIds :
        /\ prompts[p].type = "free_text" /\ Pending(p) /\ ~IsExpired(p)
        /\ U.kind = "topic" => prompts[p].thread = U.thread}

(* resolve_pending_ask takes the latest ... *)
Pick ==
    /\ bot.pc = "pick"
    /\ IF Waiting = {} THEN Goto("route", NoId)
       ELSE \E p \in Waiting : (\A q \in Waiting : q <= p) /\ Goto("answer", p)
    /\ UNCHANGED <<promptVars, effects>>

(* Mutant: an answered reply is routed on to the session as well. *)
AnswerThenRoute ==
    LET r == TextReply(U.text)
    IN  /\ bot.pc = "answer"
        /\ Resolve(bot.prompt, r)
        /\ IF Accepts(bot.prompt, r)
           THEN Effect("answer", prompts[bot.prompt].thread, U.text, bot.prompt)
           ELSE UNCHANGED effects
        /\ Goto("route", NoId)

(* ... and resolves it in another transaction; if the question has gone    *)
(* meanwhile, the text is routed as if there had been none.                *)
Answer ==
    LET r == TextReply(U.text)
    IN  /\ bot.pc = "answer"
        /\ Resolve(bot.prompt, r)
        /\ IF Accepts(bot.prompt, r)
           THEN /\ Effect("answer", prompts[bot.prompt].thread, U.text, bot.prompt)
                /\ Goto("persist", NoId)
           ELSE Goto("route", NoId) /\ UNCHANGED effects

(* A text that answers nothing: a headless session is prompted, a trusted  *)
(* PTY typed into, a PTY's text put up for approval; a thread without host *)
(* takes no input.  Chat goes to the chat model, /run asks for approval.   *)
Dispatch(kind) ==
    /\ Effect(kind, U.thread, U.text, NoId)
    /\ Goto("persist", NoId)
    /\ UNCHANGED promptVars

AskApproval(action) ==
    /\ CreatePrompt("approval", U.thread, AllowDeny, Ref(action, U.thread, U.text), ApprovalTTL)
    /\ Goto("deliver", nextId)
    /\ UNCHANGED effects

RouteTopic ==
    /\ U.kind = "topic"
    /\ CASE Mode[U.thread] = "api"      -> Goto("persist", NoId) /\ UNCHANGED <<promptVars, effects>>
         [] Mode[U.thread] = "headless" -> Dispatch("prompt")
         [] Mode[U.thread] = "trusted"  -> Dispatch("inject")
         [] Mode[U.thread] = "pty"      -> AskApproval("pty_inject")

RouteChat == U.kind = "chat" /\ Dispatch("llm")

RouteRun == U.kind = "run" /\ AskApproval("session_start")

Route == bot.pc = "route" /\ (RouteTopic \/ RouteChat \/ RouteRun)

(* The approval's buttons reach the operator. *)
Deliver ==
    /\ bot.pc = "deliver"
    /\ shown' = shown \cup {bot.prompt}
    /\ bot' = [bot EXCEPT !.pc = "persist", !.prompt = NoId]
    /\ UNCHANGED <<promptVars, updates, confirmed, stored, storedAt, effects,
                   finished, restarts>>

(* Mutant: a tap on a settled prompt goes on to its action. *)
ResolveTapAgain ==
    LET r == KeyReply(U.key)
    IN  /\ bot.pc = "resolve"
        /\ Resolve(U.nonce, r)
        /\ Goto("act", U.nonce)
        /\ UNCHANGED effects

(* handle_callback_query: the answer is recorded, or refused. *)
ResolveTap ==
    LET r == KeyReply(U.key)
    IN  /\ bot.pc = "resolve"
        /\ Resolve(U.nonce, r)
        /\ IF Accepts(U.nonce, r) THEN Goto("act", U.nonce) ELSE Goto("persist", NoId)
        /\ UNCHANGED effects

(* An allowed action is carried out as it was bound to the prompt. *)
Act ==
    LET ref == prompts[bot.prompt].ref
    IN  /\ bot.pc = "act"
        /\ IF U.key = "allow" /\ ref.action # "none"
           THEN Effect(IF ref.action = "pty_inject" THEN "inject" ELSE "start",
                       ref.thread, ref.text, bot.prompt)
           ELSE UNCHANGED effects
        /\ Goto("persist", NoId)
        /\ UNCHANGED promptVars

Handling == bot.pc \in {"pick", "answer", "route", "deliver", "resolve", "act"}

(* An await of the handler raises: the loop logs it and persists the id. *)
Raise ==
    /\ Handling
    /\ Goto("persist", NoId)
    /\ UNCHANGED <<promptVars, effects>>

Handle == Pick \/ Answer \/ Route \/ Deliver \/ ResolveTap \/ Act \/ Raise
BotStep == ~bot.hung /\ (Start \/ Poll \/ Begin \/ Handle \/ Persist)

-----------------------------------------------------------------------------
(* Failures. *)

(* An await never returns. *)
Hang ==
    /\ Handling /\ ~bot.hung
    /\ restarts < MaxRestarts /\ bot.cycle + Stall < MaxTime
    /\ bot' = [bot EXCEPT !.hung = TRUE]
    /\ UNCHANGED <<promptVars, updates, confirmed, stored, storedAt, shown,
                   effects, finished, restarts>>

Exit ==
    /\ bot' = Down
    /\ restarts' = restarts + 1
    /\ UNCHANGED <<promptVars, updates, confirmed, stored, storedAt, shown,
                   effects, finished>>

(* Mutant: only a loop that waits for updates is watched. *)
WatchdogAtPoll == bot.pc = "poll" /\ restarts < MaxRestarts /\ now - bot.cycle > Stall /\ Exit

(* No poll for longer than the budget, whatever the reason: os._exit(70).  *)
Watchdog == bot.pc # "down" /\ restarts < MaxRestarts /\ now - bot.cycle > Stall /\ Exit

Crash == bot.pc # "down" /\ ~bot.hung /\ restarts < MaxRestarts /\ Exit

Next ==
    \/ Operator
    \/ \E t \in Threads : AgentAsks(t)
    \/ TimePasses
    \/ BotStep
    \/ Hang \/ Watchdog \/ Crash

Spec == Init /\ [][Next]_vars

(* The loop and its handlers run, the watchdog's task runs as long as the  *)
(* event loop does, launchd restarts the process, and time passes.         *)
Fairness == WF_vars(BotStep) /\ WF_vars(Watchdog) /\ WF_vars(TimePasses)

FairSpec == Spec /\ Fairness

-----------------------------------------------------------------------------
(* Properties. *)

EffectsOf(u) == {i \in DOMAIN effects : effects[i].update = u}

(* Nothing is typed into an untrusted terminal and nothing is launched but *)
(* what an approval bound and the operator allowed, and each approval is   *)
(* acted on once, however often its tap is handled.                        *)
ApprovedOnce ==
    \A i \in DOMAIN effects :
        LET e == effects[i]
        IN  (e.kind = "start" \/ (e.kind = "inject" /\ Mode[e.thread] # "trusted")) =>
              /\ e.prompt # NoId /\ Answered(e.prompt)
              /\ prompts[e.prompt].response = KeyReply("allow")
              /\ prompts[e.prompt].ref =
                    Ref(IF e.kind = "start" THEN "session_start" ELSE "pty_inject",
                        e.thread, e.text)
              /\ \A j \in DOMAIN effects : effects[j].prompt = e.prompt => j = i

(* A message has one outcome: it answers a question or drives a session,   *)
(* not both, of the topic it was typed in; the answer is what was typed.   *)
(* Only a restart in mid-handling adds another.                            *)
OneOutcome ==
    /\ \A u \in Updates : Cardinality(EffectsOf(u)) <= 1 + restarts
    /\ \A i \in DOMAIN effects :
           LET e == effects[i]
           IN  /\ updates[e.update].kind = "topic"
                     => e.thread = updates[e.update].thread
               /\ e.kind = "answer" =>
                     prompts[e.prompt].response = TextReply(updates[e.update].text)

(* Every update is handled in the end, also after stalls and restarts: none *)
(* is passed over that Telegram no longer delivers or the bot takes for done.*)
UpdateHandled == \A u \in Updates : (u <= Len(updates)) ~> (u \in finished)

(* A restart never handles again what was handled and persisted.  It does    *)
(* not hold (README 8), and no run checks it.                                *)
HandledStaysHandled ==
    [][(Begin /\ bot'.pc \notin {"poll", "next"}) => Current \notin finished]_vars
=============================================================================
