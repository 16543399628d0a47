---------------------------- MODULE ConnectorAsk ----------------------------
(***************************************************************************)
(* A coding agent asks its operator.  Three clients create prompts and     *)
(* poll for the answer: ask_human and request_approval of the MCP bridge   *)
(* (connectors/orc-mcp/orc_mcp/client.py) and the per-tool approval of a   *)
(* driven SDK session (host-agent/agent_host/sdk_session.py).  Operators   *)
(* answer through Telegram, by tapping a button (handle_callback_query) or *)
(* by typing (resolve_pending_ask), handled by any of several bot workers. *)
(*                                                                         *)
(* Client and backend never share a lock: a client reads the row, goes     *)
(* away with what it read, and only then looks at its own deadline.        *)
(***************************************************************************)
EXTENDS Prompts

CONSTANTS
    Agents,       \* polling clients
    Workers,      \* bot workers handling typed replies
    ThreadOf,     \* the thread register_or_touch binds each client to
    Menus,        \* option lists an agent may offer; <<>> asks for free text
    TTL,          \* life of a prompt, by kind
    Timeout,      \* how long a client polls, by kind
    AnyThread,    \* a reply typed outside every topic
    NoRef,        \* these prompts bind no follow-up action
    Nothing       \* the operator has said nothing

Kinds == {"ask", "approve", "tool"}

ASSUME ConnectorAskAssumption ==
    /\ ThreadOf \in [Agents -> Threads]
    /\ Menus \subseteq Seq(Option)
    /\ TTL \in [Kinds -> Nat] /\ Timeout \in [Kinds -> Nat]
    /\ AnyThread \notin Threads
    /\ NoRef \in Refs
    /\ Nothing \notin Labels \cup Texts

VARIABLES
    client,       \* the polling clients
    worker,       \* the bot workers, between choosing a prompt and resolving it
    shown,        \* prompts whose buttons reached the operator's chat
    meant         \* history: what the operator tapped or typed for each answer

vars == <<prompts, nextId, now, client, worker, shown, meant>>

Values   == Keys \cup Labels \cup Texts \cup {""}
Outcomes == Values \cup {"[expired]", "[no answer: timeout]", "[connector error]"}
ReadResult == [status : Statuses, value : Values]
NothingRead == [status |-> "pending", value |-> ""]

Client == [pc : {"idle", "wait", "read", "done"}, kind : Kinds,
           id : 0 .. MaxPrompts, deadline : Nat, seen : ReadResult,
           outcome : Outcomes]
Idle == [pc |-> "idle", kind |-> "ask", id |-> 0, deadline |-> 0,
         seen |-> NothingRead, outcome |-> ""]

Worker == [pc : {"idle", "picked"}, id : 0 .. MaxPrompts,
           text : Texts \cup {NoText}]
IdleWorker == [pc |-> "idle", id |-> 0, text |-> NoText]

TypeOK ==
    /\ PromptTypeOK
    /\ client \in [Agents -> Client]
    /\ worker \in [Workers -> Worker]
    /\ shown \subseteq PromptIds
    /\ meant \in [PromptIds -> Labels \cup Texts \cup {Nothing}]

Init ==
    /\ PromptInit
    /\ client = [a \in Agents |-> Idle]
    /\ worker = [w \in Workers |-> IdleWorker]
    /\ shown = {}
    /\ meant = [p \in PromptIds |-> Nothing]

-----------------------------------------------------------------------------
(* What the backend's result() says of a prompt. *)

(* Mutant: the key is returned as it came. *)
LabelOfKey(opts, k) == k

(* The label_map comprehension: of two options with one key the later wins. *)
LabelOf(opts, k) ==
    LET same == {i \in DOMAIN opts : opts[i].key = k}
    IN  IF same = {} THEN k
        ELSE opts[CHOOSE i \in same : \A j \in same : j <= i].label

AnswerValue(row) ==
    LET r == row.response
    IN  IF row.type = "approval"
        THEN IF r.keys = <<>> THEN "deny" ELSE r.keys[1]
        ELSE IF r.text # NoText THEN r.text
        ELSE IF r.keys = <<>> THEN "" ELSE LabelOf(row.options, r.keys[1])

Result(p) ==
    [status |-> prompts[p].status,
     value  |-> IF Answered(p) THEN AnswerValue(prompts[p]) ELSE ""]

(* What a client hands its agent for a status it stopped on. *)
AskOutcome(s) ==
    IF s.status = "answered" THEN s.value
    ELSE IF s.status = "expired" THEN "[expired]"
    ELSE "[no answer: timeout]"

(* Mutant: anything but a recorded Deny lets the action through. *)
GateOutcomeOpen(s) ==
    IF s.status = "answered" /\ s.value # "allow" THEN "deny" ELSE "allow"

(* request_approval and the SDK's approve fail closed. *)
GateOutcome(s) ==
    IF s.status = "answered" /\ s.value = "allow" THEN "allow" ELSE "deny"

OutcomeOf(kind, s) == IF kind = "ask" THEN AskOutcome(s) ELSE GateOutcome(s)
ErrorOutcome(kind) == IF kind = "ask" THEN "[connector error]" ELSE "deny"

-----------------------------------------------------------------------------
(* The polling clients. *)

Finish(a, outcome) ==
    client' = [client EXCEPT ![a].pc = "done", ![a].outcome = outcome]

(* The POST: ask, approve and HostApprovalView each create one prompt for  *)
(* the caller's thread and deliver it best-effort; any failure on the way  *)
(* back leaves the prompt behind and the client with an error.             *)
PostPrompt(a, kind, menu, delivered, replied) ==
    LET type == IF kind # "ask" THEN "approval"
                ELSE IF menu = <<>> THEN "free_text" ELSE "choice_single"
        opts == IF kind = "ask" THEN menu ELSE AllowDeny
    IN  /\ client[a].pc \in {"idle", "done"}
        /\ kind # "ask" => menu = <<>>
        /\ now + Timeout[kind] <= MaxTime
        /\ CreatePrompt(type, ThreadOf[a], opts, NoRef, TTL[kind])
        /\ shown' = IF delivered THEN shown \cup {nextId} ELSE shown
        /\ client' = [client EXCEPT ![a] =
               [pc |-> IF replied THEN "wait" ELSE "done",
                kind |-> kind, id |-> nextId,
                deadline |-> now + Timeout[kind], seen |-> NothingRead,
                outcome |-> IF replied THEN "" ELSE ErrorOutcome(kind)]]
        /\ UNCHANGED <<worker, meant>>

(* Mutant: the loop gives up at its deadline before it reads once more. *)
PollReadClockFirst(a) ==
    /\ client[a].pc = "wait"
    /\ IF now >= client[a].deadline
       THEN Finish(a, OutcomeOf(client[a].kind, NothingRead))
       ELSE client' = [client EXCEPT ![a].pc = "read",
                                     ![a].seen = Result(client[a].id)]
    /\ UNCHANGED <<prompts, nextId, now, worker, shown, meant>>

(* One GET of the poll loop, answered by result(). *)
PollRead(a) ==
    /\ client[a].pc = "wait"
    /\ client' = [client EXCEPT ![a].pc = "read",
                                ![a].seen = Result(client[a].id)]
    /\ UNCHANGED <<prompts, nextId, now, worker, shown, meant>>

(* A GET that fails ends the wait: the loop does not retry. *)
PollFail(a) ==
    /\ client[a].pc = "wait"
    /\ Finish(a, ErrorOutcome(client[a].kind))
    /\ UNCHANGED <<prompts, nextId, now, worker, shown, meant>>

(* ask_human and request_approval look at the deadline after each read; the SDK's loop    *)
(* looks before, so what is answered during its last sleep goes unread.    *)
ChecksAfterRead(c) == c.kind # "tool"

(* Mutant: the loop polls until the prompt is settled. *)
PollDecideForever(a) ==
    LET c == client[a]
    IN  /\ c.pc = "read"
        /\ \/ c.seen.status # "pending" /\ Finish(a, OutcomeOf(c.kind, c.seen))
           \/ /\ c.seen.status = "pending"
              /\ client' = [client EXCEPT ![a].pc = "wait"]
        /\ UNCHANGED <<prompts, nextId, now, worker, shown, meant>>

(* The loop acts on what it read: a settled prompt is returned, else the   *)
(* client gives up or sleeps and polls again.                              *)
PollDecide(a) ==
    LET c == client[a]
        over == ChecksAfterRead(c) /\ now >= c.deadline
    IN  /\ c.pc = "read"
        /\ \/ /\ c.seen.status # "pending" \/ over
              /\ Finish(a, OutcomeOf(c.kind, c.seen))
           \/ /\ c.seen.status = "pending" /\ ~over
              /\ client' = [client EXCEPT ![a].pc = "wait"]
        /\ UNCHANGED <<prompts, nextId, now, worker, shown, meant>>

(* The SDK's loop ends between two polls.  It counts its sleeps, not the   *)
(* clock, so it may also go on a little after the deadline.                *)
GiveUpAsleep(a) ==
    /\ client[a].pc = "wait"
    /\ ~ChecksAfterRead(client[a]) /\ now >= client[a].deadline
    /\ Finish(a, ErrorOutcome(client[a].kind))
    /\ UNCHANGED <<prompts, nextId, now, worker, shown, meant>>

-----------------------------------------------------------------------------
(* The operator's side. *)

(* A tap on a button of a delivered prompt, at any time and any number of  *)
(* times: handle_callback_query resolves the nonce with that one key.      *)
Tap(p, i) ==
    /\ p \in shown
    /\ i \in DOMAIN prompts[p].options
    /\ LET opt == prompts[p].options[i]
       IN  /\ Resolve(p, KeyReply(opt.key))
           /\ meant' = IF Accepts(p, KeyReply(opt.key))
                       THEN [meant EXCEPT ![p] = opt.label] ELSE meant
    /\ UNCHANGED <<client, worker, shown>>

Waiting(scope) ==
    {p \in PromptIds : /\ prompts[p].type = "free_text"
                       /\ Pending(p) /\ ~IsExpired(p)
                       /\ scope \in {AnyThread, prompts[p].thread}}

(* A typed message: resolve_pending_ask first selects the newest waiting   *)
(* free-text prompt, of the topic's thread or of any.                      *)
PickAsk(w, scope, text) ==
    /\ worker[w].pc = "idle"
    /\ \E p \in Waiting(scope) :
          /\ \A q \in Waiting(scope) : q <= p
          /\ worker' = [worker EXCEPT ![w] =
                 [pc |-> "picked", id |-> p, text |-> text]]
    /\ UNCHANGED <<prompts, nextId, now, client, shown, meant>>

(* ... and then resolves that nonce in a transaction of its own. *)
ResolvePicked(w) ==
    LET p == worker[w].id
        r == TextReply(worker[w].text)
    IN  /\ worker[w].pc = "picked"
        /\ Resolve(p, r)
        /\ meant' = IF Accepts(p, r)
                    THEN [meant EXCEPT ![p] = worker[w].text] ELSE meant
        /\ worker' = [worker EXCEPT ![w] = IdleWorker]
        /\ UNCHANGED <<client, shown>>

TimePasses == Tick /\ UNCHANGED <<client, worker, shown, meant>>

Next ==
    \/ \E a \in Agents, kind \in Kinds, menu \in Menus \cup {<<>>},
          delivered, replied \in BOOLEAN :
             PostPrompt(a, kind, menu, delivered, replied)
    \/ \E a \in Agents : PollRead(a) \/ PollFail(a) \/ PollDecide(a) \/ GiveUpAsleep(a)
    \/ \E p \in PromptIds : \E i \in DOMAIN prompts[p].options : Tap(p, i)
    \/ \E w \in Workers :
          \/ \E scope \in Threads \cup {AnyThread}, t \in Texts :
                PickAsk(w, scope, t)
          \/ ResolvePicked(w)
    \/ TimePasses

Spec == Init /\ [][Next]_vars

(* A client runs its loop and the clock advances; nobody owes an answer.   *)
(* Each sleep of the SDK's loop counts, so it cannot read for ever.        *)
Fairness ==
    /\ \A a \in Agents : /\ WF_vars(PollRead(a)) /\ WF_vars(PollDecide(a))
                         /\ SF_vars(GiveUpAsleep(a))
    /\ WF_vars(TimePasses)

FairSpec == Spec /\ Fairness

-----------------------------------------------------------------------------
(* Properties. *)

Terminal(a, p) == client[a].pc = "done" /\ client[a].id = p

(* request_approval and the SDK gate let an action through only on the     *)
(* operator's own Allow, recorded on the very prompt this client created   *)
(* and before that prompt expired, whatever fails, races or arrives late.  *)
FailClosed ==
    \A a \in Agents :
        (client[a].pc = "done" /\ client[a].kind # "ask" /\ client[a].outcome = "allow")
            => LET p == client[a].id
               IN  /\ p \in PromptIds /\ Answered(p)
                   /\ prompts[p].type = "approval"
                   /\ prompts[p].thread = ThreadOf[a]
                   /\ prompts[p].response = KeyReply("allow")
                   /\ prompts[p].answeredAt < prompts[p].expiresAt

(* Two clients never wait on one prompt, so one answer never serves two    *)
(* questions.                                                              *)
OwnPrompt ==
    \A a, b \in Agents :
        (a # b /\ client[a].id # 0) => client[a].id # client[b].id

(* An answer is final: no later tap, reply, expiry or second worker        *)
(* changes what resolve recorded.                                          *)
AnswerIsFinal ==
    [][\A p \in PromptIds : Answered(p) =>
          /\ prompts'[p].status = "answered"
          /\ prompts'[p].response = prompts[p].response]_vars

(* An agent that is handed an answer is handed what the operator tapped    *)
(* or typed: the label goes out as a key and comes back as that label,     *)
(* where the keys of a menu differ (ask cuts labels to 40 characters).     *)
AgentHearsOperator ==
    \A a \in Agents :
        LET c == client[a]
        IN  (c.pc = "done" /\ c.kind = "ask" /\ c.seen.status = "answered")
                => c.outcome = meant[c.id]

(* An answer recorded while ask_human or request_approval sleeps between   *)
(* polls is not lost to the deadline: the loop reads, then looks at the    *)
(* clock.                                                                  *)
SleepingClientHears ==
    \A a \in Agents, p \in PromptIds :
        (/\ client[a].pc = "wait" /\ client[a].kind # "tool"
         /\ client[a].id = p /\ Answered(p))
            ~> (Terminal(a, p) /\ client[a].outcome \in
                    {OutcomeOf(client[a].kind, Result(p)),
                     ErrorOutcome(client[a].kind)})

(* Every wait ends, answered or not. *)
WaitEnds ==
    \A a \in Agents, p \in PromptIds :
        (client[a].pc \in {"wait", "read"} /\ client[a].id = p) ~> Terminal(a, p)
=============================================================================
