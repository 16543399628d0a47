------------------------------- MODULE Gateway -------------------------------
(***************************************************************************)
(* The messaging gateway: the outbox and the inbound endpoint of the       *)
(* backend (backend/apps/gateway), and the sidecar that bridges one        *)
(* platform to them (connectors/messaging-gateway/src).                    *)
(*                                                                         *)
(* The backend runs in several workers, and an adapter hands over each     *)
(* message as it comes: requests overlap.  Each database call of           *)
(* handle_inbound is a step.  A row of the outbox is known by its place in *)
(* the order of created_at, which is stamped before the row is inserted:   *)
(* a row may appear when a newer one has been claimed.                     *)
(***************************************************************************)
EXTENDS Prompts, FiniteSets

CONSTANTS
    Chats,        \* chat ids of the platform
    Recipient,    \* active_recipient(): the chat that everything goes to
    Session,      \* the thread of the agent's session
    Number,       \* [Texts -> Nat]: the number a text is, 0 for none
    Aliases,      \* [Texts -> Keys \cup {NoText}]: _APPROVAL_ALIASES
    Slashes,      \* texts that are a slash command
    Menu,         \* the options of a choice
    HasModel,     \* threads whose account has a tier2 adapter
    QuestionTTL,  \* life of a question, in ticks
    Batch,        \* rows a poll claims at most
    MaxTurns,     \* bound: turns mirrored to the platform
    MaxMessages,  \* bound: messages the operator sends
    Limits        \* bounds of one behaviour: prompts, turns, messages, faults

NoThread == "no thread"
NoPromptId == 0
Fresh    == Threads \ {Session}
MaxRows  == MaxPrompts + MaxTurns
Messages == 1 .. MaxMessages

ASSUME GatewayAssumption ==
    /\ Recipient \in Chats /\ Session \in Threads /\ NoThread \notin Threads
    /\ Texts # {}
    /\ Number \in [Texts -> Nat] /\ Aliases \in [Texts -> Keys \cup {NoText}]
    /\ Slashes \subseteq Texts /\ HasModel \subseteq Threads /\ Menu \in Seq(Option)
    /\ QuestionTTL \in Nat /\ Batch \in Nat \ {0}
    /\ MaxTurns \in Nat /\ MaxMessages \in Nat
    /\ Limits \subseteq [prompts : 0 .. MaxPrompts, turns : 0 .. MaxTurns,
                         messages : 0 .. MaxMessages, faults : Nat]

VARIABLES
    outbox,       \* GatewayMessages by created_at: the prompt of each, if it
                  \* shows one; before, history: the rows put before it began
    put,          \* those of them that are in the table
    claimed,      \* those that have delivered_at
    bound,        \* GatewayChat rows
    made,         \* threads made for chats
    inbox,        \* the messages of the operator: see Inbound
    typed,        \* how many there are
    side,         \* the sidecar: up, its next poll set, the batch in hand
    link,         \* the adapter's connection to the platform
    sent,         \* history: rows the platform took, in order
    limit,        \* the one of Limits that holds in this behaviour
    faults        \* calls that failed, and times the sidecar ended

gatewayVars == <<outbox, put, claimed, bound, made, inbox, typed, side, link,
                 sent, limit, faults>>
systemVars  == <<promptVars, gatewayVars>>

(* What handle_inbound has found so far; asked, history: the question shown *)
(* last when the message was typed.                                         *)
Inbound ==
    [pc : {"none", "typed", "lookup", "bind", "read", "resolve", "dispatch",
           "done"},
     chat : Chats, text : Texts, thread : Threads \cup {NoThread},
     prompt : PromptIds \cup {NoPromptId},
     asked : PromptIds \cup {NoPromptId},
     outcome : {"none", "recorded", "refused", "answer", "command", "error"}]

NoMessage ==
    [pc |-> "none", chat |-> Recipient, text |-> CHOOSE t \in Texts : TRUE,
     thread |-> NoThread, prompt |-> NoPromptId,
     asked |-> NoPromptId, outcome |-> "none"]

Rows == 1 .. MaxRows

(* Beyond the types: a message is worked on in a thread of the table, and a *)
(* sidecar that ended has nothing in its hands.                             *)
GatewayTypeOK ==
    /\ PromptTypeOK
    /\ outbox \in Seq([prompt : PromptIds \cup {NoPromptId}, before : SUBSET Rows])
    /\ Len(outbox) <= MaxRows
    /\ put \subseteq DOMAIN outbox /\ claimed \subseteq put
    /\ bound \subseteq [chat : Chats, thread : Threads]
    /\ made \subseteq Fresh
    /\ \A b \in bound : b.thread \in made \cup {Session}
    /\ inbox \in [Messages -> Inbound] /\ typed \in 0 .. MaxMessages
    /\ \A m \in Messages : inbox[m].pc = "none" <=> m > typed
    /\ \A m \in Messages :
           inbox[m].pc \in {"bind", "read", "resolve", "dispatch"}
               => inbox[m].thread \in made \cup {Session}
    /\ side \in [up : BOOLEAN, poll : BOOLEAN, batch : SUBSET claimed]
    /\ ~side.up => side.batch = {}
    /\ link \in {"connecting", "open", "out"}
    /\ sent \in Seq(Rows)
    /\ limit \in Limits /\ faults \in 0 .. limit.faults

SideOff == [up |-> FALSE, poll |-> FALSE, batch |-> {}]

(* A chat is bound to a thread by its first message, or in the admin.       *)
GatewayInit ==
    /\ PromptInit
    /\ outbox = <<>> /\ put = {} /\ claimed = {} /\ sent = <<>>
    /\ bound \in {{}, {[chat |-> Recipient, thread |-> Session]}}
    /\ made = {}
    /\ inbox = [m \in Messages |-> NoMessage] /\ typed = 0
    /\ side = SideOff /\ link = "connecting"
    /\ limit \in Limits /\ faults = 0

chatVars == <<bound, made, inbox, typed>>
Fails    == faults < limit.faults /\ faults' = faults + 1

-----------------------------------------------------------------------------
(* The outbox: _deliver and _deliver_text_to_thread of the connectors, and   *)
(* deliver_turn_active of the observer, when the platform is not Telegram.   *)

Options(type) == CASE type = "approval"      -> AllowDeny
                   [] type = "choice_single" -> Menu
                   [] type = "free_text"     -> <<>>

(* enqueue_text: created_at is the time of the call. *)
Stamped(prompt) == outbox' = Append(outbox, [prompt |-> prompt, before |-> put])

SessionAsks(type) ==
    /\ nextId <= limit.prompts
    /\ CreatePrompt(type, Session, Options(type), CHOOSE r \in Refs : TRUE, QuestionTTL)
    /\ Stamped(nextId)
    /\ UNCHANGED <<put, claimed, chatVars, side, link, sent, limit, faults>>

Mirrors ==
    /\ Cardinality({i \in DOMAIN outbox : outbox[i].prompt = NoPromptId}) < limit.turns
    /\ Stamped(NoPromptId)
    /\ UNCHANGED <<promptVars, put, claimed, chatVars, side, link, sent, limit, faults>>

(* The insert of a row.  That of a worker that ends is never made.          *)
Inserts(row) ==
    /\ row \notin put
    /\ put' = put \cup {row}
    /\ UNCHANGED <<promptVars, outbox, claimed, chatVars, side, link, sent, limit, faults>>

TableTime == Tick /\ UNCHANGED gatewayVars

-----------------------------------------------------------------------------
(* The sidecar. *)

SideStarts ==
    /\ ~side.up
    /\ side' = [up |-> TRUE, poll |-> TRUE, batch |-> {}] /\ link' = "connecting"
    /\ UNCHANGED <<promptVars, outbox, put, claimed, chatVars, sent, limit, faults>>

(* Its requests go on in the backend. *)
SideEnds ==
    /\ side.up /\ Fails
    /\ side' = SideOff
    /\ UNCHANGED <<promptVars, outbox, put, claimed, chatVars, link, sent, limit>>

(* connection.update.  A login that is revoked is not made again.           *)
LinkChanges ==
    /\ side.up
    /\ \/ link = "connecting" /\ link' = "open" /\ UNCHANGED faults
       \/ link = "open" /\ link' \in {"connecting", "out"} /\ Fails
    /\ UNCHANGED <<promptVars, outbox, put, claimed, chatVars, side, sent, limit>>

Undelivered == put \ claimed

(* claim_outbox: the oldest rows that are not delivered, a batch of them. *)
Claimable == {row \in Undelivered : Cardinality({r \in Undelivered : r < row}) < Batch}

(* Mutant: the rows are not marked. *)
ClaimedNot(rows) == claimed' = claimed

(* The update of the rows it returns, under their locks. *)
Claimed(rows) == claimed' = claimed \cup rows

(* Mutant: only a poll that succeeded sets the next. *)
PollFailsForGood == Fails /\ side' = [side EXCEPT !.poll = FALSE]

(* The response is lost; the next poll is set anyway. *)
PollFails == Fails /\ UNCHANGED side

(* poll, when it finds rows and has done with the batch before. *)
Polls ==
    /\ side.up /\ side.poll /\ side.batch = {} /\ Claimable # {}
    /\ Claimed(Claimable)
    /\ \/ side' = [side EXCEPT !.batch = Claimable]
          /\ UNCHANGED faults
       \/ PollFails
    /\ UNCHANGED <<promptVars, outbox, put, chatVars, link, sent, limit>>

(* sendMessage: without a connection, and now and then with one, it raises. *)
Sends(row) ==
    \/ link = "open" /\ sent' = Append(sent, row) /\ UNCHANGED faults
    \/ link = "open" /\ Fails /\ UNCHANGED sent
    \/ link # "open" /\ UNCHANGED <<sent, faults>>

(* The oldest row of the batch; one whose send raises is logged and forgotten. *)
Delivers ==
    /\ side.up
    /\ \E row \in side.batch :
           /\ \A r \in side.batch : row <= r
           /\ Sends(row)
           /\ side' = [side EXCEPT !.batch = @ \ {row}]
    /\ UNCHANGED <<promptVars, outbox, put, claimed, chatVars, link, limit>>

-----------------------------------------------------------------------------
(* The operator writes, and the sidecar relays. *)

Shown == {i \in DOMAIN sent : outbox[sent[i]].prompt # NoPromptId}

LastShown == IF Shown = {} THEN NoPromptId
             ELSE outbox[sent[CHOOSE i \in Shown : \A j \in Shown : j <= i]].prompt

OperatorTypes(chat, text) ==
    /\ typed < limit.messages
    /\ typed' = typed + 1
    /\ inbox' = [inbox EXCEPT ![typed + 1] =
                    [NoMessage EXCEPT !.pc = "typed", !.chat = chat, !.text = text,
                                      !.asked = IF chat = Recipient THEN LastShown
                                                ELSE NoPromptId]]
    /\ UNCHANGED <<promptVars, outbox, put, claimed, bound, made, side, link, sent, limit, faults>>

At(m, pc) == inbox[m].pc = pc

Step(m, pc) == inbox' = [inbox EXCEPT ![m].pc = pc]

(* Platform to adapter to backend; a message that is lost on the way, the    *)
(* request of which failed, or that is older than the login, is not relayed. *)
Relays(m) ==
    /\ At(m, "typed")
    /\ \/ /\ side.up /\ link = "open"
          /\ Step(m, "lookup")
          /\ UNCHANGED faults
       \/ Fails /\ Step(m, "done")
    /\ UNCHANGED <<promptVars, outbox, put, claimed, bound, made, typed, side, link, sent, limit>>

-----------------------------------------------------------------------------
(* handle_inbound. *)

backendOnly == <<outbox, put, claimed, typed, side, link, sent, limit, faults>>

ThreadsOf(chat) == {b.thread : b \in {x \in bound : x.chat = chat}}

(* get_or_create_thread_for_chat: a thread is made before its chat row. *)
Looks(m) ==
    /\ At(m, "lookup")
    /\ \/ \E t \in ThreadsOf(inbox[m].chat) :
              /\ inbox' = [inbox EXCEPT ![m].pc = "read", ![m].thread = t]
              /\ UNCHANGED made
       \/ /\ ThreadsOf(inbox[m].chat) = {}
          /\ \E t \in Fresh \ made :
                 /\ made' = made \cup {t}
                 /\ inbox' = [inbox EXCEPT ![m].pc = "bind", ![m].thread = t]
    /\ UNCHANGED <<promptVars, bound, backendOnly>>

(* Mutant: platform and chat are not unique together. *)
UniqueNot(chat) == TRUE

Unique(chat) == ThreadsOf(chat) = {}

(* A request that lost the race returns no reply, and leaves its thread. *)
BindsChat(m) ==
    /\ At(m, "bind")
    /\ \/ /\ Unique(inbox[m].chat)
          /\ bound' = bound \cup {[chat |-> inbox[m].chat, thread |-> inbox[m].thread]}
          /\ Step(m, "read")
       \/ /\ ~Unique(inbox[m].chat)
          /\ Step(m, "done")
          /\ UNCHANGED bound
    /\ UNCHANGED <<promptVars, made, backendOnly>>

(* The newest prompt of a thread whose row says pending, expired or not. *)
Newest(t) ==
    LET pending == {p \in 1 .. nextId - 1 : Pending(p) /\ prompts[p].thread = t}
    IN  {p \in pending : \A q \in pending : q <= p}

(* parse_reply: a number, then an alias, then a label. *)
Named(p, text) ==
    LET options  == prompts[p].options
        number   == Number[text]
        labelled == {i \in DOMAIN options : options[i].label = text}
    IN  IF number \in DOMAIN options THEN {options[number].key}
        ELSE IF Aliases[text] \in OptionKeys(p) THEN {Aliases[text]}
        ELSE {options[i].key : i \in labelled}

Replies(p, text) ==
    IF prompts[p].type = "free_text" THEN {TextReply(text)}
    ELSE {KeyReply(k) : k \in Named(p, text)}

Reads(m) ==
    /\ At(m, "read")
    /\ \/ \E p \in Newest(inbox[m].thread) :
              /\ Replies(p, inbox[m].text) # {}
              /\ inbox' = [inbox EXCEPT ![m].pc = "resolve", ![m].prompt = p]
       \/ /\ \A p \in Newest(inbox[m].thread) : Replies(p, inbox[m].text) = {}
          /\ Step(m, "dispatch")
    /\ UNCHANGED <<promptVars, bound, made, backendOnly>>

(* The request returns its reply, which the sidecar sends to the chat; what  *)
(* follows does not depend on it.                                            *)
Outcome(m, outcome) ==
    inbox' = [inbox EXCEPT ![m].pc = "done", ![m].outcome = outcome]

Resolves(m) ==
    /\ At(m, "resolve")
    /\ LET p == inbox[m].prompt IN
       \E r \in Replies(p, inbox[m].text) :
           /\ Resolve(p, r)
           /\ Outcome(m, IF Accepts(p, r) THEN "recorded" ELSE "refused")
    /\ UNCHANGED <<bound, made, backendOnly>>

(* dispatch_text.  The account of a thread made for a chat has the platform *)
(* for its provider, and no adapter is registered under that name.          *)
Dispatches(m) ==
    /\ At(m, "dispatch")
    /\ \/ inbox[m].text \in Slashes /\ Outcome(m, "command")
       \/ /\ inbox[m].text \notin Slashes
          /\ \/ inbox[m].thread \in HasModel /\ Outcome(m, "answer")
             \/ Outcome(m, "error")
    /\ UNCHANGED <<promptVars, bound, made, backendOnly>>

Works(m) ==
    Looks(m) \/ BindsChat(m) \/ Reads(m) \/ Resolves(m) \/ Dispatches(m)

-----------------------------------------------------------------------------
GatewayNext ==
    \/ \E type \in Types : SessionAsks(type)
    \/ Mirrors \/ TableTime
    \/ \E row \in DOMAIN outbox : Inserts(row)
    \/ SideStarts \/ SideEnds \/ LinkChanges \/ Polls \/ Delivers
    \/ \E chat \in Chats, text \in Texts : OperatorTypes(chat, text)
    \/ \E m \in Messages : Relays(m) \/ Works(m)

GatewaySpec == GatewayInit /\ [][GatewayNext]_systemVars

(* The sidecar is restarted when it ends, and its loop goes on. *)
GatewayFairSpec ==
    /\ GatewaySpec
    /\ WF_systemVars(SideStarts) /\ WF_systemVars(Polls) /\ WF_systemVars(Delivers)

-----------------------------------------------------------------------------
(* The platform is sent a row of the outbox at most once, though polls fail  *)
(* and the sidecar is restarted, and in order: no row comes after one that   *)
(* was put when it was there.  (Rows put at one time may come in any order.) *)
SentOnceInOrder ==
    \A i, j \in DOMAIN sent :
        i < j => sent[j] # sent[i] /\ sent[j] \notin outbox[sent[i]].before

(* "Recorded" is said to one message for a prompt, and the answer the agent  *)
(* gets is that message's, though several requests found the prompt pending. *)
RecordedIsTheAnswer ==
    \A m \in Messages :
        inbox[m].outcome = "recorded" =>
            /\ Answered(inbox[m].prompt)
            /\ prompts[inbox[m].prompt].response
                  \in Replies(inbox[m].prompt, inbox[m].text)
            /\ \A n \in Messages \ {m} :
                   inbox[n].outcome = "recorded" => inbox[n].prompt # inbox[m].prompt

(* A chat is one conversation: whatever was worked on for it was worked on   *)
(* in one thread, though its first messages may come at once.                *)
Conversing(m) == inbox[m].pc \in {"read", "resolve", "dispatch"}
                 \/ inbox[m].outcome # "none"

OneThreadPerChat ==
    \A m, n \in Messages :
        (Conversing(m) /\ Conversing(n) /\ inbox[m].chat = inbox[n].chat)
            => inbox[m].thread = inbox[n].thread

(* Every row of the outbox is claimed, though polls fail and the sidecar is  *)
(* restarted.                                                                *)
OutboxDrains == \A row \in Rows : row \in put ~> row \in claimed

(* README.md:104 says "agents ask, you answer; agents request, you approve   *)
(* -- right from chat", and render_prompt ends a question with "Reply with   *)
(* the number": such a reply to the question shown last answers it.          *)
ReplyAnswers ==
    \A m \in Messages :
        (/\ inbox[m].asked # NoPromptId /\ inbox[m].outcome \in {"answer", "error"}
         /\ Replies(inbox[m].asked, inbox[m].text) # {})
            => ~(Pending(inbox[m].asked) /\ ~IsExpired(inbox[m].asked))
==============================================================================
