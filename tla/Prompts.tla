------------------------------ MODULE Prompts ------------------------------
(***************************************************************************)
(* The prompt table of the backend (backend/apps/prompts): questions put   *)
(* to the operator, each identified by its nonce, answered at most once    *)
(* before it expires.  Every state change of the table goes through        *)
(* create_prompt or resolve; resolve holds the row lock from its read to   *)
(* its write, so each of its outcomes is one step here.                    *)
(*                                                                         *)
(* A nonce is the number of its prompt in creation order: nonces are       *)
(* unique, and requested_at orders prompts the same way.  `now' is the     *)
(* server's clock in abstract ticks.                                       *)
(***************************************************************************)
EXTENDS Integers, Sequences

CONSTANTS
    Threads,      \* chat threads a prompt can be bound to
    Keys,         \* option keys, what a button carries back
    Labels,       \* option labels, what a button shows
    Texts,        \* texts an operator can type
    Refs,         \* what surface_message_ref binds to the prompt
    NoText,       \* "no text in this response"
    MaxPrompts,   \* bound: prompts ever created
    MaxTime       \* bound: last tick of the clock

ASSUME PromptsAssumption ==
    /\ MaxPrompts \in Nat /\ MaxTime \in Nat
    /\ {"allow", "deny"} \subseteq Keys
    /\ {"Allow", "Deny"} \subseteq Labels
    /\ Threads # {} /\ Refs # {}
    /\ NoText \notin Texts

VARIABLES
    prompts,      \* the table
    nextId,       \* the nonce the next prompt gets
    now           \* the clock

promptVars == <<prompts, nextId, now>>

PromptIds == 1 .. MaxPrompts
Types     == {"choice_single", "free_text", "approval"}
Statuses  == {"none", "pending", "answered", "expired"}
Option    == [key : Keys, label : Labels]

(* A reply carries option keys or a text, never both. *)
Response  == [keys : Seq(Keys), text : Texts \cup {NoText}]
NoResponse     == [keys |-> <<>>, text |-> NoText]
KeyReply(k)    == [keys |-> <<k>>, text |-> NoText]
TextReply(t)   == [keys |-> <<>>, text |-> t]

Prompt == [status : Statuses, type : Types, thread : Threads,
           options : Seq(Option), ref : Refs, expiresAt : Nat,
           response : Response, answeredAt : Nat]

(* No creator overrides these two defaults of create_prompt. *)
MinChoices == 0
MaxChoices == 1

AllowDeny == <<[key |-> "allow", label |-> "Allow"],
               [key |-> "deny", label |-> "Deny"]>>

(* A row not created yet. *)
NoPrompt == [status |-> "none", type |-> "approval",
             thread |-> CHOOSE t \in Threads : TRUE, options |-> <<>>,
             ref |-> CHOOSE r \in Refs : TRUE, expiresAt |-> 0,
             response |-> NoResponse, answeredAt |-> 0]

PromptTypeOK ==
    /\ prompts \in [PromptIds -> Prompt]
    /\ nextId \in 1 .. MaxPrompts + 1
    /\ now \in 0 .. MaxTime

PromptInit ==
    /\ prompts = [p \in PromptIds |-> NoPrompt]
    /\ nextId = 1
    /\ now = 0

-----------------------------------------------------------------------------
(* Reading the table. *)

Pending(p)    == prompts[p].status = "pending"
Answered(p)   == prompts[p].status = "answered"
IsExpired(p)  == now >= prompts[p].expiresAt
OptionKeys(p) == {prompts[p].options[i].key : i \in DOMAIN prompts[p].options}

(* `option_keys is not None and prompt.options`: only then are keys checked. *)
ValidChoice(p, r) ==
    (r.text = NoText /\ prompts[p].options # <<>>) =>
        /\ \A i \in DOMAIN r.keys : r.keys[i] \in OptionKeys(p)
        /\ Len(r.keys) \in MinChoices .. MaxChoices

-----------------------------------------------------------------------------
(* Writing the table. *)

(* create_prompt: a fresh nonce, pending until now + ttl. *)
CreatePrompt(type, thread, options, ref, ttl) ==
    /\ nextId \in PromptIds
    /\ prompts' = [prompts EXCEPT ![nextId] =
           [status |-> "pending", type |-> type, thread |-> thread,
            options |-> options, ref |-> ref, expiresAt |-> now + ttl,
            response |-> NoResponse, answeredAt |-> 0]]
    /\ nextId' = nextId + 1
    /\ UNCHANGED now

(* Mutant: the row is read without its lock, so a second resolver still    *)
(* sees it pending.                                                        *)
AcceptsAgain(p, r) ==
    prompts[p].status \in {"pending", "answered"} /\ ~IsExpired(p) /\ ValidChoice(p, r)

(* resolve, when it returns the prompt: the answer is recorded. *)
Accepts(p, r) == Pending(p) /\ ~IsExpired(p) /\ ValidChoice(p, r)

RecordAnswer(p, r) ==
    prompts' = [prompts EXCEPT ![p].status = "answered",
                               ![p].response = r,
                               ![p].answeredAt = now]

(* resolve, when it returns None: an expired prompt is marked, a settled   *)
(* one or an invalid choice leaves the row as it is.                       *)
RefuseAnswer(p) ==
    IF Pending(p) /\ IsExpired(p)
    THEN prompts' = [prompts EXCEPT ![p].status = "expired"]
    ELSE UNCHANGED prompts

Resolve(p, r) ==
    /\ \/ Accepts(p, r) /\ RecordAnswer(p, r)
       \/ ~Accepts(p, r) /\ RefuseAnswer(p)
    /\ UNCHANGED <<nextId, now>>

(* Time passes; nothing scans the table for expired rows. *)
Tick ==
    /\ now < MaxTime
    /\ now' = now + 1
    /\ UNCHANGED <<prompts, nextId>>
=============================================================================
