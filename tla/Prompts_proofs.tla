--------------------------- MODULE Prompts_proofs ---------------------------
(***************************************************************************)
(* What the two writers of the prompt table do to it, for the proofs about *)
(* the modules that use it.                                                *)
(***************************************************************************)
EXTENDS Prompts, TLAPS

LEMMA InitPrompts == PromptInit => PromptTypeOK
<1> SUFFICES ASSUME PromptInit PROVE PromptTypeOK
  OBVIOUS
<1>1. NoPrompt \in Prompt
  BY PromptsAssumption DEF NoPrompt, Prompt, Types, Statuses, Response, NoResponse
<1> QED  BY <1>1, PromptsAssumption DEF PromptInit, PromptTypeOK

LEMMA AllowDenyType == AllowDeny \in Seq(Option)
<1>1. [key |-> "allow", label |-> "Allow"] \in Option
      /\ [key |-> "deny", label |-> "Deny"] \in Option
  BY PromptsAssumption DEF Option
<1> QED  BY <1>1 DEF AllowDeny

(* A new prompt is a row of its own. *)
LEMMA CreateEffect ==
    ASSUME PromptTypeOK, NEW type \in Types, NEW thread \in Threads,
           NEW options \in Seq(Option), NEW ref \in Refs, NEW ttl \in Nat,
           CreatePrompt(type, thread, options, ref, ttl)
    PROVE  /\ PromptTypeOK'
           /\ nextId' = nextId + 1
           /\ \A q \in PromptIds : q # nextId => prompts'[q] = prompts[q]
<1> DEFINE new == [status |-> "pending", type |-> type, thread |-> thread,
                   options |-> options, ref |-> ref, expiresAt |-> now + ttl,
                   response |-> NoResponse, answeredAt |-> 0]
<1>1. /\ nextId \in PromptIds
      /\ prompts' = [prompts EXCEPT ![nextId] = new]
      /\ nextId' = nextId + 1 /\ now' = now
  BY DEF CreatePrompt
<1>2. prompts \in [PromptIds -> Prompt] /\ now \in Nat
  BY PromptsAssumption DEF PromptTypeOK
<1>3. NoResponse \in Response
  BY DEF NoResponse, Response
<1>4. new \in Prompt
  BY <1>2, <1>3 DEF Prompt, Types, Statuses
<1> HIDE DEF new
<1>5. prompts' \in [PromptIds -> Prompt]
  BY <1>1, <1>2, <1>4
<1>6. nextId' \in 1 .. MaxPrompts + 1
  BY <1>1, PromptsAssumption DEF PromptIds
<1> QED  BY <1>1, <1>2, <1>5, <1>6 DEF PromptTypeOK

(* Resolving keeps the table well formed and only ever settles a row. *)
LEMMA ResolveEffect ==
    ASSUME PromptTypeOK, NEW p \in PromptIds, NEW r \in Response, Resolve(p, r)
    PROVE  /\ PromptTypeOK'
           /\ UNCHANGED <<nextId, now>>
           /\ \A q \in PromptIds :
                 /\ q # p => prompts'[q] = prompts[q]
                 /\ prompts'[q].type = prompts[q].type
                 /\ prompts'[q].thread = prompts[q].thread
                 /\ prompts'[q].options = prompts[q].options
                 /\ prompts'[q].expiresAt = prompts[q].expiresAt
                 /\ Answered(q) => prompts'[q] = prompts[q]
                 /\ prompts'[q].status = "none" <=> prompts[q].status = "none"
                 /\ (Answered(q)' /\ ~Answered(q)) =>
                       /\ prompts'[q].response = r
                       /\ prompts'[q].answeredAt < prompts'[q].expiresAt
<1>1. CASE Accepts(p, r) /\ RecordAnswer(p, r)
  <2>1. /\ Pending(p) /\ ~IsExpired(p)
        /\ prompts' = [prompts EXCEPT ![p].status = "answered",
                                      ![p].response = r,
                                      ![p].answeredAt = now]
        /\ UNCHANGED <<nextId, now>>
    BY <1>1 DEF Resolve, Accepts, RecordAnswer
  <2>2. prompts'[p] = [prompts[p] EXCEPT !.status = "answered", !.response = r,
                                         !.answeredAt = now]
    BY <2>1 DEF PromptTypeOK
  <2>3. \A q \in PromptIds : q # p => prompts'[q] = prompts[q]
    BY <2>1 DEF PromptTypeOK
  <2>4. prompts'[p] \in Prompt
    <3>1. now \in Nat
      BY PromptsAssumption DEF PromptTypeOK
    <3>2. prompts[p] \in Prompt
      BY DEF PromptTypeOK
    <3> QED BY <2>2, <3>1, <3>2 DEF Prompt, Statuses
  <2>5. PromptTypeOK'
    BY <2>1, <2>3, <2>4 DEF PromptTypeOK
  <2>6. prompts'[p].answeredAt < prompts'[p].expiresAt
    BY <2>1, <2>2 DEF PromptTypeOK, Prompt, IsExpired
  <2> QED BY <2>1, <2>2, <2>3, <2>5, <2>6 DEF PromptTypeOK, Prompt, Answered, Pending
<1>2. CASE ~Accepts(p, r) /\ RefuseAnswer(p) /\ Pending(p) /\ IsExpired(p)
  <2>1. /\ prompts' = [prompts EXCEPT ![p].status = "expired"]
        /\ UNCHANGED <<nextId, now>>
    BY <1>2 DEF Resolve, RefuseAnswer, Accepts, RecordAnswer
  <2>2. prompts'[p] = [prompts[p] EXCEPT !.status = "expired"]
    BY <2>1 DEF PromptTypeOK
  <2>3. \A q \in PromptIds : q # p => prompts'[q] = prompts[q]
    BY <2>1 DEF PromptTypeOK
  <2>4. prompts'[p] \in Prompt
    BY <2>2 DEF PromptTypeOK, Prompt, Statuses
  <2>5. PromptTypeOK'
    BY <2>1, <2>3, <2>4 DEF PromptTypeOK
  <2> QED BY <1>2, <2>1, <2>2, <2>3, <2>5 DEF PromptTypeOK, Prompt, Answered, Pending
<1>3. CASE ~Accepts(p, r) /\ RefuseAnswer(p) /\ ~(Pending(p) /\ IsExpired(p))
  BY <1>3 DEF Resolve, RefuseAnswer, PromptTypeOK, Answered
<1> QED BY <1>1, <1>2, <1>3 DEF Resolve

=============================================================================
