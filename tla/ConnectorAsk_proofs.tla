------------------------ MODULE ConnectorAsk_proofs ------------------------
(***************************************************************************)
(* Proofs about ConnectorAsk for every set of agents, workers, threads,    *)
(* options and texts, every life of a prompt and every polling deadline.   *)
(*                                                                         *)
(* FailClosed is not inductive.  A client only ever returns what it read   *)
(* earlier, so the invariant must carry what a read established through    *)
(* the steps of everybody else: the prompt it names was created by this    *)
(* client, is an approval of its thread, and once answered never changes.  *)
(***************************************************************************)
EXTENDS ConnectorAsk, Prompts_proofs, WellFoundedInduction, TLAPS

-----------------------------------------------------------------------------
(* A nonempty set of positions of a sequence has a last one. *)
LEMMA LastPosition ==
    ASSUME NEW n \in Nat, NEW S \in SUBSET (1 .. n), S # {}
    PROVE  \E i \in S : \A j \in S : j <= i
<1> DEFINE T == {n - i : i \in S}
<1>1. T \subseteq Nat /\ T # {}
  <2>1. \A i \in S : n - i \in Nat
    OBVIOUS
  <2> QED BY <2>1
<1>2. \E x \in T : \A y \in T : ~ (<<y, x>> \in OpToRel(<, Nat))
  BY <1>1, NatLessThanWellFounded, WFMin, Zenon
<1>3. PICK x \in T : \A y \in T : ~ (y < x)
  BY <1>1, <1>2 DEF OpToRel
<1>4. PICK i \in S : x = n - i
  OBVIOUS
<1>5. \A j \in S : j <= i
  BY <1>3, <1>4
<1> QED BY <1>5

-----------------------------------------------------------------------------
(* Ids in use are below nextId, and only those rows exist. *)
Allocated ==
    /\ \A p \in PromptIds : prompts[p].status # "none" => p < nextId
    /\ \A a \in Agents : client[a].id < nextId
    /\ \A a \in Agents : client[a].pc # "idle" => client[a].id # 0

(* Rows are well formed: who answers what, and when. *)
AnsweredInTime ==
    \A p \in PromptIds :
        Answered(p) => prompts[p].answeredAt < prompts[p].expiresAt

ApprovalByKey ==
    \A p \in PromptIds :
        (prompts[p].type = "approval" /\ Answered(p))
            => \E k \in Keys : prompts[p].response = KeyReply(k)

PickedFreeText ==
    \A w \in Workers :
        worker[w].pc = "picked" =>
            /\ worker[w].id \in PromptIds /\ worker[w].text \in Texts
            /\ prompts[worker[w].id].type = "free_text"
            /\ worker[w].id < nextId

(* A client's prompt is the one it asked for. *)
OwnRow ==
    \A a \in Agents :
        (client[a].id # 0 /\ client[a].kind # "ask") =>
            /\ prompts[client[a].id].type = "approval"
            /\ prompts[client[a].id].thread = ThreadOf[a]

(* What a client holds from its last read is still so. *)
ReadStillTrue ==
    \A a \in Agents :
        (client[a].pc = "read" /\ client[a].seen.status = "answered") =>
            /\ Answered(client[a].id)
            /\ client[a].seen.value = AnswerValue(prompts[client[a].id])

IInv == /\ TypeOK /\ Allocated /\ AnsweredInTime /\ ApprovalByKey
        /\ PickedFreeText /\ OwnRow /\ OwnPrompt /\ ReadStillTrue /\ FailClosed

-----------------------------------------------------------------------------
(* The label a key is read back as is one of the labels, or the key. *)
LEMMA LabelOfType ==
    ASSUME NEW opts \in Seq(Option), NEW k \in Keys
    PROVE  LabelOf(opts, k) \in Keys \cup Labels
<1> DEFINE same == {i \in DOMAIN opts : opts[i].key = k}
<1>1. CASE same = {}
  BY <1>1 DEF LabelOf
<1>2. CASE same # {}
  <2>1. Len(opts) \in Nat /\ same \in SUBSET (1 .. Len(opts))
    OBVIOUS
  <2>2. \E i \in same : \A j \in same : j <= i
    BY <1>2, <2>1, LastPosition
  <2> DEFINE last == CHOOSE i \in same : \A j \in same : j <= i
  <2>3. last \in same
    BY <2>2
  <2>4. \A i \in same : opts[i] \in Option
    OBVIOUS
  <2> HIDE DEF last
  <2>5. opts[last].label \in Labels
    BY <2>3, <2>4 DEF Option
  <2> QED BY <1>2, <2>5 DEF LabelOf, last
<1> QED BY <1>1, <1>2

LEMMA ResultType ==
    ASSUME PromptTypeOK, NEW p \in PromptIds
    PROVE  Result(p) \in ReadResult
<1> DEFINE r == prompts[p].response
<1>1. /\ r.keys \in Seq(Keys) /\ r.text \in Texts \cup {NoText}
      /\ prompts[p].status \in Statuses /\ prompts[p].options \in Seq(Option)
  BY DEF PromptTypeOK, Prompt, Response
<1>2. r.keys # <<>> => r.keys[1] \in Keys
  BY <1>1
<1>3. AnswerValue(prompts[p]) \in Values
  BY <1>1, <1>2, LabelOfType, PromptsAssumption DEF AnswerValue, Values
<1> QED BY <1>1, <1>3 DEF Result, ReadResult, Values

-----------------------------------------------------------------------------
LEMMA InitInv == Init => IInv
<1> SUFFICES ASSUME Init PROVE IInv
  OBVIOUS
<1>2. PromptTypeOK
  BY InitPrompts DEF Init
<1>3. Idle \in Client /\ IdleWorker \in Worker
  BY PromptsAssumption
  DEF Idle, Client, IdleWorker, Worker, NothingRead, ReadResult, Kinds,
      Statuses, Values, Outcomes
<1>4. TypeOK
  BY <1>2, <1>3 DEF Init, TypeOK
<1>5. Allocated
  <2>1. \A p \in PromptIds : prompts[p].status = "none"
    BY DEF Init, PromptInit, NoPrompt
  <2>2. \A a \in Agents : client[a].id = 0 /\ client[a].pc = "idle"
    BY DEF Init, Idle
  <2>3. nextId = 1
    BY DEF Init, PromptInit
  <2> QED BY <2>1, <2>2, <2>3 DEF Allocated
<1>6. AnsweredInTime /\ ApprovalByKey
  BY DEF Init, PromptInit, AnsweredInTime, ApprovalByKey, NoPrompt, Answered
<1>7. PickedFreeText /\ OwnRow /\ OwnPrompt /\ ReadStillTrue /\ FailClosed
  BY DEF Init, PickedFreeText, OwnRow, OwnPrompt, ReadStillTrue, FailClosed,
         Idle, IdleWorker
<1> QED BY <1>4, <1>5, <1>6, <1>7 DEF IInv

(* A new prompt takes a nonce nobody holds. *)
LEMMA PostInv ==
    ASSUME IInv, NEW a \in Agents, NEW kind \in Kinds,
           NEW menu \in Menus \cup {<<>>},
           NEW delivered \in BOOLEAN, NEW replied \in BOOLEAN,
           PostPrompt(a, kind, menu, delivered, replied)
    PROVE  IInv'
<1> DEFINE type == IF kind # "ask" THEN "approval"
                   ELSE IF menu = <<>> THEN "free_text" ELSE "choice_single"
           opts == IF kind = "ask" THEN menu ELSE AllowDeny
           new == [status |-> "pending", type |-> type, thread |-> ThreadOf[a],
                   options |-> opts, ref |-> NoRef, expiresAt |-> now + TTL[kind],
                   response |-> NoResponse, answeredAt |-> 0]
           cl == [pc |-> IF replied THEN "wait" ELSE "done",
                  kind |-> kind, id |-> nextId,
                  deadline |-> now + Timeout[kind], seen |-> NothingRead,
                  outcome |-> IF replied THEN "" ELSE ErrorOutcome(kind)]
<1>0. nextId \in PromptIds /\ nextId \in Nat \ {0} /\ nextId \in 0 .. MaxPrompts
  <2>1. nextId \in PromptIds
    BY DEF PostPrompt, CreatePrompt
  <2> HIDE DEF type, opts, new, cl
  <2> QED BY <2>1, PromptsAssumption DEF PromptIds
<1>1. /\ nextId \in PromptIds
      /\ prompts' = [prompts EXCEPT ![nextId] = new]
      /\ nextId' = nextId + 1
      /\ now' = now
      /\ shown' \in {shown, shown \cup {nextId}}
      /\ client' = [client EXCEPT ![a] = cl]
      /\ UNCHANGED <<worker, meant>>
  BY DEF PostPrompt, CreatePrompt
<1>2. /\ prompts \in [PromptIds -> Prompt] /\ client \in [Agents -> Client]
      /\ now \in Nat
  BY PromptsAssumption DEF IInv, TypeOK, PromptTypeOK
<1>3. new \in Prompt
  <2>1. opts \in Seq(Option)
    <3>1. [key |-> "allow", label |-> "Allow"] \in Option
          /\ [key |-> "deny", label |-> "Deny"] \in Option
      BY PromptsAssumption DEF Option
    <3>2. AllowDeny \in Seq(Option)
      BY <3>1 DEF AllowDeny
    <3>3. menu \in Seq(Option)
      <4>1. CASE menu = <<>>
        BY <4>1
      <4>2. CASE menu \in Menus
        BY <4>2, ConnectorAskAssumption
      <4> QED BY <4>1, <4>2
    <3> QED BY <3>2, <3>3
  <2>2. NoResponse \in Response
    BY DEF NoResponse, Response
  <2>3. ThreadOf[a] \in Threads /\ TTL[kind] \in Nat /\ NoRef \in Refs
    BY ConnectorAskAssumption
  <2> QED BY <1>2, <2>1, <2>2, <2>3 DEF Prompt, Types, Statuses
<1>4. cl \in Client
  <2>1. NothingRead \in ReadResult
    BY DEF NothingRead, ReadResult, Statuses, Values
  <2>2. ErrorOutcome(kind) \in Outcomes /\ "" \in Outcomes
    BY PromptsAssumption DEF ErrorOutcome, Outcomes, Values
  <2>3. now + Timeout[kind] \in Nat
    BY <1>2, ConnectorAskAssumption
  <2>4. nextId \in 0 .. MaxPrompts
    BY <1>0
  <2>5. (IF replied THEN "wait" ELSE "done") \in {"idle", "wait", "read", "done"}
        /\ (IF replied THEN "" ELSE ErrorOutcome(kind)) \in Outcomes
    BY <2>2
  <2> QED BY <2>1, <2>3, <2>4, <2>5 DEF Client
<1>5. /\ prompts'[nextId] = new
      /\ \A q \in PromptIds : q # nextId => prompts'[q] = prompts[q]
      /\ client'[a] = cl
      /\ \A b \in Agents : b # a => client'[b] = client[b]
  BY <1>1, <1>2
<1>6. /\ \A b \in Agents : client[b].id < nextId
      /\ \A w \in Workers : worker[w].pc = "picked" => worker[w].id < nextId
      /\ nextId \in Nat \ {0}
      /\ prompts[nextId].status = "none"
  <2>1. nextId \in Nat \ {0}
    BY <1>0
  <2>2. ~(nextId < nextId)
    BY <2>1
  <2>3. prompts[nextId].status = "none"
    BY <1>1, <2>2 DEF IInv, Allocated
  <2> QED BY <2>1, <2>3 DEF IInv, Allocated, PickedFreeText
<1> HIDE DEF new, cl
<1>7. TypeOK'
  <2>1. PromptTypeOK'
    BY <1>1, <1>2, <1>3, PromptsAssumption
    DEF IInv, TypeOK, PromptTypeOK, PromptIds
  <2>2. shown' \subseteq PromptIds
    BY <1>1 DEF IInv, TypeOK
  <2> QED BY <1>1, <1>2, <1>4, <2>1, <2>2 DEF IInv, TypeOK
<1>8. cl.id = nextId /\ cl.pc # "idle" /\ cl.pc # "read" /\ cl.kind = kind
      /\ (kind # "ask" => cl.outcome # "allow")
  BY DEF cl, ErrorOutcome
<1>9. /\ new.status = "pending" /\ new.thread = ThreadOf[a]
      /\ (kind # "ask" => new.type = "approval")
  BY DEF new
<1>10. Allocated'
  <2>1. \A q \in PromptIds : prompts'[q].status # "none" => q < nextId'
    BY <1>1, <1>5, <1>6, PromptsAssumption DEF IInv, Allocated, PromptIds
  <2>2. \A b \in Agents : client[b].id \in Nat
    BY <1>2, PromptsAssumption DEF Client
  <2>3. \A b \in Agents : client'[b].id < nextId'
    BY <1>1, <1>5, <1>6, <1>8, <2>2
  <2>4. \A b \in Agents : client'[b].pc # "idle" => client'[b].id # 0
    BY <1>5, <1>6, <1>8 DEF IInv, Allocated
  <2> QED BY <2>1, <2>3, <2>4 DEF Allocated
<1>11. AnsweredInTime' /\ ApprovalByKey'
  BY <1>5, <1>9 DEF IInv, AnsweredInTime, ApprovalByKey, Answered
<1>12. PickedFreeText'
  BY <1>1, <1>5, <1>6 DEF IInv, PickedFreeText, PromptIds
<1>13. \A b \in Agents : client[b].id # 0 => client[b].id \in PromptIds
  BY <1>2 DEF Client, PromptIds
<1>14. OwnRow'
  BY <1>5, <1>6, <1>8, <1>9, <1>13 DEF IInv, OwnRow
<1>15. OwnPrompt'
  BY <1>5, <1>6, <1>8 DEF IInv, OwnPrompt
<1>16. \A b \in Agents : b # a /\ client[b].pc # "idle" =>
          prompts'[client[b].id] = prompts[client[b].id]
  BY <1>5, <1>6, <1>13 DEF IInv, Allocated
<1>17. ReadStillTrue'
  <2> SUFFICES ASSUME NEW b \in Agents, client'[b].pc = "read",
                      client'[b].seen.status = "answered"
               PROVE  /\ prompts'[client'[b].id].status = "answered" 
                      /\ client'[b].seen.value = AnswerValue(prompts'[client'[b].id])
    BY DEF ReadStillTrue, Answered
  <2>1. b # a /\ client'[b] = client[b]
    BY <1>5, <1>8
  <2>2. prompts'[client[b].id] = prompts[client[b].id]
    BY <1>16, <2>1
  <2>3. /\ Answered(client[b].id)
        /\ client[b].seen.value = AnswerValue(prompts[client[b].id])
    BY <2>1 DEF IInv, ReadStillTrue
  <2> QED BY <2>1, <2>2, <2>3 DEF Answered
<1>18. FailClosed'
  BY <1>5, <1>8, <1>16 DEF IInv, FailClosed, Answered
<1> QED BY <1>7, <1>10, <1>11, <1>12, <1>14, <1>15, <1>17, <1>18 DEF IInv

(* Whoever resolves, and with what, nobody else's knowledge is disturbed.   *)
LEMMA SettleInv ==
    ASSUME IInv, NEW p \in PromptIds, NEW r \in Response, Resolve(p, r),
           prompts[p].type = "approval" => \E k \in Keys : r = KeyReply(k),
           UNCHANGED <<client, shown>>,
           worker' \in [Workers -> Worker],
           \A w \in Workers : worker'[w] = worker[w] \/ worker'[w].pc = "idle",
           meant' \in [PromptIds -> Labels \cup Texts \cup {Nothing}]
    PROVE  IInv'
<1>1. PromptTypeOK
  BY DEF IInv, TypeOK
<1>2. /\ PromptTypeOK' /\ nextId' = nextId /\ now' = now
      /\ \A q \in PromptIds :
            /\ q # p => prompts'[q] = prompts[q]
            /\ prompts'[q].type = prompts[q].type
            /\ prompts'[q].thread = prompts[q].thread
            /\ Answered(q) => prompts'[q] = prompts[q]
            /\ prompts'[q].status = "none" <=> prompts[q].status = "none"
            /\ (Answered(q)' /\ ~Answered(q)) =>
                  /\ prompts'[q].response = r
                  /\ prompts'[q].answeredAt < prompts'[q].expiresAt
  BY <1>1, ResolveEffect
<1>3. \A q \in PromptIds :
          (Answered(q)' /\ ~Answered(q)) => q = p
  BY <1>2 DEF Answered
<1>4. TypeOK'
  BY <1>2 DEF IInv, TypeOK
<1>5. Allocated'
  BY <1>2 DEF IInv, Allocated
<1>6. AnsweredInTime'
  BY <1>2 DEF IInv, AnsweredInTime, Answered
<1>7. ApprovalByKey'
  <2> SUFFICES ASSUME NEW q \in PromptIds, prompts'[q].type = "approval", Answered(q)'
               PROVE  \E k \in Keys : prompts'[q].response = KeyReply(k)
    BY DEF ApprovalByKey, KeyReply
  <2>1. CASE Answered(q)
    BY <1>2, <2>1 DEF IInv, ApprovalByKey
  <2>2. CASE ~Answered(q)
    BY <1>2, <1>3, <2>2
  <2> QED BY <2>1, <2>2
<1>8. PickedFreeText'
  BY <1>2 DEF IInv, PickedFreeText
<1>9. \A a \in Agents : client[a].id # 0 => client[a].id \in PromptIds
  BY PromptsAssumption DEF IInv, TypeOK, Client, PromptIds
<1>10. OwnRow' /\ OwnPrompt'
  BY <1>2, <1>9 DEF IInv, OwnRow, OwnPrompt
<1>11. ReadStillTrue'
  <2> SUFFICES ASSUME NEW a \in Agents, client[a].pc = "read",
                      client[a].seen.status = "answered"
               PROVE  /\ Answered(client[a].id)'
                      /\ client[a].seen.value = AnswerValue(prompts'[client[a].id])
    BY DEF ReadStillTrue
  <2>1. client[a].id \in PromptIds
    BY <1>9 DEF IInv, Allocated
  <2>2. Answered(client[a].id) /\ client[a].seen.value = AnswerValue(prompts[client[a].id])
    BY DEF IInv, ReadStillTrue
  <2>3. prompts'[client[a].id] = prompts[client[a].id]
    BY <1>2, <2>1, <2>2
  <2>4. client'[a] = client[a]
    OBVIOUS
  <2> QED BY <2>2, <2>3, <2>4 DEF Answered
<1>12. FailClosed'
  BY <1>2 DEF IInv, FailClosed, Answered
<1> QED BY <1>4, <1>5, <1>6, <1>7, <1>8, <1>10, <1>11, <1>12 DEF IInv

(* A step of one client that keeps its prompt, and returns "allow" only on *)
(* a recorded Allow.                                                       *)
LEMMA ClientInv ==
    ASSUME IInv, NEW a \in Agents, NEW c \in Client,
           client' = [client EXCEPT ![a] = c],
           UNCHANGED <<prompts, nextId, now, worker, shown, meant>>,
           client[a].pc # "idle",
           c.id = client[a].id, c.kind = client[a].kind,
           (c.pc = "read" /\ c.seen.status = "answered") =>
               Answered(c.id) /\ c.seen.value = AnswerValue(prompts[c.id]),
           (c.pc = "done" /\ c.kind # "ask" /\ c.outcome = "allow") =>
               Answered(c.id) /\ AnswerValue(prompts[c.id]) = "allow"
    PROVE  IInv'
<1>1. /\ client'[a] = c
      /\ \A b \in Agents : b # a => client'[b] = client[b]
  BY DEF IInv, TypeOK
<1>2. TypeOK'
  BY DEF IInv, TypeOK, PromptTypeOK
<1>3. Allocated' /\ AnsweredInTime' /\ ApprovalByKey' /\ PickedFreeText'
  BY <1>1 DEF IInv, Allocated, AnsweredInTime, ApprovalByKey, PickedFreeText,
              Answered
<1>4. OwnRow' /\ OwnPrompt'
  BY <1>1 DEF IInv, OwnRow, OwnPrompt
<1>5. ReadStillTrue'
  <2> SUFFICES ASSUME NEW b \in Agents, client'[b].pc = "read",
                      client'[b].seen.status = "answered"
               PROVE  /\ Answered(client'[b].id)
                      /\ client'[b].seen.value = AnswerValue(prompts[client'[b].id])
    BY DEF ReadStillTrue, Answered
  <2>2. CASE b # a
    BY <1>1, <2>2 DEF IInv, ReadStillTrue
  <2>3. CASE b = a
    BY <1>1, <2>3
  <2> QED BY <2>2, <2>3
<1>6. FailClosed'
  <2> SUFFICES ASSUME NEW b \in Agents, client'[b].pc = "done",
                      client'[b].kind # "ask", client'[b].outcome = "allow"
               PROVE  LET q == client'[b].id
                      IN  /\ q \in PromptIds /\ Answered(q)
                          /\ prompts[q].type = "approval"
                          /\ prompts[q].thread = ThreadOf[b]
                          /\ prompts[q].response = KeyReply("allow")
                          /\ prompts[q].answeredAt < prompts[q].expiresAt
    BY DEF FailClosed, Answered
  <2>1. CASE b # a
    BY <1>1, <2>1 DEF IInv, FailClosed
  <2>2. CASE b = a
    <3>1. c.pc = "done" /\ c.kind # "ask" /\ c.outcome = "allow"
      BY <1>1, <2>2
    <3>2. Answered(c.id) /\ AnswerValue(prompts[c.id]) = "allow"
      BY <3>1
    <3>3. c.id # 0 /\ c.id \in PromptIds
      BY PromptsAssumption DEF IInv, Allocated, Client, PromptIds
    <3>4. prompts[c.id].type = "approval" /\ prompts[c.id].thread = ThreadOf[a]
      BY <3>1, <3>3 DEF IInv, OwnRow
    <3>5. PICK k \in Keys : prompts[c.id].response = KeyReply(k)
      BY <3>2, <3>3, <3>4 DEF IInv, ApprovalByKey
    <3>6. k = "allow"
      <4>1. KeyReply(k).keys = <<k>> /\ <<k>> # <<>> /\ <<k>>[1] = k
        BY DEF KeyReply
      <4> QED BY <3>2, <3>4, <3>5, <4>1 DEF AnswerValue
    <3> QED BY <1>1, <2>2, <3>2, <3>3, <3>4, <3>5, <3>6 DEF IInv, AnsweredInTime
  <2> QED BY <2>1, <2>2
<1> QED BY <1>2, <1>3, <1>4, <1>5, <1>6 DEF IInv

LEMMA PollInv ==
    ASSUME IInv, NEW a \in Agents,
           PollRead(a) \/ PollFail(a) \/ PollDecide(a) \/ GiveUpAsleep(a)
    PROVE  IInv'
<1>1. client[a] \in Client
  BY DEF IInv, TypeOK
<1>2. client[a].pc # "idle" => client[a].id \in PromptIds
  BY <1>1, PromptsAssumption DEF IInv, Allocated, Client, PromptIds
<1>3. CASE PollRead(a)
  <2> DEFINE c == [client[a] EXCEPT !.pc = "read", !.seen = Result(client[a].id)]
  <2>1. /\ client[a].pc = "wait"
        /\ client' = [client EXCEPT ![a] = c]
        /\ UNCHANGED <<prompts, nextId, now, worker, shown, meant>>
    BY <1>3 DEF PollRead, IInv, TypeOK
  <2>2. Result(client[a].id) \in ReadResult
    BY <1>2, <2>1, ResultType DEF IInv, TypeOK
  <2>3. c \in Client
    BY <1>1, <2>2 DEF Client
  <2>4. c.id = client[a].id /\ c.kind = client[a].kind /\ c.pc = "read"
        /\ c.seen = Result(client[a].id)
    BY <1>1 DEF Client
  <2>5. c.seen.status = "answered" =>
            Answered(c.id) /\ c.seen.value = AnswerValue(prompts[c.id])
    <3> HIDE DEF c
    <3>1. /\ Result(client[a].id).status = prompts[client[a].id].status
          /\ Answered(client[a].id) =>
                Result(client[a].id).value = AnswerValue(prompts[client[a].id])
      BY DEF Result
    <3> QED BY <2>4, <3>1 DEF Answered
  <2> HIDE DEF c
  <2> QED BY <2>1, <2>3, <2>4, <2>5, ClientInv
<1>4. ASSUME NEW s \in {"wait", "read"}, client[a].pc = s,
             NEW o \in Outcomes, Finish(a, o),
             UNCHANGED <<prompts, nextId, now, worker, shown, meant>>,
             (client[a].kind # "ask" /\ o = "allow") =>
                 Answered(client[a].id) /\ AnswerValue(prompts[client[a].id]) = "allow"
      PROVE  IInv'
  <2> DEFINE c == [client[a] EXCEPT !.pc = "done", !.outcome = o]
  <2>1. client' = [client EXCEPT ![a] = c]
    BY <1>4 DEF Finish, IInv, TypeOK
  <2>2. c \in Client /\ c.id = client[a].id /\ c.kind = client[a].kind
        /\ c.pc = "done" /\ c.outcome = o
    BY <1>1 DEF Client
  <2> HIDE DEF c
  <2> QED BY <1>4, <2>1, <2>2, ClientInv
<1>5. CASE PollFail(a) \/ GiveUpAsleep(a)
  <2>1. /\ ErrorOutcome(client[a].kind) \in Outcomes
        /\ client[a].kind # "ask" => ErrorOutcome(client[a].kind) # "allow"
    BY PromptsAssumption DEF ErrorOutcome, Outcomes, Values
  <2> QED BY <1>4, <1>5, <2>1 DEF PollFail, GiveUpAsleep
<1>6. CASE PollDecide(a)
  <2>1. CASE client[a].seen.status = "pending" /\ client' = [client EXCEPT ![a].pc = "wait"]
    <3> DEFINE c == [client[a] EXCEPT !.pc = "wait"]
    <3>1. client' = [client EXCEPT ![a] = c]
      BY <2>1 DEF IInv, TypeOK
    <3>2. c \in Client /\ c.id = client[a].id /\ c.kind = client[a].kind
          /\ c.pc = "wait"
      BY <1>1 DEF Client
    <3>3. /\ client[a].pc = "read"
          /\ UNCHANGED <<prompts, nextId, now, worker, shown, meant>>
      BY <1>6 DEF PollDecide
    <3> HIDE DEF c
    <3> QED BY <3>1, <3>2, <3>3, ClientInv
  <2>2. CASE Finish(a, OutcomeOf(client[a].kind, client[a].seen))
    <3>1. client[a].seen \in ReadResult
      BY <1>1 DEF Client
    <3>2. OutcomeOf(client[a].kind, client[a].seen) \in Outcomes
      BY <3>1, PromptsAssumption
      DEF OutcomeOf, AskOutcome, GateOutcome, Outcomes, Values, ReadResult
    <3>3. client[a].pc = "read"
          /\ UNCHANGED <<prompts, nextId, now, worker, shown, meant>>
      BY <1>6 DEF PollDecide
    <3>4. (client[a].kind # "ask" /\ OutcomeOf(client[a].kind, client[a].seen) = "allow")
              => client[a].seen.status = "answered" /\ client[a].seen.value = "allow"
      BY DEF OutcomeOf, GateOutcome
    <3>5. client[a].seen.status = "answered" =>
              /\ Answered(client[a].id)
              /\ client[a].seen.value = AnswerValue(prompts[client[a].id])
      BY <3>3 DEF IInv, ReadStillTrue
    <3> QED BY <1>4, <2>2, <3>2, <3>3, <3>4, <3>5
  <2> QED BY <1>6, <2>1, <2>2 DEF PollDecide
<1> QED BY <1>3, <1>5, <1>6

LEMMA TapInv ==
    ASSUME IInv, NEW p \in PromptIds, NEW i \in DOMAIN prompts[p].options, Tap(p, i)
    PROVE  IInv'
<1> DEFINE opt == prompts[p].options[i]
           r == KeyReply(opt.key)
<1>1. prompts[p].options \in Seq(Option)
  BY DEF IInv, TypeOK, PromptTypeOK, Prompt
<1>2. opt.key \in Keys /\ opt.label \in Labels
  <2>1. opt \in Option
    BY <1>1
  <2> QED BY <2>1 DEF Option
<1>3. r \in Response
  BY <1>2 DEF KeyReply, Response
<1>4. meant' \in [PromptIds -> Labels \cup Texts \cup {Nothing}]
  BY <1>2 DEF Tap, IInv, TypeOK
<1>5. Resolve(p, r) /\ UNCHANGED <<client, worker, shown>>
  BY DEF Tap
<1>6. worker' \in [Workers -> Worker]
  BY <1>5 DEF IInv, TypeOK
<1> QED BY <1>2, <1>3, <1>4, <1>5, <1>6, SettleInv

LEMMA WorkerInv ==
    ASSUME IInv, NEW w \in Workers,
           \/ \E scope \in Threads \cup {AnyThread}, t \in Texts : PickAsk(w, scope, t)
           \/ ResolvePicked(w)
    PROVE  IInv'
<1>1. worker \in [Workers -> Worker]
  BY DEF IInv, TypeOK
<1>2. CASE ResolvePicked(w)
  <2> DEFINE p == worker[w].id
             r == TextReply(worker[w].text)
  <2>1. /\ worker[w].pc = "picked" /\ Resolve(p, r)
        /\ UNCHANGED <<client, shown>>
        /\ worker' = [worker EXCEPT ![w] = IdleWorker]
    BY <1>2 DEF ResolvePicked
  <2>2. p \in PromptIds /\ worker[w].text \in Texts
        /\ prompts[p].type = "free_text"
    BY <2>1 DEF IInv, PickedFreeText
  <2>3. r \in Response
    BY <2>2 DEF TextReply, Response
  <2>4. meant' \in [PromptIds -> Labels \cup Texts \cup {Nothing}]
    BY <1>2, <2>2 DEF ResolvePicked, IInv, TypeOK
  <2>5. IdleWorker \in Worker /\ IdleWorker.pc = "idle"
    BY PromptsAssumption DEF IdleWorker, Worker
  <2>6. /\ worker' \in [Workers -> Worker]
        /\ \A v \in Workers : worker'[v] = worker[v] \/ worker'[v].pc = "idle"
    BY <1>1, <2>1, <2>5
  <2> QED BY <2>1, <2>2, <2>3, <2>4, <2>6, SettleInv
<1>3. ASSUME NEW scope \in Threads \cup {AnyThread}, NEW t \in Texts, PickAsk(w, scope, t)
      PROVE  IInv'
  <2>1. PICK p \in Waiting(scope) :
            worker' = [worker EXCEPT ![w] = [pc |-> "picked", id |-> p, text |-> t]]
    BY <1>3 DEF PickAsk
  <2>2. p \in PromptIds /\ prompts[p].type = "free_text" /\ p < nextId
    BY <2>1 DEF Waiting, Pending, IInv, Allocated
  <2>3. UNCHANGED <<prompts, nextId, now, client, shown, meant>>
    BY <1>3 DEF PickAsk
  <2>4. [pc |-> "picked", id |-> p, text |-> t] \in Worker
    BY <2>2, PromptsAssumption DEF Worker, PromptIds
  <2>5. TypeOK'
    BY <1>1, <2>1, <2>3, <2>4 DEF IInv, TypeOK, PromptTypeOK
  <2>6. PickedFreeText'
    BY <1>1, <2>1, <2>2, <2>3 DEF IInv, PickedFreeText
  <2> QED BY <2>3, <2>5, <2>6
          DEF IInv, Allocated, AnsweredInTime, ApprovalByKey, OwnRow, OwnPrompt,
              ReadStillTrue, FailClosed, Answered
<1> QED BY <1>2, <1>3

-----------------------------------------------------------------------------
LEMMA StepInv == IInv /\ [Next]_vars => IInv'
<1> SUFFICES ASSUME IInv, [Next]_vars PROVE IInv'
  OBVIOUS
<1>1. CASE TimePasses
  <2>1. /\ UNCHANGED <<prompts, nextId, client, worker, shown, meant>>
        /\ now < MaxTime /\ now' = now + 1
    BY <1>1 DEF TimePasses, Tick
  <2>2. now' \in 0 .. MaxTime
    BY <2>1, PromptsAssumption DEF IInv, TypeOK, PromptTypeOK
  <2> QED BY <2>1, <2>2
          DEF IInv, TypeOK, PromptTypeOK, Allocated, AnsweredInTime,
              ApprovalByKey, PickedFreeText, OwnRow, OwnPrompt, ReadStillTrue,
              FailClosed, Answered
<1>2. CASE UNCHANGED vars
  BY <1>2 DEF vars, IInv, TypeOK, PromptTypeOK, Allocated, AnsweredInTime,
              ApprovalByKey, PickedFreeText, OwnRow, OwnPrompt, ReadStillTrue,
              FailClosed, Answered
<1> QED BY <1>1, <1>2, PostInv, PollInv, TapInv, WorkerInv DEF Next

LEMMA SpecInv == Spec => []IInv
BY InitInv, StepInv, PTL DEF Spec

(* Every variable keeps its type, whatever interleaving of clients, taps,  *)
(* bot workers and clock produced the state.                               *)
THEOREM SpecTypeOK == Spec => []TypeOK
<1>1. IInv => TypeOK
  BY DEF IInv
<1> QED BY <1>1, SpecInv, PTL

(* request_approval and the SDK's approve fail closed: an action goes      *)
(* ahead only on the operator's own Allow of that client's own prompt,     *)
(* recorded in time, for any number of clients and any timing.             *)
THEOREM SpecFailClosed == Spec => []FailClosed
<1>1. IInv => FailClosed
  BY DEF IInv
<1> QED BY <1>1, SpecInv, PTL

(* No answer serves two clients: the nonces of create_prompt keep their    *)
(* prompts apart.                                                          *)
THEOREM SpecOwnPrompt == Spec => []OwnPrompt
<1>1. IInv => OwnPrompt
  BY DEF IInv
<1> QED BY <1>1, SpecInv, PTL

(* A step leaves every answered row as it is: resolve refuses it, and a    *)
(* new prompt takes a row nobody has.                                      *)
LEMMA AnsweredKept ==
    ASSUME IInv, Next, NEW p \in PromptIds, Answered(p)
    PROVE  prompts'[p] = prompts[p]
<1>1. CASE \E a \in Agents, kind \in Kinds, menu \in Menus \cup {<<>>},
              delivered, replied \in BOOLEAN :
                 PostPrompt(a, kind, menu, delivered, replied)
  <2>1. PICK row : prompts' = [prompts EXCEPT ![nextId] = row]
    BY <1>1 DEF PostPrompt, CreatePrompt
  <2>2. p < nextId
    BY DEF IInv, Allocated, Answered
  <2>3. p # nextId
    BY <2>2, PromptsAssumption DEF IInv, TypeOK, PromptTypeOK, PromptIds
  <2> QED BY <2>1, <2>3 DEF IInv, TypeOK, PromptTypeOK
<1>2. CASE \E a \in Agents :
              PollRead(a) \/ PollFail(a) \/ PollDecide(a) \/ GiveUpAsleep(a)
  BY <1>2 DEF PollRead, PollFail, PollDecide, GiveUpAsleep
<1>3. ASSUME NEW q \in PromptIds, NEW r \in Response, Resolve(q, r)
      PROVE  prompts'[p] = prompts[p]
  BY <1>3, ResolveEffect DEF IInv, TypeOK
<1>4. CASE \E q \in PromptIds : \E i \in DOMAIN prompts[q].options : Tap(q, i)
  <2>0. PICK q \in PromptIds : \E i \in DOMAIN prompts[q].options : Tap(q, i)
    BY <1>4
  <2>1. PICK i \in DOMAIN prompts[q].options :
            Resolve(q, KeyReply(prompts[q].options[i].key))
    BY <2>0 DEF Tap
  <2>2. prompts[q].options \in Seq(Option)
    BY DEF IInv, TypeOK, PromptTypeOK, Prompt
  <2>3. prompts[q].options[i] \in Option
    BY <2>2
  <2>4. KeyReply(prompts[q].options[i].key) \in Response
    BY <2>3 DEF Option, KeyReply, Response
  <2> QED BY <1>3, <2>1, <2>4
<1>5. CASE \E w \in Workers, scope \in Threads \cup {AnyThread}, t \in Texts :
              PickAsk(w, scope, t)
  BY <1>5 DEF PickAsk
<1>6. CASE \E w \in Workers : ResolvePicked(w)
  <2>1. PICK w \in Workers : ResolvePicked(w)
    BY <1>6
  <2>2. /\ worker[w].id \in PromptIds /\ worker[w].text \in Texts
        /\ Resolve(worker[w].id, TextReply(worker[w].text))
    BY <2>1 DEF ResolvePicked, IInv, PickedFreeText
  <2>3. TextReply(worker[w].text) \in Response
    BY <2>2 DEF TextReply, Response
  <2> QED BY <1>3, <2>2, <2>3
<1>7. CASE TimePasses
  BY <1>7 DEF TimePasses, Tick
<1> QED BY <1>1, <1>2, <1>4, <1>5, <1>6, <1>7 DEF Next

(* resolve is first-answer-wins for any number of racing taps, replies,    *)
(* workers and expiries: what it recorded is never written again.          *)
THEOREM SpecAnswerIsFinal == Spec => AnswerIsFinal
<1>1. IInv /\ [Next]_vars =>
        [\A p \in PromptIds : Answered(p) =>
            /\ prompts'[p].status = "answered"
            /\ prompts'[p].response = prompts[p].response]_vars
  <2> SUFFICES ASSUME IInv, Next, NEW p \in PromptIds, Answered(p)
               PROVE  /\ prompts'[p].status = "answered"
                      /\ prompts'[p].response = prompts[p].response
    OBVIOUS
  <2> QED BY AnsweredKept DEF Answered
<1> QED BY <1>1, SpecInv, PTL DEF Spec, AnswerIsFinal

-----------------------------------------------------------------------------
(* What an agent is handed, from the answer to the row to the poll.        *)

(* ask cuts the labels of a menu to 40 characters and takes them for keys: *)
(* two that begin alike have one key.  They are to have one label then.    *)
TellsApart(opts) ==
    \A i, j \in DOMAIN opts : opts[i].key = opts[j].key => opts[i].label = opts[j].label

KeysTellLabels == \A menu \in Menus : TellsApart(menu)

AskedRow(row) ==
    /\ row.type = "free_text" => row.options = <<>>
    /\ row.type = "choice_single" => TellsApart(row.options)

(* A client that is about to poll has no answer yet, and one that is done  *)
(* has the one it read.                                                    *)
AskedClient(c) ==
    /\ c.kind = "ask" /\ c.id # 0 => prompts[c.id].type # "approval"
    /\ c.pc = "wait" => c.seen.status # "answered"
    /\ c.kind = "ask" /\ c.pc = "done" /\ c.seen.status = "answered" =>
          Answered(c.id) /\ c.outcome = AnswerValue(prompts[c.id])

HearInv ==
    /\ \A p \in PromptIds :
          /\ AskedRow(prompts[p])
          /\ Answered(p) /\ prompts[p].type # "approval" => AnswerValue(prompts[p]) = meant[p]
    /\ \A a \in Agents : AskedClient(client[a])

(* The label of an option's key is that option's label. *)
LEMMA LabelOfOption ==
    ASSUME NEW opts \in Seq(Option), NEW i \in DOMAIN opts, TellsApart(opts)
    PROVE  LabelOf(opts, opts[i].key) = opts[i].label
<1> DEFINE same == {j \in DOMAIN opts : opts[j].key = opts[i].key}
<1>1. same # {} /\ same \subseteq 1 .. Len(opts) /\ Len(opts) \in Nat
  OBVIOUS
<1>2. \E j \in same : \A l \in same : l <= j
  BY <1>1, LastPosition
<1>3. PICK j : j = CHOOSE l \in same : \A n \in same : n <= l
  OBVIOUS
<1>4. j \in same
  BY <1>2, <1>3
<1>5. opts[j].label = opts[i].label
  BY <1>4 DEF TellsApart
<1>6. LabelOf(opts, opts[i].key) = opts[j].label
  BY <1>1, <1>3 DEF LabelOf
<1> QED BY <1>5, <1>6

LEMMA HearInit == Init => HearInv
<1> SUFFICES ASSUME Init PROVE HearInv
  OBVIOUS
<1>1. \A p \in PromptIds : prompts[p].type = "approval" /\ prompts[p].status = "none"
  BY DEF Init, PromptInit, NoPrompt
<1>2. \A a \in Agents : client[a].pc = "idle" /\ client[a].id = 0
  BY DEF Init, Idle
<1>3. \A p \in PromptIds : AskedRow(prompts[p]) /\ ~Answered(p)
  BY <1>1 DEF AskedRow, Answered
<1>4. \A a \in Agents : AskedClient(client[a])
  BY <1>2 DEF AskedClient
<1> QED BY <1>3, <1>4 DEF HearInv

(* An answer that is recorded is what the operator meant by it. *)
LEMMA HearSettles ==
    ASSUME IInv, HearInv, NEW p \in PromptIds, NEW r \in Response, NEW said, Resolve(p, r),
           UNCHANGED client,
           meant' = IF Accepts(p, r) THEN [meant EXCEPT ![p] = said] ELSE meant,
           \A row : (row.type # "approval" /\ row.type = prompts[p].type
                     /\ row.options = prompts[p].options /\ row.response = r) => AnswerValue(row) = said
    PROVE  HearInv'
<1>1. /\ \A q \in PromptIds :
            /\ q # p => prompts'[q] = prompts[q]
            /\ prompts'[q].type = prompts[q].type
            /\ prompts'[q].options = prompts[q].options
            /\ Answered(q) => prompts'[q] = prompts[q]
            /\ (Answered(q)' /\ ~Answered(q)) => prompts'[q].response = r
  BY ResolveEffect DEF IInv, TypeOK
<1>2. \A q \in PromptIds : AskedRow(prompts'[q])
  BY <1>1 DEF HearInv, AskedRow
<1>3. \A q \in PromptIds :
          Answered(q)' /\ prompts'[q].type # "approval" => AnswerValue(prompts'[q]) = meant'[q]
  <2> SUFFICES ASSUME NEW q \in PromptIds, Answered(q)', prompts'[q].type # "approval"
               PROVE  AnswerValue(prompts'[q]) = meant'[q]
    OBVIOUS
  <2>1. CASE Answered(q)
    <3>1. ~(Accepts(p, r) /\ q = p)
      BY <2>1 DEF Accepts, Pending, Answered
    <3>2. meant'[q] = meant[q]
      BY <3>1 DEF IInv, TypeOK
    <3> QED BY <1>1, <2>1, <3>2 DEF HearInv
  <2>2. CASE ~Answered(q)
    <3>1. q = p
      BY <1>1, <2>2 DEF Answered
    <3>2. Accepts(p, r)
      <4>1. CASE ~Accepts(p, r)
        <5>1. prompts'[p].status = prompts[p].status \/ prompts'[p].status = "expired"
          BY <4>1 DEF Resolve, RefuseAnswer, IInv, TypeOK, PromptTypeOK, Prompt
        <5> QED BY <2>2, <3>1, <5>1 DEF Answered
      <4> QED BY <4>1
    <3>3. meant'[q] = said
      BY <3>1, <3>2 DEF IInv, TypeOK
    <3>4. AnswerValue(prompts'[q]) = said
      BY <1>1, <2>2, <3>1
    <3> QED BY <3>3, <3>4
  <2> QED BY <2>1, <2>2
<1>4. ASSUME NEW a \in Agents PROVE AskedClient(client[a])'
  <2>1. AskedClient(client[a]) /\ client'[a] = client[a]
    BY DEF HearInv
  <2>2. client[a].id # 0 => client[a].id \in PromptIds
    BY PromptsAssumption DEF IInv, TypeOK, Client, PromptIds
  <2>3. client[a].pc # "idle" => client[a].id # 0
    BY DEF IInv, Allocated
  <2>4. client[a].id # 0 => prompts'[client[a].id].type = prompts[client[a].id].type
    BY <1>1, <2>2
  <2>5. client[a].id # 0 /\ Answered(client[a].id) => prompts'[client[a].id] = prompts[client[a].id]
    BY <1>1, <2>2
  <2> QED BY <2>1, <2>3, <2>4, <2>5 DEF AskedClient, Answered
<1> QED BY <1>2, <1>3, <1>4 DEF HearInv

(* A client moves on. *)
LEMMA HearClient ==
    ASSUME IInv, HearInv, NEW a \in Agents, NEW c, client' = [client EXCEPT ![a] = c],
           UNCHANGED <<prompts, meant>>, AskedClient(c)
    PROVE  HearInv'
<1>1. \A b \in Agents : client'[b] = IF b = a THEN c ELSE client[b]
  BY DEF IInv, TypeOK
<1> QED BY <1>1 DEF HearInv, AskedClient, Answered

LEMMA HearPost ==
    ASSUME IInv, HearInv, KeysTellLabels, NEW a \in Agents, NEW kind \in Kinds,
           NEW menu \in Menus \cup {<<>>},
           NEW delivered \in BOOLEAN, NEW replied \in BOOLEAN,
           PostPrompt(a, kind, menu, delivered, replied)
    PROVE  HearInv'
<1> DEFINE type == IF kind # "ask" THEN "approval"
                   ELSE IF menu = <<>> THEN "free_text" ELSE "choice_single"
           opts == IF kind = "ask" THEN menu ELSE AllowDeny
           new == [status |-> "pending", type |-> type, thread |-> ThreadOf[a],
                   options |-> opts, ref |-> NoRef, expiresAt |-> now + TTL[kind],
                   response |-> NoResponse, answeredAt |-> 0]
           cl == [pc |-> IF replied THEN "wait" ELSE "done",
                  kind |-> kind, id |-> nextId,
                  deadline |-> now + Timeout[kind], seen |-> NothingRead,
                  outcome |-> IF replied THEN "" ELSE ErrorOutcome(kind)]
<1>0. /\ nextId \in PromptIds
      /\ prompts' = [prompts EXCEPT ![nextId] = new]
      /\ client' = [client EXCEPT ![a] = cl]
      /\ UNCHANGED meant
  BY DEF PostPrompt, CreatePrompt
<1>1. PICK row : /\ prompts' = [prompts EXCEPT ![nextId] = row]
                 /\ row.status = "pending"
                 /\ row.type = IF kind # "ask" THEN "approval"
                               ELSE IF menu = <<>> THEN "free_text" ELSE "choice_single"
                 /\ row.options = IF kind = "ask" THEN menu ELSE AllowDeny
  <2>1. PICK row : row = new
    OBVIOUS
  <2>2. prompts' = [prompts EXCEPT ![nextId] = row]
    BY <1>0, <2>1
  <2>3. /\ row.status = "pending" /\ row.type = type /\ row.options = opts
    BY <2>1
  <2> QED BY <2>2, <2>3
<1>2. PICK c : /\ client' = [client EXCEPT ![a] = c]
               /\ c.kind = kind /\ c.id = nextId /\ c.seen.status = "pending"
  <2>1. PICK c : c = cl
    OBVIOUS
  <2>2. client' = [client EXCEPT ![a] = c]
    BY <1>0, <2>1
  <2>3. c.kind = kind /\ c.id = nextId /\ c.seen.status = "pending"
    BY <2>1 DEF NothingRead
  <2> QED BY <2>2, <2>3
<1> HIDE DEF type, opts, new, cl
<1>3. UNCHANGED meant /\ nextId \in PromptIds /\ nextId # 0
  BY <1>0, PromptsAssumption DEF PromptIds
<1>4. \A p \in PromptIds : prompts'[p] = IF p = nextId THEN row ELSE prompts[p]
  BY <1>1 DEF IInv, TypeOK, PromptTypeOK
<1>5. AskedRow(row)
  BY <1>1 DEF AskedRow, KeysTellLabels
<1>6. \A p \in PromptIds :
          /\ AskedRow(prompts'[p])
          /\ Answered(p)' /\ prompts'[p].type # "approval" => AnswerValue(prompts'[p]) = meant'[p]
  BY <1>1, <1>3, <1>4, <1>5 DEF HearInv, Answered
<1>7. ASSUME NEW b \in Agents PROVE AskedClient(client[b])'
  <2>1. client'[b] = IF b = a THEN c ELSE client[b]
    BY <1>2 DEF IInv, TypeOK
  <2>2. CASE b = a
    BY <1>1, <1>2, <1>3, <1>4, <2>1, <2>2 DEF AskedClient
  <2>3. CASE b # a
    <3>1. AskedClient(client[b]) /\ client'[b] = client[b]
      BY <2>1, <2>3 DEF HearInv
    <3>2. client[b].id # nextId
      <4>1. client[b].id < nextId /\ client[b].id \in Nat /\ nextId \in Nat
        BY PromptsAssumption DEF IInv, TypeOK, PromptTypeOK, Allocated, Client
      <4> QED BY <4>1
    <3>3. client[b].id # 0 => client[b].id \in PromptIds
      BY PromptsAssumption DEF IInv, TypeOK, Client, PromptIds
    <3>4. client[b].pc # "idle" => client[b].id # 0
      BY DEF IInv, Allocated
    <3>5. client[b].id # 0 => prompts'[client[b].id] = prompts[client[b].id]
      BY <1>4, <3>2, <3>3
    <3> QED BY <3>1, <3>4, <3>5 DEF AskedClient, Answered
  <2> QED BY <2>2, <2>3
<1> QED BY <1>6, <1>7 DEF HearInv

LEMMA HearPoll ==
    ASSUME IInv, HearInv, NEW a \in Agents,
           PollRead(a) \/ PollFail(a) \/ PollDecide(a) \/ GiveUpAsleep(a)
    PROVE  HearInv'
<1>1. client[a] \in Client /\ client \in [Agents -> Client] /\ AskedClient(client[a])
  BY DEF IInv, TypeOK, HearInv
<1>2. UNCHANGED <<prompts, meant>>
  BY DEF PollRead, PollFail, PollDecide, GiveUpAsleep
<1>3. CASE PollRead(a)
  <2> PICK s : s = Result(client[a].id)
    OBVIOUS
  <2> PICK c : c = [client[a] EXCEPT !.pc = "read", !.seen = s]
    OBVIOUS
  <2>1. client' = [client EXCEPT ![a] = c]
    BY <1>1, <1>3 DEF PollRead
  <2>2. c.pc = "read" /\ c.kind = client[a].kind /\ c.id = client[a].id
    BY <1>1 DEF Client
  <2>3. AskedClient(c)
    BY <1>1, <2>2 DEF AskedClient
  <2> QED BY <1>2, <2>1, <2>3, HearClient
<1>4. CASE PollFail(a) \/ GiveUpAsleep(a)
  <2> PICK o : o = ErrorOutcome(client[a].kind)
    OBVIOUS
  <2> PICK c : c = [client[a] EXCEPT !.pc = "done", !.outcome = o]
    OBVIOUS
  <2>1. client' = [client EXCEPT ![a] = c] /\ client[a].pc = "wait"
    BY <1>1, <1>4 DEF PollFail, GiveUpAsleep, Finish
  <2>2. c.pc = "done" /\ c.kind = client[a].kind /\ c.id = client[a].id /\ c.seen = client[a].seen
    BY <1>1 DEF Client
  <2>3. AskedClient(c)
    BY <1>1, <2>1, <2>2 DEF AskedClient
  <2> QED BY <1>2, <2>1, <2>3, HearClient
<1>5. CASE PollDecide(a)
  <2>1. client[a].pc = "read"
    BY <1>5 DEF PollDecide
  <2>2. CASE client[a].seen.status = "pending" /\ client' = [client EXCEPT ![a].pc = "wait"]
    <3> PICK c : c = [client[a] EXCEPT !.pc = "wait"]
      OBVIOUS
    <3>1. client' = [client EXCEPT ![a] = c]
      BY <1>1, <2>2
    <3>2. c.pc = "wait" /\ c.kind = client[a].kind /\ c.id = client[a].id /\ c.seen = client[a].seen
      BY <1>1 DEF Client
    <3>3. AskedClient(c)
      BY <1>1, <2>2, <3>2 DEF AskedClient
    <3> QED BY <1>2, <3>1, <3>3, HearClient
  <2>3. CASE Finish(a, OutcomeOf(client[a].kind, client[a].seen))
    <3> PICK o : o = OutcomeOf(client[a].kind, client[a].seen)
      OBVIOUS
    <3> PICK c : c = [client[a] EXCEPT !.pc = "done", !.outcome = o]
      OBVIOUS
    <3>1. client' = [client EXCEPT ![a] = c]
      BY <1>1, <2>3 DEF Finish
    <3>2. /\ c.pc = "done" /\ c.kind = client[a].kind /\ c.id = client[a].id
          /\ c.seen = client[a].seen /\ c.outcome = o
      BY <1>1 DEF Client
    <3>3. client[a].seen.status = "answered" =>
              /\ Answered(client[a].id)
              /\ client[a].seen.value = AnswerValue(prompts[client[a].id])
      BY <2>1 DEF IInv, ReadStillTrue
    <3>4. (client[a].kind = "ask" /\ client[a].seen.status = "answered") => o = client[a].seen.value
      BY DEF OutcomeOf, AskOutcome
    <3>5. AskedClient(c)
      BY <1>1, <3>2, <3>3, <3>4 DEF AskedClient
    <3> QED BY <1>2, <3>1, <3>5, HearClient
  <2> QED BY <1>5, <2>2, <2>3 DEF PollDecide
<1> QED BY <1>3, <1>4, <1>5

LEMMA HearTap ==
    ASSUME IInv, HearInv, NEW p \in PromptIds, NEW i \in DOMAIN prompts[p].options, Tap(p, i)
    PROVE  HearInv'
<1> PICK opts : opts = prompts[p].options
  OBVIOUS
<1> PICK r : r = KeyReply(opts[i].key)
  OBVIOUS
<1>1. opts \in Seq(Option) /\ opts[i] \in Option /\ opts # <<>>
  <2>1. opts \in Seq(Option)
    BY DEF IInv, TypeOK, PromptTypeOK, Prompt
  <2> QED BY <2>1
<1>2. r \in Response /\ r.text = NoText /\ r.keys = <<opts[i].key>> /\ r.keys # <<>> /\ r.keys[1] = opts[i].key
  BY <1>1 DEF KeyReply, Response, Option
<1>3. /\ Resolve(p, r) /\ UNCHANGED client
      /\ meant' = IF Accepts(p, r) THEN [meant EXCEPT ![p] = opts[i].label] ELSE meant
  BY DEF Tap
<1>4. ASSUME NEW row, row.type # "approval", row.type = prompts[p].type, row.options = opts, row.response = r
      PROVE  AnswerValue(row) = opts[i].label
  <2>1. prompts[p].type \in Types /\ AskedRow(prompts[p])
    BY DEF IInv, TypeOK, PromptTypeOK, Prompt, HearInv
  <2>2. TellsApart(opts)
    BY <1>1, <1>4, <2>1 DEF AskedRow, Types
  <2>3. LabelOf(opts, opts[i].key) = opts[i].label
    BY <1>1, <2>2, LabelOfOption
  <2> QED BY <1>2, <1>4, <2>3 DEF AnswerValue
<1> QED BY <1>2, <1>3, <1>4, HearSettles

LEMMA HearTyped ==
    ASSUME IInv, HearInv, NEW w \in Workers, ResolvePicked(w)
    PROVE  HearInv'
<1> PICK p : p = worker[w].id
  OBVIOUS
<1> PICK text : text = worker[w].text
  OBVIOUS
<1> PICK r : r = TextReply(text)
  OBVIOUS
<1>1. /\ Resolve(p, r) /\ UNCHANGED client
      /\ meant' = IF Accepts(p, r) THEN [meant EXCEPT ![p] = text] ELSE meant
  BY DEF ResolvePicked
<1>2. p \in PromptIds /\ text \in Texts /\ text # NoText
  BY PromptsAssumption DEF ResolvePicked, IInv, PickedFreeText
<1>3. r \in Response /\ r.text = text
  BY <1>2 DEF TextReply, Response
<1>4. \A row : (row.type # "approval" /\ row.type = prompts[p].type
                /\ row.options = prompts[p].options /\ row.response = r) => AnswerValue(row) = text
  BY <1>2, <1>3 DEF AnswerValue
<1> QED BY <1>1, <1>2, <1>3, <1>4, HearSettles

LEMMA HearNext == KeysTellLabels /\ IInv /\ HearInv /\ [Next]_vars => HearInv'
<1> SUFFICES ASSUME KeysTellLabels, IInv, HearInv, [Next]_vars PROVE HearInv'
  OBVIOUS
<1>1. CASE UNCHANGED vars \/ TimePasses
  <2>1. UNCHANGED <<prompts, client, meant>>
    BY <1>1 DEF vars, TimePasses, Tick
  <2> QED BY <2>1 DEF HearInv, AskedClient, Answered
<1>2. CASE \E w \in Workers, scope \in Threads \cup {AnyThread}, t \in Texts : PickAsk(w, scope, t)
  <2>1. UNCHANGED <<prompts, client, meant>>
    BY <1>2 DEF PickAsk
  <2> QED BY <2>1 DEF HearInv, AskedClient, Answered
<1> QED BY <1>1, <1>2, HearPost, HearPoll, HearTap, HearTyped DEF Next

(* An agent is handed what its operator tapped or typed, over any number   *)
(* of clients, workers and taps, if no menu has one key for two labels.    *)
THEOREM SpecAgentHearsOperator ==
    ASSUME KeysTellLabels
    PROVE  Spec => []AgentHearsOperator
<1>1. Init => HearInv
  BY HearInit
<1>2. IInv /\ HearInv /\ [Next]_vars => HearInv'
  BY HearNext
<1>3. IInv /\ HearInv => AgentHearsOperator
  <2> SUFFICES ASSUME IInv, HearInv, NEW a \in Agents,
                      client[a].pc = "done", client[a].kind = "ask", client[a].seen.status = "answered"
               PROVE  client[a].outcome = meant[client[a].id]
    BY DEF AgentHearsOperator
  <2>1. client[a].id # 0 /\ client[a].id \in PromptIds
    BY PromptsAssumption DEF IInv, TypeOK, Allocated, Client, PromptIds
  <2> QED BY <2>1 DEF HearInv, AskedClient
<1> QED BY <1>1, <1>2, <1>3, SpecInv, PTL DEF Spec
=============================================================================
