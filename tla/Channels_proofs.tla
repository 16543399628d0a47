--------------------------- MODULE Channels_proofs ---------------------------
(***************************************************************************)
(* The two channels people are reached by, the Telegram bot and the        *)
(* messaging gateway, for any number of updates, prompts, threads, turns,  *)
(* messages, faults and restarts, any size of a batch, and whatever lives  *)
(* the prompts, the cache entry and the watchdog's budget have.            *)
(*                                                                         *)
(* The bot.  An approval acts once although its tap may be handled again   *)
(* after a restart: only the handling whose resolve settled the prompt     *)
(* goes on to the action, and a settled prompt is never settled again      *)
(* (ActOk, CarriedOnce).  A message has one outcome in each life of the    *)
(* process: an outcome is followed by the step that persists the id, and   *)
(* the loop begins only what is above the last id it persisted (Counted).  *)
(*                                                                         *)
(* The gateway.  The order of sending: a row knows those that were put     *)
(* before it, which are older, and a poll claims the oldest; so whatever   *)
(* was put before a row is claimed, sent or dropped no later than it.      *)
(* One thread for a chat: the rows of chats are unique, and whatever is    *)
(* worked on is worked on in its chat's thread.  Recorded is the answer:   *)
(* resolve holds its row's lock, so what it records for one message is     *)
(* there for all later ones.                                               *)
(***************************************************************************)
EXTENDS TelegramBot, Gateway, Prompts_proofs, SequenceTheorems, FiniteSetTheorems,
        WellFoundedInduction

-----------------------------------------------------------------------------
(* The Telegram bot. *)

(* The invariant. *)

(* Rows in use are below nextId. *)
Allocated == \A p \in PromptIds : prompts[p].status # "none" => p < nextId

SentIds == 1 .. Len(updates)
InHand  == bot.pc \notin {"down", "poll", "next"}

(* The loop knows only what was sent, and has an update in hand while a    *)
(* handler runs: one above the last id it persisted.                       *)
LoopOk ==
    /\ bot.offset <= Len(updates) + 1
    /\ bot.lastStored <= Len(updates)
    /\ bot.todo \in Seq(SentIds)
    /\ InHand => bot.todo # <<>> /\ bot.lastStored < Current

(* Buttons are on screen before they are tapped. *)
TapsOk == \A u \in SentIds : updates[u].kind = "tap" => updates[u].nonce \in 1 .. nextId - 1

TapInHand == bot.pc \in {"resolve", "act"} => U.kind = "tap"

BotInv == TypeOK /\ Allocated /\ LoopOk /\ TapsOk /\ TapInHand

EffectRow ==
    [kind : {"answer", "prompt", "inject", "start", "llm"}, thread : Threads,
     text : Texts \cup {NoText}, prompt : PromptIds \cup {NoId}, update : Updates]

(* What an effect's update and prompt still say of it. *)
EffectOk(e) ==
    /\ e \in EffectRow /\ e.update \in SentIds
    /\ e.prompt # NoId => Answered(e.prompt)
    /\ updates[e.update].kind = "topic" => e.thread = updates[e.update].thread
    /\ e.kind = "answer" =>
          e.prompt # NoId /\ prompts[e.prompt].response = TextReply(updates[e.update].text)
    /\ (e.kind = "start" \/ (e.kind = "inject" /\ Mode[e.thread] # "trusted")) =>
          /\ e.prompt # NoId
          /\ prompts[e.prompt].response = KeyReply("allow")
          /\ prompts[e.prompt].ref =
                Ref(IF e.kind = "start" THEN "session_start" ELSE "pty_inject",
                    e.thread, e.text)

EffectsOk == effects \in Seq(EffectRow) /\ \A i \in 1 .. Len(effects) : EffectOk(effects[i])

(* A prompt has at most one effect. *)
Unused(p) == \A i \in 1 .. Len(effects) : effects[i].prompt # p

CarriedOnce ==
    \A i, j \in 1 .. Len(effects) :
        effects[i].prompt = effects[j].prompt /\ effects[i].prompt # NoId => i = j

(* The question a text is about to answer is one of its topic. *)
AskedThere ==
    bot.pc = "answer" => (U.kind = "topic" => prompts[bot.prompt].thread = U.thread)

(* Whoever is about to act is the one whose tap settled the prompt. *)
ActOk ==
    bot.pc = "act" => /\ Answered(bot.prompt) /\ Unused(bot.prompt)
                      /\ prompts[bot.prompt].response = KeyReply(U.key)

(* This life of the process may still give u an outcome. *)
Ahead(u) ==
    bot.pc = "down" \/ (bot.lastStored < u /\ (bot.pc = "persist" => u # Current))

Counted ==
    \A u \in Updates :
        Cardinality(EffectsOf(u)) <= IF Ahead(u) THEN restarts ELSE 1 + restarts

IInv == BotInv /\ EffectsOk /\ CarriedOnce /\ AskedThere /\ ActOk /\ Counted

-----------------------------------------------------------------------------
(* The table, as the bot's steps change it. *)
Evolves ==
    /\ PromptTypeOK' /\ Allocated' /\ nextId <= nextId'
    /\ \A q \in PromptIds : Answered(q) => prompts'[q] = prompts[q]
    /\ \A q \in 1 .. nextId - 1 : prompts'[q].thread = prompts[q].thread

LEMMA CreateEvolves ==
    ASSUME PromptTypeOK, Allocated, NEW type \in Types, NEW thread \in Threads,
           NEW options \in Seq(Option), NEW ref \in Refs, NEW ttl \in Nat,
           CreatePrompt(type, thread, options, ref, ttl)
    PROVE  Evolves /\ nextId \in PromptIds /\ nextId' = nextId + 1 /\ now' = now
<1>1. /\ PromptTypeOK' /\ nextId' = nextId + 1
      /\ \A q \in PromptIds : q # nextId => prompts'[q] = prompts[q]
  BY CreateEffect
<1>2. nextId \in PromptIds /\ now' = now
  BY DEF CreatePrompt
<1>3. MaxPrompts \in Nat /\ nextId \in Nat
  BY PromptsAssumption DEF PromptTypeOK
<1>4. Allocated'
  BY <1>1, <1>2, <1>3 DEF Allocated, PromptIds
<1>5. \A q \in PromptIds : Answered(q) => prompts'[q] = prompts[q]
  <2>1. ~Answered(nextId)
    BY <1>2, <1>3 DEF Allocated, Answered
  <2> QED BY <1>1, <2>1
<1>6. \A q \in 1 .. nextId - 1 : prompts'[q].thread = prompts[q].thread
  BY <1>1, <1>2, <1>3 DEF PromptIds
<1> QED BY <1>1, <1>2, <1>3, <1>4, <1>5, <1>6 DEF Evolves

LEMMA ResolveEvolves ==
    ASSUME PromptTypeOK, Allocated, NEW p \in PromptIds, NEW r \in Response, Resolve(p, r)
    PROVE  Evolves /\ nextId' = nextId /\ now' = now
<1>1. /\ PromptTypeOK' /\ UNCHANGED <<nextId, now>>
      /\ \A q \in PromptIds :
            /\ prompts'[q].thread = prompts[q].thread
            /\ Answered(q) => prompts'[q] = prompts[q]
            /\ prompts'[q].status = "none" <=> prompts[q].status = "none"
  BY ResolveEffect
<1>2. MaxPrompts \in Nat /\ nextId \in 1 .. MaxPrompts + 1
  BY PromptsAssumption DEF PromptTypeOK
<1>3. Allocated'
  BY <1>1 DEF Allocated
<1> QED BY <1>1, <1>2, <1>3 DEF Evolves, PromptIds

(* An answer that is recorded is there afterwards, and was not before. *)
LEMMA Accepted ==
    ASSUME PromptTypeOK, NEW p \in PromptIds, NEW r, Resolve(p, r), Accepts(p, r)
    PROVE  ~Answered(p) /\ Answered(p)' /\ prompts'[p].response = r
<1>1. Pending(p) /\ RecordAnswer(p, r)
  BY DEF Resolve, Accepts
<1> QED BY <1>1 DEF Pending, Answered, RecordAnswer, PromptTypeOK, Prompt

LEMMA SameEvolves ==
    ASSUME PromptTypeOK, Allocated, UNCHANGED <<prompts, nextId>>, PromptTypeOK'
    PROVE  Evolves
<1>1. nextId \in Nat
  BY PromptsAssumption DEF PromptTypeOK
<1> QED BY <1>1 DEF Evolves, Allocated

-----------------------------------------------------------------------------
(* The process. *)

LEMMA Bounds ==
    ASSUME BotInv
    PROVE  /\ MaxUpdates \in Nat /\ MaxRestarts \in Nat /\ MaxTime \in Nat /\ MaxPrompts \in Nat
           /\ nextId \in 1 .. MaxPrompts + 1 /\ now \in 0 .. MaxTime
           /\ updates \in Seq(Update) /\ Len(updates) \in 0 .. MaxUpdates
           /\ SentIds \subseteq Updates
           /\ \A u \in SentIds : updates[u] \in Update
<1>1. /\ MaxUpdates \in Nat /\ MaxRestarts \in Nat /\ MaxTime \in Nat /\ MaxPrompts \in Nat
  BY PromptsAssumption, BotAssumption
<1>2. /\ nextId \in 1 .. MaxPrompts + 1 /\ now \in 0 .. MaxTime
      /\ updates \in Seq(Update) /\ Len(updates) <= MaxUpdates
  BY DEF BotInv, TypeOK, PromptTypeOK
<1>3. Len(updates) \in Nat /\ \A u \in SentIds : updates[u] \in Update
  BY <1>2, LenProperties, ElementOfSeq DEF SentIds
<1> QED BY <1>1, <1>2, <1>3 DEF SentIds, Updates

(* The update in hand is one that was sent. *)
LEMMA CurrentSent ==
    ASSUME BotInv, bot.todo # <<>>
    PROVE  /\ Current \in SentIds /\ Current \in Updates /\ U \in Update
           /\ Tail(bot.todo) \in Seq(SentIds)
<1>1. bot.todo \in Seq(SentIds)
  BY DEF BotInv, LoopOk
<1>2. Head(bot.todo) \in SentIds /\ Tail(bot.todo) \in Seq(SentIds)
  BY <1>1, HeadTailProperties
<1> QED BY <1>2, Bounds DEF Current, U

(* A handler's step, or its end. *)
HandlerSteps == {"pick", "answer", "route", "deliver", "resolve", "act", "persist"}

LEMMA HandlerGoes ==
    ASSUME BotInv, InHand, NEW pc \in HandlerSteps, NEW p \in PromptIds \cup {NoId},
           bot' = [bot EXCEPT !.pc = pc, !.prompt = p],
           UNCHANGED <<updates, confirmed, stored, storedAt, finished, restarts, now>>,
           PromptTypeOK', Allocated', nextId <= nextId', shown' \subseteq 1 .. nextId' - 1,
           pc \in {"answer", "deliver", "act"} => p \in 1 .. nextId' - 1,
           pc \in {"resolve", "act"} => U.kind = "tap"
    PROVE  /\ BotInv'
           /\ bot'.pc = pc /\ bot'.prompt = p /\ bot'.todo = bot.todo
           /\ bot'.lastStored = bot.lastStored
           /\ Current' = Current /\ U' = U
<1>1. bot \in BotType
  BY DEF BotInv, TypeOK
<1>2. /\ bot'.pc = pc /\ bot'.prompt = p /\ bot'.todo = bot.todo
      /\ bot'.lastStored = bot.lastStored /\ bot'.offset = bot.offset
      /\ bot' \in BotType
  BY <1>1 DEF BotType, HandlerSteps
<1>3. Current' = Current /\ U' = U
  BY <1>2 DEF Current, U
<1>4. TypeOK'
  BY <1>2 DEF BotInv, TypeOK
<1>5. LoopOk'
  BY <1>2, <1>3 DEF BotInv, LoopOk, InHand, SentIds
<1>6. TapsOk'
  <2>1. 1 .. nextId - 1 \subseteq 1 .. nextId' - 1
    <3>1. nextId' \in Nat
      BY PromptsAssumption DEF PromptTypeOK
    <3> QED BY <3>1, Bounds
  <2>2. \A u \in SentIds : updates[u].kind = "tap" => updates[u].nonce \in 1 .. nextId' - 1
    BY <2>1 DEF BotInv, TapsOk
  <2> QED BY <2>2 DEF TapsOk, SentIds
<1>7. TapInHand'
  BY <1>2, <1>3 DEF TapInHand
<1> QED BY <1>2, <1>3, <1>4, <1>5, <1>6, <1>7 DEF BotInv

-----------------------------------------------------------------------------
(* Everything but the handlers keeps BotInv. *)

LEMMA InitBot == Init => BotInv
<1> SUFFICES ASSUME Init PROVE BotInv
  OBVIOUS
<1>1. PromptTypeOK /\ nextId = 1 /\ now = 0
  BY InitPrompts DEF Init, PromptInit
<1>2. MaxUpdates \in Nat /\ MaxRestarts \in Nat /\ MaxTime \in Nat
  BY PromptsAssumption, BotAssumption
<1>3. PICK e : e = <<>>
  OBVIOUS
<1>4. e \in Seq(Updates) /\ e \in Seq(SentIds) /\ e \in Seq(Update) /\ Len(e) = 0
  BY <1>3
<1>5. Down.pc = "down" /\ Down.lastStored = 0 /\ Down.offset = 1 /\ Down.todo = e
      /\ Down \in BotType
  BY <1>2, <1>3, <1>4 DEF Down, BotType, NoId
<1>6. bot = Down /\ updates = e /\ confirmed = 0 /\ stored = 0 /\ storedAt = 0
      /\ shown = {} /\ finished = {} /\ restarts = 0
  BY <1>3 DEF Init, NoId
<1>7. TypeOK
  BY <1>1, <1>2, <1>4, <1>5, <1>6 DEF TypeOK
<1>8. Allocated
  BY DEF Init, PromptInit, Allocated, NoPrompt
<1>9. LoopOk
  <2>1. bot.offset = 1 /\ bot.lastStored = 0 /\ Len(updates) = 0 /\ bot.todo \in Seq(SentIds)
    BY <1>4, <1>5, <1>6
  <2>2. ~InHand
    BY <1>5, <1>6 DEF InHand
  <2> QED BY <2>1, <2>2 DEF LoopOk
<1>10. TapsOk
  BY <1>4, <1>6 DEF TapsOk, SentIds
<1>11. TapInHand
  BY <1>5, <1>6 DEF TapInHand
<1> QED BY <1>7, <1>8, <1>9, <1>10, <1>11 DEF BotInv

(* What was sent stays what it was. *)
LEMMA SendKeeps ==
    ASSUME BotInv, NEW u \in Update, Send(u), u.kind = "tap" => u.nonce \in 1 .. nextId - 1
    PROVE  /\ BotInv'
           /\ SentIds \subseteq SentIds' /\ \A v \in SentIds : updates'[v] = updates[v]
<1>1. PICK s \in Seq(Update) : s = updates /\ Len(s) \in Nat /\ Len(s) < MaxUpdates
  BY Bounds DEF Send
<1>2. PICK t : t = updates'
  OBVIOUS
<1>3. t = Append(s, u)
  BY <1>1, <1>2 DEF Send
<1>4. /\ t \in Seq(Update) /\ Len(t) = Len(s) + 1
      /\ \A v \in 1 .. Len(s) : t[v] = s[v]
      /\ t[Len(s) + 1] = u
  BY <1>3, AppendProperties
<1>5. UNCHANGED <<promptVars, confirmed, stored, storedAt, bot, shown, finished, restarts>>
  BY DEF Send
<1>6. SentIds \subseteq SentIds' /\ \A v \in SentIds : updates'[v] = updates[v]
  BY <1>1, <1>2, <1>4 DEF SentIds
<1>7. SentIds' = SentIds \cup {Len(s) + 1}
  BY <1>1, <1>2, <1>4 DEF SentIds
<1>8. PromptTypeOK' /\ Allocated'
  BY <1>5 DEF BotInv, TypeOK, PromptTypeOK, Allocated, promptVars
<1>9. TypeOK'
  <2>1. /\ confirmed \in 0 .. Len(s) /\ stored \in 0 .. Len(s) /\ finished \subseteq 1 .. Len(s)
        /\ MaxUpdates \in Nat
    BY <1>1, Bounds DEF BotInv, TypeOK
  <2>2. /\ confirmed \in 0 .. Len(t) /\ stored \in 0 .. Len(t) /\ finished \subseteq 1 .. Len(t)
        /\ Len(t) <= MaxUpdates
    BY <1>1, <1>4, <2>1
  <2> QED BY <1>2, <1>4, <1>5, <1>8, <2>2 DEF BotInv, TypeOK, promptVars
<1>10. LoopOk'
  <2>1. bot.todo \in Seq(SentIds)
    BY DEF BotInv, LoopOk
  <2>2. bot'.todo \in Seq(SentIds')
    BY <1>5, <1>6, <2>1
  <2>3. /\ bot.offset <= Len(s) + 1 /\ bot.lastStored <= Len(s)
        /\ bot.offset \in Int /\ bot.lastStored \in Int
    BY <1>1, Bounds DEF BotInv, LoopOk, TypeOK, BotType, Updates, NoId
  <2> QED BY <1>1, <1>2, <1>4, <1>5, <2>2, <2>3 DEF BotInv, LoopOk, InHand, Current
<1>11. TapsOk'
  BY <1>1, <1>2, <1>4, <1>5, <1>6, <1>7 DEF BotInv, TapsOk, promptVars, SentIds
<1>12. TapInHand'
  <2>1. CASE bot.todo # <<>>
    BY <1>5, <1>6, <2>1, CurrentSent DEF BotInv, TapInHand, U, Current
  <2>2. CASE bot.todo = <<>>
    BY <1>5, <2>2 DEF BotInv, TapInHand, LoopOk, InHand
  <2> QED BY <2>1, <2>2
<1> QED BY <1>6, <1>8, <1>9, <1>10, <1>11, <1>12 DEF BotInv

LEMMA OperatorKeeps ==
    ASSUME BotInv, Operator
    PROVE  /\ BotInv'
           /\ SentIds \subseteq SentIds' /\ \A v \in SentIds : updates'[v] = updates[v]
           /\ UNCHANGED <<promptVars, confirmed, stored, storedAt, bot, shown, effects,
                          finished, restarts>>
<1>1. PICK u \in Update : Send(u) /\ (u.kind = "tap" => u.nonce \in 1 .. nextId - 1)
  <2> DEFINE Plain(u) == u \in Update /\ u.kind # "tap" /\ Send(u)
  <2>1. \A kind \in {"topic", "chat", "run", "other"}, t \in Threads, x \in Texts \cup {NoText} :
           Message(kind, t, x) \in Update /\ Message(kind, t, x).kind = kind
    BY PromptsAssumption DEF Message, Update
  <2>2. CASE \E t \in Threads, x \in Texts : Send(Message("topic", t, x))
    BY <2>1, <2>2
  <2>3. CASE \E x \in Texts : Send(Message("chat", ChatThread, x))
                              \/ Send(Message("run", ChatThread, x))
    BY <2>1, <2>3, BotAssumption
  <2>4. CASE Send(Message("other", ChatThread, NoText))
    BY <2>1, <2>4, BotAssumption
  <2>5. CASE \E p \in shown, k \in {"allow", "deny"} :
                Send([kind |-> "tap", thread |-> ChatThread, text |-> NoText, nonce |-> p,
                      key |-> k])
    <3>1. PICK p \in shown, k \in {"allow", "deny"} :
             Send([kind |-> "tap", thread |-> ChatThread, text |-> NoText, nonce |-> p,
                   key |-> k])
      BY <2>5
    <3>2. p \in 1 .. nextId - 1 /\ p \in PromptIds
      BY Bounds DEF BotInv, TypeOK, PromptIds
    <3>3. PICK u : u = [kind |-> "tap", thread |-> ChatThread, text |-> NoText, nonce |-> p,
                        key |-> k]
      OBVIOUS
    <3>4. u \in Update /\ u.nonce = p
      BY <3>2, <3>3, BotAssumption, PromptsAssumption DEF Update
    <3> QED BY <3>1, <3>2, <3>3, <3>4
  <2> QED BY <2>2, <2>3, <2>4, <2>5 DEF Operator
<1>2. UNCHANGED <<promptVars, confirmed, stored, storedAt, bot, shown, effects, finished,
                  restarts>>
  BY <1>1 DEF Send
<1> QED BY <1>1, <1>2, SendKeeps

LEMMA AsksKeeps ==
    ASSUME BotInv, NEW t \in Threads, AgentAsks(t)
    PROVE  BotInv' /\ Evolves /\ UNCHANGED botVars
<1>1. PromptTypeOK /\ Allocated
  BY DEF BotInv, TypeOK
<1>2. NoRef \in Refs /\ <<>> \in Seq(Option) /\ AskTTL \in Nat /\ "free_text" \in Types
  BY BotAssumption DEF NoRef, Ref, Types
<1>3. Evolves /\ nextId' = nextId + 1 /\ now' = now
  BY <1>1, <1>2, CreateEvolves, Zenon DEF AgentAsks
<1>4. UNCHANGED botVars
  BY DEF AgentAsks
<1>5. TypeOK' /\ Allocated'
  <2>1. /\ shown \subseteq 1 .. nextId' - 1
        /\ bot.pc \in {"answer", "deliver", "act"} => bot.prompt \in 1 .. nextId' - 1
    <3>1. /\ shown \subseteq 1 .. nextId - 1
          /\ bot.pc \in {"answer", "deliver", "act"} => bot.prompt \in 1 .. nextId - 1
      BY DEF BotInv, TypeOK
    <3>2. 1 .. nextId - 1 \subseteq 1 .. nextId' - 1
      BY <1>3, Bounds
    <3> QED BY <3>1, <3>2
  <2> QED BY <1>3, <1>4, <2>1 DEF Evolves, BotInv, TypeOK, botVars
<1>6. LoopOk' /\ TapInHand'
  BY <1>4 DEF BotInv, LoopOk, TapInHand, botVars, InHand, Current, U, SentIds
<1>7. TapsOk'
  BY <1>3, <1>4, Bounds DEF BotInv, TapsOk, botVars, SentIds
<1> QED BY <1>3, <1>4, <1>5, <1>6, <1>7 DEF BotInv

LEMMA TimeKeeps ==
    ASSUME BotInv, TimePasses
    PROVE  BotInv' /\ Evolves /\ UNCHANGED botVars
<1>1. UNCHANGED <<prompts, nextId>> /\ UNCHANGED botVars /\ now' = now + 1 /\ now < MaxTime
  BY DEF TimePasses, Tick
<1>2. PromptTypeOK'
  BY <1>1, Bounds DEF BotInv, TypeOK, PromptTypeOK
<1>3. Evolves
  BY <1>1, <1>2, SameEvolves DEF BotInv, TypeOK
<1>4. storedAt' \in 0 .. now'
  BY <1>1, Bounds DEF BotInv, TypeOK, botVars
<1>5. TypeOK' /\ Allocated'
  BY <1>1, <1>2, <1>4 DEF BotInv, TypeOK, botVars, Allocated
<1>6. LoopOk' /\ TapInHand' /\ TapsOk'
  BY <1>1 DEF BotInv, LoopOk, TapInHand, TapsOk, botVars, InHand, Current, U, SentIds
<1> QED BY <1>1, <1>3, <1>5, <1>6 DEF BotInv

(* A step of the process that leaves the table and the updates alone. *)
LEMMA ProcessGoes ==
    ASSUME BotInv, UNCHANGED <<promptVars, updates, shown>>, bot' \in BotType,
           bot'.pc \notin {"answer", "deliver", "act"},
           confirmed' \in 0 .. Len(updates), stored' \in 0 .. Len(updates),
           storedAt' \in 0 .. now, finished' \subseteq 1 .. Len(updates),
           restarts' \in 0 .. MaxRestarts, LoopOk', TapInHand'
    PROVE  BotInv' /\ Evolves
<1>1. PromptTypeOK' /\ Allocated' /\ UNCHANGED <<prompts, nextId, now>>
  BY DEF BotInv, TypeOK, PromptTypeOK, Allocated, promptVars
<1>2. TypeOK'
  BY <1>1 DEF BotInv, TypeOK
<1>3. TapsOk'
  BY <1>1 DEF BotInv, TapsOk, SentIds
<1>4. Evolves
  BY <1>1, SameEvolves DEF BotInv, TypeOK
<1> QED BY <1>1, <1>2, <1>3, <1>4 DEF BotInv

LEMMA StartKeeps ==
    ASSUME BotInv, Start
    PROVE  /\ BotInv' /\ Evolves /\ bot.pc = "down" /\ bot'.pc = "poll"
           /\ UNCHANGED <<promptVars, updates, effects, restarts>>
<1>1. PICK last \in {stored, NoId} :
          bot' = [Down EXCEPT !.pc = "poll", !.lastStored = last, !.offset = last + 1,
                              !.cycle = now]
  BY DEF Start
<1>2. /\ bot.pc = "down"
      /\ UNCHANGED <<promptVars, updates, confirmed, stored, storedAt, shown, effects,
                     finished, restarts>>
  BY DEF Start
<1>3. last \in 0 .. Len(updates) /\ last \in 0 .. MaxUpdates
  BY <1>1, Bounds DEF BotInv, TypeOK, NoId
<1>4. PICK e : e = <<>>
  OBVIOUS
<1>5. e \in Seq(Updates) /\ e \in Seq(SentIds)
  BY <1>4
<1>6. /\ bot'.pc = "poll" /\ bot'.lastStored = last /\ bot'.offset = last + 1
      /\ bot'.todo = e /\ bot'.prompt = NoId /\ bot'.cycle = now /\ bot'.hung = FALSE
  BY <1>1, <1>4 DEF Down
<1>7. bot' \in BotType
  <2>1. /\ Down \in [pc : {"down"}, lastStored : {NoId}, offset : {1}, todo : {e},
                     prompt : {NoId}, cycle : {0}, hung : BOOLEAN]
        /\ last \in Updates \cup {NoId} /\ last + 1 \in 1 .. MaxUpdates + 1
        /\ now \in 0 .. MaxTime
    BY <1>3, <1>4, Bounds DEF Down, Updates, NoId
  <2> QED BY <1>1, <1>5, <2>1 DEF BotType
<1>8. LoopOk' /\ TapInHand'
  <2>1. ~InHand' /\ bot'.todo \in Seq(SentIds')
    BY <1>2, <1>5, <1>6 DEF InHand, SentIds
  <2>2. bot'.offset <= Len(updates) + 1 /\ bot'.lastStored <= Len(updates)
    BY <1>3, <1>6, Bounds
  <2> QED BY <1>2, <1>6, <2>1, <2>2 DEF LoopOk, TapInHand
<1>9. /\ confirmed' \in 0 .. Len(updates) /\ stored' \in 0 .. Len(updates)
      /\ storedAt' \in 0 .. now /\ finished' \subseteq 1 .. Len(updates)
      /\ restarts' \in 0 .. MaxRestarts
  BY <1>2 DEF BotInv, TypeOK
<1> QED BY <1>2, <1>6, <1>7, <1>8, <1>9, ProcessGoes

LEMMA PollKeeps ==
    ASSUME BotInv, Poll
    PROVE  /\ BotInv' /\ Evolves /\ bot.pc = "poll" /\ bot'.pc = "next"
           /\ bot'.lastStored = bot.lastStored
           /\ UNCHANGED <<promptVars, updates, effects, restarts>>
<1>1. PICK known : known = IF bot.offset - 1 > confirmed THEN bot.offset - 1 ELSE confirmed
  OBVIOUS
<1>2. PICK n : n = Len(updates)
  OBVIOUS
<1>3. PICK s : s = [i \in 1 .. n - known |-> known + i]
  OBVIOUS
<1>4. /\ bot.pc = "poll" /\ confirmed' = known
      /\ bot' = [bot EXCEPT !.pc = "next", !.cycle = now, !.todo = s]
      /\ UNCHANGED <<promptVars, updates, stored, storedAt, shown, effects, finished,
                     restarts>>
  BY <1>1, <1>2, <1>3 DEF Poll
<1>5. bot \in BotType
  BY DEF BotInv, TypeOK
<1>6. n \in Nat /\ n <= MaxUpdates /\ known \in 0 .. n
  <2>1. /\ bot.offset \in 1 .. MaxUpdates + 1 /\ bot.offset <= n + 1
        /\ confirmed \in 0 .. n
    BY <1>2, <1>5 DEF BotInv, LoopOk, TypeOK, BotType
  <2> QED BY <1>1, <1>2, <2>1, Bounds
<1>7. s \in Seq(1 .. n)
  <2>1. s \in [1 .. n - known -> 1 .. n]
    BY <1>3, <1>6
  <2> QED BY <1>6, <2>1, SeqDef
<1>8. s \in Seq(SentIds) /\ s \in Seq(Updates)
  <2>1. SentIds = 1 .. n /\ 1 .. n \subseteq Updates
    BY <1>2, <1>6, Bounds DEF SentIds, Updates
  <2> QED BY <1>7, <2>1, SeqMonotonic
<1>9. /\ bot'.pc = "next" /\ bot'.todo = s /\ bot'.lastStored = bot.lastStored
      /\ bot'.offset = bot.offset /\ bot' \in BotType
  BY <1>4, <1>5, <1>8, Bounds DEF BotType
<1>10. LoopOk' /\ TapInHand'
  <2>1. ~InHand' /\ bot'.todo \in Seq(SentIds')
    BY <1>4, <1>8, <1>9 DEF InHand, SentIds
  <2> QED BY <1>4, <1>9, <2>1 DEF BotInv, LoopOk, TapInHand
<1>11. /\ confirmed' \in 0 .. Len(updates) /\ stored' \in 0 .. Len(updates)
       /\ storedAt' \in 0 .. now /\ finished' \subseteq 1 .. Len(updates)
       /\ restarts' \in 0 .. MaxRestarts
  BY <1>2, <1>4, <1>6 DEF BotInv, TypeOK
<1> QED BY <1>4, <1>9, <1>10, <1>11, ProcessGoes

LEMMA BeginKeeps ==
    ASSUME BotInv, Begin
    PROVE  /\ BotInv' /\ Evolves /\ bot.pc = "next"
           /\ bot'.pc \in {"poll", "next", "pick", "route", "resolve", "persist"}
           /\ bot'.lastStored = bot.lastStored
           /\ UNCHANGED <<promptVars, updates, effects, restarts>>
<1>1. /\ bot.pc = "next"
      /\ UNCHANGED <<promptVars, updates, confirmed, stored, storedAt, shown, effects,
                     finished, restarts>>
  BY DEF Begin
<1>2. bot \in BotType /\ bot.todo \in Seq(SentIds)
  BY DEF BotInv, TypeOK, LoopOk
<1>3. /\ confirmed' \in 0 .. Len(updates) /\ stored' \in 0 .. Len(updates)
      /\ storedAt' \in 0 .. now /\ finished' \subseteq 1 .. Len(updates)
      /\ restarts' \in 0 .. MaxRestarts
  BY <1>1 DEF BotInv, TypeOK
<1>4. SentIds' = SentIds /\ bot.offset <= Len(updates) + 1 /\ bot.lastStored <= Len(updates)
  BY <1>1 DEF SentIds, BotInv, LoopOk
<1>5. CASE bot.todo = <<>> /\ bot' = [bot EXCEPT !.pc = "poll"]
  <2>1. /\ bot' \in BotType /\ bot'.pc = "poll" /\ bot'.todo = bot.todo
        /\ bot'.offset = bot.offset /\ bot'.lastStored = bot.lastStored
    BY <1>2, <1>5 DEF BotType
  <2>2. LoopOk' /\ TapInHand'
    BY <1>1, <1>2, <1>4, <2>1 DEF LoopOk, TapInHand, InHand
  <2> QED BY <1>1, <1>3, <2>1, <2>2, ProcessGoes
<1>6. CASE bot.todo # <<>> /\ bot' = [bot EXCEPT !.todo = Tail(@)]
  <2>1. PICK s \in Seq(SentIds) : s = Tail(bot.todo)
    BY <1>6, CurrentSent
  <2>2. s \in Seq(Updates)
    BY Bounds, SeqMonotonic
  <2>3. /\ bot' \in BotType /\ bot'.pc = "next" /\ bot'.todo = s
        /\ bot'.offset = bot.offset /\ bot'.lastStored = bot.lastStored
    BY <1>1, <1>2, <1>6, <2>1, <2>2 DEF BotType
  <2>4. LoopOk' /\ TapInHand'
    BY <1>1, <1>4, <2>3 DEF LoopOk, TapInHand, InHand
  <2> QED BY <1>1, <1>3, <2>3, <2>4, ProcessGoes
<1>7. CASE /\ bot.todo # <<>> /\ ~(Current <= bot.lastStored)
           /\ bot' = [bot EXCEPT !.pc = FirstStep, !.offset = Current + 1]
  <2>1. Current \in SentIds /\ U \in Update
    BY <1>7, CurrentSent
  <2>2. PICK pc \in {"pick", "route", "resolve", "persist"} :
           pc = FirstStep /\ (pc = "resolve" => U.kind = "tap")
    BY <2>1 DEF FirstStep, Update
  <2>3. PICK c : c = Current
    OBVIOUS
  <2>4. c \in 1 .. Len(updates) /\ c + 1 \in 1 .. MaxUpdates + 1 /\ c + 1 <= Len(updates) + 1
    BY <2>1, <2>3, Bounds DEF SentIds
  <2>5. /\ bot' \in BotType /\ bot'.pc = pc /\ bot'.todo = bot.todo
        /\ bot'.offset = c + 1 /\ bot'.lastStored = bot.lastStored
    BY <1>2, <1>7, <2>2, <2>3, <2>4 DEF BotType
  <2>6. Current' = Current /\ U' = U
    BY <1>1, <2>5 DEF Current, U
  <2>7. bot.lastStored < c
    <3>1. bot.lastStored \in Int
      BY <1>2, Bounds DEF BotType, Updates, NoId
    <3> QED BY <1>7, <2>3, <2>4, <3>1
  <2>8. LoopOk'
    BY <1>1, <1>2, <1>4, <1>7, <2>3, <2>4, <2>5, <2>6, <2>7 DEF LoopOk
  <2>9. TapInHand'
    BY <2>2, <2>5, <2>6 DEF TapInHand
  <2> QED BY <1>1, <1>3, <2>2, <2>5, <2>8, <2>9, ProcessGoes
<1> QED BY <1>5, <1>6, <1>7 DEF Begin

LEMMA PersistKeeps ==
    ASSUME BotInv, Persist
    PROVE  /\ BotInv' /\ Evolves /\ bot.pc = "persist" /\ bot'.pc = "next"
           /\ bot'.lastStored = Current /\ bot.lastStored < Current /\ Current \in SentIds
           /\ UNCHANGED <<promptVars, updates, effects, restarts>>
<1>1. PICK c : c = Current
  OBVIOUS
<1>2. /\ bot.pc = "persist" /\ stored' = c /\ storedAt' = now
      /\ finished' = finished \cup {c}
      /\ bot' = [bot EXCEPT !.pc = "next", !.lastStored = c, !.todo = Tail(@), !.prompt = NoId]
      /\ UNCHANGED <<promptVars, updates, confirmed, shown, effects, restarts>>
  BY <1>1 DEF Persist
<1>3. bot.todo # <<>> /\ bot.lastStored < c
  BY <1>1, <1>2 DEF BotInv, LoopOk, InHand
<1>4. c \in SentIds /\ c \in Updates /\ c \in 1 .. Len(updates) /\ c \in 0 .. Len(updates)
  BY <1>1, <1>3, CurrentSent DEF SentIds
<1>5. PICK s \in Seq(SentIds) : s = Tail(bot.todo)
  BY <1>3, CurrentSent
<1>6. s \in Seq(Updates)
  BY Bounds, SeqMonotonic
<1>7. bot \in BotType /\ bot.offset <= Len(updates) + 1
  BY DEF BotInv, TypeOK, LoopOk
<1>8. /\ bot' \in BotType /\ bot'.pc = "next" /\ bot'.todo = s
      /\ bot'.offset = bot.offset /\ bot'.lastStored = c
  BY <1>2, <1>4, <1>5, <1>6, <1>7 DEF BotType
<1>9. LoopOk' /\ TapInHand'
  <2>1. SentIds' = SentIds
    BY <1>2 DEF SentIds
  <2>2. c <= Len(updates) /\ bot'.todo \in Seq(SentIds')
    BY <1>4, <1>5, <1>8, <2>1, Bounds
  <2>3. ~InHand' /\ Len(updates') = Len(updates)
    BY <1>2, <1>8 DEF InHand
  <2> QED BY <1>7, <1>8, <2>2, <2>3 DEF LoopOk, TapInHand
<1>10. /\ confirmed' \in 0 .. Len(updates) /\ stored' \in 0 .. Len(updates)
       /\ storedAt' \in 0 .. now /\ finished' \subseteq 1 .. Len(updates)
       /\ restarts' \in 0 .. MaxRestarts
  <2>1. now \in 0 .. now
    BY Bounds
  <2> QED BY <1>2, <1>4, <2>1 DEF BotInv, TypeOK
<1> QED BY <1>1, <1>2, <1>3, <1>4, <1>8, <1>9, <1>10, ProcessGoes

LEMMA HangKeeps ==
    ASSUME BotInv, Hang
    PROVE  /\ BotInv' /\ Evolves /\ Current' = Current /\ U' = U
           /\ bot'.pc = bot.pc /\ bot'.prompt = bot.prompt /\ bot'.lastStored = bot.lastStored
           /\ UNCHANGED <<promptVars, updates, effects, restarts>>
<1>1. /\ bot' = [bot EXCEPT !.hung = TRUE]
      /\ UNCHANGED <<promptVars, updates, confirmed, stored, storedAt, shown, effects,
                     finished, restarts>>
  BY DEF Hang
<1>2. bot \in BotType
  BY DEF BotInv, TypeOK
<1>3. /\ bot' \in BotType /\ bot'.pc = bot.pc /\ bot'.prompt = bot.prompt
      /\ bot'.todo = bot.todo /\ bot'.lastStored = bot.lastStored /\ bot'.offset = bot.offset
  BY <1>1, <1>2 DEF BotType
<1>4. Current' = Current /\ U' = U
  BY <1>1, <1>3 DEF Current, U
<1>5. PromptTypeOK' /\ Allocated' /\ nextId' = nextId /\ now' = now
  BY <1>1 DEF BotInv, TypeOK, PromptTypeOK, Allocated, promptVars
<1>6. TypeOK'
  BY <1>1, <1>3, <1>5 DEF BotInv, TypeOK
<1>7. LoopOk' /\ TapsOk' /\ TapInHand'
  BY <1>1, <1>3, <1>4, <1>5 DEF BotInv, LoopOk, TapsOk, TapInHand, InHand, SentIds
<1>8. Evolves
  BY <1>1, <1>5, SameEvolves DEF BotInv, TypeOK, promptVars
<1> QED BY <1>1, <1>3, <1>4, <1>5, <1>6, <1>7, <1>8 DEF BotInv

LEMMA ExitKeeps ==
    ASSUME BotInv, Exit, restarts < MaxRestarts
    PROVE  /\ BotInv' /\ Evolves /\ bot'.pc = "down" /\ restarts' = restarts + 1
           /\ UNCHANGED <<promptVars, updates, effects>>
<1>1. /\ bot' = Down /\ restarts' = restarts + 1
      /\ UNCHANGED <<promptVars, updates, confirmed, stored, storedAt, shown, effects,
                     finished>>
  BY DEF Exit
<1>2. PICK e : e = <<>>
  OBVIOUS
<1>3. e \in Seq(Updates) /\ e \in Seq(SentIds)
  BY <1>2
<1>4. /\ bot'.pc = "down" /\ bot'.lastStored = 0 /\ bot'.offset = 1 /\ bot'.todo = e
      /\ bot' \in BotType
  BY <1>1, <1>2, <1>3, Bounds DEF Down, BotType, NoId
<1>5. LoopOk' /\ TapInHand'
  <2>1. ~InHand' /\ bot'.todo \in Seq(SentIds')
    BY <1>1, <1>3, <1>4 DEF InHand, SentIds
  <2>2. bot'.offset <= Len(updates) + 1 /\ bot'.lastStored <= Len(updates)
    BY <1>4, Bounds
  <2> QED BY <1>1, <1>4, <2>1, <2>2 DEF LoopOk, TapInHand
<1>6. /\ confirmed' \in 0 .. Len(updates) /\ stored' \in 0 .. Len(updates)
      /\ storedAt' \in 0 .. now /\ finished' \subseteq 1 .. Len(updates)
      /\ restarts' \in 0 .. MaxRestarts
  BY <1>1, Bounds DEF BotInv, TypeOK
<1> QED BY <1>1, <1>4, <1>5, <1>6, ProcessGoes

-----------------------------------------------------------------------------
(* What left the process. *)

UpdatesKept == SentIds \subseteq SentIds' /\ \A v \in SentIds : updates'[v] = updates[v]

LEMMA EffectStays ==
    ASSUME BotInv, BotInv', Evolves, UpdatesKept, NEW e, EffectOk(e)
    PROVE  EffectOk(e)'
<1>1. /\ e \in EffectRow /\ e.update \in SentIds'
      /\ updates'[e.update] = updates[e.update]
  BY DEF EffectOk, UpdatesKept
<1>2. ASSUME e.prompt # NoId
      PROVE  Answered(e.prompt)' /\ prompts'[e.prompt] = prompts[e.prompt]
  <2>1. Answered(e.prompt) /\ e.prompt \in PromptIds
    BY <1>1, <1>2 DEF EffectOk, EffectRow
  <2> QED BY <2>1 DEF Evolves, Answered
<1> QED BY <1>1, <1>2 DEF EffectOk

LEMMA Finite == IsFiniteSet(DOMAIN effects) => \A u : IsFiniteSet(EffectsOf(u))
<1> SUFFICES ASSUME IsFiniteSet(DOMAIN effects), NEW u PROVE IsFiniteSet(EffectsOf(u))
  OBVIOUS
<1>1. EffectsOf(u) \in SUBSET (DOMAIN effects)
  BY DEF EffectsOf
<1> QED BY <1>1, FS_Subset

LEMMA EffectFacts ==
    ASSUME EffectsOk
    PROVE  /\ Len(effects) \in Nat /\ DOMAIN effects = 1 .. Len(effects)
           /\ \A u : IsFiniteSet(EffectsOf(u)) /\ Cardinality(EffectsOf(u)) \in Nat
<1>1. Len(effects) \in Nat /\ DOMAIN effects = 1 .. Len(effects)
  BY LenProperties DEF EffectsOk
<1>2. IsFiniteSet(DOMAIN effects)
  BY <1>1, FS_Interval
<1> QED BY <1>1, <1>2, Finite, FS_CardinalityType

(* A step that adds no outcome, and gives no update a new chance of one but  *)
(* by a restart.                                                             *)
LEMMA NoEffect ==
    ASSUME IInv, BotInv', Evolves, UpdatesKept, UNCHANGED effects,
           restarts' \in {restarts, restarts + 1},
           \A u \in Updates : Ahead(u)' => (restarts' = restarts + 1 \/ Ahead(u))
    PROVE  /\ EffectsOk' /\ CarriedOnce' /\ Counted'
           /\ \A p : Unused(p) => Unused(p)'
<1>1. EffectsOk'
  <2>1. \A e : EffectOk(e) => EffectOk(e)'
    BY EffectStays DEF IInv
  <2> QED BY <2>1 DEF IInv, EffectsOk
<1>2. CarriedOnce' /\ \A p : Unused(p) => Unused(p)'
  BY DEF IInv, CarriedOnce, Unused
<1>3. Counted'
  <2> SUFFICES ASSUME NEW u \in Updates
               PROVE  Cardinality(EffectsOf(u)') <= IF Ahead(u)' THEN restarts' ELSE 1 + restarts'
    BY DEF Counted
  <2>1. PICK n \in Nat : n = Cardinality(EffectsOf(u))
    BY EffectFacts DEF IInv
  <2>2. EffectsOf(u)' = EffectsOf(u)
    BY DEF EffectsOf
  <2>3. n <= IF Ahead(u) THEN restarts ELSE 1 + restarts
    BY <2>1 DEF IInv, Counted
  <2>4. restarts \in Nat
    BY Bounds DEF IInv, BotInv, TypeOK
  <2>5. n <= IF Ahead(u)' THEN restarts' ELSE 1 + restarts'
    <3>1. CASE Ahead(u)' /\ Ahead(u)
      BY <2>1, <2>3, <2>4, <3>1
    <3>2. CASE ~Ahead(u)' \/ ~Ahead(u)
      <4>1. n <= 1 + restarts /\ (restarts' = restarts + 1 \/ ~Ahead(u)')
        BY <2>1, <2>3, <2>4, <3>2
      <4> QED BY <2>1, <2>4, <4>1
    <3> QED BY <3>1, <3>2
  <2> QED BY <2>1, <2>2, <2>5
<1> QED BY <1>1, <1>2, <1>3

(* A step that adds one, with which the handler ends. *)
LEMMA OneEffect ==
    ASSUME IInv, BotInv', Evolves, NEW e, effects' = Append(effects, e), e.update = Current,
           EffectOk(e)', e.prompt # NoId => Unused(e.prompt),
           InHand, bot.pc # "persist", bot'.pc = "persist", Current' = Current,
           UNCHANGED <<updates, restarts>>, bot'.lastStored = bot.lastStored
    PROVE  EffectsOk' /\ CarriedOnce' /\ Counted'
<1>1. PICK s \in Seq(EffectRow) : s = effects
  BY DEF IInv, EffectsOk
<1>2. PICK t : t = effects'
  OBVIOUS
<1>3. e \in EffectRow
  BY DEF EffectOk
<1>4. t = Append(s, e) /\ Len(s) \in Nat
  BY <1>1, <1>2, LenProperties
<1>5. /\ t \in Seq(EffectRow) /\ Len(t) = Len(s) + 1 /\ t[Len(s) + 1] = e
      /\ \A i \in 1 .. Len(s) : t[i] = s[i]
  BY <1>3, <1>4, AppendProperties
<1>6. EffectsOk'
  <2>1. UpdatesKept
    BY DEF UpdatesKept, SentIds
  <2>2. \A f : EffectOk(f) => EffectOk(f)'
    BY <2>1, EffectStays DEF IInv
  <2>3. \A i \in 1 .. Len(s) : EffectOk(s[i])
    BY <1>1 DEF IInv, EffectsOk
  <2>4. ASSUME NEW i \in 1 .. Len(t) PROVE EffectOk(t[i])'
    <3>1. CASE i \in 1 .. Len(s)
      BY <1>5, <2>2, <2>3, <3>1
    <3>2. CASE i = Len(s) + 1
      BY <1>5, <3>2
    <3> QED BY <1>4, <1>5, <3>1, <3>2
  <2> QED BY <1>2, <1>5, <2>4 DEF EffectsOk
<1>7. CarriedOnce'
  <2>1. \A i \in 1 .. Len(s) : t[i].prompt # NoId => t[i].prompt # t[Len(s) + 1].prompt
    BY <1>1, <1>5 DEF Unused
  <2>2. \A i, j \in 1 .. Len(s) : t[i].prompt = t[j].prompt /\ t[i].prompt # NoId => i = j
    BY <1>1, <1>5 DEF IInv, CarriedOnce
  <2>3. \A i \in 1 .. Len(t) : i \in 1 .. Len(s) \/ i = Len(s) + 1
    BY <1>4, <1>5
  <2>4. ASSUME NEW i \in 1 .. Len(t), NEW j \in 1 .. Len(t),
               t[i].prompt = t[j].prompt, t[i].prompt # NoId
        PROVE  i = j
    BY <2>1, <2>2, <2>3, <2>4
  <2> QED BY <1>2, <2>4 DEF CarriedOnce
<1>8. Counted'
  <2> SUFFICES ASSUME NEW u \in Updates
               PROVE  Cardinality(EffectsOf(u)') <= IF Ahead(u)' THEN restarts' ELSE 1 + restarts'
    BY DEF Counted
  <2>1. PICK O : O = EffectsOf(u) /\ IsFiniteSet(O) /\ Cardinality(O) \in Nat
    BY EffectFacts DEF IInv
  <2>2. PICK n \in Nat : n = Cardinality(O)
    BY <2>1
  <2>3. PICK N : N = EffectsOf(u)'
    OBVIOUS
  <2>4. O = {i \in 1 .. Len(s) : s[i].update = u} /\ N = {i \in 1 .. Len(t) : t[i].update = u}
    <3>1. DOMAIN s = 1 .. Len(s) /\ DOMAIN t = 1 .. Len(t)
      BY <1>1, <1>5, LenProperties
    <3> QED BY <1>1, <1>2, <2>1, <2>3, <3>1 DEF EffectsOf
  <2>5. restarts \in Nat
    BY Bounds DEF IInv, BotInv, TypeOK
  <2>6. n <= IF Ahead(u) THEN restarts ELSE 1 + restarts
    BY <2>1, <2>2 DEF IInv, Counted
  <2>7. CASE u = Current
    <3>1. N = O \cup {Len(s) + 1}
      BY <1>4, <1>5, <2>4, <2>7
    <3>2. Cardinality(N) \in {n, n + 1}
      BY <2>1, <2>2, <3>1, FS_AddElement
    <3>3. Ahead(u)
      BY <2>7 DEF Ahead, IInv, BotInv, LoopOk
    <3>4. ~Ahead(u)'
      BY <2>7 DEF Ahead
    <3>5. Cardinality(N) <= 1 + restarts
      BY <2>2, <2>5, <2>6, <3>2, <3>3
    <3> QED BY <2>3, <3>4, <3>5
  <2>8. CASE u # Current
    <3>1. N = O
      BY <1>4, <1>5, <2>4, <2>8
    <3>2. Ahead(u)' => Ahead(u)
      BY DEF Ahead, InHand
    <3>3. n <= IF Ahead(u)' THEN restarts ELSE 1 + restarts
      BY <2>2, <2>5, <2>6, <3>2
    <3> QED BY <2>2, <2>3, <3>1, <3>3
  <2> QED BY <2>7, <2>8
<1> QED BY <1>6, <1>7, <1>8

-----------------------------------------------------------------------------
(* The handlers. *)

LEMMA ShownKept ==
    ASSUME BotInv, nextId <= nextId', nextId' \in Nat
    PROVE  shown \subseteq 1 .. nextId' - 1 /\ 1 .. nextId - 1 \subseteq 1 .. nextId' - 1
<1>1. shown \subseteq 1 .. nextId - 1
  BY DEF BotInv, TypeOK
<1>2. 1 .. nextId - 1 \subseteq 1 .. nextId' - 1
  BY Bounds
<1> QED BY <1>1, <1>2

(* A handler's step without an outcome. *)
LEMMA QuietGoes ==
    ASSUME IInv, Handling, NEW pc \in HandlerSteps, NEW p \in PromptIds \cup {NoId},
           bot' = [bot EXCEPT !.pc = pc, !.prompt = p], Evolves,
           UNCHANGED <<updates, confirmed, stored, storedAt, finished, restarts, now, effects>>,
           shown' \subseteq 1 .. nextId' - 1,
           pc \in {"answer", "deliver", "act"} => p \in 1 .. nextId' - 1,
           pc \in {"resolve", "act"} => U.kind = "tap",
           pc = "answer" => (U.kind = "topic" => prompts'[p].thread = U.thread),
           pc = "act" => /\ Answered(p)' /\ Unused(p)
                         /\ prompts'[p].response = KeyReply(U.key)
    PROVE  IInv'
<1>1. BotInv /\ InHand /\ bot.pc \notin {"down", "persist"}
  BY DEF IInv, Handling, InHand
<1>2. PromptTypeOK' /\ Allocated' /\ nextId <= nextId'
  BY DEF Evolves
<1>3. /\ BotInv'
      /\ bot'.pc = pc /\ bot'.prompt = p /\ bot'.todo = bot.todo
      /\ bot'.lastStored = bot.lastStored
      /\ Current' = Current /\ U' = U
  BY <1>1, <1>2, HandlerGoes, Zenon
<1>4. UpdatesKept
  BY DEF UpdatesKept, SentIds
<1>5. \A u \in Updates : Ahead(u)' => Ahead(u)
  BY <1>1, <1>3 DEF Ahead, HandlerSteps
<1>6. /\ EffectsOk' /\ CarriedOnce' /\ Counted'
      /\ \A q : Unused(q) => Unused(q)'
  BY <1>3, <1>4, <1>5, NoEffect
<1>7. AskedThere'
  BY <1>3 DEF AskedThere
<1>8. ActOk'
  <2>1. Answered(p)' => Answered(bot.prompt)'
    BY <1>3 DEF Answered
  <2>2. Unused(p) => Unused(bot.prompt)'
    BY <1>3 DEF Unused
  <2> QED BY <1>3, <2>1, <2>2 DEF ActOk
<1> QED BY <1>3, <1>6, <1>7, <1>8 DEF IInv

(* A handler's step that ends it with an outcome. *)
LEMMA OutcomeGoes ==
    ASSUME IInv, Handling, NEW e, Evolves,
           bot' = [bot EXCEPT !.pc = "persist", !.prompt = NoId],
           UNCHANGED <<updates, confirmed, stored, storedAt, shown, finished, restarts, now>>,
           effects' = Append(effects, e), e.update = Current,
           EffectOk(e)', e.prompt # NoId => Unused(e.prompt)
    PROVE  IInv'
<1>1. BotInv /\ InHand /\ bot.pc \notin {"down", "persist"}
  BY DEF IInv, Handling, InHand
<1>2. PromptTypeOK' /\ Allocated' /\ nextId <= nextId' /\ nextId' \in Nat
  BY PromptsAssumption DEF Evolves, PromptTypeOK
<1>3. shown' \subseteq 1 .. nextId' - 1
  BY <1>1, <1>2, ShownKept
<1>4. /\ BotInv'
      /\ bot'.pc = "persist" /\ bot'.lastStored = bot.lastStored
      /\ Current' = Current
  <2> DEFINE pc == "persist"
  <2>1. pc \in HandlerSteps /\ pc \notin {"answer", "deliver", "act", "resolve"}
    BY DEF HandlerSteps
  <2> QED BY <1>1, <1>2, <1>3, <2>1, HandlerGoes
<1>5. EffectsOk' /\ CarriedOnce' /\ Counted'
  BY <1>1, <1>4, OneEffect
<1>6. AskedThere' /\ ActOk'
  BY <1>4 DEF AskedThere, ActOk
<1> QED BY <1>4, <1>5, <1>6 DEF IInv

LEMMA HeldUpdate ==
    ASSUME IInv, Handling
    PROVE  /\ Current \in SentIds /\ Current \in Updates /\ U \in Update
           /\ BotInv /\ PromptTypeOK /\ Allocated /\ bot.prompt \in PromptIds \cup {NoId}
<1>1. BotInv /\ bot.todo # <<>>
  BY DEF IInv, BotInv, LoopOk, InHand, Handling
<1> QED BY <1>1, CurrentSent DEF BotInv, TypeOK, BotType

LEMMA RaiseKeeps == IInv /\ Raise => IInv'
<1> SUFFICES ASSUME IInv, Raise PROVE IInv'
  OBVIOUS
<1>1. /\ bot' = [bot EXCEPT !.pc = "persist", !.prompt = NoId]
      /\ UNCHANGED <<updates, confirmed, stored, storedAt, shown, finished, restarts, effects>>
      /\ UNCHANGED <<prompts, nextId, now>> /\ Handling
  BY DEF Raise, Goto, promptVars
<1>2. PromptTypeOK' /\ shown' \subseteq 1 .. nextId' - 1 /\ BotInv /\ PromptTypeOK /\ Allocated
  BY <1>1 DEF IInv, BotInv, TypeOK, PromptTypeOK
<1>3. Evolves
  BY <1>1, <1>2, SameEvolves
<1> DEFINE pc == "persist"
<1>4. pc \in HandlerSteps /\ pc \notin {"answer", "deliver", "act", "resolve"}
  BY DEF HandlerSteps
<1> QED BY <1>1, <1>2, <1>3, <1>4, QuietGoes

LEMMA DeliverKeeps == IInv /\ Deliver => IInv'
<1> SUFFICES ASSUME IInv, Deliver PROVE IInv'
  OBVIOUS
<1>1. /\ bot' = [bot EXCEPT !.pc = "persist", !.prompt = NoId]
      /\ UNCHANGED <<updates, confirmed, stored, storedAt, finished, restarts, effects>>
      /\ UNCHANGED <<prompts, nextId, now>> /\ Handling
      /\ shown' = shown \cup {bot.prompt} /\ bot.pc = "deliver"
  BY DEF Deliver, promptVars, Handling
<1>2. PromptTypeOK' /\ shown' \subseteq 1 .. nextId' - 1 /\ BotInv /\ PromptTypeOK /\ Allocated
  BY <1>1 DEF IInv, BotInv, TypeOK, PromptTypeOK
<1>3. Evolves
  BY <1>1, <1>2, SameEvolves
<1> DEFINE pc == "persist"
<1>4. pc \in HandlerSteps /\ pc \notin {"answer", "deliver", "act", "resolve"}
  BY DEF HandlerSteps
<1> QED BY <1>1, <1>2, <1>3, <1>4, QuietGoes

LEMMA PickKeeps == IInv /\ Pick => IInv'
<1> SUFFICES ASSUME IInv, Pick PROVE IInv'
  OBVIOUS
<1>1. /\ UNCHANGED <<updates, confirmed, stored, storedAt, shown, finished, restarts, effects>>
      /\ UNCHANGED <<prompts, nextId, now>> /\ Handling
  BY DEF Pick, Goto, promptVars, Handling
<1>2. PromptTypeOK' /\ shown' \subseteq 1 .. nextId' - 1 /\ BotInv /\ PromptTypeOK /\ Allocated
  BY <1>1 DEF IInv, BotInv, TypeOK, PromptTypeOK
<1>3. Evolves
  BY <1>1, <1>2, SameEvolves
<1>4. CASE Goto("route", NoId)
  <2> DEFINE pc == "route"
  <2>1. pc \in HandlerSteps /\ pc \notin {"answer", "deliver", "act", "resolve"}
    BY DEF HandlerSteps
  <2>2. bot' = [bot EXCEPT !.pc = pc, !.prompt = NoId]
    BY <1>4 DEF Goto
  <2> QED BY <1>1, <1>2, <1>3, <2>1, <2>2, QuietGoes
<1>5. CASE \E p \in Waiting : Goto("answer", p)
  <2>1. PICK p \in Waiting : Goto("answer", p)
    BY <1>5
  <2>2. /\ p \in PromptIds /\ prompts[p].status = "pending"
        /\ U.kind = "topic" => prompts[p].thread = U.thread
    BY DEF Waiting, Pending
  <2>3. p \in 1 .. nextId' - 1
    BY <1>1, <1>2, <2>2, Bounds DEF Allocated, PromptIds
  <2> DEFINE pc == "answer"
  <2>4. pc \in HandlerSteps /\ pc \notin {"act", "resolve"}
    BY DEF HandlerSteps
  <2>5. bot' = [bot EXCEPT !.pc = pc, !.prompt = p]
    BY <2>1 DEF Goto
  <2>6. U.kind = "topic" => prompts'[p].thread = U.thread
    BY <1>1, <2>2
  <2>7. p \in PromptIds \cup {NoId}
    BY <2>2
  <2> QED BY <1>1, <1>2, <1>3, <2>3, <2>4, <2>5, <2>6, <2>7, QuietGoes
<1> QED BY <1>4, <1>5 DEF Pick

(* What has not been answered has had no effect. *)
LEMMA UnansweredUnused ==
    ASSUME EffectsOk, NEW p \in PromptIds, ~Answered(p)
    PROVE  Unused(p)
<1>1. p # NoId
  BY DEF PromptIds, NoId
<1> QED BY <1>1 DEF EffectsOk, EffectOk, Unused

LEMMA AnswerKeeps == IInv /\ Answer => IInv'
<1> SUFFICES ASSUME IInv, Answer PROVE IInv'
  OBVIOUS
<1>1. /\ Handling /\ bot.pc = "answer"
      /\ UNCHANGED <<updates, confirmed, stored, storedAt, shown, finished, restarts>>
  BY DEF Answer, Goto, Handling
<1>2. /\ Current \in SentIds /\ Current \in Updates /\ U \in Update
      /\ BotInv /\ PromptTypeOK /\ Allocated
  BY <1>1, HeldUpdate
<1>3. PICK p : p = bot.prompt
  OBVIOUS
<1>4. p \in PromptIds /\ p # NoId
  BY <1>1, <1>2, <1>3, Bounds DEF TypeOK, BotInv, PromptIds, NoId
<1>5. PICK r : r = TextReply(U.text)
  OBVIOUS
<1>6. r \in Response
  BY <1>2, <1>5 DEF TextReply, Response, Update
<1>7. Resolve(p, r)
  BY <1>3, <1>5 DEF Answer
<1>8. Evolves /\ nextId' = nextId /\ now' = now
  BY <1>2, <1>4, <1>6, <1>7, ResolveEvolves
<1>9. shown' \subseteq 1 .. nextId' - 1
  BY <1>1, <1>2, <1>8 DEF BotInv, TypeOK
<1>10. CASE /\ Accepts(p, r) /\ Goto("persist", NoId)
            /\ Effect("answer", prompts[p].thread, U.text, p)
  <2>1. PICK e : e = [kind |-> "answer", thread |-> prompts[p].thread, text |-> U.text,
                      prompt |-> p, update |-> Current]
    OBVIOUS
  <2>2. /\ effects' = Append(effects, e) /\ e.update = Current /\ e.prompt = p
        /\ e.kind = "answer" /\ e.thread = prompts[p].thread
    BY <1>10, <2>1 DEF Effect
  <2>3. ~Answered(p) /\ Answered(p)' /\ prompts'[p].response = r
    BY <1>2, <1>4, <1>7, <1>10, Accepted
  <2>4. Unused(p)
    BY <1>4, <2>3, UnansweredUnused DEF IInv
  <2>5. e \in EffectRow
    <3>1. prompts[p].thread \in Threads /\ U.text \in Texts \cup {NoText}
      BY <1>2, <1>4 DEF PromptTypeOK, Prompt, Update
    <3> QED BY <1>2, <1>4, <2>1, <3>1 DEF EffectRow
  <2>6. e.update \in SentIds' /\ updates'[e.update] = U
    BY <1>1, <1>2, <2>2 DEF SentIds, U
  <2>7. U.kind = "topic" => e.thread = U.thread
    BY <1>1, <1>3, <2>2 DEF IInv, AskedThere
  <2>8. Answered(e.prompt)'
    BY <2>2, <2>3 DEF Answered
  <2>9. prompts'[e.prompt].response = TextReply(U.text)
    BY <1>5, <2>2, <2>3
  <2>10. EffectOk(e)'
    BY <1>4, <2>2, <2>5, <2>6, <2>7, <2>8, <2>9 DEF EffectOk
  <2>11. bot' = [bot EXCEPT !.pc = "persist", !.prompt = NoId]
    BY <1>10 DEF Goto
  <2> QED BY <1>1, <1>8, <2>2, <2>4, <2>10, <2>11, OutcomeGoes
<1>11. CASE ~Accepts(p, r) /\ Goto("route", NoId) /\ UNCHANGED effects
  <2> DEFINE pc == "route"
  <2>1. pc \in HandlerSteps /\ pc \notin {"answer", "deliver", "act", "resolve"}
    BY DEF HandlerSteps
  <2>2. bot' = [bot EXCEPT !.pc = pc, !.prompt = NoId]
    BY <1>11 DEF Goto
  <2> QED BY <1>1, <1>8, <1>9, <1>11, <2>1, <2>2, QuietGoes
<1> QED BY <1>3, <1>5, <1>10, <1>11 DEF Answer

(* A text that goes to where its thread leads.  Only a trusted terminal is   *)
(* typed into.                                                               *)
LEMMA DispatchKeeps ==
    ASSUME IInv, bot.pc = "route", NEW kind \in {"prompt", "inject", "llm"}, Dispatch(kind),
           kind = "inject" => Mode[U.thread] = "trusted"
    PROVE  IInv'
<1>1. Handling
  BY DEF Handling
<1>2. /\ Current \in SentIds /\ Current \in Updates /\ U \in Update
      /\ BotInv /\ PromptTypeOK /\ Allocated
  BY <1>1, HeldUpdate
<1>3. /\ bot' = [bot EXCEPT !.pc = "persist", !.prompt = NoId]
      /\ UNCHANGED <<updates, confirmed, stored, storedAt, shown, finished, restarts>>
      /\ UNCHANGED <<prompts, nextId, now>>
  BY DEF Dispatch, Goto, promptVars
<1>4. PICK e : e = [kind |-> kind, thread |-> U.thread, text |-> U.text, prompt |-> NoId,
                    update |-> Current]
  OBVIOUS
<1>5. /\ effects' = Append(effects, e) /\ e.update = Current /\ e.prompt = NoId
      /\ e.kind = kind /\ e.thread = U.thread
  BY <1>4 DEF Dispatch, Effect
<1>6. e \in EffectRow
  BY <1>2, <1>4 DEF EffectRow, Update
<1>7. e.update \in SentIds' /\ updates'[e.update] = U
  BY <1>2, <1>3, <1>5 DEF SentIds, U
<1>8. EffectOk(e)'
  BY <1>5, <1>6, <1>7 DEF EffectOk
<1>9. Evolves
  BY <1>2, <1>3, SameEvolves DEF PromptTypeOK
<1> QED BY <1>1, <1>3, <1>5, <1>8, <1>9, OutcomeGoes

LEMMA AskKeeps ==
    ASSUME IInv, bot.pc = "route", NEW action \in {"pty_inject", "session_start"},
           AskApproval(action)
    PROVE  IInv'
<1>1. Handling
  BY DEF Handling
<1>2. U \in Update /\ BotInv /\ PromptTypeOK /\ Allocated
  BY <1>1, HeldUpdate
<1>3. PICK ref : ref = Ref(action, U.thread, U.text)
  OBVIOUS
<1>4. ref \in Refs /\ U.thread \in Threads
  BY <1>2, <1>3, BotAssumption DEF Ref, Update
<1>5. AllowDeny \in Seq(Option) /\ ApprovalTTL \in Nat /\ "approval" \in Types
  BY AllowDenyType, BotAssumption DEF Types
<1>6. CreatePrompt("approval", U.thread, AllowDeny, ref, ApprovalTTL)
  BY <1>3 DEF AskApproval
<1>7. Evolves /\ nextId \in PromptIds /\ nextId' = nextId + 1 /\ now' = now
  BY <1>2, <1>4, <1>5, <1>6, CreateEvolves, Zenon
<1>8. /\ UNCHANGED <<updates, confirmed, stored, storedAt, shown, finished, restarts, effects>>
      /\ bot' = [bot EXCEPT !.pc = "deliver", !.prompt = nextId]
  BY DEF AskApproval, Goto
<1>9. PICK p \in PromptIds : p = nextId /\ p \in Nat
  BY <1>2, <1>7, Bounds
<1>10. p \in 1 .. nextId' - 1 /\ shown' \subseteq 1 .. nextId' - 1
  <2>1. nextId <= nextId' /\ nextId' \in Nat
    BY <1>7, <1>9
  <2>2. p \in 1 .. nextId' - 1
    BY <1>7, <1>9 DEF PromptIds
  <2> QED BY <1>2, <1>8, <2>1, <2>2, ShownKept
<1> DEFINE pc == "deliver"
<1>11. pc \in HandlerSteps /\ pc \notin {"answer", "act", "resolve"}
  BY DEF HandlerSteps
<1>12. p \in PromptIds \cup {NoId} /\ bot' = [bot EXCEPT !.pc = pc, !.prompt = p]
  BY <1>8, <1>9
<1> QED BY <1>1, <1>7, <1>8, <1>10, <1>11, <1>12, QuietGoes

LEMMA RouteKeeps == IInv /\ Route => IInv'
<1> SUFFICES ASSUME IInv, bot.pc = "route", RouteTopic \/ RouteChat \/ RouteRun PROVE IInv'
  BY DEF Route
<1>1. CASE RouteChat
  BY <1>1, DispatchKeeps DEF RouteChat
<1>2. CASE RouteRun
  BY <1>2, AskKeeps DEF RouteRun
<1>3. CASE RouteTopic
  <2>1. U.thread \in Threads /\ BotInv
    BY HeldUpdate DEF Handling, Update
  <2>2. Mode[U.thread] \in Modes
    BY <2>1, BotAssumption
  <2>3. CASE Mode[U.thread] = "api"
    <3>1. /\ Goto("persist", NoId) /\ UNCHANGED <<promptVars, effects>> /\ Raise
      BY <1>3, <2>3 DEF RouteTopic, Raise, Handling
    <3> QED BY <3>1, RaiseKeeps
  <2>4. CASE Mode[U.thread] = "headless"
    BY <1>3, <2>4, DispatchKeeps DEF RouteTopic
  <2>5. CASE Mode[U.thread] = "trusted"
    BY <1>3, <2>5, DispatchKeeps DEF RouteTopic
  <2>6. CASE Mode[U.thread] = "pty"
    BY <1>3, <2>6, AskKeeps DEF RouteTopic
  <2> QED BY <2>2, <2>3, <2>4, <2>5, <2>6 DEF Modes
<1> QED BY <1>1, <1>2, <1>3

LEMMA ResolveTapKeeps == IInv /\ ResolveTap => IInv'
<1> SUFFICES ASSUME IInv, ResolveTap PROVE IInv'
  OBVIOUS
<1>1. /\ Handling /\ bot.pc = "resolve"
      /\ UNCHANGED <<updates, confirmed, stored, storedAt, shown, finished, restarts, effects>>
  BY DEF ResolveTap, Goto, Handling
<1>2. /\ Current \in SentIds /\ U \in Update
      /\ BotInv /\ PromptTypeOK /\ Allocated
  BY <1>1, HeldUpdate
<1>3. PICK p : p = U.nonce
  OBVIOUS
<1>4. U.kind = "tap" /\ p \in 1 .. nextId - 1 /\ p \in PromptIds
  <2>1. U.kind = "tap"
    BY <1>1, <1>2 DEF BotInv, TapInHand
  <2>2. p \in 1 .. nextId - 1
    BY <1>2, <1>3, <2>1 DEF BotInv, TapsOk, U
  <2> QED BY <1>2, <2>1, <2>2, Bounds DEF PromptIds
<1>5. PICK r : r = KeyReply(U.key)
  OBVIOUS
<1>6. r \in Response
  <2>1. <<U.key>> \in Seq(Keys)
    BY <1>2 DEF Update
  <2> QED BY <1>5, <2>1 DEF KeyReply, Response
<1>7. Resolve(p, r)
  BY <1>3, <1>5 DEF ResolveTap
<1>8. Evolves /\ nextId' = nextId /\ now' = now
  BY <1>2, <1>4, <1>6, <1>7, ResolveEvolves
<1>9. shown' \subseteq 1 .. nextId' - 1
  BY <1>1, <1>2, <1>8 DEF BotInv, TypeOK
<1>10. CASE Accepts(p, r) /\ Goto("act", p)
  <2>1. ~Answered(p) /\ Answered(p)' /\ prompts'[p].response = KeyReply(U.key)
    BY <1>2, <1>4, <1>5, <1>7, <1>10, Accepted
  <2>2. Unused(p)
    BY <1>4, <2>1, UnansweredUnused DEF IInv
  <2> DEFINE pc == "act"
  <2>3. pc \in HandlerSteps /\ pc # "answer"
    BY DEF HandlerSteps
  <2>4. p \in PromptIds \cup {NoId} /\ bot' = [bot EXCEPT !.pc = pc, !.prompt = p]
    BY <1>4, <1>10 DEF Goto
  <2>5. p \in 1 .. nextId' - 1
    BY <1>4, <1>8
  <2> QED BY <1>1, <1>4, <1>8, <1>9, <2>1, <2>2, <2>3, <2>4, <2>5, QuietGoes
<1>11. CASE Goto("persist", NoId)
  <2> DEFINE pc == "persist"
  <2>1. pc \in HandlerSteps /\ pc \notin {"answer", "deliver", "act", "resolve"}
    BY DEF HandlerSteps
  <2>2. bot' = [bot EXCEPT !.pc = pc, !.prompt = NoId]
    BY <1>11 DEF Goto
  <2> QED BY <1>1, <1>8, <1>9, <2>1, <2>2, QuietGoes
<1> QED BY <1>3, <1>5, <1>10, <1>11 DEF ResolveTap

LEMMA ActKeeps == IInv /\ Act => IInv'
<1> SUFFICES ASSUME IInv, Act PROVE IInv'
  OBVIOUS
<1>1. /\ Handling /\ bot.pc = "act"
      /\ UNCHANGED <<updates, confirmed, stored, storedAt, shown, finished, restarts>>
      /\ UNCHANGED <<prompts, nextId, now>>
      /\ bot' = [bot EXCEPT !.pc = "persist", !.prompt = NoId]
  BY DEF Act, Goto, Handling, promptVars
<1>2. /\ Current \in SentIds /\ Current \in Updates /\ U \in Update /\ U.kind = "tap"
      /\ BotInv /\ PromptTypeOK /\ Allocated
  BY <1>1, HeldUpdate DEF BotInv, TapInHand
<1>3. PICK p : p = bot.prompt
  OBVIOUS
<1>4. p \in PromptIds /\ p # NoId
  BY <1>1, <1>2, <1>3, Bounds DEF TypeOK, BotInv, PromptIds, NoId
<1>5. /\ Answered(p) /\ Unused(p) /\ prompts[p].response = KeyReply(U.key)
  BY <1>1, <1>3 DEF IInv, ActOk
<1>6. PICK ref : ref = prompts[p].ref
  OBVIOUS
<1>7. /\ ref.action \in {"none", "pty_inject", "session_start"} /\ ref.thread \in Threads
      /\ ref.text \in Texts \cup {NoText} /\ ref = Ref(ref.action, ref.thread, ref.text)
  <2>1. ref \in Refs
    BY <1>2, <1>4, <1>6 DEF PromptTypeOK, Prompt
  <2> QED BY <2>1, BotAssumption DEF Ref
<1>8. CASE U.key = "allow" /\ ref.action # "none"
  <2>1. PICK kind \in {"inject", "start"} :
            /\ ref.action = IF kind = "start" THEN "session_start" ELSE "pty_inject"
            /\ Effect(kind, ref.thread, ref.text, p)
    <3>1. Effect(IF ref.action = "pty_inject" THEN "inject" ELSE "start", ref.thread,
                 ref.text, p)
      BY <1>3, <1>6, <1>8 DEF Act
    <3>2. CASE ref.action = "pty_inject"
      BY <3>1, <3>2
    <3>3. CASE ref.action = "session_start"
      BY <3>1, <3>3
    <3> QED BY <1>7, <1>8, <3>2, <3>3
  <2>2. PICK e : e = [kind |-> kind, thread |-> ref.thread, text |-> ref.text,
                      prompt |-> p, update |-> Current]
    OBVIOUS
  <2>3. /\ effects' = Append(effects, e) /\ e.update = Current /\ e.prompt = p
        /\ e.kind = kind /\ e.thread = ref.thread /\ e.text = ref.text
    BY <2>1, <2>2 DEF Effect
  <2>4. e \in EffectRow
    BY <1>2, <1>4, <1>7, <2>2 DEF EffectRow
  <2>5. e.update \in SentIds' /\ updates'[e.update] = U
    BY <1>1, <1>2, <2>3 DEF SentIds, U
  <2>6. /\ Answered(e.prompt)' /\ prompts'[e.prompt].response = KeyReply("allow")
        /\ prompts'[e.prompt].ref = ref
    BY <1>1, <1>5, <1>6, <1>8, <2>3 DEF Answered
  <2>7. ref = Ref(IF e.kind = "start" THEN "session_start" ELSE "pty_inject", e.thread, e.text)
    BY <1>7, <2>1, <2>3
  <2>8. EffectOk(e)'
    BY <1>2, <1>4, <2>1, <2>3, <2>4, <2>5, <2>6, <2>7 DEF EffectOk
  <2>9. Evolves
    BY <1>1, <1>2, SameEvolves DEF PromptTypeOK
  <2> QED BY <1>1, <1>5, <2>3, <2>8, <2>9, OutcomeGoes
<1>9. CASE ~(U.key = "allow" /\ ref.action # "none")
  <2>1. Raise
    BY <1>1, <1>3, <1>6, <1>9 DEF Act, Raise
  <2> QED BY <2>1, RaiseKeeps
<1> QED BY <1>8, <1>9

-----------------------------------------------------------------------------
(* All steps. *)

LEMMA InitIInv == Init => IInv
<1> SUFFICES ASSUME Init PROVE IInv
  OBVIOUS
<1>1. BotInv /\ bot.pc = "down" /\ restarts = 0
  BY InitBot DEF Init, Down
<1>2. PICK e : e = <<>>
  OBVIOUS
<1>3. effects = e /\ e \in Seq(EffectRow) /\ Len(e) = 0 /\ DOMAIN e = {}
  BY <1>2 DEF Init
<1>4. EffectsOk /\ CarriedOnce
  BY <1>3 DEF EffectsOk, CarriedOnce
<1>5. \A u : Cardinality(EffectsOf(u)) = 0
  <2>1. \A u : EffectsOf(u) = {}
    BY <1>3 DEF EffectsOf
  <2> QED BY <2>1, FS_EmptySet
<1>6. Counted
  BY <1>1, <1>5 DEF Counted
<1>7. AskedThere /\ ActOk
  BY <1>1 DEF AskedThere, ActOk
<1> QED BY <1>1, <1>4, <1>6, <1>7 DEF IInv

(* While others go on, a handler that waits keeps what it found. *)
LEMMA HandlerWaits ==
    ASSUME IInv, Evolves, UNCHANGED effects, bot'.pc = bot.pc, bot'.prompt = bot.prompt,
           InHand => U' = U
    PROVE  AskedThere' /\ ActOk'
<1>1. bot.pc \in {"answer", "act"} => InHand /\ bot.prompt \in 1 .. nextId - 1
                                      /\ bot.prompt \in PromptIds
  <2>1. bot.pc \in {"answer", "act"} => InHand /\ bot.prompt \in 1 .. nextId - 1
    BY DEF IInv, BotInv, TypeOK, InHand
  <2>2. 1 .. nextId - 1 \subseteq PromptIds
    BY Bounds DEF IInv, PromptIds
  <2> QED BY <2>1, <2>2
<1>2. AskedThere'
  BY <1>1 DEF AskedThere, Evolves, IInv
<1>3. bot.pc = "act" => /\ prompts'[bot.prompt] = prompts[bot.prompt]
                        /\ Answered(bot.prompt) /\ Unused(bot.prompt)
                        /\ prompts[bot.prompt].response = KeyReply(U.key)
  BY <1>1 DEF IInv, ActOk, Evolves
<1>4. ActOk'
  BY <1>1, <1>3 DEF ActOk, Answered, Unused
<1> QED BY <1>2, <1>4

LEMMA OthersKeep ==
    ASSUME IInv, Operator \/ (\E t \in Threads : AgentAsks(t)) \/ TimePasses
    PROVE  IInv'
<1>1. BotInv
  BY DEF IInv
<1>2. BotInv' /\ Evolves /\ UpdatesKept /\ UNCHANGED <<bot, effects, restarts>>
  <2>1. CASE Operator
    <3>1. /\ BotInv' /\ UpdatesKept /\ UNCHANGED <<promptVars, bot, effects, restarts>>
      BY <1>1, <2>1, OperatorKeeps DEF UpdatesKept
    <3>2. Evolves
      BY <1>1, <3>1, SameEvolves DEF BotInv, TypeOK, promptVars
    <3> QED BY <3>1, <3>2
  <2>2. CASE \E t \in Threads : AgentAsks(t)
    BY <1>1, <2>2, AsksKeeps DEF UpdatesKept, SentIds, botVars
  <2>3. CASE TimePasses
    BY <1>1, <2>3, TimeKeeps DEF UpdatesKept, SentIds, botVars
  <2> QED BY <2>1, <2>2, <2>3
<1>3. \A u \in Updates : Ahead(u)' => Ahead(u)
  BY <1>2 DEF Ahead, Current
<1>4. EffectsOk' /\ CarriedOnce' /\ Counted'
  BY <1>2, <1>3, NoEffect
<1>5. InHand => U' = U
  BY <1>1, <1>2, CurrentSent DEF U, Current, UpdatesKept, BotInv, LoopOk
<1>6. AskedThere' /\ ActOk'
  BY <1>2, <1>5, HandlerWaits
<1> QED BY <1>2, <1>4, <1>6 DEF IInv

LEMMA LoopKeeps ==
    ASSUME IInv, Start \/ Poll \/ Begin \/ Persist
    PROVE  IInv'
<1>1. BotInv
  BY DEF IInv
<1>2. /\ BotInv' /\ Evolves /\ bot'.pc \notin {"answer", "act"}
      /\ UNCHANGED <<promptVars, updates, effects, restarts>>
  BY <1>1, StartKeeps, PollKeeps, BeginKeeps, PersistKeeps
<1>3. bot.lastStored \in Int /\ \A u \in Updates : u \in Int
  BY <1>1, Bounds DEF BotInv, TypeOK, BotType, Updates, NoId
<1>4. \A u \in Updates : Ahead(u)' => Ahead(u)
  <2>1. CASE Start
    BY <1>1, <2>1, StartKeeps DEF Ahead
  <2>2. CASE Poll
    BY <1>1, <2>2, PollKeeps DEF Ahead
  <2>3. CASE Begin
    BY <1>1, <2>3, BeginKeeps DEF Ahead
  <2>4. CASE Persist
    <3>1. PICK c : c = Current
      OBVIOUS
    <3>2. /\ bot'.pc = "next" /\ bot'.lastStored = c /\ bot.lastStored < c /\ c \in Updates
      BY <1>1, <2>4, <3>1, PersistKeeps, Bounds
    <3> SUFFICES ASSUME NEW u \in Updates, Ahead(u)' PROVE Ahead(u)
      OBVIOUS
    <3>3. c < u
      BY <3>2 DEF Ahead
    <3>4. bot.lastStored < u /\ u # c
      BY <1>3, <3>2, <3>3
    <3> QED BY <3>1, <3>4 DEF Ahead
  <2> QED BY <2>1, <2>2, <2>3, <2>4
<1>5. UpdatesKept
  BY <1>2 DEF UpdatesKept, SentIds
<1>6. EffectsOk' /\ CarriedOnce' /\ Counted'
  BY <1>2, <1>4, <1>5, NoEffect
<1>7. AskedThere' /\ ActOk'
  BY <1>2 DEF AskedThere, ActOk
<1> QED BY <1>2, <1>6, <1>7 DEF IInv

LEMMA FailureKeeps ==
    ASSUME IInv, Hang \/ Watchdog \/ Crash
    PROVE  IInv'
<1>1. BotInv
  BY DEF IInv
<1>2. CASE Hang
  <2>1. /\ BotInv' /\ Evolves /\ Current' = Current /\ U' = U
        /\ bot'.pc = bot.pc /\ bot'.prompt = bot.prompt /\ bot'.lastStored = bot.lastStored
        /\ UNCHANGED <<promptVars, updates, effects, restarts>>
    BY <1>1, <1>2, HangKeeps
  <2>2. UpdatesKept /\ \A u \in Updates : Ahead(u)' => Ahead(u)
    BY <2>1 DEF UpdatesKept, SentIds, Ahead
  <2>3. EffectsOk' /\ CarriedOnce' /\ Counted'
    BY <2>1, <2>2, NoEffect
  <2>4. AskedThere' /\ ActOk'
    BY <2>1, HandlerWaits
  <2> QED BY <2>1, <2>3, <2>4 DEF IInv
<1>3. CASE Watchdog \/ Crash
  <2>1. Exit /\ restarts < MaxRestarts
    BY <1>3 DEF Watchdog, Crash
  <2>2. /\ BotInv' /\ Evolves /\ bot'.pc = "down" /\ restarts' = restarts + 1
        /\ UNCHANGED <<promptVars, updates, effects>>
    BY <1>1, <2>1, ExitKeeps
  <2>3. UpdatesKept
    BY <2>2 DEF UpdatesKept, SentIds
  <2>4. EffectsOk' /\ CarriedOnce' /\ Counted'
    BY <2>2, <2>3, NoEffect
  <2>5. AskedThere' /\ ActOk'
    BY <2>2 DEF AskedThere, ActOk
  <2> QED BY <2>2, <2>4, <2>5 DEF IInv
<1> QED BY <1>2, <1>3

LEMMA StutterKeeps == IInv /\ UNCHANGED vars => IInv'
<1> SUFFICES ASSUME IInv, UNCHANGED vars PROVE IInv'
  OBVIOUS
<1>1. /\ UNCHANGED <<prompts, nextId, now>> /\ UNCHANGED botVars
  BY DEF vars, promptVars
<1>2. UNCHANGED <<updates, confirmed, stored, storedAt, bot, shown, effects, finished, restarts>>
  BY <1>1 DEF botVars
<1>3. BotInv'
  BY <1>1, <1>2 DEF IInv, BotInv, TypeOK, PromptTypeOK, Allocated, LoopOk, TapsOk, TapInHand,
        InHand, SentIds, Current, U
<1>4. EffectsOk' /\ CarriedOnce'
  BY <1>1, <1>2 DEF IInv, EffectsOk, EffectOk, CarriedOnce, Answered, SentIds
<1>5. AskedThere' /\ ActOk' /\ Counted'
  BY <1>1, <1>2 DEF IInv, AskedThere, ActOk, Counted, Answered, Unused, U, Current, Ahead,
        EffectsOf
<1> QED BY <1>3, <1>4, <1>5 DEF IInv

LEMMA NextIInv == IInv /\ [Next]_vars => IInv'
<1> SUFFICES ASSUME IInv, [Next]_vars PROVE IInv'
  OBVIOUS
<1>1. CASE Operator \/ (\E t \in Threads : AgentAsks(t)) \/ TimePasses
  BY <1>1, OthersKeep
<1>2. CASE BotStep
  <2>1. CASE Start \/ Poll \/ Begin \/ Persist
    BY <2>1, LoopKeeps
  <2>2. CASE Handle
    BY <2>2, PickKeeps, AnswerKeeps, RouteKeeps, DeliverKeeps, ResolveTapKeeps, ActKeeps,
       RaiseKeeps DEF Handle
  <2> QED BY <1>2, <2>1, <2>2 DEF BotStep
<1>3. CASE Hang \/ Watchdog \/ Crash
  BY <1>3, FailureKeeps
<1>4. CASE UNCHANGED vars
  BY <1>4, StutterKeeps
<1> QED BY <1>1, <1>2, <1>3, <1>4 DEF Next

LEMMA SpecIInv == Spec => []IInv
BY InitIInv, NextIInv, PTL DEF Spec

-----------------------------------------------------------------------------
(* Theorems. *)

(* The process's own books: among the types, that an update in hand was sent *)
(* and is above the last one persisted, and that only a prompt that exists   *)
(* is on screen, in a tap or in a handler's hands.                           *)
THEOREM BotKeepsItsBooks == Spec => []BotInv
<1>1. IInv => BotInv
  BY DEF IInv
<1> QED BY SpecIInv, <1>1, PTL

(* Nothing is typed into an untrusted terminal or launched without an        *)
(* approval that bound just that and was allowed, and never twice, though    *)
(* taps are repeated, redelivered and handled again after a restart.         *)
THEOREM SpecApprovedOnce == Spec => []ApprovedOnce
<1>1. IInv => ApprovedOnce
  <2> SUFFICES ASSUME IInv, NEW i \in DOMAIN effects,
                      effects[i].kind = "start"
                        \/ (effects[i].kind = "inject" /\ Mode[effects[i].thread] # "trusted")
               PROVE  /\ effects[i].prompt # NoId /\ Answered(effects[i].prompt)
                      /\ prompts[effects[i].prompt].response = KeyReply("allow")
                      /\ prompts[effects[i].prompt].ref =
                            Ref(IF effects[i].kind = "start" THEN "session_start"
                                ELSE "pty_inject", effects[i].thread, effects[i].text)
                      /\ \A j \in DOMAIN effects :
                            effects[j].prompt = effects[i].prompt => j = i
    BY DEF ApprovedOnce
  <2>1. DOMAIN effects = 1 .. Len(effects)
    BY EffectFacts DEF IInv
  <2>2. EffectOk(effects[i])
    BY <2>1 DEF IInv, EffectsOk
  <2> QED BY <2>1, <2>2 DEF EffectOk, IInv, CarriedOnce
<1> QED BY SpecIInv, <1>1, PTL

(* A message answers a question or drives a session, once in each life of    *)
(* the process, in the topic it was typed in, and as it was typed.           *)
THEOREM SpecOneOutcome == Spec => []OneOutcome
<1>1. IInv => OneOutcome
  <2> SUFFICES ASSUME IInv PROVE OneOutcome
    OBVIOUS
  <2>1. DOMAIN effects = 1 .. Len(effects)
    BY EffectFacts DEF IInv
  <2>2. ASSUME NEW u \in Updates PROVE Cardinality(EffectsOf(u)) <= 1 + restarts
    <3>1. PICK n \in Nat : n = Cardinality(EffectsOf(u))
      BY EffectFacts DEF IInv
    <3>2. n <= IF Ahead(u) THEN restarts ELSE 1 + restarts
      BY <3>1 DEF IInv, Counted
    <3>3. restarts \in Nat
      BY Bounds DEF IInv, BotInv, TypeOK
    <3>4. n <= 1 + restarts
      BY <3>1, <3>2, <3>3
    <3> QED BY <3>1, <3>4
  <2>3. ASSUME NEW i \in DOMAIN effects
        PROVE  /\ updates[effects[i].update].kind = "topic"
                     => effects[i].thread = updates[effects[i].update].thread
               /\ effects[i].kind = "answer" =>
                     prompts[effects[i].prompt].response
                        = TextReply(updates[effects[i].update].text)
    <3>1. EffectOk(effects[i])
      BY <2>1 DEF IInv, EffectsOk
    <3> QED BY <3>1 DEF EffectOk
  <2> QED BY <2>2, <2>3 DEF OneOutcome
<1> QED BY SpecIInv, <1>1, PTL

-----------------------------------------------------------------------------
(* The messaging gateway: the outbox. *)

Row  == [prompt : PromptIds \cup {NoPromptId}, before : SUBSET Nat]
Side == [up : BOOLEAN, poll : BOOLEAN, batch : SUBSET Nat]

Shapes ==
    /\ outbox \in Seq(Row) /\ put \subseteq 1 .. Len(outbox) /\ claimed \subseteq put
    /\ sent \in Seq(claimed) /\ side \in Side /\ side.batch \subseteq claimed

(* Row s was put when row r began. *)
Precedes(s, r) == s \in outbox[r].before

(* What was put before a row is older; and what was put before a row that is *)
(* claimed, sent or in the sidecar's hands is as far.                        *)
InOrder ==
    /\ \A r \in 1 .. Len(outbox) : \A s \in put : Precedes(s, r) => s < r
    /\ \A r \in 1 .. Len(outbox) : outbox[r].before \subseteq put
    /\ \A r \in claimed : \A s \in put \ claimed : ~Precedes(s, r)
    /\ \A i \in 1 .. Len(sent) :
           sent[i] \notin side.batch /\ \A s \in side.batch : ~Precedes(s, sent[i])

OrderInv == Shapes /\ InOrder /\ SentOnceInOrder

LEMMA InitOrder == GatewayInit => OrderInv
<1> SUFFICES ASSUME GatewayInit PROVE OrderInv
  OBVIOUS
<1>1. outbox \in Seq(Row) /\ sent \in Seq(claimed) /\ SideOff \in Side
  BY EmptySeq DEF GatewayInit, SideOff, Side
<1>2. Len(outbox) = 0 /\ Len(sent) = 0 /\ side.batch = {} /\ put = {} /\ claimed = {}
  BY EmptySeq DEF GatewayInit, SideOff
<1>3. DOMAIN sent = 1 .. Len(sent)
  BY <1>1, LenProperties
<1> QED  BY <1>1, <1>2, <1>3 DEF GatewayInit, OrderInv, Shapes, InOrder, SentOnceInOrder

(* Steps that leave the rows alone. *)
LEMMA ElsewhereOrder ==
    ASSUME OrderInv, UNCHANGED <<outbox, put, claimed, side, sent>>
    PROVE  OrderInv'
BY DEF OrderInv, Shapes, InOrder, SentOnceInOrder, Precedes

(* The rows stay, and the newest of them is none that was put. *)
LEMMA StampedOrder ==
    ASSUME OrderInv, NEW x \in PromptIds \cup {NoPromptId}, Stamped(x),
           UNCHANGED <<put, claimed, side, sent>>
    PROVE  OrderInv'
<1> DEFINE row == [prompt |-> x, before |-> put]
<1>1. outbox \in Seq(Row) /\ put \subseteq 1 .. Len(outbox) /\ Len(outbox) \in Nat
  BY LenProperties DEF OrderInv, Shapes
<1>2. row \in Row
  BY <1>1 DEF Row
<1>3. /\ outbox' \in Seq(Row) /\ Len(outbox') = Len(outbox) + 1
      /\ \A r \in 1 .. Len(outbox) : outbox'[r] = outbox[r]
      /\ outbox'[Len(outbox) + 1].before = put
  BY <1>1, <1>2, AppendProperties DEF Stamped
<1>4. Shapes'
  BY <1>1, <1>3 DEF OrderInv, Shapes
<1>5. claimed \subseteq 1 .. Len(outbox)
  BY DEF OrderInv, Shapes
<1>6. \A i \in 1 .. Len(sent) : sent[i] \in 1 .. Len(outbox)
  BY <1>5, ElementOfSeq DEF OrderInv, Shapes
<1>7. DOMAIN sent = 1 .. Len(sent)
  BY LenProperties DEF OrderInv, Shapes
<1>8. ASSUME NEW r \in 1 .. Len(outbox')
      PROVE  outbox'[r].before \subseteq put /\ \A s \in put : s \in outbox'[r].before => s < r
  <2>1. CASE r \in 1 .. Len(outbox)
    BY <1>3, <2>1 DEF OrderInv, InOrder, Precedes
  <2>2. CASE r = Len(outbox) + 1
    BY <1>1, <1>3, <2>2
  <2> QED  BY <1>1, <1>3, <1>8, <2>1, <2>2
<1>9. InOrder'
  BY <1>3, <1>5, <1>6, <1>8 DEF OrderInv, InOrder, Precedes
<1>10. SentOnceInOrder'
  BY <1>3, <1>6, <1>7 DEF OrderInv, SentOnceInOrder
<1> QED  BY <1>4, <1>9, <1>10 DEF OrderInv

(* No row that began before knows of a row that is put now. *)
LEMMA InsertsOrder ==
    ASSUME OrderInv, NEW row \in DOMAIN outbox, Inserts(row)
    PROVE  OrderInv'
<1>1. row \in 1 .. Len(outbox) /\ row \notin put /\ put' = put \cup {row}
  BY LenProperties DEF OrderInv, Shapes, Inserts
<1>2. UNCHANGED <<outbox, claimed, side, sent>>
  BY DEF Inserts
<1>3. \A r \in 1 .. Len(outbox) : ~Precedes(row, r)
  BY <1>1 DEF OrderInv, InOrder, Precedes
<1>4. claimed \subseteq 1 .. Len(outbox)
  BY DEF OrderInv, Shapes
<1>5. InOrder'
  BY <1>1, <1>2, <1>3, <1>4 DEF OrderInv, InOrder, Precedes
<1> QED  BY <1>1, <1>2, <1>5 DEF OrderInv, Shapes, SentOnceInOrder

(* The sidecar ends or starts: what it held is never sent. *)
LEMMA DroppedOrder ==
    ASSUME OrderInv, side' \in Side, side'.batch = {},
           UNCHANGED <<outbox, put, claimed, sent>>
    PROVE  OrderInv'
BY DEF OrderInv, Shapes, InOrder, SentOnceInOrder, Precedes

(* What is older than a row that a poll claims is claimed. *)
LEMMA ClaimableOldest ==
    ASSUME OrderInv, NEW r \in Claimable, NEW s \in Undelivered, s < r
    PROVE  s \in Claimable
<1> DEFINE older(x) == {y \in Undelivered : y < x}
<1>1. Undelivered \subseteq 1 .. Len(outbox) /\ Len(outbox) \in Nat
  BY LenProperties DEF OrderInv, Shapes, Undelivered
<1>2. \A x \in Undelivered : older(x) \subseteq 1 .. Len(outbox)
  BY <1>1
<1>3. r \in Undelivered /\ Cardinality(older(r)) < Batch
  BY DEF Claimable
<1>4. IsFiniteSet(older(r))
  <2>1. IsFiniteSet(1 .. Len(outbox))
    BY <1>1, FS_Interval
  <2> QED  BY <1>2, <1>3, <2>1, FS_Subset
<1>5. older(s) \subseteq older(r)
  <2> SUFFICES ASSUME NEW y \in Undelivered, y < s
               PROVE  y < r
    OBVIOUS
  <2>1. y \in Int /\ s \in Int /\ r \in Int
    BY <1>1, <1>3
  <2> QED  BY <2>1
<1>6. Cardinality(older(s)) <= Cardinality(older(r)) /\ IsFiniteSet(older(s))
  BY <1>4, <1>5, FS_Subset
<1>7. Cardinality(older(s)) \in Nat /\ Cardinality(older(r)) \in Nat /\ Batch \in Nat
  BY <1>4, <1>6, FS_CardinalityType, GatewayAssumption
<1>8. Cardinality(older(s)) < Batch
  BY <1>3, <1>6, <1>7
<1> QED  BY <1>8 DEF Claimable

LEMMA PollsOrder ==
    ASSUME OrderInv, Polls
    PROVE  OrderInv'
<1> DEFINE rows == Claimable
<1>1. /\ rows \subseteq put \ claimed /\ put \subseteq 1 .. Len(outbox)
      /\ claimed \subseteq put /\ side.batch = {} /\ side \in Side
  BY DEF Polls, Claimable, Undelivered, OrderInv, Shapes
<1>2. claimed' = claimed \cup rows /\ UNCHANGED <<outbox, put>>
  BY DEF Polls, Claimed
<1>3. side' \in Side /\ side'.batch \subseteq rows
  <2>1. CASE side' = [side EXCEPT !.batch = rows]
    BY <1>1, <2>1 DEF Side
  <2>2. CASE UNCHANGED side
    BY <1>1, <2>2
  <2> QED  BY <2>1, <2>2 DEF Polls, PollFails
<1>4. UNCHANGED sent
  BY DEF Polls
<1>5. ASSUME NEW r \in rows, NEW s \in put \ claimed', Precedes(s, r)
      PROVE  FALSE
  <2>1. s \in Undelivered /\ s \notin rows
    BY <1>2, <1>5 DEF Undelivered
  <2>2. s < r
    BY <1>1, <1>5, <2>1 DEF OrderInv, InOrder, Undelivered
  <2> QED  BY <1>5, <2>1, <2>2, ClaimableOldest
<1> HIDE DEF rows
<1>6. /\ sent \in Seq(claimed') /\ DOMAIN sent = 1 .. Len(sent)
      /\ \A i \in 1 .. Len(sent) : sent[i] \in claimed
  <2>1. sent \in Seq(claimed)
    BY DEF OrderInv, Shapes
  <2>2. Len(sent) \in Nat /\ sent \in [1 .. Len(sent) -> claimed]
    BY <2>1, LenProperties
  <2>3. sent \in [1 .. Len(sent) -> claimed']
    BY <1>2, <2>2
  <2> QED  BY <2>2, <2>3, SeqDef
<1>7. Shapes'
  BY <1>1, <1>2, <1>3, <1>4, <1>6 DEF OrderInv, Shapes
<1>8. ASSUME NEW i \in 1 .. Len(sent)
      PROVE  sent[i] \notin side'.batch /\ \A s \in side'.batch : ~Precedes(s, sent[i])
  BY <1>1, <1>3, <1>6 DEF OrderInv, InOrder
<1>9. InOrder'
  BY <1>1, <1>2, <1>4, <1>5, <1>8 DEF OrderInv, InOrder, Precedes
<1> QED  BY <1>2, <1>4, <1>7, <1>9 DEF OrderInv, SentOnceInOrder

LEMMA DeliversOrder ==
    ASSUME OrderInv, Delivers
    PROVE  OrderInv'
<1>1. PICK row \in side.batch :
         /\ \A r \in side.batch : row <= r
         /\ Sends(row) /\ side' = [side EXCEPT !.batch = @ \ {row}]
  BY DEF Delivers
<1>2. /\ side'.batch = side.batch \ {row} /\ side' \in Side
      /\ side.batch \subseteq claimed /\ claimed \subseteq put /\ put \subseteq 1 .. Len(outbox)
      /\ Len(outbox) \in Nat
  BY <1>1, LenProperties DEF OrderInv, Shapes, Side
<1>3. UNCHANGED <<outbox, put, claimed>>
  BY DEF Delivers
<1>4. \A s \in side.batch : ~Precedes(s, row)
  <2> SUFFICES ASSUME NEW s \in side.batch, Precedes(s, row) PROVE FALSE
    OBVIOUS
  <2>1. s \in put /\ row \in put /\ put \subseteq 1 .. Len(outbox)
    BY <1>1, <1>2
  <2>2. s < row /\ row <= s
    BY <1>1, <2>1 DEF OrderInv, InOrder
  <2> QED  BY <1>2, <2>1, <2>2
<1>5. sent \in Seq(claimed) /\ DOMAIN sent = 1 .. Len(sent) /\ Len(sent) \in Nat
  BY LenProperties DEF OrderInv, Shapes
<1>6. CASE UNCHANGED sent
  BY <1>2, <1>3, <1>6 DEF OrderInv, Shapes, InOrder, SentOnceInOrder, Precedes
<1>7. CASE sent' = Append(sent, row)
  <2>1. /\ sent' \in Seq(claimed) /\ Len(sent') = Len(sent) + 1
        /\ DOMAIN sent' = 1 .. Len(sent')
        /\ sent'[Len(sent) + 1] = row
        /\ \A i \in 1 .. Len(sent) : sent'[i] = sent[i]
    BY <1>1, <1>2, <1>5, <1>7, AppendProperties, LenProperties
  <2>2. \A i \in 1 .. Len(sent') : i \in 1 .. Len(sent) \/ i = Len(sent) + 1
    BY <1>5, <2>1
  <2>3. Shapes'
    BY <1>2, <1>3, <2>1 DEF OrderInv, Shapes
  <2>4. ASSUME NEW i \in 1 .. Len(sent')
        PROVE  sent'[i] \notin side'.batch /\ \A s \in side'.batch : ~Precedes(s, sent'[i])
    BY <1>2, <1>4, <2>1, <2>2 DEF OrderInv, InOrder
  <2>5. InOrder'
    BY <1>3, <2>4 DEF OrderInv, InOrder, Precedes
  <2>6. ASSUME NEW i \in 1 .. Len(sent'), NEW j \in 1 .. Len(sent'), i < j
        PROVE  sent'[j] # sent'[i] /\ ~Precedes(sent'[j], sent'[i])
    <3>1. i \in 1 .. Len(sent) /\ (j \in 1 .. Len(sent) \/ j = Len(sent) + 1)
      BY <1>5, <2>1, <2>6
    <3>2. CASE j \in 1 .. Len(sent)
      BY <1>5, <2>1, <2>6, <3>1, <3>2 DEF OrderInv, SentOnceInOrder, Precedes
    <3>3. CASE j = Len(sent) + 1
      BY <1>1, <2>1, <3>1, <3>3 DEF OrderInv, InOrder
    <3> QED  BY <3>1, <3>2, <3>3
  <2>7. SentOnceInOrder'
    BY <1>3, <2>1, <2>6 DEF SentOnceInOrder, Precedes
  <2> QED  BY <2>3, <2>5, <2>7 DEF OrderInv
<1> QED  BY <1>1, <1>6, <1>7 DEF Sends

LEMMA NextOrder == OrderInv /\ [GatewayNext]_systemVars => OrderInv'
<1> SUFFICES ASSUME OrderInv, [GatewayNext]_systemVars PROVE OrderInv'
  OBVIOUS
<1>1. CASE UNCHANGED systemVars
  BY <1>1, ElsewhereOrder DEF systemVars, gatewayVars
<1>2. ASSUME NEW type \in Types, SessionAsks(type) PROVE OrderInv'
  BY <1>2, StampedOrder DEF SessionAsks, CreatePrompt
<1>3. CASE Mirrors
  BY <1>3, StampedOrder DEF Mirrors
<1>4. CASE TableTime
  BY <1>4, ElsewhereOrder DEF TableTime, gatewayVars
<1>5. CASE SideStarts
  BY <1>5, DroppedOrder DEF SideStarts, Side
<1>6. CASE SideEnds
  BY <1>6, DroppedOrder DEF SideEnds, SideOff, Side
<1>7. CASE LinkChanges
  BY <1>7, ElsewhereOrder DEF LinkChanges
<1>8. CASE Polls
  BY <1>8, PollsOrder
<1>9. CASE Delivers
  BY <1>9, DeliversOrder
<1>10. ASSUME NEW chat \in Chats, NEW text \in Texts, OperatorTypes(chat, text) PROVE OrderInv'
  BY <1>10, ElsewhereOrder DEF OperatorTypes
<1>11. ASSUME NEW m \in Messages, Relays(m) \/ Works(m) PROVE OrderInv'
  <2>1. CASE Relays(m)
    BY <2>1, ElsewhereOrder DEF Relays
  <2>2. CASE Works(m)
    BY <2>2, ElsewhereOrder
       DEF Works, Looks, BindsChat, Reads, Resolves, Dispatches, backendOnly
  <2> QED  BY <1>11, <2>1, <2>2
<1>12. ASSUME NEW row \in DOMAIN outbox, Inserts(row) PROVE OrderInv'
  BY <1>12, InsertsOrder
<1> QED  BY <1>1, <1>2, <1>3, <1>4, <1>5, <1>6, <1>7, <1>8, <1>9, <1>10, <1>11, <1>12
         DEF GatewayNext

(* The rows reach the platform once, and those put one after the other in    *)
(* order, whatever fails and however often the sidecar is restarted.         *)
THEOREM SpecSentOnceInOrder == GatewaySpec => []SentOnceInOrder
<1>1. OrderInv => SentOnceInOrder
  BY DEF OrderInv
<1> QED  BY InitOrder, NextOrder, <1>1, PTL DEF GatewaySpec

-----------------------------------------------------------------------------
(* The messaging gateway: the messages. *)

(* Types, and no outcome before the end. *)
Typed ==
    /\ PromptTypeOK /\ inbox \in [Messages -> Inbound]
    /\ bound \subseteq [chat : Chats, thread : Threads] /\ made \subseteq Threads
    /\ \A m \in Messages :
           /\ inbox[m].pc # "done" => inbox[m].outcome = "none"
           /\ inbox[m].pc = "bind" => inbox[m].thread \in Threads

(* A chat is bound once, and what is worked on is in its chat's thread. *)
InChat(row) == [chat |-> row.chat, thread |-> row.thread] \in bound

ChatsBound ==
    /\ \A b, c \in bound : b.chat = c.chat => b.thread = c.thread
    /\ \A m \in Messages : Conversing(m) => InChat(inbox[m])

(* A prompt that was found is in the table, and what was recorded is there. *)
Found(row) == row.prompt \in PromptIds /\ row.prompt < nextId

Recorded(row) ==
    /\ Found(row) /\ Answered(row.prompt)
    /\ prompts[row.prompt].response \in Replies(row.prompt, row.text)

AnswersKept ==
    /\ \A m \in Messages, row \in Inbound :
           inbox[m] = row =>
              /\ row.pc = "resolve" => Found(row)
              /\ row.outcome = "recorded" => Recorded(row)
    /\ \A m \in Messages : \A n \in Messages \ {m} :
           inbox[m].outcome = "recorded" /\ inbox[n].outcome = "recorded"
               => inbox[n].prompt # inbox[m].prompt

MInv == Typed /\ ChatsBound /\ AnswersKept

LEMMA RepliesType ==
    ASSUME PromptTypeOK, NEW p \in PromptIds, NEW text \in Texts
    PROVE  Replies(p, text) \subseteq Response
<1>1. prompts[p].options \in Seq(Option)
  BY DEF PromptTypeOK, Prompt
<1>2. \A i \in DOMAIN prompts[p].options : prompts[p].options[i] \in Option
  BY <1>1
<1>3. \A i \in DOMAIN prompts[p].options : prompts[p].options[i].key \in Keys
  BY <1>2 DEF Option
<1>4. Named(p, text) \subseteq Keys
  BY <1>3 DEF Named, OptionKeys
<1>5. \A k \in Keys : KeyReply(k) \in Response
  BY PromptsAssumption DEF KeyReply, Response
<1>6. TextReply(text) \in Response
  BY DEF TextReply, Response
<1> QED  BY <1>4, <1>5, <1>6 DEF Replies

LEMMA InitMessages == GatewayInit => MInv
<1> SUFFICES ASSUME GatewayInit PROVE MInv
  OBVIOUS
<1>1. NoMessage \in Inbound
  BY GatewayAssumption DEF NoMessage, Inbound
<1>2. bound \subseteq [chat : Chats, thread : Threads]
  BY GatewayAssumption DEF GatewayInit
<1>3. Typed
  BY <1>1, <1>2, InitPrompts DEF GatewayInit, Typed, NoMessage
<1>4. ChatsBound /\ AnswersKept
  BY DEF GatewayInit, NoMessage, ChatsBound, AnswersKept, Conversing
<1> QED  BY <1>3, <1>4 DEF MInv

(* What a text says to a prompt does not change while its question is kept, *)
(* and an answer that was recorded stays while its row does.                *)
LEMMA RepliesKept ==
    ASSUME NEW p, NEW text, prompts'[p].type = prompts[p].type,
           prompts'[p].options = prompts[p].options
    PROVE  Replies(p, text)' = Replies(p, text)
<1>1. OptionKeys(p)' = OptionKeys(p)
  BY DEF OptionKeys
<1>2. Named(p, text)' = Named(p, text)
  BY <1>1 DEF Named
<1> QED  BY <1>2 DEF Replies

LEMMA RecordedKept ==
    ASSUME NEW row, Found(row), nextId \in Int, nextId' \in {nextId, nextId + 1},
           \A q \in PromptIds : q < nextId => prompts'[q] = prompts[q]
    PROVE  Found(row)' /\ (Recorded(row) => Recorded(row)')
<1>1. row.prompt \in PromptIds /\ row.prompt \in Int /\ row.prompt < nextId
  BY PromptsAssumption DEF Found, PromptIds
<1>2. Found(row)' /\ prompts'[row.prompt] = prompts[row.prompt]
  BY <1>1 DEF Found
<1>3. Replies(row.prompt, row.text)' = Replies(row.prompt, row.text)
  BY <1>2, RepliesKept
<1> QED  BY <1>2, <1>3 DEF Recorded, Answered

(* Steps that leave the messages alone, and add rows to the table at most. *)
LEMMA ElsewhereMessages ==
    ASSUME MInv, UNCHANGED <<bound, made, inbox>>, PromptTypeOK',
           nextId' \in {nextId, nextId + 1},
           \A q \in PromptIds : q # nextId => prompts'[q] = prompts[q]
    PROVE  MInv'
<1>1. Typed' /\ ChatsBound'
  BY DEF MInv, Typed, ChatsBound, Conversing, InChat
<1>2. nextId \in Int /\ \A q \in PromptIds : q < nextId => prompts'[q] = prompts[q]
  BY PromptsAssumption DEF MInv, Typed, PromptTypeOK, PromptIds
<1>3. ASSUME NEW row, Found(row)
      PROVE  Found(row)' /\ (Recorded(row) => Recorded(row)')
  BY <1>2, <1>3, RecordedKept
<1>4. AnswersKept'
  BY <1>3, Zenon DEF MInv, AnswersKept, Recorded
<1> QED  BY <1>1, <1>4 DEF MInv

(* A message goes on, and the table stays. *)
LEMMA MessageGoesOn ==
    ASSUME MInv, NEW m \in Messages, NEW row \in Inbound,
           inbox' = [inbox EXCEPT ![m] = row], UNCHANGED promptVars,
           bound \subseteq bound', bound' \subseteq [chat : Chats, thread : Threads],
           \A b, c \in bound' : b.chat = c.chat => b.thread = c.thread,
           made' \subseteq Threads,
           row.outcome # "recorded", row.pc # "done" => row.outcome = "none",
           row.pc = "bind" => row.thread \in Threads,
           row.pc \in {"read", "resolve", "dispatch"} \/ row.outcome # "none"
               => InChat(row)',
           row.pc = "resolve" => Found(row)
    PROVE  MInv'
<1>1. inbox'[m] = row /\ \A n \in Messages \ {m} : inbox'[n] = inbox[n]
  BY DEF MInv, Typed
<1>2. Typed'
  BY <1>1 DEF MInv, Typed, PromptTypeOK, promptVars
<1>3. ChatsBound'
  BY <1>1 DEF MInv, ChatsBound, Conversing, InChat
<1>4. AnswersKept'
  <2>1. nextId \in Int /\ \A q \in PromptIds : prompts'[q] = prompts[q]
    BY PromptsAssumption DEF MInv, Typed, PromptTypeOK, promptVars
  <2>2. ASSUME NEW r, Found(r) PROVE Found(r)' /\ (Recorded(r) => Recorded(r)')
    BY <2>1, <2>2, RecordedKept DEF promptVars
  <2>3. ASSUME NEW n \in Messages, NEW r \in Inbound, inbox'[n] = r
        PROVE  /\ r.pc = "resolve" => Found(r)'
               /\ r.outcome = "recorded" => Recorded(r)'
    BY <1>1, <2>2, <2>3 DEF MInv, AnswersKept, Recorded
  <2> QED  BY <1>1, <2>3 DEF MInv, AnswersKept
<1> QED  BY <1>2, <1>3, <1>4 DEF MInv

LEMMA BindsMessages ==
    ASSUME MInv, NEW m \in Messages, BindsChat(m)
    PROVE  MInv'
<1> DEFINE new == [chat |-> inbox[m].chat, thread |-> inbox[m].thread]
<1>1. /\ inbox[m] \in Inbound /\ inbox[m].pc = "bind" /\ inbox[m].outcome = "none"
      /\ new \in [chat : Chats, thread : Threads]
      /\ UNCHANGED promptVars /\ made' \subseteq Threads
  BY DEF MInv, Typed, BindsChat, At, Inbound
<1>2. /\ bound \subseteq [chat : Chats, thread : Threads]
      /\ \A b, c \in bound : b.chat = c.chat => b.thread = c.thread
  BY DEF MInv, Typed, ChatsBound
<1>3. CASE Unique(inbox[m].chat) /\ bound' = bound \cup {new} /\ Step(m, "read")
  <2>1. PICK row \in Inbound : /\ row.pc = "read" /\ row.outcome = "none"
                              /\ row.chat = new.chat /\ row.thread = new.thread
                              /\ inbox' = [inbox EXCEPT ![m] = row]
    <3> DEFINE row == [inbox[m] EXCEPT !.pc = "read"]
    <3>1. /\ row \in Inbound /\ row.pc = "read" /\ row.outcome = "none"
          /\ row.chat = new.chat /\ row.thread = new.thread
          /\ inbox' = [inbox EXCEPT ![m] = row]
      BY <1>1, <1>3 DEF Step, Inbound
    <3> HIDE DEF row, new
    <3> QED  BY <3>1
  <2>2. \A b \in bound : b.chat # new.chat
    BY <1>3 DEF Unique, ThreadsOf
  <2>3. \A b, c \in bound' : b.chat = c.chat => b.thread = c.thread
    BY <1>2, <1>3, <2>2
  <2>4. InChat(row)'
    BY <1>3, <2>1 DEF InChat
  <2> HIDE DEF new
  <2> QED  BY <1>1, <1>2, <1>3, <2>1, <2>3, <2>4, MessageGoesOn
<1>4. CASE Step(m, "done") /\ UNCHANGED bound
  <2> DEFINE row == [inbox[m] EXCEPT !.pc = "done"]
  <2>1. /\ row \in Inbound /\ row.pc = "done" /\ row.outcome = "none"
        /\ inbox' = [inbox EXCEPT ![m] = row]
    BY <1>1, <1>4 DEF Step, Inbound
  <2> HIDE DEF row, new
  <2> QED  BY <1>1, <1>2, <1>4, <2>1, MessageGoesOn
<1> QED  BY <1>3, <1>4 DEF BindsChat

LEMMA ResolvesMessages ==
    ASSUME MInv, NEW m \in Messages, Resolves(m)
    PROVE  MInv'
<1>1. inbox[m] \in Inbound /\ inbox[m].pc = "resolve" /\ Found(inbox[m])
  BY DEF MInv, Typed, AnswersKept, Resolves, At
<1>2. PICK p, text : p = inbox[m].prompt /\ text = inbox[m].text
  OBVIOUS
<1>3. PICK r \in Replies(p, text) :
         Resolve(p, r) /\ Outcome(m, IF Accepts(p, r) THEN "recorded" ELSE "refused")
  BY <1>2 DEF Resolves
<1>4. p \in PromptIds /\ r \in Response
  BY <1>2, <1>1, <1>3, RepliesType DEF Found, MInv, Typed, Inbound
<1>5. PICK row \in Inbound :
         /\ inbox' = [inbox EXCEPT ![m] = row]
         /\ row.pc = "done" /\ (row.outcome = "recorded" => Accepts(p, r))
         /\ row.prompt = p /\ row.text = text
         /\ row.chat = inbox[m].chat /\ row.thread = inbox[m].thread
  <2> DEFINE o == IF Accepts(p, r) THEN "recorded" ELSE "refused"
             row == [inbox[m] EXCEPT !.pc = "done", !.outcome = o]
  <2>1. o \in {"recorded", "refused"} /\ (o = "recorded" => Accepts(p, r))
    OBVIOUS
  <2> HIDE DEF o
  <2>2. /\ row \in Inbound /\ row.pc = "done" /\ row.outcome = o
        /\ row.prompt = p /\ row.text = text
        /\ row.chat = inbox[m].chat /\ row.thread = inbox[m].thread
    BY <1>2, <1>1, <2>1 DEF Inbound
  <2>3. inbox' = [inbox EXCEPT ![m] = row]
    BY <1>3 DEF Outcome, o
  <2> HIDE DEF row
  <2> QED  BY <2>1, <2>2, <2>3
<1>6. UNCHANGED <<bound, made>>
  BY DEF Resolves
<1>7. inbox'[m] = row /\ \A n \in Messages \ {m} : inbox'[n] = inbox[n]
  BY <1>5 DEF MInv, Typed
<1>8. /\ PromptTypeOK' /\ nextId' = nextId
      /\ \A q \in PromptIds :
            /\ prompts'[q].type = prompts[q].type
            /\ prompts'[q].options = prompts[q].options
            /\ Answered(q) => prompts'[q] = prompts[q]
  BY <1>3, <1>4, ResolveEffect DEF MInv, Typed
<1>9. Typed'
  BY <1>5, <1>6, <1>7, <1>8 DEF MInv, Typed
<1>10. ChatsBound'
  BY <1>1, <1>5, <1>6, <1>7 DEF MInv, ChatsBound, Conversing, InChat
<1>11. AnswersKept'
  <2>1. ASSUME NEW a, Found(a) PROVE Found(a)' /\ (Recorded(a) => Recorded(a)')
    <3>1. a.prompt \in PromptIds /\ Found(a)'
      BY <1>8, <2>1 DEF Found
    <3>2. /\ prompts'[a.prompt].type = prompts[a.prompt].type
          /\ prompts'[a.prompt].options = prompts[a.prompt].options
          /\ Answered(a.prompt) => prompts'[a.prompt] = prompts[a.prompt]
      BY <1>8, <3>1
    <3>3. Replies(a.prompt, a.text)' = Replies(a.prompt, a.text)
      BY <3>2, RepliesKept
    <3> QED  BY <3>1, <3>2, <3>3 DEF Recorded, Answered
  <2>2. row.outcome = "recorded" => Pending(p) /\ Recorded(row)'
    <3>1. SUFFICES ASSUME row.outcome = "recorded" PROVE Pending(p) /\ Recorded(row)'
      OBVIOUS
    <3>2. Pending(p) /\ RecordAnswer(p, r)
      BY <1>3, <1>5, <3>1 DEF Resolve, Accepts
    <3>3. prompts'[p].status = "answered" /\ prompts'[p].response = r
      BY <1>4, <3>2 DEF RecordAnswer, MInv, Typed, PromptTypeOK, Prompt
    <3>4. Replies(p, row.text)' = Replies(p, row.text)
      <4>1. /\ prompts'[p].type = prompts[p].type
            /\ prompts'[p].options = prompts[p].options
        BY <1>4, <1>8
      <4> QED  BY <4>1, RepliesKept
    <3>5. Found(row)'
      BY <1>1, <1>2, <1>5, <1>8 DEF Found
    <3> QED  BY <1>3, <1>5, <3>2, <3>3, <3>4, <3>5 DEF Recorded, Answered
  <2>3. ASSUME NEW n \in Messages, NEW a \in Inbound, inbox'[n] = a
        PROVE  /\ a.pc = "resolve" => Found(a)'
               /\ a.outcome = "recorded" => Recorded(a)'
    BY <1>5, <1>7, <2>1, <2>2, <2>3 DEF MInv, AnswersKept, Recorded
  <2>4. \A n \in Messages \ {m} :
           inbox[n].outcome = "recorded" => Answered(inbox[n].prompt)
    BY DEF MInv, Typed, AnswersKept, Recorded
  <2>5. \A n \in Messages \ {m} :
           inbox[n].outcome = "recorded" /\ row.outcome = "recorded"
               => inbox[n].prompt # p
    BY <2>2, <2>4 DEF Answered, Pending
  <2> QED  BY <1>5, <1>7, <2>3, <2>5 DEF MInv, AnswersKept
<1> QED  BY <1>9, <1>10, <1>11 DEF MInv

(* The question shown last is one of the table. *)
LEMMA LastShownType == OrderInv => LastShown \in PromptIds \cup {NoPromptId}
<1> SUFFICES ASSUME OrderInv PROVE LastShown \in PromptIds \cup {NoPromptId}
  OBVIOUS
<1>1. /\ \A i \in 1 .. Len(sent) : sent[i] \in 1 .. Len(outbox)
      /\ Shown \subseteq 1 .. Len(sent) /\ Len(sent) \in Nat
  BY ElementOfSeq, LenProperties DEF OrderInv, Shapes, Shown
<1>2. \A i \in Shown : outbox[sent[i]].prompt \in PromptIds \cup {NoPromptId}
  <2>1. \A r \in 1 .. Len(outbox) : outbox[r] \in Row
    BY ElementOfSeq DEF OrderInv, Shapes
  <2> QED  BY <1>1, <2>1 DEF Row
<1>3. Shown # {} => \E i \in Shown : \A j \in Shown : j <= i
  <2> SUFFICES ASSUME Shown # {} PROVE \E i \in Shown : \A j \in Shown : j <= i
    OBVIOUS
  <2> DEFINE left == {Len(sent) - i : i \in Shown}
  <2>1. \A i \in Shown : i \in Int /\ Len(sent) - i \in Nat
    BY <1>1
  <2>2. left \subseteq Nat /\ left # {}
    BY <2>1
  <2>3. PICK x \in left : \A y \in left : <<y, x>> \notin OpToRel(<, Nat)
    <3> HIDE DEF left
    <3> QED  BY <2>2, WFMin, NatLessThanWellFounded
  <2>4. \A y \in left : ~ (y < x)
    <3> SUFFICES ASSUME NEW y \in left, y < x PROVE FALSE
      OBVIOUS
    <3>1. y \in Nat /\ x \in Nat
      BY <2>2
    <3>2. <<y, x>> \in OpToRel(<, Nat)
      BY <3>1 DEF OpToRel
    <3> QED  BY <2>3, <3>2
  <2>5. PICK i \in Shown : x = Len(sent) - i
    OBVIOUS
  <2>6. ASSUME NEW j \in Shown PROVE j <= i
    <3>1. Len(sent) - j \in left
      OBVIOUS
    <3>2. ~ (Len(sent) - j < Len(sent) - i)
      BY <2>4, <2>5, <3>1
    <3> QED  BY <1>1, <2>1, <3>2
  <2> QED  BY <2>6
<1> QED  BY <1>2, <1>3 DEF LastShown

LEMMA NextMessages == OrderInv /\ MInv /\ [GatewayNext]_systemVars => MInv'
<1> SUFFICES ASSUME OrderInv, MInv, [GatewayNext]_systemVars PROVE MInv'
  OBVIOUS
<1>1. ASSUME UNCHANGED <<promptVars, bound, made, inbox>> PROVE MInv'
  BY <1>1, PromptsAssumption, ElsewhereMessages
     DEF MInv, Typed, PromptTypeOK, promptVars
<1>2. CASE UNCHANGED systemVars
  BY <1>1, <1>2 DEF systemVars, gatewayVars
<1>3. ASSUME NEW type \in Types, SessionAsks(type) PROVE MInv'
  <2>1. Options(type) \in Seq(Option)
    BY AllowDenyType, EmptySeq, GatewayAssumption DEF Options, Types
  <2>2. PICK ref \in Refs : CreatePrompt(type, Session, Options(type), ref, QuestionTTL)
    BY <1>3, PromptsAssumption DEF SessionAsks
  <2>3. /\ PromptTypeOK' /\ nextId' = nextId + 1
        /\ \A q \in PromptIds : q # nextId => prompts'[q] = prompts[q]
    BY <2>1, <2>2, CreateEffect, GatewayAssumption DEF MInv, Typed
  <2>4. UNCHANGED <<bound, made, inbox>>
    BY <1>3 DEF SessionAsks, chatVars
  <2> QED  BY <2>3, <2>4, ElsewhereMessages
<1>4. CASE TableTime
  <2>1. UNCHANGED <<prompts, nextId, bound, made, inbox>> /\ now' \in 0 .. MaxTime
    BY <1>4, PromptsAssumption DEF TableTime, Tick, gatewayVars, MInv, Typed, PromptTypeOK
  <2>2. PromptTypeOK'
    BY <2>1 DEF MInv, Typed, PromptTypeOK
  <2> QED  BY <2>1, <2>2, ElsewhereMessages
<1>5. CASE Mirrors \/ SideStarts \/ SideEnds \/ LinkChanges \/ Polls \/ Delivers
  BY <1>1, <1>5
     DEF Mirrors, SideStarts, SideEnds, LinkChanges, Polls, Delivers, chatVars
<1>10. ASSUME NEW row \in DOMAIN outbox, Inserts(row) PROVE MInv'
  BY <1>1, <1>10 DEF Inserts, chatVars
<1>6. /\ bound \subseteq [chat : Chats, thread : Threads] /\ made \subseteq Threads
      /\ \A b, c \in bound : b.chat = c.chat => b.thread = c.thread
  BY DEF MInv, Typed, ChatsBound
<1>7. ASSUME NEW m \in Messages, NEW row \in Inbound,
             inbox' = [inbox EXCEPT ![m] = row],
             UNCHANGED <<promptVars, bound>>, made' \subseteq Threads,
             row.outcome # "recorded", row.pc # "done" => row.outcome = "none",
             row.pc = "bind" => row.thread \in Threads,
             row.pc \in {"read", "resolve", "dispatch"} \/ row.outcome # "none"
                 => InChat(row),
             row.pc = "resolve" => Found(row)
      PROVE  MInv'
  BY <1>6, <1>7, MessageGoesOn DEF InChat
<1>8. ASSUME NEW chat \in Chats, NEW text \in Texts, OperatorTypes(chat, text)
      PROVE  MInv'
  <2>1. UNCHANGED <<promptVars, bound, made>>
    BY <1>8 DEF OperatorTypes
  <2>2. CASE typed + 1 \in Messages
    <3>1. PICK row \in Inbound : /\ row.pc = "typed" /\ row.outcome = "none"
                                /\ inbox' = [inbox EXCEPT ![typed + 1] = row]
      <4> DEFINE asked == IF chat = Recipient THEN LastShown ELSE NoPromptId
                 row == [NoMessage EXCEPT !.pc = "typed", !.chat = chat, !.text = text,
                                          !.asked = asked]
      <4>1. asked \in PromptIds \cup {NoPromptId}
        BY LastShownType
      <4>2. inbox' = [inbox EXCEPT ![typed + 1] = row]
        BY <1>8 DEF OperatorTypes
      <4> HIDE DEF asked
      <4>3. row \in Inbound /\ row.pc = "typed" /\ row.outcome = "none"
        BY <4>1 DEF NoMessage, Inbound
      <4> HIDE DEF row
      <4> QED  BY <4>2, <4>3
    <3> QED  BY <1>6, <1>7, <2>1, <2>2, <3>1
  <2>3. CASE typed + 1 \notin Messages
    <3>1. inbox' = inbox
      BY <1>8, <2>3 DEF OperatorTypes, MInv, Typed
    <3> QED  BY <1>1, <2>1, <3>1
  <2> QED  BY <2>2, <2>3
<1>9. ASSUME NEW m \in Messages, Relays(m) \/ Works(m) PROVE MInv'
  <2>1. inbox[m] \in Inbound /\ (inbox[m].pc # "done" => inbox[m].outcome = "none")
    BY DEF MInv, Typed
  <2>2. ASSUME NEW pc \in {"lookup", "done", "dispatch"}, Step(m, pc),
               inbox[m].outcome = "none", UNCHANGED <<promptVars, bound>>,
               made' \subseteq Threads, pc = "dispatch" => InChat(inbox[m])
        PROVE  MInv'
    <3>1. PICK row \in Inbound : /\ row.pc = pc /\ row.outcome = "none"
                                /\ row.chat = inbox[m].chat /\ row.thread = inbox[m].thread
                                /\ inbox' = [inbox EXCEPT ![m] = row]
      <4> DEFINE row == [inbox[m] EXCEPT !.pc = pc]
      <4>1. inbox' = [inbox EXCEPT ![m] = row]
        BY <2>2 DEF Step
      <4>2. /\ row \in Inbound /\ row.pc = pc /\ row.outcome = "none"
            /\ row.chat = inbox[m].chat /\ row.thread = inbox[m].thread
        BY <2>1, <2>2 DEF Inbound
      <4> HIDE DEF row
      <4> QED  BY <4>1, <4>2
    <3>2. row.pc = "dispatch" => InChat(row)
      BY <2>2, <3>1 DEF InChat
    <3> QED  BY <1>7, <2>2, <3>1, <3>2
  <2>3. CASE Relays(m)
    BY <1>6, <2>1, <2>2, <2>3 DEF Relays, At
  <2>4. CASE Looks(m)
    <3>1. inbox[m].outcome = "none" /\ UNCHANGED <<promptVars, bound>>
      BY <2>1, <2>4 DEF Looks, At
    <3>2. PICK pc \in {"read", "bind"}, t \in Threads :
             /\ inbox' = [inbox EXCEPT ![m].pc = pc, ![m].thread = t]
             /\ pc = "read" => t \in ThreadsOf(inbox[m].chat)
             /\ made' \subseteq Threads
      BY <1>6, <2>4 DEF Looks, ThreadsOf, Fresh
    <3>3. PICK row \in Inbound : /\ row.pc = pc /\ row.outcome = "none"
                                /\ row.chat = inbox[m].chat /\ row.thread = t
                                /\ inbox' = [inbox EXCEPT ![m] = row]
      <4> DEFINE row == [inbox[m] EXCEPT !.pc = pc, !.thread = t]
      <4>1. inbox' = [inbox EXCEPT ![m] = row]
        BY <3>2 DEF MInv, Typed
      <4>2. /\ row \in Inbound /\ row.pc = pc /\ row.outcome = "none"
            /\ row.chat = inbox[m].chat /\ row.thread = t
        BY <2>1, <3>1, <3>2 DEF Inbound
      <4> HIDE DEF row
      <4> QED  BY <4>1, <4>2
    <3>4. row.pc = "read" => InChat(row)
      BY <1>6, <3>2, <3>3 DEF InChat, ThreadsOf
    <3> QED  BY <1>7, <3>1, <3>2, <3>3, <3>4
  <2>5. CASE BindsChat(m)
    BY <2>5, BindsMessages
  <2>6. CASE Reads(m)
    <3>1. /\ inbox[m].outcome = "none" /\ UNCHANGED <<promptVars, bound>>
          /\ made' \subseteq Threads /\ InChat(inbox[m])
      BY <1>6, <2>1, <2>6 DEF Reads, At, MInv, ChatsBound, Conversing
    <3>2. CASE Step(m, "dispatch")
      BY <2>2, <3>1, <3>2
    <3>3. ASSUME NEW p \in Newest(inbox[m].thread),
                 inbox' = [inbox EXCEPT ![m].pc = "resolve", ![m].prompt = p]
          PROVE  MInv'
      <4>1. p \in PromptIds /\ p < nextId
        BY PromptsAssumption DEF Newest, PromptIds, MInv, Typed, PromptTypeOK
      <4>2. PICK row \in Inbound : /\ row.pc = "resolve" /\ row.outcome = "none"
                                  /\ row.chat = inbox[m].chat /\ row.thread = inbox[m].thread
                                  /\ row.prompt = p
                                  /\ inbox' = [inbox EXCEPT ![m] = row]
        <5> DEFINE row == [inbox[m] EXCEPT !.pc = "resolve", !.prompt = p]
        <5>1. inbox' = [inbox EXCEPT ![m] = row]
          BY <3>3 DEF MInv, Typed
        <5>2. /\ row \in Inbound /\ row.pc = "resolve" /\ row.outcome = "none"
              /\ row.chat = inbox[m].chat /\ row.thread = inbox[m].thread
              /\ row.prompt = p
          BY <2>1, <3>1, <4>1 DEF Inbound
        <5> HIDE DEF row
        <5> QED  BY <5>1, <5>2
      <4>3. InChat(row) /\ Found(row)
        BY <3>1, <4>1, <4>2 DEF InChat, Found
      <4> QED  BY <1>7, <3>1, <4>2, <4>3
    <3> QED  BY <2>6, <3>2, <3>3 DEF Reads
  <2>7. CASE Resolves(m)
    BY <2>7, ResolvesMessages
  <2>8. CASE Dispatches(m)
    <3>1. /\ UNCHANGED <<promptVars, bound>> /\ made' \subseteq Threads
          /\ InChat(inbox[m])
      BY <1>6, <2>8 DEF Dispatches, At, MInv, ChatsBound, Conversing
    <3>2. PICK o \in {"command", "answer", "error"} : Outcome(m, o)
      BY <2>8 DEF Dispatches
    <3>3. PICK row \in Inbound : /\ row.pc = "done" /\ row.outcome = o
                                /\ row.chat = inbox[m].chat /\ row.thread = inbox[m].thread
                                /\ inbox' = [inbox EXCEPT ![m] = row]
      <4> DEFINE row == [inbox[m] EXCEPT !.pc = "done", !.outcome = o]
      <4>1. inbox' = [inbox EXCEPT ![m] = row]
        BY <3>2 DEF Outcome
      <4>2. /\ row \in Inbound /\ row.pc = "done" /\ row.outcome = o
            /\ row.chat = inbox[m].chat /\ row.thread = inbox[m].thread
        BY <2>1 DEF Inbound
      <4> HIDE DEF row
      <4> QED  BY <4>1, <4>2
    <3>4. InChat(row)
      BY <3>1, <3>3 DEF InChat
    <3> QED  BY <1>7, <3>1, <3>3, <3>4
  <2> QED  BY <1>9, <2>3, <2>4, <2>5, <2>6, <2>7, <2>8 DEF Works
<1> QED  BY <1>2, <1>3, <1>4, <1>5, <1>8, <1>9, <1>10 DEF GatewayNext

LEMMA SpecMessages == GatewaySpec => []MInv
BY InitOrder, NextOrder, InitMessages, NextMessages, PTL DEF GatewaySpec

(* Whatever is worked on for one chat is worked on in one thread, though its *)
(* first messages come at once and each makes a thread of its own: only one  *)
(* of them becomes the chat's, and the requests of the others end there.     *)
THEOREM SpecOneThreadPerChat == GatewaySpec => []OneThreadPerChat
<1>1. MInv => OneThreadPerChat
  BY DEF MInv, ChatsBound, InChat, OneThreadPerChat
<1> QED  BY SpecMessages, <1>1, PTL

(* A message that is told "recorded" is the one whose answer the agent gets, *)
(* and no other is told so of that prompt.                                   *)
THEOREM SpecRecordedIsTheAnswer == GatewaySpec => []RecordedIsTheAnswer
<1>1. MInv => RecordedIsTheAnswer
  BY DEF MInv, Typed, AnswersKept, Recorded, RecordedIsTheAnswer
<1> QED  BY SpecMessages, <1>1, PTL
=============================================================================
