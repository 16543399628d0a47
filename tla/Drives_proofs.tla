---------------------------- MODULE Drives_proofs ----------------------------
(***************************************************************************)
(* The engines keep the contract of TurnEngine, for any number of prompts. *)
(*                                                                         *)
(* The caller is the same for the three (CallerOk); what each of them      *)
(* keeps besides is CodexInv, InteractiveInv and ProcessInv.               *)
(***************************************************************************)
EXTENDS Drives, SequenceTheorems, FiniteSetTheorems, TLAPS

-----------------------------------------------------------------------------
(* The caller, whichever engine stands behind it. *)

(* What turn n's caller was told. *)
VerdictOk(n) ==
    verdict[n] \in IF n > turn THEN {"none"}
                   ELSE IF n = turn /\ pc # "idle" THEN {"running"} ELSE {"ok", "error"}

CallerOk ==
    /\ turn \in 0 .. MaxTurns /\ pc \in {"idle", "send", "wait", "stop"}
    /\ pc # "idle" => turn \in Turns
    /\ verdict \in [Turns -> {"none", "running", "ok", "error"}]
    /\ \A n \in Turns : VerdictOk(n)
    /\ completed \subseteq 1 .. turn
    /\ done \in BOOLEAN /\ err \in BOOLEAN

(* The caller's own steps: the next prompt, the end of a turn, and others. *)
LEMMA InitCaller == CallerInit => CallerOk
<1> SUFFICES ASSUME CallerInit PROVE CallerOk
  OBVIOUS
<1>1. \A n \in Turns : n > turn
  BY CallerAssumption DEF CallerInit, Turns
<1>2. \A n \in Turns : VerdictOk(n)
  BY <1>1 DEF CallerInit, VerdictOk
<1>3. done \in BOOLEAN /\ err \in BOOLEAN /\ completed \subseteq 1 .. turn
  BY DEF CallerInit
<1>4. turn \in 0 .. MaxTurns /\ pc = "idle" /\ verdict \in [Turns -> {"none", "running", "ok", "error"}]
  BY CallerAssumption DEF CallerInit
<1> QED BY <1>2, <1>3, <1>4 DEF CallerOk

LEMMA BeginCaller ==
    ASSUME CallerOk, NextPrompt, completed' = completed
    PROVE  CallerOk' /\ turn' \in Turns /\ turn' = turn + 1 /\ verdict' = [verdict EXCEPT ![turn'] = "running"]
<1>1. turn + 1 \in Turns /\ turn' = turn + 1 /\ turn \in Nat
  BY CallerAssumption DEF NextPrompt, CallerOk, Turns
<1>2. verdict' = [verdict EXCEPT ![turn + 1] = "running"] /\ pc = "idle" /\ pc' = "send"
  BY DEF NextPrompt
<1>3. \A n \in Turns : VerdictOk(n)'
  <2> SUFFICES ASSUME NEW n \in Turns PROVE VerdictOk(n)'
    OBVIOUS
  <2>1. n \in Nat /\ VerdictOk(n) /\ (n = turn + 1 => verdict'[n] = "running")
        /\ (n # turn + 1 => verdict'[n] = verdict[n])
    BY <1>2 DEF CallerOk, Turns
  <2> QED BY <1>1, <1>2, <2>1 DEF VerdictOk
<1>4. done' \in BOOLEAN /\ err' \in BOOLEAN
  BY DEF NextPrompt
<1>5. turn' \in 0 .. MaxTurns /\ completed' \subseteq 1 .. turn'
  BY <1>1, CallerAssumption DEF CallerOk, Turns
<1>6. verdict' \in [Turns -> {"none", "running", "ok", "error"}]
  BY <1>2 DEF CallerOk
<1>7. CallerOk'
  BY <1>1, <1>2, <1>3, <1>4, <1>5, <1>6 DEF CallerOk
<1> QED BY <1>1, <1>2, <1>7

LEMMA EndCaller ==
    ASSUME CallerOk, pc # "idle", NEW v \in {"ok", "error"}, EndTurn(v),
           UNCHANGED <<turn, completed>>, done' \in BOOLEAN, err' \in BOOLEAN
    PROVE  CallerOk'
<1>1. turn \in Turns /\ verdict' = [verdict EXCEPT ![turn] = v] /\ pc' = "idle"
  BY DEF EndTurn, CallerOk
<1>2. \A n \in Turns : VerdictOk(n)'
  <2> SUFFICES ASSUME NEW n \in Turns PROVE VerdictOk(n)'
    OBVIOUS
  <2>1. n \in Nat /\ turn \in Nat /\ VerdictOk(n) /\ (n = turn => verdict'[n] = v)
        /\ (n # turn => verdict'[n] = verdict[n])
    BY <1>1 DEF CallerOk, Turns
  <2> QED BY <1>1, <2>1 DEF VerdictOk
<1> QED BY <1>1, <1>2 DEF CallerOk

LEMMA MidCaller ==
    ASSUME CallerOk, UNCHANGED <<turn, verdict>>, completed' \subseteq 1 .. turn,
           pc' = pc \/ (pc # "idle" /\ pc' \in {"send", "wait", "stop"}),
           done' \in BOOLEAN, err' \in BOOLEAN
    PROVE  CallerOk'
BY DEF CallerOk, VerdictOk

-----------------------------------------------------------------------------
(* The caller's steps are TurnEngine's, given what was reported. *)

LEMMA BeginIsBegin ==
    ASSUME CallerOk, NextPrompt, UNCHANGED <<completed, Reported>>
    PROVE  TE!Next
<1>1. turn' \in Turns /\ turn' = turn + 1 /\ verdict' = [verdict EXCEPT ![turn'] = "running"]
  BY BeginCaller
<1>2. pc = "idle" /\ turn \in Nat /\ \A n \in Turns : n \in Nat /\ VerdictOk(n)
  BY DEF NextPrompt, CallerOk, Turns
<1>3. verdict[turn'] = "none"
  BY <1>1, <1>2 DEF VerdictOk
<1>4. \A n \in Turns : verdict[n] # "running" /\ (n < turn' => verdict[n] # "none")
  BY <1>1, <1>2 DEF VerdictOk
<1>5. TE!Begin(turn')
  BY <1>1, <1>3, <1>4 DEF TE!Begin, TE!Running, TE!Turns, Turns
<1> QED BY <1>1, <1>5 DEF TE!Next, TE!Turns, Turns

LEMMA EndIsEnd ==
    ASSUME CallerOk, pc # "idle", NEW v \in {"ok", "error"}, EndTurn(v),
           v = "ok" => turn \in completed \cup Reported,
           UNCHANGED <<completed, Reported>>
    PROVE  TE!Next
<1>1. turn \in Turns /\ verdict[turn] = "running" /\ verdict' = [verdict EXCEPT ![turn] = v]
  BY DEF CallerOk, VerdictOk, EndTurn, Turns
<1>2. TE!End(turn)
  BY <1>1 DEF TE!End, TE!Running
<1> QED BY <1>1, <1>2 DEF TE!Next, TE!Turns, Turns

LEMMA CompleteIsComplete ==
    ASSUME CallerOk, NEW n \in 1 .. turn, UNCHANGED verdict,
           (completed \cup Reported)' = completed \cup Reported \cup {n}
    PROVE  TE!Next
<1>1. n \in Turns /\ VerdictOk(n) /\ turn \in Nat /\ n \in Nat
  BY CallerAssumption DEF CallerOk, Turns
<1>2. TE!Complete(n)
  BY <1>1 DEF TE!Complete, VerdictOk
<1> QED BY <1>1, <1>2 DEF TE!Next, TE!Turns, Turns

LEMMA OtherIsStutter ==
    ASSUME UNCHANGED <<verdict, completed, Reported>>
    PROVE  UNCHANGED TE!vars
BY DEF TE!vars

-----------------------------------------------------------------------------
(* CodexEngine, with processes that report an end as often as they like.   *)

Kinds == {"session", "ok", "error"}

Run == [turn : Turns, resumed : Codex!Ids, first : Nat \ {0}, alive : BOOLEAN,
        told : BOOLEAN, finals : Nat, out : Seq(Kinds), reader : {"loop", "ended"}]

Engines == [up : BOOLEAN, inFlight : BOOLEAN, finished : BOOLEAN, session : Codex!Ids,
            first : Nat \ {0}, pending : Seq(Turns)]

(* A process says its session first, and "ok" when it completed.           *)
SaysInOrder(r) ==
    \A i \in DOMAIN r.out :
        /\ r.out[i] = "session" => i = 1 /\ r.told
        /\ r.out[i] # "session" => r.finals > 0
        /\ r.out[i] = "ok" => r.told /\ r.turn \in completed

(* Its turn was begun; one that is yet to be sent or started has no process. *)
RunOk(r) ==
    /\ r.turn <= turn
    /\ (pc = "send" \/ codex.pending # <<>>) => r.turn # turn
    /\ SaysInOrder(r)
    /\ r.reader = "loop" => codex.up /\ r.first = codex.first

(* Its reader will not set the session any more. *)
SaysNoSession(r) == \A i \in DOMAIN r.out : r.out[i] # "session"
Settled(r) ==
    \/ r.reader = "ended"
    \/ SaysNoSession(r) /\ (r.told \/ r.finals > 0 \/ ~r.alive)

CodexShape ==
    /\ runs \in Seq(Run)
    /\ codex \in Engines
    /\ codex.first <= Len(runs) + 1
    /\ started \in BOOLEAN /\ exists \in BOOLEAN /\ (exists => started)

(* A process for each prompt, in order; only the caller's own can wait in  *)
(* the engine's queue.                                                     *)
OneByOne ==
    /\ \A p \in DOMAIN runs :
          /\ RunOk(runs[p])
          /\ runs[p].first <= p
          /\ \A q \in 1 .. p - 1 : runs[q].turn < runs[p].turn
    /\ pc # "idle" \/ codex.inFlight => codex.up
    /\ codex.pending # <<>> => /\ codex.pending = <<turn>> /\ codex.inFlight
                               /\ pc \in {"wait", "stop"} /\ ~done
    /\ pc = "send" /\ codex.inFlight => ~done
    /\ \A w \in worked : w[2] \in DOMAIN runs /\ w[1] = runs[w[2]].turn

(* No turn of a process before p was ended by another's: then the engine's *)
(* processes ended one after the other.                                    *)
CalmBefore(p, first) == \A o \in first .. p - 1 : runs[o].turn \notin Codex!Crossed
Calm == codex.up /\ CalmBefore(Len(runs) + 1, codex.first)

Flies ==
    /\ pc \in {"wait", "stop"} /\ ~done /\ codex.pending = <<>>
    /\ codex.first <= Len(runs) /\ runs[Len(runs)].turn = turn

(* What the session to resume holds. *)
Knows(q) ==
    \/ verdict[runs[q].turn] = "ok"
    \/ pc = "wait" /\ done /\ ~err /\ runs[q].turn = turn
    \/ q = Len(runs) /\ runs[q].told /\ SaysNoSession(runs[q])

CalmGoesOn ==
    /\ codex.inFlight => Flies
    /\ \A q \in codex.first .. Len(runs) :
          /\ Settled(runs[q]) \/ (codex.inFlight /\ q = Len(runs))
          /\ Knows(q) => runs[q].turn \in codex.session.has

SessionGoesOn ==
    /\ codex.up /\ exists => Codex!Operators \in codex.session.has
    /\ Calm => CalmGoesOn
    /\ Codex!ContinuesConversation

(* A caller that will be told "ok" had its own prompt completed, or was    *)
(* taken for another; and so was one that is told before it has sent.      *)
OkIsReported ==
    /\ (pc \in {"send", "wait"} /\ done /\ ~err) => turn \in completed \cup Codex!Misreported
    /\ pc = "send" /\ done => turn \in Codex!Crossed

CodexInv == CodexShape /\ OneByOne /\ SessionGoesOn /\ OkIsReported

(* What the invariant says of the processes, one by one. *)
LEMMA CodexFacts ==
    ASSUME CodexInv
    PROVE  /\ runs \in Seq(Run) /\ Len(runs) \in Nat /\ DOMAIN runs = 1 .. Len(runs)
           /\ codex.first \in Nat \ {0} /\ codex.first <= Len(runs) + 1
           /\ \A q \in 1 .. Len(runs) :
                 /\ runs[q] \in Run /\ RunOk(runs[q]) /\ runs[q].turn \in Turns /\ runs[q].turn \in Nat
                 /\ runs[q].first \in Nat \ {0} /\ runs[q].first <= q
<1>1. runs \in Seq(Run) /\ Len(runs) \in Nat /\ DOMAIN runs = 1 .. Len(runs)
      /\ \A q \in 1 .. Len(runs) : runs[q] \in Run
  BY LenProperties, ElementOfSeq DEF CodexInv, CodexShape
<1>2. \A q \in 1 .. Len(runs) : RunOk(runs[q]) /\ runs[q].first <= q
  BY <1>1 DEF CodexInv, OneByOne
<1>3. \A r \in Run : r.turn \in Turns /\ r.turn \in Nat /\ r.first \in Nat \ {0}
  BY DEF Run, Turns
<1>4. codex.first \in Nat \ {0} /\ codex.first <= Len(runs) + 1
  BY DEF CodexInv, CodexShape, Engines
<1> QED BY <1>1, <1>2, <1>3, <1>4

(* The processes after one of them did something: each has the turn it had *)
(* and resumed what it did.                                                *)
Follows(left, p, r) ==
    /\ left \in Seq(Run) /\ Len(left) = Len(runs) /\ DOMAIN left = 1 .. Len(runs)
    /\ \A q \in 1 .. Len(runs) :
          /\ left[q] = IF q = p THEN r ELSE runs[q]
          /\ left[q].turn = runs[q].turn /\ left[q].resumed = runs[q].resumed
          /\ left[q].first = runs[q].first

LEMMA RunChanges ==
    ASSUME CodexInv, NEW p \in DOMAIN runs, NEW r \in Run,
           r.turn = runs[p].turn, r.resumed = runs[p].resumed, r.first = runs[p].first
    PROVE  Follows([runs EXCEPT ![p] = r], p, r)
<1> PICK left : left = [runs EXCEPT ![p] = r]
  OBVIOUS
<1>1. runs \in Seq(Run) /\ DOMAIN runs = 1 .. Len(runs) /\ Len(runs) \in Nat
  BY CodexFacts
<1>2. left \in Seq(Run) /\ Len(left) = Len(runs)
  BY <1>1, ExceptSeq
<1>3. DOMAIN left = 1 .. Len(runs)
  BY <1>2, LenProperties
<1>4. \A q \in 1 .. Len(runs) : left[q] = IF q = p THEN r ELSE runs[q]
  BY <1>1, ExceptSeq
<1> QED BY <1>2, <1>3, <1>4 DEF Follows

(* The conversation of the processes that are there goes on: more turns    *)
(* may have been ended by others, none has succeeded.                      *)
GoesOnTo(p) ==
    /\ exists => Codex!Operators \in runs[p].resumed.has
    /\ \/ \E o \in runs[p].first .. p - 1 : runs[o].turn \in Codex!Crossed
       \/ \A q \in runs[p].first .. p - 1 :
             verdict[runs[q].turn] = "ok" => runs[q].turn \in runs[p].resumed.has

LEMMA OldGoesOn ==
    ASSUME CodexInv, UNCHANGED exists,
           \A q \in 1 .. Len(runs) : /\ runs'[q].turn = runs[q].turn
                                     /\ runs'[q].resumed = runs[q].resumed
                                     /\ runs'[q].first = runs[q].first
                                     /\ verdict'[runs[q].turn] = "ok" => verdict[runs[q].turn] = "ok",
           crossed \subseteq crossed'
    PROVE  \A p \in 1 .. Len(runs) : GoesOnTo(p)'
<1>1. Codex!Crossed \subseteq Codex!Crossed'
  BY DEF Codex!Crossed
<1> SUFFICES ASSUME NEW p \in 1 .. Len(runs) PROVE GoesOnTo(p)'
  OBVIOUS
<1>2. p \in DOMAIN runs /\ \A o \in runs[p].first .. p - 1 : o \in 1 .. Len(runs)
  BY CodexFacts
<1>3. exists => Codex!Operators \in runs[p].resumed.has
  BY <1>2 DEF CodexInv, SessionGoesOn, Codex!ContinuesConversation
<1>4. CASE \E o \in runs[p].first .. p - 1 : runs[o].turn \in Codex!Crossed
  BY <1>1, <1>2, <1>3, <1>4 DEF GoesOnTo
<1>5. CASE \A q \in runs[p].first .. p - 1 : verdict[runs[q].turn] = "ok"
                                               => runs[q].turn \in runs[p].resumed.has
  BY <1>2, <1>3, <1>5 DEF GoesOnTo
<1> QED BY <1>2, <1>4, <1>5 DEF CodexInv, SessionGoesOn, Codex!ContinuesConversation

LEMMA SameContinues ==
    ASSUME CodexInv, DOMAIN runs' = 1 .. Len(runs), UNCHANGED exists,
           \A q \in 1 .. Len(runs) : /\ runs'[q].turn = runs[q].turn
                                     /\ runs'[q].resumed = runs[q].resumed
                                     /\ runs'[q].first = runs[q].first
                                     /\ verdict'[runs[q].turn] = "ok" => verdict[runs[q].turn] = "ok",
           crossed \subseteq crossed'
    PROVE  Codex!ContinuesConversation'
<1>1. \A p \in DOMAIN runs' : GoesOnTo(p)'
  BY OldGoesOn
<1> QED BY <1>1 DEF GoesOnTo, Codex!ContinuesConversation

(* A process joins: if no turn of its engine was ended by another's, the   *)
(* session that it resumes holds those that succeeded.                     *)
LEMMA RunJoins ==
    ASSUME NEW left \in Seq(Run), NEW r \in Run, runs' = Append(left, r)
    PROVE  /\ runs' \in Seq(Run) /\ Len(left) \in Nat /\ Len(runs') = Len(left) + 1
           /\ DOMAIN runs' = 1 .. Len(left) + 1 /\ runs'[Len(left) + 1] = r
           /\ \A q \in 1 .. Len(left) : runs'[q] = left[q]
BY AppendProperties, LenProperties

LEMMA JoinContinues ==
    ASSUME CodexInv, codex.up, UNCHANGED <<exists, verdict>>, crossed \subseteq crossed',
           NEW r, r.resumed = codex.session, r.first = codex.first,
           DOMAIN runs' = 1 .. Len(runs) + 1, runs'[Len(runs) + 1] = r,
           \A q \in 1 .. Len(runs) : /\ runs'[q].turn = runs[q].turn
                                     /\ runs'[q].resumed = runs[q].resumed
                                     /\ runs'[q].first = runs[q].first
    PROVE  Codex!ContinuesConversation'
<1> PICK n : n = Len(runs) + 1
  OBVIOUS
<1>1. Codex!Crossed \subseteq Codex!Crossed'
  BY DEF Codex!Crossed
<1>2. /\ n - 1 = Len(runs) /\ n \in Nat /\ Len(runs) \in Nat
      /\ \A o \in codex.first .. n - 1 : o \in 1 .. Len(runs)
  BY CodexFacts
<1>3. /\ exists' = exists /\ verdict' = verdict /\ DOMAIN runs' = 1 .. n
      /\ runs'[n].resumed = codex.session /\ runs'[n].first = codex.first
  OBVIOUS
<1>4. exists => Codex!Operators \in codex.session.has
  BY DEF CodexInv, SessionGoesOn
<1>5. \/ \E o \in codex.first .. n - 1 : runs[o].turn \in Codex!Crossed
      \/ \A q \in codex.first .. n - 1 : verdict[runs[q].turn] = "ok"
                                           => runs[q].turn \in codex.session.has
  <2>1. CASE Calm
    BY <1>2, <2>1 DEF CodexInv, SessionGoesOn, CalmGoesOn, Knows
  <2>2. CASE ~Calm
    BY <1>2, <2>2 DEF Calm, CalmBefore
  <2> QED BY <2>1, <2>2
<1>6. /\ exists' => Codex!Operators \in runs'[n].resumed.has
      /\ \/ \E o \in runs'[n].first .. n - 1 : runs'[o].turn \in Codex!Crossed'
         \/ \A q \in runs'[n].first .. n - 1 : verdict'[runs'[q].turn] = "ok"
                                                => runs'[q].turn \in runs'[n].resumed.has
  BY <1>1, <1>2, <1>3, <1>4, <1>5
<1>7. \A p \in 1 .. Len(runs) : GoesOnTo(p)'
  BY OldGoesOn
<1>8. \A p \in DOMAIN runs' : p \in 1 .. Len(runs) \/ p = n
  BY <1>2, <1>3
<1> QED BY <1>6, <1>7, <1>8 DEF GoesOnTo, Codex!ContinuesConversation

(* What was calm before is calm: no more processes, no less crossings.     *)
LEMMA CalmWas ==
    ASSUME CodexInv, Calm', codex'.first = codex.first, codex'.up => codex.up,
           Len(runs') >= Len(runs), Len(runs') \in Nat, crossed \subseteq crossed',
           \A q \in 1 .. Len(runs) : runs'[q].turn = runs[q].turn
    PROVE  Calm /\ CalmGoesOn
<1>1. /\ codex'.up /\ codex.first \in Nat \ {0} /\ Len(runs) \in Nat
      /\ \A o \in codex.first .. Len(runs') : runs'[o].turn \notin Codex!Crossed'
  BY CodexFacts DEF Calm, CalmBefore
<1>2. Codex!Crossed \subseteq Codex!Crossed'
  BY DEF Codex!Crossed
<1>3. \A o \in codex.first .. Len(runs) : o \in 1 .. Len(runs) /\ o \in codex.first .. Len(runs')
  BY <1>1
<1>4. \A o \in codex.first .. Len(runs) : runs[o].turn \notin Codex!Crossed
  BY <1>1, <1>2, <1>3
<1>5. Calm
  BY <1>1, <1>4 DEF Calm, CalmBefore
<1> QED BY <1>5 DEF CodexInv, SessionGoesOn

(* A process does something: what is quiet stays quiet. *)
LEMMA ProcessKeeps ==
    ASSUME CodexInv, NEW p \in DOMAIN runs, NEW r \in Run, runs' = [runs EXCEPT ![p] = r],
           UNCHANGED <<callVars, exists, codex, crossed>>,
           r.turn = runs[p].turn, r.resumed = runs[p].resumed, r.first = runs[p].first,
           r.reader = runs[p].reader, SaysInOrder(r)', completed \subseteq completed',
           Settled(runs[p]) => Settled(r),
           r.told /\ SaysNoSession(r) => runs[p].told /\ SaysNoSession(runs[p]),
           worked' \subseteq worked \cup {<<r.turn, p>>}
    PROVE  CodexInv'
<1>1. /\ turn' = turn /\ pc' = pc /\ done' = done /\ err' = err /\ verdict' = verdict
      /\ started' = started /\ exists' = exists /\ codex' = codex /\ crossed' = crossed
  BY DEF callVars
<1>2. Follows(runs', p, r)
  BY RunChanges
<1>3. /\ Len(runs) \in Nat /\ DOMAIN runs = 1 .. Len(runs)
      /\ \A q \in 1 .. Len(runs) : RunOk(runs[q]) /\ runs[q].first <= q
  BY CodexFacts
<1>4. CodexShape'
  BY <1>1, <1>2 DEF CodexInv, CodexShape, Follows
<1>5. \A q \in 1 .. Len(runs) : RunOk(runs[q])'
  <2> SUFFICES ASSUME NEW q \in 1 .. Len(runs) PROVE RunOk(runs[q])'
    OBVIOUS
  <2>1. RunOk(runs[q]) /\ runs'[q] = IF q = p THEN r ELSE runs[q]
    BY <1>2, <1>3 DEF Follows
  <2>2. SaysInOrder(runs[q])'
    <3>1. CASE q = p
      BY <2>1, <3>1 DEF SaysInOrder
    <3>2. CASE q # p
      BY <2>1, <3>2 DEF RunOk, SaysInOrder
    <3> QED BY <3>1, <3>2
  <2> QED BY <1>1, <2>1, <2>2 DEF RunOk
<1>6. OneByOne'
  <2>1. \A w \in worked' : w[2] \in DOMAIN runs' /\ w[1] = runs'[w[2]].turn
    BY <1>2, <1>3 DEF CodexInv, OneByOne, Follows
  <2>2. \A q \in 1 .. Len(runs) : /\ runs'[q].first <= q
                                  /\ \A o \in 1 .. q - 1 : runs'[o].turn < runs'[q].turn
    BY <1>2, <1>3 DEF CodexInv, OneByOne, Follows
  <2>3. DOMAIN runs' = 1 .. Len(runs)
    BY <1>2 DEF Follows
  <2> QED BY <1>1, <1>5, <2>1, <2>2, <2>3 DEF CodexInv, OneByOne
<1>7. Codex!ContinuesConversation'
  BY <1>1, <1>2, SameContinues DEF Follows
<1>8. Calm' => CalmGoesOn'
  <2> SUFFICES ASSUME Calm' PROVE CalmGoesOn'
    OBVIOUS
  <2>1. Calm /\ CalmGoesOn
    BY <1>1, <1>2, <1>3, CalmWas DEF Follows
  <2>2. Len(runs') = Len(runs) /\ \A q \in codex.first .. Len(runs) : q \in 1 .. Len(runs)
    BY <1>2, CodexFacts DEF Follows
  <2>3. codex'.inFlight => Flies'
    <3>1. codex.first <= Len(runs) => Len(runs) \in 1 .. Len(runs)
      BY CodexFacts
    <3> QED BY <1>1, <1>2, <2>1, <2>2, <3>1 DEF CalmGoesOn, Flies, Follows
  <2>4. \A q \in 1 .. Len(runs) : /\ Settled(runs[q]) => Settled(runs'[q])
                                  /\ Knows(q)' => Knows(q)
    BY <1>1, <1>2 DEF Follows, Knows
  <2>5. \A q \in 1 .. Len(runs) : runs'[q].turn = runs[q].turn
    BY <1>2 DEF Follows
  <2> QED BY <1>1, <2>1, <2>2, <2>3, <2>4, <2>5 DEF CalmGoesOn
<1>9. OkIsReported'
  BY <1>1 DEF CodexInv, OkIsReported, Codex!Misreported, Codex!Crossed
<1>10. SessionGoesOn'
  BY <1>1, <1>7, <1>8 DEF CodexInv, SessionGoesOn
<1> QED BY <1>4, <1>6, <1>9, <1>10 DEF CodexInv

LEMMA CodexProcess ==
    ASSUME CallerOk, CodexInv, NEW p \in DOMAIN runs, Codex!ProcessStep(p)
    PROVE  /\ CodexInv' /\ runs[p].turn \in 1 .. turn /\ crossed' = crossed
           /\ completed' = completed \/ completed' = completed \cup {runs[p].turn}
           /\ UNCHANGED <<callVars, exists>>
<1>1. /\ runs[p] \in Run /\ RunOk(runs[p]) /\ turn \in Nat /\ runs[p].turn \in 1 .. turn
      /\ p \in Nat /\ runs[p].out \in Seq(Kinds)
  <2>1. runs[p] \in Run /\ RunOk(runs[p]) /\ runs[p].turn \in Turns /\ p \in 1 .. Len(runs)
    BY CodexFacts
  <2> QED BY <2>1, CallerAssumption DEF CallerOk, Run, RunOk, Turns
<1> DEFINE out == runs[p].out
<1>2. \A kind \in Kinds :
          /\ Append(out, kind) \in Seq(Kinds) /\ Len(out) \in Nat
          /\ DOMAIN Append(out, kind) = 1 .. Len(out) + 1 /\ DOMAIN out = 1 .. Len(out)
          /\ Append(out, kind)[Len(out) + 1] = kind
          /\ \A i \in 1 .. Len(out) : Append(out, kind)[i] = out[i]
  BY <1>1, AppendProperties, LenProperties
<1>3. ASSUME Codex!Tell(p) PROVE CodexInv'
  <2> PICK r : r = [runs[p] EXCEPT !.told = TRUE, !.out = Append(@, "session")]
    OBVIOUS
  <2>1. /\ runs[p].finals = 0 /\ ~runs[p].told /\ runs[p].alive
        /\ runs' = [runs EXCEPT ![p] = r] /\ completed' = completed
        /\ worked' = worked \cup {<<runs[p].turn, p>>} /\ UNCHANGED <<callVars, exists, codex, crossed>>
    BY <1>3 DEF Codex!Tell, Codex!callVars, callVars
  <2>2. /\ r \in Run /\ r.told /\ r.turn = runs[p].turn /\ r.resumed = runs[p].resumed
        /\ r.first = runs[p].first /\ r.reader = runs[p].reader /\ r.out = Append(out, "session")
        /\ r.finals = runs[p].finals
    BY <1>1, <1>2 DEF Run, Kinds
  <2>3. Len(out) = 0
    <3>1. \A i \in DOMAIN out : out[i] \in Kinds /\ out[i] # "session" /\ ~(out[i] # "session")
      BY <1>1, <2>1, ElementOfSeq, LenProperties DEF RunOk, SaysInOrder
    <3> QED BY <1>2, <3>1 DEF Kinds
  <2>4. "session" \in Kinds /\ DOMAIN r.out = 1 .. 1 /\ r.out[1] = "session"
    BY <1>2, <2>2, <2>3 DEF Kinds
  <2>5. SaysInOrder(r)' /\ ~SaysNoSession(r)
    BY <2>2, <2>4 DEF SaysInOrder, SaysNoSession
  <2>6. Settled(runs[p]) => Settled(r)
    BY <2>1, <2>2 DEF Settled
  <2> QED BY <2>1, <2>2, <2>5, <2>6, ProcessKeeps
<1>4. ASSUME NEW kind \in {"ok", "error"}, Codex!Final(p, kind) PROVE CodexInv'
  <2> PICK r : r = [runs[p] EXCEPT !.finals = @ + 1, !.out = Append(@, kind)]
    OBVIOUS
  <2>1. /\ kind = "ok" => runs[p].told
        /\ runs' = [runs EXCEPT ![p] = r] /\ worked' = worked
        /\ completed' = IF kind = "ok" THEN completed \cup {runs[p].turn} ELSE completed
        /\ UNCHANGED <<callVars, exists, codex, crossed>>
    BY <1>4 DEF Codex!Final, Codex!callVars, callVars
  <2>2. kind \in Kinds /\ runs[p].finals \in Nat
    BY <1>1 DEF Kinds, Run
  <2>3. /\ r \in Run /\ r.turn = runs[p].turn /\ r.resumed = runs[p].resumed
        /\ r.first = runs[p].first /\ r.reader = runs[p].reader /\ r.told = runs[p].told
        /\ r.alive = runs[p].alive /\ r.finals > 0 /\ r.out = Append(out, kind)
    <3> PICK more : more = Append(out, kind)
      OBVIOUS
    <3> PICK n : n = runs[p].finals + 1
      OBVIOUS
    <3>1. more \in Seq(Kinds) /\ n \in Nat /\ n > 0 /\ r = [runs[p] EXCEPT !.finals = n, !.out = more]
      BY <1>2, <2>2
    <3> QED BY <1>1, <3>1 DEF Run
  <2>4. \A i \in DOMAIN r.out : i = Len(out) + 1 \/ i \in DOMAIN out
    BY <1>2, <2>2, <2>3
  <2>5. SaysInOrder(r)'
    BY <1>1, <1>2, <2>1, <2>2, <2>3, <2>4 DEF RunOk, SaysInOrder
  <2>6. SaysNoSession(r) <=> SaysNoSession(runs[p])
    BY <1>2, <2>2, <2>3, <2>4 DEF SaysNoSession
  <2>7. Settled(runs[p]) => Settled(r)
    BY <2>3, <2>6 DEF Settled
  <2> QED BY <2>1, <2>3, <2>5, <2>6, <2>7, ProcessKeeps
<1>5. ASSUME Codex!Exit(p) PROVE CodexInv'
  <2> PICK r : r = [runs[p] EXCEPT !.alive = FALSE]
    OBVIOUS
  <2>1. /\ runs' = [runs EXCEPT ![p] = r] /\ completed' = completed /\ worked' = worked
        /\ UNCHANGED <<callVars, exists, codex, crossed>>
    BY <1>5 DEF Codex!Exit, Codex!history, Codex!callVars, callVars
  <2>2. /\ r \in Run /\ r.turn = runs[p].turn /\ r.resumed = runs[p].resumed
        /\ r.first = runs[p].first /\ r.reader = runs[p].reader /\ r.told = runs[p].told
        /\ r.finals = runs[p].finals /\ r.out = out /\ ~r.alive
    BY <1>1 DEF Run
  <2>3. SaysInOrder(r)' /\ (SaysNoSession(r) <=> SaysNoSession(runs[p]))
    BY <1>1, <2>1, <2>2 DEF RunOk, SaysInOrder, SaysNoSession
  <2>4. Settled(runs[p]) => Settled(r)
    BY <2>2, <2>3 DEF Settled
  <2> QED BY <2>1, <2>2, <2>3, <2>4, ProcessKeeps
<1>6. /\ completed' = completed \/ completed' = completed \cup {runs[p].turn}
      /\ UNCHANGED <<callVars, exists, crossed>>
  BY DEF Codex!ProcessStep, Codex!Tell, Codex!Final, Codex!Exit, Codex!history, Codex!callVars, callVars
<1> QED BY <1>1, <1>3, <1>4, <1>5, <1>6 DEF Codex!ProcessStep

(* What a reader leaves of its process: what it took was the first, and    *)
(* only the first can be the session.                                      *)
LEMMA OutTaken ==
    ASSUME CodexInv, NEW p \in DOMAIN runs, runs[p].out # <<>>,
           NEW r, r = [runs[p] EXCEPT !.out = Tail(@)]
    PROVE  /\ r \in Run /\ SaysNoSession(r) /\ SaysInOrder(r)
           /\ r.turn = runs[p].turn /\ r.resumed = runs[p].resumed /\ r.first = runs[p].first
           /\ r.reader = runs[p].reader /\ r.told = runs[p].told /\ r.alive = runs[p].alive
           /\ r.finals = runs[p].finals
           /\ Head(runs[p].out) = "session" => runs[p].told /\ ~SaysNoSession(runs[p])
           /\ Head(runs[p].out) # "session" => /\ SaysNoSession(runs[p]) /\ runs[p].finals > 0
                                               /\ Head(runs[p].out) \in {"ok", "error"}
           /\ Head(runs[p].out) = "ok" => runs[p].told /\ runs[p].turn \in completed
<1> DEFINE out == runs[p].out
<1>1. runs[p] \in Run /\ SaysInOrder(runs[p])
  BY CodexFacts DEF RunOk
<1>2. out \in Seq(Kinds) /\ runs[p].finals \in Nat
  BY <1>1 DEF Run
<1>3. /\ Tail(out) \in Seq(Kinds) /\ Len(out) \in Nat /\ Len(out) > 0
      /\ Head(out) = out[1] /\ 1 \in DOMAIN out /\ out[1] \in Kinds
      /\ \A i \in DOMAIN Tail(out) : i + 1 \in DOMAIN out /\ Tail(out)[i] = out[i + 1] /\ i + 1 # 1
  <2>1. /\ Tail(out) \in Seq(Kinds) /\ Len(out) \in Nat /\ Len(out) > 0 /\ Len(Tail(out)) = Len(out) - 1
        /\ \A i \in 1 .. Len(Tail(out)) : Tail(out)[i] = out[i + 1]
    BY <1>2, HeadTailProperties, EmptySeq, LenProperties
  <2>2. DOMAIN out = 1 .. Len(out) /\ DOMAIN Tail(out) = 1 .. Len(Tail(out))
    BY <1>2, <2>1, LenProperties
  <2> QED BY <1>2, <2>1, <2>2, ElementOfSeq
<1>4. /\ r \in Run /\ r.out = Tail(out)
      /\ r.turn = runs[p].turn /\ r.resumed = runs[p].resumed /\ r.first = runs[p].first
      /\ r.reader = runs[p].reader /\ r.told = runs[p].told /\ r.alive = runs[p].alive
      /\ r.finals = runs[p].finals
  BY <1>1, <1>3 DEF Run
<1>5. SaysNoSession(r)
  BY <1>1, <1>3, <1>4 DEF SaysNoSession, SaysInOrder
<1>6. SaysInOrder(r)
  BY <1>1, <1>3, <1>4, <1>5 DEF SaysInOrder, SaysNoSession
<1>7. out[1] = "session" => runs[p].told /\ ~SaysNoSession(runs[p])
  BY <1>1, <1>3 DEF SaysInOrder, SaysNoSession
<1>8. out[1] # "session" => SaysNoSession(runs[p]) /\ runs[p].finals > 0 /\ out[1] \in {"ok", "error"}
  BY <1>1, <1>3 DEF SaysInOrder, SaysNoSession, Kinds
<1>9. out[1] = "ok" => runs[p].told /\ runs[p].turn \in completed
  BY <1>1, <1>3 DEF SaysInOrder
<1> QED BY <1>3, <1>4, <1>5, <1>6, <1>7, <1>8, <1>9

(* What the processes keep while their turns do not change. *)
LEMMA TurnsKeep ==
    ASSUME CodexInv, NEW p, NEW r, NEW left, Follows(left, p, r)
    PROVE  /\ \A q \in 1 .. Len(runs) : left[q].first <= q
           /\ \A q \in 1 .. Len(runs) : \A o \in 1 .. q - 1 : left[o].turn < left[q].turn
           /\ \A w \in worked : w[2] \in 1 .. Len(runs) /\ w[1] = left[w[2]].turn
<1>1. /\ Len(runs) \in Nat /\ DOMAIN runs = 1 .. Len(runs)
      /\ \A q \in 1 .. Len(runs) : /\ runs[q].first <= q
                                   /\ \A o \in 1 .. q - 1 : runs[o].turn < runs[q].turn
  BY CodexFacts DEF CodexInv, OneByOne
<1>2. \A q \in 1 .. Len(runs) : left[q].turn = runs[q].turn /\ left[q].first = runs[q].first
  BY DEF Follows
<1>3. \A q \in 1 .. Len(runs) : \A o \in 1 .. q - 1 : left[o].turn < left[q].turn
  <2> SUFFICES ASSUME NEW q \in 1 .. Len(runs), NEW o \in 1 .. q - 1 PROVE left[o].turn < left[q].turn
    OBVIOUS
  <2>1. o \in 1 .. Len(runs)
    BY <1>1
  <2> QED BY <1>1, <1>2, <2>1
<1>4. \A w \in worked : w[2] \in 1 .. Len(runs) /\ w[1] = left[w[2]].turn
  BY <1>1, <1>2 DEF CodexInv, OneByOne
<1> QED BY <1>1, <1>2, <1>3, <1>4

(* A reader takes something of its process, or ends: what is so of each.   *)
LEMMA ReaderKeeps ==
    ASSUME CodexInv, NEW p \in DOMAIN runs, NEW r \in Run, NEW left, left = [runs EXCEPT ![p] = r],
           r.turn = runs[p].turn, r.resumed = runs[p].resumed, r.first = runs[p].first,
           r.reader \in {runs[p].reader, "ended"}, SaysInOrder(r),
           UNCHANGED <<turn, pc, completed>>,
           UNCHANGED <<codex.up, codex.first>>, codex'.pending # <<>> => codex.pending # <<>>
    PROVE  Follows(left, p, r) /\ \A q \in 1 .. Len(runs) : RunOk(left[q])'
<1>1. Follows(left, p, r)
  BY RunChanges
<1>2. /\ Len(runs) \in Nat /\ DOMAIN runs = 1 .. Len(runs)
      /\ \A q \in 1 .. Len(runs) : RunOk(runs[q]) /\ runs[q].first <= q
  BY CodexFacts
<1>3. \A q \in 1 .. Len(runs) : RunOk(left[q])'
  <2> SUFFICES ASSUME NEW q \in 1 .. Len(runs) PROVE RunOk(left[q])'
    OBVIOUS
  <2>1. RunOk(runs[q]) /\ left[q] = IF q = p THEN r ELSE runs[q]
    BY <1>1, <1>2 DEF Follows
  <2>2. SaysInOrder(left[q])'
    BY <2>1 DEF RunOk, SaysInOrder
  <2>3. CASE q = p
    BY <2>1, <2>2, <2>3 DEF RunOk
  <2>4. CASE q # p
    BY <2>1, <2>2, <2>4 DEF RunOk
  <2> QED BY <2>3, <2>4
<1> QED BY <1>1, <1>3

(* Only the last process, in flight, has a session to be read; what it     *)
(* resumed holds the turns before.                                         *)
LEMMA CodexReadsSession ==
    ASSUME CallerOk, CodexInv, NEW p \in DOMAIN runs, Codex!ReadSession(p)
    PROVE  CodexInv'
<1> PICK r : r = [runs[p] EXCEPT !.out = Tail(@)]
  OBVIOUS
<1>1. /\ runs[p].reader = "loop" /\ runs[p].out # <<>> /\ Head(runs[p].out) = "session"
      /\ runs' = [runs EXCEPT ![p] = r] /\ completed' = completed /\ worked' = worked
      /\ codex' = [codex EXCEPT !.session = Codex!Session(p)]
      /\ UNCHANGED <<turn, pc, done, err, verdict, started, exists, crossed>>
  BY DEF Codex!ReadSession, Codex!Has, Codex!Consume, Codex!callVars, Codex!history
<1>2. /\ r \in Run /\ SaysNoSession(r) /\ SaysInOrder(r)
      /\ r.turn = runs[p].turn /\ r.resumed = runs[p].resumed /\ r.first = runs[p].first
      /\ r.reader = runs[p].reader /\ r.told = runs[p].told /\ r.alive = runs[p].alive
      /\ r.finals = runs[p].finals /\ runs[p].told /\ ~SaysNoSession(runs[p])
  BY <1>1, OutTaken
<1>3. /\ runs \in Seq(Run) /\ Len(runs) \in Nat /\ DOMAIN runs = 1 .. Len(runs)
      /\ codex.first \in Nat \ {0} /\ codex.first <= Len(runs) + 1
      /\ runs[p] \in Run /\ RunOk(runs[p]) /\ runs[p].turn \in Turns /\ runs[p].first <= p
  BY CodexFacts
<1>4. /\ codex'.up = codex.up /\ codex'.first = codex.first /\ codex'.pending = codex.pending
      /\ codex'.inFlight = codex.inFlight /\ codex.up /\ runs[p].first = codex.first
      /\ codex'.session.has = runs[p].resumed.has \cup {runs[p].turn} /\ codex' \in Engines
  <2> PICK has : has = runs[p].resumed.has \cup {runs[p].turn}
    OBVIOUS
  <2> PICK id : id = Codex!Session(p)
    OBVIOUS
  <2>1. id = [kind |-> "codex", has |-> has]
    BY DEF Codex!Session, Codex!Id
  <2>2. runs[p].resumed \in Codex!Ids
    BY <1>3 DEF Run
  <2>3. has \subseteq Turns \cup {Codex!Operators}
    BY <1>3, <2>2 DEF Codex!Ids, Codex!Turns, Turns
  <2>4. id \in Codex!Ids
    BY <2>1, <2>3 DEF Codex!Ids, Codex!Turns, Turns
  <2>5. codex \in Engines /\ codex' = [codex EXCEPT !.session = id] /\ codex.up
        /\ runs[p].first = codex.first
    BY <1>1, <1>3 DEF CodexInv, CodexShape, RunOk
  <2>6. /\ codex'.session = id /\ codex' \in Engines /\ codex'.up = codex.up
        /\ codex'.first = codex.first /\ codex'.pending = codex.pending /\ codex'.inFlight = codex.inFlight
    BY <2>4, <2>5 DEF Engines
  <2>7. codex'.session.has = has
    BY <2>1, <2>6
  <2> QED BY <2>5, <2>6, <2>7
<1>5. /\ Follows(runs', p, r) /\ Codex!ContinuesConversation'
      /\ \A q \in 1 .. Len(runs) : RunOk(runs[q])' /\ runs'[q].first <= q
      /\ \A q \in 1 .. Len(runs) : \A o \in 1 .. q - 1 : runs'[o].turn < runs'[q].turn
      /\ \A w \in worked : w[2] \in 1 .. Len(runs) /\ w[1] = runs'[w[2]].turn
  <2> PICK left : left = runs'
    OBVIOUS
  <2>1. UNCHANGED <<turn, pc, completed>>
    BY <1>1
  <2>2. UNCHANGED <<codex.up, codex.first>> /\ (codex'.pending # <<>> => codex.pending # <<>>)
    BY <1>4
  <2>3. left = [runs EXCEPT ![p] = r]
    BY <1>1
  <2>4. r.reader \in {runs[p].reader, "ended"}
    BY <1>2
  <2>5. Follows(left, p, r) /\ \A q \in 1 .. Len(runs) : RunOk(left[q])'
    BY <1>2, <2>1, <2>2, <2>3, <2>4, ReaderKeeps
  <2>6. \A q \in 1 .. Len(runs) : RunOk(runs[q])'
    BY <2>5 DEF RunOk, SaysInOrder
  <2>7. Codex!ContinuesConversation'
    BY <1>1, <2>5, SameContinues DEF Follows
  <2> QED BY <2>5, <2>6, <2>7, TurnsKeep
<1>6. CodexShape'
  BY <1>1, <1>3, <1>4, <1>5 DEF CodexInv, CodexShape, Follows
<1>7. OneByOne'
  <2>1. DOMAIN runs' = 1 .. Len(runs)
    BY <1>5 DEF Follows
  <2> QED BY <1>1, <1>4, <1>5, <2>1 DEF CodexInv, OneByOne
<1>8. (codex.up /\ exists => Codex!Operators \in codex.session.has)'
  <2>1. exists => Codex!Operators \in runs[p].resumed.has
    BY DEF CodexInv, SessionGoesOn, Codex!ContinuesConversation
  <2> QED BY <1>1, <1>4, <2>1
<1>9. Calm' => CalmGoesOn'
  <2> SUFFICES ASSUME Calm' PROVE CalmGoesOn'
    OBVIOUS
  <2>1. Calm /\ CalmGoesOn /\ Len(runs') = Len(runs)
    BY <1>1, <1>3, <1>4, <1>5, CalmWas DEF Follows
  <2>2. ~Settled(runs[p])
    BY <1>1, <1>2 DEF Settled
  <2>3. codex.inFlight /\ p = Len(runs) /\ Flies
    BY <1>3, <1>4, <2>1, <2>2 DEF CalmGoesOn
  <2>4. Flies'
    BY <1>1, <1>3, <1>4, <1>5, <2>1, <2>3 DEF Flies, Follows
  <2>5. ASSUME NEW q \in codex.first .. Len(runs)
        PROVE  /\ Settled(runs'[q]) \/ (codex'.inFlight /\ q = Len(runs))
               /\ Knows(q)' => runs'[q].turn \in codex'.session.has
    <3>1. CASE q = p
      BY <1>2, <1>4, <1>3, <1>5, <2>3, <3>1 DEF Follows
    <3>2. CASE q # p
      <4>1. q \in runs[p].first .. p - 1 /\ q \in 1 .. Len(runs) /\ runs'[q] = runs[q]
        BY <1>3, <1>4, <1>5, <2>3, <2>5, <3>2 DEF Follows
      <4>2. Knows(q)' => verdict[runs[q].turn] = "ok"
        <5>1. ~(pc = "wait" /\ done)
          BY <2>3 DEF Flies
        <5> QED BY <1>1, <2>1, <2>3, <3>2, <4>1, <5>1 DEF Knows
      <4>3. \A o \in runs[p].first .. p - 1 : runs[o].turn \notin Codex!Crossed
        BY <1>3, <1>4, <2>1, <2>3 DEF Calm, CalmBefore
      <4>4. verdict[runs[q].turn] = "ok" => runs[q].turn \in runs[p].resumed.has
        BY <4>1, <4>3 DEF CodexInv, SessionGoesOn, Codex!ContinuesConversation
      <4>5. Settled(runs[q])
        BY <2>1, <2>3, <2>5, <3>2 DEF CalmGoesOn
      <4> QED BY <1>4, <4>1, <4>2, <4>4, <4>5
    <3> QED BY <3>1, <3>2
  <2> QED BY <1>4, <2>1, <2>4, <2>5 DEF CalmGoesOn
<1>10. OkIsReported'
  BY <1>1 DEF CodexInv, OkIsReported, Codex!Misreported, Codex!Crossed
<1>11. SessionGoesOn'
  BY <1>5, <1>8, <1>9 DEF SessionGoesOn
<1> QED BY <1>6, <1>7, <1>10, <1>11 DEF CodexInv

(* The process for a prompt. *)
LEMMA NewRunIs ==
    ASSUME CallerOk, CodexInv, pc # "idle", NEW r, r = Codex!NewRun(turn)
    PROVE  /\ r \in Run /\ r.turn = turn /\ r.resumed = codex.session /\ r.first = codex.first
           /\ r.reader = "loop" /\ ~r.told /\ r.finals = 0 /\ r.alive /\ r.out = <<>>
           /\ \A i \in DOMAIN r.out : FALSE
<1>1. turn \in Turns /\ codex.session \in Codex!Ids /\ codex.first \in Nat \ {0}
  BY DEF CallerOk, CodexInv, CodexShape, Engines
<1>2. <<>> \in Seq(Kinds) /\ DOMAIN <<>> = {}
  BY EmptySeq
<1> QED BY <1>1, <1>2 DEF Codex!NewRun, Run

(* It joins the others: each has a turn of its own, in order. *)
LEMMA OneMore ==
    ASSUME CallerOk, CodexInv, pc # "idle", codex.up, \A q \in DOMAIN runs : runs[q].turn # turn,
           NEW p, NEW r, NEW left, Follows(left, p, r), \A q \in 1 .. Len(runs) : RunOk(left[q])',
           NEW all, all = runs', runs' = Append(left, Codex!NewRun(turn)), pc' # "send", codex'.pending = <<>>,
           UNCHANGED <<turn, codex.up, codex.first, worked>>
    PROVE  /\ runs' \in Seq(Run) /\ Len(runs') = Len(runs) + 1 /\ DOMAIN runs' = 1 .. Len(runs) + 1
           /\ runs'[Len(runs) + 1] = Codex!NewRun(turn)
           /\ \A q \in 1 .. Len(runs) : runs'[q] = left[q]
           /\ \A q \in DOMAIN all : RunOk(all[q])'
           /\ \A q \in DOMAIN runs' : runs'[q].first <= q
           /\ \A q \in DOMAIN runs' : \A o \in 1 .. q - 1 : runs'[o].turn < runs'[q].turn
           /\ \A w \in worked' : w[2] \in DOMAIN runs' /\ w[1] = runs'[w[2]].turn
<1> PICK new : new = Codex!NewRun(turn)
  OBVIOUS
<1> PICK n : n = Len(runs) + 1
  OBVIOUS
<1>1. /\ new \in Run /\ new.turn = turn /\ new.first = codex.first /\ new.reader = "loop"
      /\ \A i \in DOMAIN new.out : FALSE
  BY NewRunIs
<1>2. left \in Seq(Run) /\ Len(left) = Len(runs)
  BY DEF Follows
<1>3. /\ Len(runs) \in Nat /\ DOMAIN runs = 1 .. Len(runs) /\ codex.first <= n /\ turn \in Nat
      /\ \A q \in 1 .. Len(runs) : RunOk(runs[q]) /\ runs[q].turn \in Nat
  BY CodexFacts, CallerAssumption DEF CallerOk
<1>4. /\ runs' \in Seq(Run) /\ Len(runs') = n /\ DOMAIN runs' = 1 .. n /\ runs'[n] = new
      /\ \A q \in 1 .. Len(runs) : runs'[q] = left[q]
  <2>1. runs' = Append(left, new)
    OBVIOUS
  <2> QED BY <1>1, <1>2, <2>1, RunJoins
<1>5. \A q \in DOMAIN runs' : q \in 1 .. Len(runs) \/ q = n
  BY <1>3, <1>4
<1>6. \A q \in DOMAIN all : RunOk(all[q])'
  <2>1. RunOk(new)'
    BY <1>1, <1>3 DEF RunOk, SaysInOrder
  <2>2. \A q \in DOMAIN all : (q \in 1 .. Len(runs) /\ all[q] = left[q]) \/ all[q] = new
    BY <1>4, <1>5
  <2> SUFFICES ASSUME NEW q \in DOMAIN all PROVE RunOk(all[q])'
    OBVIOUS
  <2>3. CASE all[q] = new
    BY <2>1, <2>3
  <2>4. CASE q \in 1 .. Len(runs) /\ all[q] = left[q]
    <3>1. RunOk(left[q])'
      BY <2>4
    <3> QED BY <2>4, <3>1
  <2> QED BY <2>2, <2>3, <2>4
<1>7. \A q \in DOMAIN runs' : runs'[q].first <= q
  BY <1>1, <1>3, <1>4, <1>5, TurnsKeep
<1>8. \A q \in 1 .. Len(runs) : left[q].turn < turn
  <2>1. \A q \in 1 .. Len(runs) : runs[q].turn < turn
    BY <1>3 DEF RunOk
  <2> QED BY <2>1 DEF Follows
<1>9. \A q \in DOMAIN runs' : \A o \in 1 .. q - 1 : runs'[o].turn < runs'[q].turn
  <2> SUFFICES ASSUME NEW q \in DOMAIN runs', NEW o \in 1 .. q - 1 PROVE runs'[o].turn < runs'[q].turn
    OBVIOUS
  <2>1. o \in 1 .. Len(runs) /\ runs'[o] = left[o]
    BY <1>3, <1>4
  <2>2. CASE q = n
    BY <1>1, <1>4, <1>8, <2>1, <2>2
  <2>3. CASE q \in 1 .. Len(runs)
    BY <1>4, <2>1, <2>3, TurnsKeep
  <2> QED BY <1>5, <2>2, <2>3
<1>10. \A w \in worked' : w[2] \in DOMAIN runs' /\ w[1] = runs'[w[2]].turn
  <2>1. \A w \in worked : w[2] \in 1 .. Len(runs) /\ w[1] = left[w[2]].turn
    BY TurnsKeep
  <2> QED BY <1>3, <1>4, <2>1
<1> QED BY <1>4, <1>6, <1>7, <1>9, <1>10

(* A report or an end of file ends the turn in flight.  While the engine   *)
(* is calm it is the turn of that process; if it is another's, that turn   *)
(* is crossed from here on.                                                *)
LEMMA EndsTurnKeeps ==
    ASSUME CallerOk, CodexInv, NEW p \in DOMAIN runs, NEW r \in Run, NEW left,
           left = [runs EXCEPT ![p] = r], NEW report \in {"ok", "error", "eof"},
           Codex!EndsTurn(p, report, left),
           r.turn = runs[p].turn, r.resumed = runs[p].resumed, r.first = runs[p].first,
           r.told = runs[p].told, r.reader \in {runs[p].reader, "ended"}, runs[p].reader = "loop",
           SaysInOrder(r), SaysNoSession(r), SaysNoSession(runs[p]), Settled(r),
           report = "ok" => runs[p].told /\ runs[p].turn \in completed,
           UNCHANGED <<turn, pc, verdict, started, exists, completed, worked>>
    PROVE  /\ CodexInv' /\ done' = TRUE /\ err' \in BOOLEAN
           /\ \/ Codex!Misreported' = Codex!Misreported
              \/ turn \in 1 .. turn /\ Codex!Misreported' = Codex!Misreported \cup {turn}
<1>1. /\ runs \in Seq(Run) /\ Len(runs) \in Nat /\ DOMAIN runs = 1 .. Len(runs)
      /\ codex.first \in Nat \ {0} /\ codex.first <= Len(runs) + 1
      /\ \A q \in 1 .. Len(runs) : RunOk(runs[q]) /\ runs[q].turn \in Nat
      /\ turn \in Nat /\ codex \in Engines /\ p \in 1 .. Len(runs)
  BY CodexFacts, CallerAssumption DEF CodexInv, CodexShape, CallerOk
<1>2. codex.pending # <<>> => /\ codex.pending = <<turn>> /\ codex.inFlight /\ turn \in Turns
                              /\ pc \in {"wait", "stop"} /\ ~done
  BY DEF CodexInv, OneByOne, CallerOk
<1>3. /\ codex'.up = codex.up /\ codex'.first = codex.first /\ codex'.session = codex.session
      /\ codex'.pending = <<>> /\ codex' \in Engines /\ (codex'.inFlight => codex.inFlight)
      /\ done' = TRUE /\ codex.up
  <2>1. codex.pending # <<>> => Tail(codex.pending) = <<>> /\ Head(codex.pending) = turn
    <3>1. ASSUME codex.pending # <<>>
          PROVE  <<turn>> \in Seq(Turns) /\ Len(<<turn>>) = 1 /\ Head(<<turn>>) = turn
      BY <1>2, <3>1
    <3>2. ASSUME codex.pending # <<>> PROVE Tail(<<turn>>) = <<>>
      BY <3>1, <3>2, HeadTailProperties, EmptySeq
    <3> QED BY <1>2, <3>1, <3>2
  <2>2. <<>> \in Seq(Turns)
    BY EmptySeq
  <2>3. codex.up /\ done' = TRUE
    BY <1>1 DEF RunOk, Codex!EndsTurn
  <2>4. \/ codex' = [codex EXCEPT !.finished = (report # "eof"), !.inFlight = FALSE] /\ codex.pending = <<>>
        \/ codex' = [codex EXCEPT !.finished = FALSE, !.pending = <<>>] /\ codex.pending # <<>>
        \/ codex' = [codex EXCEPT !.finished = FALSE, !.inFlight = FALSE, !.pending = <<>>]
    BY <2>1 DEF Codex!EndsTurn
  <2>5. CASE codex' = [codex EXCEPT !.finished = (report # "eof"), !.inFlight = FALSE] /\ codex.pending = <<>>
    <3> PICK finished \in BOOLEAN : finished = (report # "eof")
      OBVIOUS
    <3>1. codex' = [codex EXCEPT !.finished = finished, !.inFlight = FALSE]
      BY <2>5
    <3> QED BY <1>1, <2>3, <2>5, <3>1 DEF Engines
  <2>6. CASE codex' = [codex EXCEPT !.finished = FALSE, !.pending = <<>>] /\ codex.pending # <<>>
    BY <1>1, <2>2, <2>3, <2>6 DEF Engines
  <2>7. CASE codex' = [codex EXCEPT !.finished = FALSE, !.inFlight = FALSE, !.pending = <<>>]
    BY <1>1, <2>2, <2>3, <2>7 DEF Engines
  <2> QED BY <2>4, <2>5, <2>6, <2>7
<1>4. \/ runs' = left /\ ~codex'.inFlight /\ (codex.pending = <<>> => err' = (report # "ok"))
      \/ runs' = Append(left, Codex!NewRun(turn)) /\ codex.pending # <<>>
  <2>1. codex.pending # <<>> => Head(codex.pending) = turn
    BY <1>2
  <2> QED BY <1>1, <2>1 DEF Codex!EndsTurn, Engines
<1>5. err' \in BOOLEAN /\ (~err' => report = "ok")
  BY DEF Codex!EndsTurn
<1>6. crossed' = IF pc = "idle" \/ runs[p].turn = turn THEN crossed
                 ELSE crossed \cup {<<turn, IF report = "ok" THEN "ok" ELSE "error">>}
  BY DEF Codex!EndsTurn
<1>7. crossed \subseteq crossed'
  BY <1>6
<1>8. /\ pc # "idle" /\ runs[p].turn # turn => turn \in Codex!Crossed'
      /\ Codex!Misreported' = IF pc # "idle" /\ runs[p].turn # turn /\ report = "ok"
                              THEN Codex!Misreported \cup {turn} ELSE Codex!Misreported
  <2> PICK kind : kind = IF report = "ok" THEN "ok" ELSE "error"
    OBVIOUS
  <2>1. CASE pc = "idle" \/ runs[p].turn = turn
    BY <1>6, <2>1 DEF Codex!Misreported
  <2>2. CASE pc # "idle" /\ runs[p].turn # turn
    <3>1. crossed' = crossed \cup {<<turn, kind>>} /\ <<turn, kind>>[1] = turn /\ turn \in Turns
      BY <1>6, <2>2 DEF CallerOk
    <3>2. turn \in Codex!Crossed'
      BY <3>1 DEF Codex!Crossed
    <3>3. \A n \in Codex!Turns : <<n, "ok">> \in crossed' <=> <<n, "ok">> \in crossed \/ (n = turn /\ kind = "ok")
      BY <3>1
    <3>4. kind = "ok" <=> report = "ok"
      OBVIOUS
    <3>5. turn \in Codex!Turns
      BY <3>1 DEF Codex!Turns, Turns
    <3> QED BY <2>2, <3>2, <3>3, <3>4, <3>5 DEF Codex!Misreported
  <2> QED BY <2>1, <2>2
<1>9. Follows(left, p, r) /\ \A q \in 1 .. Len(runs) : RunOk(left[q])'
  <2>1. UNCHANGED <<turn, pc, completed>>
    OBVIOUS
  <2>2. UNCHANGED <<codex.up, codex.first>> /\ (codex'.pending # <<>> => codex.pending # <<>>)
    BY <1>3
  <2> QED BY <2>1, <2>2, ReaderKeeps
<1>10. OkIsReported'
  <2>1. ASSUME pc \in {"send", "wait"}, ~err' PROVE turn \in completed \cup Codex!Misreported'
    BY <1>5, <1>8, <2>1
  <2>2. pc = "send" => runs[p].turn # turn
    BY <1>1 DEF RunOk
  <2> QED BY <1>8, <2>1, <2>2 DEF OkIsReported
<1>11. \/ Codex!Misreported' = Codex!Misreported
       \/ turn \in 1 .. turn /\ Codex!Misreported' = Codex!Misreported \cup {turn}
  <2>1. pc # "idle" => turn \in 1 .. turn
    BY <1>1 DEF CallerOk, Turns
  <2> QED BY <1>8, <2>1
<1>12. codex'.up /\ exists' => Codex!Operators \in codex'.session.has
  BY <1>3 DEF CodexInv, SessionGoesOn
<1>13. ASSUME runs' = left, ~codex'.inFlight, codex.pending = <<>> => err' = (report # "ok")
       PROVE  CodexInv'
  <2>1. Follows(runs', p, r) /\ DOMAIN runs' = 1 .. Len(runs) /\ Len(runs') = Len(runs)
    BY <1>9, <1>13 DEF Follows
  <2>2. CodexShape'
    BY <1>3, <2>1 DEF CodexInv, CodexShape, Follows
  <2>3. \A q \in 1 .. Len(runs) : RunOk(runs[q])'
    BY <1>9, <1>13 DEF RunOk, SaysInOrder
  <2>4. OneByOne'
    BY <1>3, <1>9, <1>13, <2>1, <2>3, TurnsKeep DEF CodexInv, OneByOne
  <2>5. Codex!ContinuesConversation'
    BY <1>7, <2>1, SameContinues DEF Follows
  <2>6. Calm' => CalmGoesOn'
    <3> SUFFICES ASSUME Calm' PROVE CalmGoesOn'
      OBVIOUS
    <3>1. Calm /\ CalmGoesOn
      <4>1. \A q \in 1 .. Len(runs) : runs'[q].turn = runs[q].turn
        BY <2>1 DEF Follows
      <4>2. codex'.first = codex.first /\ (codex'.up => codex.up) /\ Len(runs') >= Len(runs)
            /\ Len(runs') \in Nat
        BY <1>1, <1>3, <2>1
      <4> QED BY <1>7, <4>1, <4>2, CalmWas
    <3>2. codex.pending = <<>>
      BY <1>2, <3>1 DEF CalmGoesOn, Flies
    <3>3. \A q \in codex.first .. Len(runs) :
              /\ q \in 1 .. Len(runs) /\ runs'[q].turn = runs[q].turn /\ runs[q].turn \notin Codex!Crossed'
              /\ runs'[q] = IF q = p THEN r ELSE runs[q]
      BY <1>1, <1>3, <2>1 DEF Calm, CalmBefore, Follows
    <3>4. ASSUME NEW q \in codex.first .. Len(runs), runs[q].turn = turn, pc # "idle" PROVE q = p
      <4>1. runs[p].turn = turn
        BY <1>8, <3>3, <3>4
      <4>2. q < p => runs[q].turn < runs[p].turn
        BY <1>1, <3>3 DEF CodexInv, OneByOne
      <4>3. p < q => runs[p].turn < runs[q].turn
        BY <1>1, <3>3 DEF CodexInv, OneByOne
      <4> QED BY <1>1, <3>4, <4>1, <4>2, <4>3
    <3>5. ASSUME NEW q \in codex.first .. Len(runs) PROVE Settled(runs'[q])
      <4>1. CASE q = p
        BY <3>3, <4>1
      <4>2. CASE q # p
        <5>1. ~(codex.inFlight /\ q = Len(runs))
          BY <3>1, <3>4, <3>5, <4>2 DEF CalmGoesOn, Flies
        <5> QED BY <3>1, <3>3, <4>2, <5>1 DEF CalmGoesOn
      <4> QED BY <4>1, <4>2
    <3>6. ASSUME NEW q \in codex.first .. Len(runs), Knows(q)' PROVE Knows(q)
      <4>1. CASE verdict'[runs'[q].turn] = "ok"
        BY <3>3, <4>1 DEF Knows
      <4>2. CASE pc' = "wait" /\ done' /\ ~err' /\ runs'[q].turn = turn'
        <5>1. q = p /\ runs[p].told
          BY <1>5, <3>3, <3>4, <4>2
        <5>2. p = Len(runs)
          <6>1. p # Len(runs) => runs[p].turn < runs[Len(runs)].turn
            BY <1>1 DEF CodexInv, OneByOne
          <6>2. runs[Len(runs)].turn <= turn /\ runs[Len(runs)].turn \in Nat
            BY <1>1 DEF RunOk
          <6> QED BY <1>1, <3>3, <4>2, <5>1, <6>1, <6>2
        <5> QED BY <5>1, <5>2 DEF Knows
      <4>3. CASE q = Len(runs') /\ runs'[q].told /\ SaysNoSession(runs'[q])
        BY <2>1, <3>3, <4>3 DEF Knows
      <4> QED BY <3>6, <4>1, <4>2, <4>3 DEF Knows
    <3> QED BY <1>3, <1>13, <2>1, <3>1, <3>3, <3>5, <3>6 DEF CalmGoesOn
  <2>7. SessionGoesOn'
    BY <1>12, <2>5, <2>6 DEF SessionGoesOn
  <2> QED BY <1>10, <2>2, <2>4, <2>7 DEF CodexInv
<1>14. ASSUME runs' = Append(left, Codex!NewRun(turn)), codex.pending # <<>>
       PROVE  CodexInv'
  <2> PICK new : new = Codex!NewRun(turn)
    OBVIOUS
  <2>1. /\ pc \in {"wait", "stop"} /\ codex.inFlight /\ codex.up
        /\ \A q \in DOMAIN runs : runs[q].turn # turn
    BY <1>1, <1>2, <1>3, <1>14 DEF RunOk
  <2>2. /\ runs' \in Seq(Run) /\ Len(runs') = Len(runs) + 1 /\ DOMAIN runs' = 1 .. Len(runs) + 1
        /\ runs'[Len(runs) + 1] = new
        /\ \A q \in 1 .. Len(runs) : runs'[q] = left[q]
        /\ \A q \in DOMAIN runs' : RunOk(runs[q])' /\ runs'[q].first <= q
        /\ \A q \in DOMAIN runs' : \A o \in 1 .. q - 1 : runs'[o].turn < runs'[q].turn
        /\ \A w \in worked' : w[2] \in DOMAIN runs' /\ w[1] = runs'[w[2]].turn
    <3> PICK all : all = runs'
      OBVIOUS
    <3>1. pc # "idle" /\ pc' # "send" /\ codex'.pending = <<>>
          /\ UNCHANGED <<turn, codex.up, codex.first, worked>>
      BY <1>3, <2>1
    <3>2. /\ Follows(left, p, r) /\ \A q \in 1 .. Len(runs) : RunOk(left[q])'
          /\ runs' = Append(left, Codex!NewRun(turn))
      BY <1>9, <1>14
    <3>0. all = runs'
      OBVIOUS
    <3>3. runs' \in Seq(Run) /\ Len(runs') = Len(runs) + 1 /\ DOMAIN runs' = 1 .. Len(runs) + 1
      BY <2>1, <3>0, <3>1, <3>2, OneMore
    <3>8. runs'[Len(runs) + 1] = Codex!NewRun(turn)
      BY <2>1, <3>0, <3>1, <3>2, OneMore
    <3>9. \A q \in 1 .. Len(runs) : runs'[q] = left[q]
      BY <2>1, <3>0, <3>1, <3>2, OneMore
    <3>4. \A q \in DOMAIN runs' : RunOk(runs[q])'
      <4>1. \A q \in DOMAIN all : RunOk(all[q])'
        BY <2>1, <3>1, <3>2, OneMore
      <4> QED BY <4>1 DEF RunOk, SaysInOrder
    <3>5. \A q \in DOMAIN runs' : \A o \in 1 .. q - 1 : runs'[o].turn < runs'[q].turn
      BY <2>1, <3>1, <3>2, OneMore
    <3>6. \A w \in worked' : w[2] \in DOMAIN runs' /\ w[1] = runs'[w[2]].turn
      BY <2>1, <3>1, <3>2, OneMore
    <3>7. \A q \in DOMAIN runs' : runs'[q].first <= q
      BY <2>1, <3>1, <3>2, OneMore
    <3> QED BY <3>3, <3>4, <3>5, <3>6, <3>7, <3>8, <3>9
  <2>3. \A q \in 1 .. Len(runs) : /\ runs'[q].turn = runs[q].turn
                                  /\ runs'[q].resumed = runs[q].resumed
                                  /\ runs'[q].first = runs[q].first
    BY <1>9, <2>2 DEF Follows
  <2>4. CodexShape'
    BY <1>1, <1>3, <2>2 DEF CodexInv, CodexShape
  <2>5. OneByOne'
    BY <1>3, <2>1, <2>2 DEF OneByOne
  <2>6. Codex!ContinuesConversation'
    <3>1. new.resumed = codex.session /\ new.first = codex.first
      BY <2>1, NewRunIs
    <3>2. UNCHANGED <<exists, verdict>>
      OBVIOUS
    <3> QED BY <1>7, <2>1, <2>2, <2>3, <3>1, <3>2, JoinContinues
  <2>7. ~Calm'
    <3>1. Len(runs') >= Len(runs) /\ Len(runs') \in Nat
      BY <1>1, <2>2
    <3>2. Calm' => CalmGoesOn
      BY <1>3, <1>7, <2>3, <3>1, CalmWas
    <3> QED BY <1>14, <2>1, <3>2 DEF CalmGoesOn, Flies
  <2>8. SessionGoesOn'
    BY <1>12, <2>6, <2>7 DEF SessionGoesOn
  <2> QED BY <1>10, <2>4, <2>5, <2>8 DEF CodexInv
<1> QED BY <1>3, <1>4, <1>5, <1>11, <1>13, <1>14

(* A final event: ignored when the turn has had one. *)
LEMMA CodexReadsFinal ==
    ASSUME CallerOk, CodexInv, NEW p \in DOMAIN runs, Codex!ReadFinal(p)
    PROVE  /\ CodexInv' /\ done' \in BOOLEAN /\ err' \in BOOLEAN
           /\ \/ Codex!Misreported' = Codex!Misreported
              \/ turn \in 1 .. turn /\ Codex!Misreported' = Codex!Misreported \cup {turn}
<1> PICK r : r = [runs[p] EXCEPT !.out = Tail(@)]
  OBVIOUS
<1> PICK left : left = [runs EXCEPT ![p] = r]
  OBVIOUS
<1> PICK report : report = Head(runs[p].out)
  OBVIOUS
<1>1. /\ runs[p].reader = "loop" /\ runs[p].out # <<>> /\ report # "session" /\ report \in {"ok", "error"}
      /\ IF codex.finished THEN runs' = left /\ UNCHANGED <<done, err, codex, crossed>>
                           ELSE Codex!EndsTurn(p, report, left)
      /\ UNCHANGED <<turn, pc, verdict, started, exists, completed, worked>>
  BY DEF Codex!ReadFinal, Codex!Has, Codex!Consume, Codex!history
<1>2. /\ r \in Run /\ SaysNoSession(r) /\ SaysInOrder(r)
      /\ r.turn = runs[p].turn /\ r.resumed = runs[p].resumed /\ r.first = runs[p].first
      /\ r.reader = runs[p].reader /\ r.told = runs[p].told /\ r.alive = runs[p].alive
      /\ r.finals = runs[p].finals /\ SaysNoSession(runs[p]) /\ runs[p].finals > 0
      /\ report = "ok" => runs[p].told /\ runs[p].turn \in completed
  BY <1>1, OutTaken
<1>3. Settled(r)
  BY <1>2 DEF Settled
<1>4. done \in BOOLEAN /\ err \in BOOLEAN
  BY DEF CallerOk
<1>5. CASE codex.finished
  <2>1. /\ runs' = [runs EXCEPT ![p] = r] /\ UNCHANGED <<callVars, exists, codex, crossed>>
        /\ completed' = completed /\ worked' = worked
    BY <1>1, <1>5 DEF callVars
  <2>2. SaysInOrder(r)'
    BY <1>2, <2>1 DEF SaysInOrder
  <2>3. CodexInv'
    BY <1>2, <1>3, <2>1, <2>2, ProcessKeeps
  <2>4. Codex!Misreported' = Codex!Misreported
    BY <2>1 DEF Codex!Misreported
  <2> QED BY <1>4, <2>1, <2>3, <2>4 DEF callVars
<1>6. CASE ~codex.finished
  <2>1. Codex!EndsTurn(p, report, left) /\ report \in {"ok", "error", "eof"}
        /\ UNCHANGED <<turn, pc, verdict, started, exists, completed, worked>>
    BY <1>1, <1>6
  <2>2. runs[p].reader = "loop" /\ r.reader \in {runs[p].reader, "ended"}
    BY <1>1, <1>2
  <2> QED BY <1>2, <1>3, <2>1, <2>2, EndsTurnKeeps
<1> QED BY <1>5, <1>6

(* The end of a process: it says no more. *)
LEMMA CodexReadsEof ==
    ASSUME CallerOk, CodexInv, NEW p \in DOMAIN runs, Codex!ReadEof(p)
    PROVE  /\ CodexInv' /\ done' \in BOOLEAN /\ err' \in BOOLEAN
           /\ \/ Codex!Misreported' = Codex!Misreported
              \/ turn \in 1 .. turn /\ Codex!Misreported' = Codex!Misreported \cup {turn}
<1> PICK r : r = [runs[p] EXCEPT !.reader = "ended"]
  OBVIOUS
<1> PICK left : left = [runs EXCEPT ![p] = r]
  OBVIOUS
<1>1. /\ runs[p].reader = "loop" /\ runs[p].out = <<>> /\ ~runs[p].alive
      /\ \/ Codex!EndsTurn(p, "eof", left)
         \/ runs' = left /\ UNCHANGED <<done, err, codex, crossed>>
      /\ UNCHANGED <<turn, pc, verdict, started, exists, completed, worked>>
  BY DEF Codex!ReadEof, Codex!AtEof, Codex!Leave, Codex!history
<1>2. /\ r \in Run /\ r.out = <<>> /\ r.reader = "ended" /\ r.alive = runs[p].alive
      /\ r.turn = runs[p].turn /\ r.resumed = runs[p].resumed /\ r.first = runs[p].first
      /\ r.told = runs[p].told
  <2>1. runs[p] \in Run
    BY CodexFacts
  <2> QED BY <1>1, <2>1 DEF Run
<1>3. /\ SaysInOrder(r) /\ SaysNoSession(r) /\ SaysNoSession(runs[p])
      /\ Settled(r)
  BY <1>1, <1>2 DEF SaysInOrder, SaysNoSession, Settled
<1>4. done \in BOOLEAN /\ err \in BOOLEAN
  BY DEF CallerOk
<1>5. CASE Codex!EndsTurn(p, "eof", left)
  <2>1. r.reader \in {runs[p].reader, "ended"} /\ "eof" \in {"ok", "error", "eof"}
        /\ UNCHANGED <<turn, pc, verdict, started, exists, completed, worked>>
    BY <1>1, <1>2
  <2> QED BY <1>1, <1>2, <1>3, <1>5, <2>1, EndsTurnKeeps
<1>6. CASE runs' = left /\ UNCHANGED <<done, err, codex, crossed>>
  <2>1. /\ turn' = turn /\ pc' = pc /\ done' = done /\ err' = err /\ verdict' = verdict
        /\ started' = started /\ exists' = exists /\ codex' = codex /\ crossed' = crossed
        /\ completed' = completed /\ worked' = worked
    BY <1>1, <1>6
  <2>2. Follows(left, p, r) /\ \A q \in 1 .. Len(runs) : RunOk(left[q])'
    <3>1. UNCHANGED <<turn, pc, completed>> /\ UNCHANGED <<codex.up, codex.first>>
          /\ (codex'.pending # <<>> => codex.pending # <<>>)
      BY <2>1
    <3>2. r.reader \in {runs[p].reader, "ended"}
      BY <1>2
    <3> QED BY <1>2, <1>3, <3>1, <3>2, ReaderKeeps
  <2>3. /\ Follows(runs', p, r) /\ DOMAIN runs' = 1 .. Len(runs) /\ Len(runs') = Len(runs)
        /\ Len(runs) \in Nat /\ DOMAIN runs = 1 .. Len(runs)
    BY <1>6, <2>2, CodexFacts DEF Follows
  <2>4. \A q \in 1 .. Len(runs) : RunOk(runs[q])'
    BY <1>6, <2>2 DEF RunOk, SaysInOrder
  <2>5. CodexShape'
    BY <2>1, <2>3 DEF CodexInv, CodexShape, Follows
  <2>6. OneByOne'
    BY <1>6, <2>1, <2>2, <2>3, <2>4, TurnsKeep DEF CodexInv, OneByOne
  <2>7. Codex!ContinuesConversation'
    BY <2>1, <2>3, SameContinues DEF Follows
  <2>8. Calm' => CalmGoesOn'
    <3> SUFFICES ASSUME Calm' PROVE CalmGoesOn'
      OBVIOUS
    <3>1. Calm /\ CalmGoesOn
      BY <2>1, <2>3, CalmWas DEF Follows
    <3>2. \A q \in codex.first .. Len(runs) :
              q \in 1 .. Len(runs) /\ runs'[q].turn = runs[q].turn /\ runs'[q] = IF q = p THEN r ELSE runs[q]
      BY <2>3, CodexFacts DEF Follows
    <3>3. \A q \in codex.first .. Len(runs) : /\ Settled(runs[q]) => Settled(runs'[q])
                                              /\ Knows(q)' => Knows(q)
      BY <1>2, <1>3, <2>1, <2>3, <3>2 DEF Knows
    <3>4. codex'.inFlight => Flies'
      <4>1. codex.first <= Len(runs) => Len(runs) \in codex.first .. Len(runs)
        BY CodexFacts
      <4> QED BY <2>1, <2>3, <3>1, <3>2, <4>1 DEF CalmGoesOn, Flies
    <3> QED BY <2>1, <2>3, <3>1, <3>2, <3>3, <3>4 DEF CalmGoesOn
  <2>9. OkIsReported'
    BY <2>1 DEF CodexInv, OkIsReported, Codex!Misreported, Codex!Crossed
  <2>10. SessionGoesOn'
    BY <2>1, <2>7, <2>8 DEF CodexInv, SessionGoesOn
  <2>11. Codex!Misreported' = Codex!Misreported
    BY <2>1 DEF Codex!Misreported
  <2> QED BY <1>4, <2>1, <2>5, <2>6, <2>9, <2>10, <2>11 DEF CodexInv
<1> QED BY <1>1, <1>5, <1>6

(* The caller's steps that leave the processes alone: what is so of them   *)
(* if no turn has an end that it had not.                                  *)
LEMMA CallerKeeps ==
    ASSUME CodexInv, UNCHANGED <<runs, crossed, exists, completed, worked>>,
           codex' \in Engines, codex'.first <= Len(runs) + 1,
           started' \in BOOLEAN, exists => started',
           \A q \in DOMAIN runs : RunOk(runs[q])',
           pc' # "idle" \/ codex'.inFlight => codex'.up,
           codex'.pending # <<>> => /\ codex'.pending = <<turn'>> /\ codex'.inFlight
                                    /\ pc' \in {"wait", "stop"} /\ ~done',
           pc' = "send" /\ codex'.inFlight => ~done',
           codex'.up /\ exists => Codex!Operators \in codex'.session.has,
           Codex!ContinuesConversation', Calm' => CalmGoesOn', OkIsReported'
    PROVE  CodexInv'
<1>1. CodexShape'
  BY DEF CodexInv, CodexShape
<1>2. OneByOne'
  BY DEF CodexInv, OneByOne
<1>3. SessionGoesOn'
  BY DEF SessionGoesOn
<1> QED BY <1>1, <1>2, <1>3 DEF CodexInv

LEMMA CodexAsks ==
    ASSUME CallerOk, CodexInv, Codex!Ask
    PROVE  CodexInv'
<1>1. /\ pc = "idle" /\ pc' = "send" /\ done' = FALSE /\ turn' = turn + 1 /\ turn \in Nat
      /\ verdict' = [verdict EXCEPT ![turn + 1] = "running"] /\ turn + 1 \in Turns
      /\ UNCHANGED <<exists, started, runs, crossed, completed, worked>>
  BY CallerAssumption DEF Codex!Ask, Codex!NextPrompt, Codex!history, CallerOk, Turns
<1>2. /\ Len(runs) \in Nat /\ DOMAIN runs = 1 .. Len(runs) /\ codex \in Engines
      /\ codex.first <= Len(runs) + 1
      /\ \A q \in 1 .. Len(runs) : RunOk(runs[q]) /\ runs[q].turn \in Turns /\ runs[q].turn \in Nat
      /\ started \in BOOLEAN /\ (exists => started)
  BY CodexFacts DEF CodexInv, CodexShape
<1>3. /\ codex.pending = <<>>
      /\ codex.up => codex' = codex
      /\ ~codex.up => /\ codex'.up /\ ~codex'.inFlight /\ codex'.first = Len(runs) + 1
                      /\ codex'.session = IF started THEN Codex!BoundId ELSE Codex!NoId
                      /\ codex'.pending = <<>>
  BY <1>1 DEF Codex!Ask, Codex!Down, CodexInv, OneByOne
<1>4. codex' \in Engines /\ codex'.up /\ codex'.first <= Len(runs) + 1 /\ codex'.pending = <<>>
  <2>1. CASE codex.up
    BY <1>2, <1>3, <2>1
  <2>2. CASE ~codex.up
    <3> PICK id : id = IF started THEN Codex!BoundId ELSE Codex!NoId
      OBVIOUS
    <3>1. id \in Codex!Ids
      BY DEF Codex!BoundId, Codex!NoId, Codex!MadeUpId, Codex!Id, Codex!Ids
    <3>2. <<>> \in Seq(Turns)
      BY EmptySeq
    <3>3. codex' = [Codex!Down EXCEPT !.up = TRUE, !.first = Len(runs) + 1, !.session = id]
      BY <2>2 DEF Codex!Ask
    <3>4. codex' \in Engines
      <4> PICK n : n = Len(runs) + 1
        OBVIOUS
      <4>1. n \in Nat \ {0}
        BY <1>2
      <4>2. codex' = [up |-> TRUE, inFlight |-> FALSE, finished |-> FALSE, session |-> id,
                      first |-> n, pending |-> <<>>]
        BY <3>3 DEF Codex!Down
      <4> QED BY <3>1, <3>2, <4>1, <4>2 DEF Engines
    <3> QED BY <1>2, <1>3, <2>2, <3>4
  <2> QED BY <2>1, <2>2
<1>5. \A q \in DOMAIN runs : RunOk(runs[q])'
  BY <1>1, <1>2, <1>3, <1>4 DEF RunOk, SaysInOrder
<1>6. codex'.up /\ exists => Codex!Operators \in codex'.session.has
  <2>1. exists => Codex!Operators \in Codex!BoundId.has
    BY DEF Codex!BoundId, Codex!Id
  <2> QED BY <1>2, <1>3, <2>1 DEF CodexInv, SessionGoesOn
<1>7. \A q \in 1 .. Len(runs) : verdict'[runs[q].turn] = "ok" => verdict[runs[q].turn] = "ok"
  BY <1>1, <1>2 DEF CallerOk
<1>8. Codex!ContinuesConversation'
  BY <1>1, <1>2, <1>7, SameContinues
<1>9. Calm' => CalmGoesOn'
  <2> SUFFICES ASSUME Calm' PROVE CalmGoesOn'
    OBVIOUS
  <2>1. CASE ~codex.up
    <3>1. \A q \in codex'.first .. Len(runs') : FALSE
      BY <1>1, <1>2, <1>3, <2>1
    <3> QED BY <1>3, <2>1, <3>1 DEF CalmGoesOn
  <2>2. CASE codex.up
    <3>1. Calm /\ CalmGoesOn
      BY <1>1, <1>2, <1>3, <2>2, CalmWas
    <3>2. ~codex.inFlight
      BY <1>1, <3>1 DEF CalmGoesOn, Flies
    <3>3. \A q \in codex.first .. Len(runs) : Knows(q)' => Knows(q)
      <4>1. \A q \in codex.first .. Len(runs) : q \in 1 .. Len(runs)
        BY CodexFacts
      <4> QED BY <1>1, <1>7, <4>1 DEF Knows
    <3> QED BY <1>1, <1>3, <2>2, <3>1, <3>2, <3>3 DEF CalmGoesOn
  <2> QED BY <2>1, <2>2
<1>10. OkIsReported'
  BY <1>1 DEF OkIsReported
<1>11. codex'.inFlight => ~done'
  BY <1>1
<1> QED BY <1>1, <1>2, <1>4, <1>5, <1>6, <1>8, <1>9, <1>10, <1>11, CallerKeeps

LEMMA CodexSendFails ==
    ASSUME CallerOk, CodexInv, Codex!SendFails
    PROVE  CodexInv'
<1>1. /\ pc = "send" /\ pc' = "wait" /\ done' = TRUE /\ err' = TRUE /\ ~codex.inFlight
      /\ codex' = [codex EXCEPT !.finished = FALSE]
      /\ UNCHANGED <<turn, verdict, exists, started, runs, crossed, completed, worked>>
  BY DEF Codex!SendFails, Codex!history
<1>2. /\ Len(runs) \in Nat /\ DOMAIN runs = 1 .. Len(runs) /\ codex \in Engines
      /\ codex.first <= Len(runs) + 1 /\ codex.first \in Nat
      /\ \A q \in 1 .. Len(runs) : RunOk(runs[q])
      /\ started \in BOOLEAN /\ (exists => started) /\ codex.up /\ codex.pending = <<>>
  BY <1>1, CodexFacts DEF CodexInv, CodexShape, OneByOne
<1>3. /\ codex'.up = codex.up /\ ~codex'.inFlight /\ codex'.first = codex.first
      /\ codex'.session = codex.session /\ codex'.pending = <<>> /\ codex' \in Engines
  BY <1>1, <1>2 DEF Engines
<1>4. \A q \in DOMAIN runs : RunOk(runs[q])'
  BY <1>1, <1>2, <1>3 DEF RunOk, SaysInOrder
<1>5. Codex!ContinuesConversation'
  BY <1>1, <1>2, SameContinues
<1>6. Calm' => CalmGoesOn'
  <2> SUFFICES ASSUME Calm' PROVE CalmGoesOn'
    OBVIOUS
  <2>1. Calm /\ CalmGoesOn
    BY <1>1, <1>2, <1>3, CalmWas
  <2>2. \A q \in codex.first .. Len(runs) : Knows(q)' => Knows(q)
    BY <1>1 DEF Knows
  <2> QED BY <1>1, <1>3, <2>1, <2>2 DEF CalmGoesOn
<1>7. codex'.up /\ exists => Codex!Operators \in codex'.session.has
  BY <1>3 DEF CodexInv, SessionGoesOn
<1>8. OkIsReported'
  BY <1>1 DEF OkIsReported
<1> QED BY <1>1, <1>2, <1>3, <1>4, <1>5, <1>6, <1>7, <1>8, CallerKeeps

(* A prompt that has to queue finds a turn in flight that was ended by     *)
(* another's process: the engine is not calm.                              *)
LEMMA CodexSendQueues ==
    ASSUME CallerOk, CodexInv, Codex!SendQueues
    PROVE  CodexInv'
<1> PICK queue : queue = Append(codex.pending, turn)
  OBVIOUS
<1>1. /\ pc = "send" /\ pc' = "wait" /\ codex.inFlight
      /\ codex' = [codex EXCEPT !.pending = queue]
      /\ UNCHANGED <<turn, done, err, verdict, exists, started, runs, crossed, completed, worked>>
  BY DEF Codex!SendQueues, Codex!history
<1>2. /\ Len(runs) \in Nat /\ DOMAIN runs = 1 .. Len(runs) /\ codex \in Engines
      /\ codex.first <= Len(runs) + 1 /\ codex.first \in Nat
      /\ \A q \in 1 .. Len(runs) : RunOk(runs[q])
      /\ started \in BOOLEAN /\ (exists => started) /\ codex.up /\ codex.pending = <<>> /\ ~done
      /\ turn \in Turns
  BY <1>1, CodexFacts DEF CodexInv, CodexShape, OneByOne, CallerOk
<1>3. queue = <<turn>> /\ queue \in Seq(Turns)
  <2>1. queue = Append(<<>>, turn)
    BY <1>2
  <2> QED BY <1>2, <2>1
<1>4. /\ codex'.up = codex.up /\ codex'.inFlight /\ codex'.first = codex.first
      /\ codex'.session = codex.session /\ codex'.pending = <<turn>> /\ codex' \in Engines
  BY <1>1, <1>2, <1>3 DEF Engines
<1>5. \A q \in DOMAIN runs : RunOk(runs[q])'
  BY <1>1, <1>2, <1>4 DEF RunOk, SaysInOrder
<1>6. Codex!ContinuesConversation'
  BY <1>1, <1>2, SameContinues
<1>7. ~Calm'
  <2>1. Calm' => CalmGoesOn
    BY <1>1, <1>2, <1>4, CalmWas
  <2> QED BY <1>1, <2>1 DEF CalmGoesOn, Flies
<1>8. codex'.up /\ exists => Codex!Operators \in codex'.session.has
  BY <1>4 DEF CodexInv, SessionGoesOn
<1>9. OkIsReported'
  BY <1>1, <1>2 DEF OkIsReported
<1> QED BY <1>1, <1>2, <1>4, <1>5, <1>6, <1>7, <1>8, <1>9, CallerKeeps

(* Its turn is the last, and no process that came after it is there to     *)
(* have missed it.                                                         *)
LEMMA CodexWakes ==
    ASSUME CallerOk, CodexInv, Codex!Woken
    PROVE  CodexInv'
<1>1. /\ pc = "wait" /\ pc' = "idle" /\ done
      /\ verdict' = [verdict EXCEPT ![turn] = IF err THEN "error" ELSE "ok"]
      /\ UNCHANGED <<turn, done, err, exists, started, codex, runs, crossed, completed, worked>>
  BY DEF Codex!Woken, Codex!Wake, Codex!EndTurn, Codex!history
<1>2. /\ Len(runs) \in Nat /\ DOMAIN runs = 1 .. Len(runs) /\ codex \in Engines
      /\ codex.first <= Len(runs) + 1 /\ codex.first \in Nat
      /\ \A q \in 1 .. Len(runs) : RunOk(runs[q]) /\ runs[q].turn \in Turns /\ runs[q].turn \in Nat
      /\ started \in BOOLEAN /\ (exists => started) /\ codex.up /\ codex.pending = <<>>
  BY <1>1, CodexFacts DEF CodexInv, CodexShape, OneByOne
<1>3. \A q \in DOMAIN runs : RunOk(runs[q])'
  BY <1>1, <1>2 DEF RunOk, SaysInOrder
<1>4. \A q \in 1 .. Len(runs) : verdict'[runs[q].turn] = "ok" =>
          \/ verdict[runs[q].turn] = "ok"
          \/ runs[q].turn = turn /\ ~err
  BY <1>1, <1>2 DEF CallerOk
<1>5. Codex!ContinuesConversation'
  <2> SUFFICES ASSUME NEW p \in DOMAIN runs PROVE GoesOnTo(p)'
    BY <1>1 DEF GoesOnTo, Codex!ContinuesConversation
  <2>1. GoesOnTo(p)
    BY DEF CodexInv, SessionGoesOn, Codex!ContinuesConversation, GoesOnTo
  <2>2. runs[p].first \in Nat \ {0} /\ p \in 1 .. Len(runs)
    BY <1>2, CodexFacts
  <2>3. ASSUME NEW q \in runs[p].first .. p - 1, verdict'[runs[q].turn] = "ok"
        PROVE  verdict[runs[q].turn] = "ok"
    <3>1. q \in 1 .. Len(runs) /\ q \in 1 .. p - 1
      BY <1>2, <2>2
    <3>2. runs[q].turn < runs[p].turn /\ runs[p].turn <= turn
      BY <1>2, <2>2, <3>1 DEF CodexInv, OneByOne, RunOk
    <3> QED BY <1>2, <1>4, <2>2, <2>3, <3>1, <3>2 DEF CallerOk
  <2> QED BY <1>1, <2>1, <2>3 DEF GoesOnTo, Codex!Crossed
<1>6. Calm' => CalmGoesOn'
  <2> SUFFICES ASSUME Calm' PROVE CalmGoesOn'
    OBVIOUS
  <2>1. Calm /\ CalmGoesOn
    BY <1>1, <1>2, CalmWas
  <2>2. ~codex.inFlight
    BY <1>1, <2>1 DEF CalmGoesOn, Flies
  <2>3. \A q \in codex.first .. Len(runs) : q \in 1 .. Len(runs)
    BY CodexFacts
  <2>4. \A q \in codex.first .. Len(runs) : Knows(q)' => Knows(q)
    BY <1>1, <1>4, <2>3 DEF Knows
  <2> QED BY <1>1, <2>1, <2>2, <2>4 DEF CalmGoesOn
<1>7. codex'.up /\ exists => Codex!Operators \in codex'.session.has
  BY <1>1 DEF CodexInv, SessionGoesOn
<1>8. OkIsReported'
  BY <1>1 DEF OkIsReported
<1> QED BY <1>1, <1>2, <1>3, <1>5, <1>6, <1>7, <1>8, CallerKeeps

LEMMA CodexWaits ==
    ASSUME CallerOk, CodexInv, Codex!Timeout \/ Codex!Marked
    PROVE  CodexInv'
<1>1. /\ pc' = pc \/ (pc = "wait" /\ pc' = "stop")
      /\ started' = started \/ started' = TRUE
      /\ UNCHANGED <<turn, done, err, verdict, exists, codex, runs, crossed, completed, worked>>
  BY DEF Codex!Timeout, Codex!Marked, Codex!GiveUp, Codex!MarkStarted, Codex!history
<1>2. /\ Len(runs) \in Nat /\ DOMAIN runs = 1 .. Len(runs) /\ codex \in Engines
      /\ codex.first <= Len(runs) + 1 /\ codex.first \in Nat
      /\ \A q \in 1 .. Len(runs) : RunOk(runs[q])
      /\ started \in BOOLEAN /\ (exists => started)
  BY CodexFacts DEF CodexInv, CodexShape
<1>3. started' \in BOOLEAN /\ (exists => started')
  <2>1. CASE started' = started
    BY <1>2, <2>1
  <2>2. CASE started' = TRUE
    BY <2>2
  <2> QED BY <1>1, <2>1, <2>2
<1>4. \A q \in DOMAIN runs : RunOk(runs[q])'
  BY <1>1, <1>2 DEF RunOk, SaysInOrder
<1>5. Codex!ContinuesConversation'
  BY <1>1, <1>2, SameContinues
<1>6. Calm' => CalmGoesOn'
  <2> SUFFICES ASSUME Calm' PROVE CalmGoesOn'
    OBVIOUS
  <2>1. Calm /\ CalmGoesOn
    BY <1>1, <1>2, CalmWas
  <2>2. \A q \in codex.first .. Len(runs) : Knows(q)' => Knows(q)
    BY <1>1 DEF Knows
  <2>3. Flies => Flies'
    BY <1>1 DEF Flies
  <2> QED BY <1>1, <2>1, <2>2, <2>3 DEF CalmGoesOn
<1>7. codex'.up /\ exists => Codex!Operators \in codex'.session.has
  BY <1>1 DEF CodexInv, SessionGoesOn
<1>8. OkIsReported'
  BY <1>1 DEF CodexInv, OkIsReported, Codex!Misreported, Codex!Crossed
<1>9. /\ pc' # "idle" \/ codex'.inFlight => codex'.up
      /\ codex'.pending # <<>> => /\ codex'.pending = <<turn'>> /\ codex'.inFlight
                                  /\ pc' \in {"wait", "stop"} /\ ~done'
      /\ pc' = "send" /\ codex'.inFlight => ~done'
  BY <1>1 DEF CodexInv, OneByOne
<1>10. codex' \in Engines /\ codex'.first <= Len(runs) + 1
  BY <1>1, <1>2
<1> QED BY <1>1, <1>3, <1>4, <1>5, <1>6, <1>7, <1>8, <1>9, <1>10, CallerKeeps

(* A process for the turn: those before it are settled, and the session it *)
(* resumes knows what they did, unless a turn was ended by another's.      *)
LEMMA CodexSends ==
    ASSUME CallerOk, CodexInv, Codex!Send
    PROVE  CodexInv'
<1> PICK r : r = Codex!NewRun(turn)
  OBVIOUS
<1> PICK left : left = runs
  OBVIOUS
<1> PICK all : all = runs'
  OBVIOUS
<1>1. /\ pc = "send" /\ pc' = "wait" /\ ~codex.inFlight
      /\ codex' = [codex EXCEPT !.inFlight = TRUE, !.finished = FALSE]
      /\ runs' = Append(left, Codex!NewRun(turn))
      /\ UNCHANGED <<turn, done, err, verdict, exists, started, crossed, completed, worked>>
  BY DEF Codex!Send, Codex!history
<1>2. /\ Len(runs) \in Nat /\ DOMAIN runs = 1 .. Len(runs) /\ codex \in Engines
      /\ codex.first <= Len(runs) + 1 /\ codex.first \in Nat \ {0}
      /\ \A q \in 1 .. Len(runs) : RunOk(runs[q])
      /\ started \in BOOLEAN /\ (exists => started) /\ codex.up /\ codex.pending = <<>>
  BY <1>1, CodexFacts DEF CodexInv, CodexShape, OneByOne
<1>3. /\ codex'.up = codex.up /\ codex'.inFlight /\ codex'.first = codex.first
      /\ codex'.session = codex.session /\ codex'.pending = <<>> /\ codex' \in Engines
  BY <1>1, <1>2 DEF Engines
<1>4. /\ r \in Run /\ r.turn = turn /\ r.resumed = codex.session /\ r.first = codex.first /\ ~r.told
  BY <1>1, NewRunIs
<1>5. Follows(left, 0, r) /\ \A q \in 1 .. Len(runs) : RunOk(left[q])'
  <2>1. Follows(left, 0, r)
    BY <1>2, CodexFacts DEF Follows
  <2>2. \A q \in 1 .. Len(runs) : RunOk(left[q])'
    BY <1>1, <1>2, <1>3 DEF RunOk, SaysInOrder
  <2> QED BY <2>1, <2>2
<1>6. /\ pc # "idle" /\ pc' # "send" /\ UNCHANGED <<turn, codex.up, codex.first, worked>>
      /\ \A q \in DOMAIN runs : runs[q].turn # turn
  BY <1>1, <1>2, <1>3 DEF RunOk
<1>7. runs' \in Seq(Run) /\ Len(runs') = Len(runs) + 1 /\ DOMAIN runs' = 1 .. Len(runs) + 1
  BY <1>1, <1>2, <1>3, <1>5, <1>6, OneMore
<1>8. runs'[Len(runs) + 1] = r
  BY <1>1, <1>2, <1>3, <1>5, <1>6, OneMore
<1>9. \A q \in 1 .. Len(runs) : runs'[q] = runs[q]
  BY <1>1, <1>2, <1>3, <1>5, <1>6, OneMore
<1>10. \A q \in DOMAIN all : RunOk(all[q])'
  BY <1>1, <1>2, <1>3, <1>5, <1>6, OneMore
<1>11. \A q \in DOMAIN runs' : runs'[q].first <= q
  BY <1>1, <1>2, <1>3, <1>5, <1>6, OneMore
<1>12. \A q \in DOMAIN runs' : \A o \in 1 .. q - 1 : runs'[o].turn < runs'[q].turn
  BY <1>1, <1>2, <1>3, <1>5, <1>6, OneMore
<1>13. \A w \in worked' : w[2] \in DOMAIN runs' /\ w[1] = runs'[w[2]].turn
  BY <1>1, <1>2, <1>3, <1>5, <1>6, OneMore
<1>14. CodexShape'
  BY <1>1, <1>2, <1>3, <1>7 DEF CodexInv, CodexShape
<1>15. OneByOne'
  <2>1. \A q \in DOMAIN runs' : RunOk(runs[q])'
    BY <1>10 DEF RunOk, SaysInOrder
  <2> QED BY <1>1, <1>2, <1>3, <1>11, <1>12, <1>13, <2>1 DEF OneByOne
<1>16. Codex!ContinuesConversation'
  BY <1>1, <1>2, <1>4, <1>7, <1>8, <1>9, JoinContinues
<1>17. Calm' => CalmGoesOn'
  <2> SUFFICES ASSUME Calm' PROVE CalmGoesOn'
    OBVIOUS
  <2> PICK n : n = Len(runs) + 1
    OBVIOUS
  <2>1. Calm /\ CalmGoesOn
    <3>1. Len(runs') >= Len(runs) /\ Len(runs') \in Nat
      BY <1>2, <1>7
    <3> QED BY <1>1, <1>2, <1>3, <1>9, <3>1, CalmWas
  <2>2. ~done
    <3>1. runs'[n].turn \notin Codex!Crossed' /\ runs'[n].turn = turn
      BY <1>2, <1>3, <1>4, <1>7, <1>8 DEF Calm, CalmBefore
    <3>2. Codex!Crossed' = Codex!Crossed
      BY <1>1 DEF Codex!Crossed
    <3> QED BY <1>1, <3>1, <3>2 DEF CodexInv, OkIsReported
  <2>3. Flies'
    BY <1>1, <1>2, <1>3, <1>4, <1>7, <1>8, <2>2 DEF Flies
  <2>4. ASSUME NEW q \in codex.first .. n
        PROVE  /\ Settled(runs'[q]) \/ (codex'.inFlight /\ q = Len(runs'))
               /\ Knows(q)' => runs'[q].turn \in codex'.session.has
    <3>1. CASE q \in 1 .. Len(runs)
      <4>1. runs'[q] = runs[q] /\ q # Len(runs') /\ q \in codex.first .. Len(runs)
        BY <1>2, <1>7, <1>9, <2>4, <3>1
      <4>2. Settled(runs[q])
        BY <1>1, <2>1, <4>1 DEF CalmGoesOn
      <4>3. Knows(q)' => Knows(q)
        BY <1>1, <2>2, <4>1 DEF Knows
      <4> QED BY <1>3, <2>1, <4>1, <4>2, <4>3 DEF CalmGoesOn
    <3>2. CASE q = n
      <4>1. runs'[q] = r /\ q = Len(runs') /\ verdict[turn] # "ok"
        BY <1>1, <1>7, <1>8, <3>2 DEF CallerOk, VerdictOk, Turns
      <4> QED BY <1>1, <1>3, <1>4, <2>2, <4>1 DEF Knows
    <3> QED BY <1>2, <2>4, <3>1, <3>2
  <2> QED BY <1>3, <1>7, <2>3, <2>4 DEF CalmGoesOn
<1>18. SessionGoesOn'
  <2>1. codex'.up /\ exists' => Codex!Operators \in codex'.session.has
    BY <1>1, <1>3 DEF CodexInv, SessionGoesOn
  <2> QED BY <1>16, <1>17, <2>1 DEF SessionGoesOn
<1>19. OkIsReported'
  BY <1>1 DEF CodexInv, OkIsReported, Codex!Misreported, Codex!Crossed
<1> QED BY <1>14, <1>15, <1>18, <1>19 DEF CodexInv

(* The engine is stopped: nothing reads a process any more. *)
LEMMA CodexStops ==
    ASSUME CallerOk, CodexInv, Codex!Stop
    PROVE  CodexInv'
<1>1. /\ pc = "stop" /\ pc' = "idle" /\ verdict' = [verdict EXCEPT ![turn] = "error"]
      /\ codex' = Codex!Down
      /\ UNCHANGED <<turn, done, err, exists, started, crossed, completed, worked>>
  BY DEF Codex!Stop, Codex!EndTurn, Codex!history
<1>2. runs' = [p \in DOMAIN runs |-> [runs[p] EXCEPT !.out = <<>>, !.reader = "ended",
                                                    !.alive = @ /\ p # Len(runs)]]
  BY DEF Codex!Stop
<1>3. /\ runs \in Seq(Run) /\ Len(runs) \in Nat /\ DOMAIN runs = 1 .. Len(runs)
      /\ \A q \in 1 .. Len(runs) : runs[q] \in Run /\ RunOk(runs[q]) /\ runs[q].turn \in Turns
  BY CodexFacts
<1>4. \A q \in 1 .. Len(runs) :
          /\ runs'[q] \in Run /\ runs'[q].out = <<>> /\ runs'[q].reader = "ended"
          /\ runs'[q].turn = runs[q].turn /\ runs'[q].resumed = runs[q].resumed
          /\ runs'[q].first = runs[q].first
  <2> SUFFICES ASSUME NEW q \in 1 .. Len(runs)
               PROVE  /\ runs'[q] \in Run /\ runs'[q].out = <<>> /\ runs'[q].reader = "ended"
                      /\ runs'[q].turn = runs[q].turn /\ runs'[q].resumed = runs[q].resumed
                      /\ runs'[q].first = runs[q].first
    OBVIOUS
  <2>1. PICK alive \in BOOLEAN : alive = (runs[q].alive /\ q # Len(runs))
    OBVIOUS
  <2>2. runs'[q] = [runs[q] EXCEPT !.out = <<>>, !.reader = "ended", !.alive = alive]
    BY <1>2, <1>3, <2>1
  <2>3. <<>> \in Seq(Kinds)
    BY EmptySeq
  <2> QED BY <1>3, <2>2, <2>3 DEF Run
<1>5. runs' \in Seq(Run) /\ DOMAIN runs' = 1 .. Len(runs) /\ Len(runs') = Len(runs)
  <2>1. runs' \in [1 .. Len(runs) -> Run]
    BY <1>2, <1>3, <1>4
  <2>2. runs' \in Seq(Run)
    BY <1>3, <2>1, SeqDef
  <2> QED BY <1>3, <2>1, <2>2, LenProperties
<1>6. ~codex'.inFlight /\ ~codex'.up /\ codex'.first = 1 /\ codex'.pending = <<>>
  BY <1>1 DEF Codex!Down
<1>7. CodexShape'
  <2>1. Codex!NoId \in Codex!Ids
    BY DEF Codex!NoId, Codex!Ids
  <2>2. <<>> \in Seq(Turns)
    BY EmptySeq
  <2>3. codex' \in Engines
    BY <1>1, <2>1, <2>2 DEF Codex!Down, Engines
  <2> QED BY <1>1, <1>3, <1>5, <1>6, <2>3 DEF CodexInv, CodexShape
<1>8. OneByOne'
  <2>1. \A q \in 1 .. Len(runs) : RunOk(runs[q])'
    <3> SUFFICES ASSUME NEW q \in 1 .. Len(runs) PROVE RunOk(runs[q])'
      OBVIOUS
    <3>1. RunOk(runs[q]) /\ DOMAIN runs'[q].out = {}
      BY <1>3, <1>4
    <3> QED BY <1>1, <1>4, <1>6, <3>1 DEF RunOk, SaysInOrder
  <2>2. \A q \in 1 .. Len(runs) : runs'[q].first <= q
    BY <1>4, CodexFacts
  <2>3. \A q \in 1 .. Len(runs) : \A o \in 1 .. q - 1 : runs'[o].turn < runs'[q].turn
    <3> SUFFICES ASSUME NEW q \in 1 .. Len(runs), NEW o \in 1 .. q - 1 PROVE runs'[o].turn < runs'[q].turn
      OBVIOUS
    <3>1. o \in 1 .. Len(runs) /\ runs[o].turn < runs[q].turn
      BY <1>3 DEF CodexInv, OneByOne
    <3> QED BY <1>4, <3>1
  <2>4. \A w \in worked' : w[2] \in 1 .. Len(runs) /\ w[1] = runs'[w[2]].turn
    BY <1>1, <1>3, <1>4 DEF CodexInv, OneByOne
  <2> QED BY <1>1, <1>5, <1>6, <2>1, <2>2, <2>3, <2>4 DEF OneByOne
<1>9. SessionGoesOn'
  <2>1. \A q \in 1 .. Len(runs) : verdict'[runs[q].turn] = "ok" => verdict[runs[q].turn] = "ok"
    BY <1>1, <1>3 DEF CallerOk
  <2>2. Codex!ContinuesConversation'
    BY <1>1, <1>4, <1>5, <2>1, SameContinues
  <2>3. ~Calm'
    BY <1>6 DEF Calm
  <2> QED BY <1>6, <2>2, <2>3 DEF SessionGoesOn
<1>10. OkIsReported'
  BY <1>1 DEF OkIsReported
<1> QED BY <1>7, <1>8, <1>9, <1>10 DEF CodexInv

LEMMA CodexStarts ==
    ASSUME CallerInit, Codex!Init
    PROVE  CodexInv
<1>1. /\ turn = 0 /\ pc = "idle" /\ codex = Codex!Down /\ runs = <<>> /\ worked = {}
      /\ started = exists /\ exists \in BOOLEAN /\ done = FALSE
  BY DEF CallerInit, Codex!Init
<1>2. codex.first = 1 /\ ~codex.inFlight /\ ~codex.up /\ codex.pending = <<>>
  BY <1>1 DEF Codex!Down
<1>3. CodexShape
  <2>1. Codex!NoId \in Codex!Ids
    BY DEF Codex!NoId, Codex!Ids
  <2>2. <<>> \in Seq(Turns)
    BY EmptySeq
  <2>3. codex \in Engines
    BY <1>1, <2>1, <2>2 DEF Codex!Down, Engines
  <2>4. runs \in Seq(Run) /\ Len(runs) = 0
    BY <1>1, EmptySeq
  <2>5. started \in BOOLEAN /\ exists \in BOOLEAN /\ (exists => started)
    BY <1>1, Zenon
  <2> QED BY <1>2, <2>3, <2>4, <2>5 DEF CodexShape
<1>4. DOMAIN runs = {}
  BY <1>1
<1>5. OneByOne
  BY <1>1, <1>2, <1>4 DEF OneByOne
<1>6. SessionGoesOn
  BY <1>1, <1>2, <1>4 DEF SessionGoesOn, Calm, Codex!ContinuesConversation
<1>7. OkIsReported
  BY <1>1 DEF OkIsReported
<1> QED BY <1>3, <1>5, <1>6, <1>7 DEF CodexInv

(* Every step keeps the invariant, and is one of TurnEngine's or none: the *)
(* report that is taken for another turn's is that turn's completion.      *)
LEMMA CodexStep ==
    ASSUME CallerOk, CodexInv, Codex!Next, UNCHANGED pVars
    PROVE  CallerOk' /\ CodexInv' /\ (TE!Next \/ UNCHANGED TE!vars)
<1>1. /\ Process!Reported' = Process!Reported
      /\ Codex!Misreported' = Codex!Misreported => Reported' = Reported
      /\ crossed' = crossed => Reported' = Reported
  BY DEF Reported, Process!Reported, Codex!Misreported, pVars
<1>2. done \in BOOLEAN /\ err \in BOOLEAN /\ completed \subseteq 1 .. turn
  BY DEF CallerOk
<1>3. CASE Codex!Ask
  <2>1. NextPrompt /\ completed' = completed /\ crossed' = crossed
    BY <1>3 DEF Codex!Ask, Codex!NextPrompt, NextPrompt, Codex!history
  <2> QED BY <1>1, <1>3, <2>1, CodexAsks, BeginCaller, BeginIsBegin
<1>4. CASE Codex!Send \/ Codex!SendQueues
  <2>1. /\ UNCHANGED <<turn, verdict, done, err, completed, crossed>> /\ pc = "send" /\ pc' = "wait"
    BY <1>4 DEF Codex!Send, Codex!SendQueues, Codex!history
  <2> QED BY <1>1, <1>2, <1>4, <2>1, CodexSends, CodexSendQueues, MidCaller, OtherIsStutter
<1>5. CASE Codex!SendFails
  <2>1. /\ UNCHANGED <<turn, verdict, completed, crossed>> /\ pc = "send" /\ pc' = "wait"
        /\ done' = TRUE /\ err' = TRUE
    BY <1>5 DEF Codex!SendFails, Codex!history
  <2> QED BY <1>1, <1>2, <1>5, <2>1, CodexSendFails, MidCaller, OtherIsStutter
<1>6. CASE Codex!Woken
  <2> PICK v : v = IF err THEN "error" ELSE "ok"
    OBVIOUS
  <2>1. EndTurn(v) /\ UNCHANGED <<turn, done, err, completed, crossed>> /\ pc = "wait" /\ done
    BY <1>6 DEF Codex!Woken, Codex!Wake, Codex!EndTurn, EndTurn, Codex!history
  <2>2. v \in {"ok", "error"} /\ (v = "ok" => turn \in completed \cup Reported)
    BY <2>1 DEF CodexInv, OkIsReported, Reported
  <2>3. CodexInv'
    BY <1>6, CodexWakes
  <2>4. CallerOk'
    BY <1>2, <2>1, <2>2, EndCaller
  <2>5. TE!Next
    BY <1>1, <2>1, <2>2, EndIsEnd
  <2> QED BY <2>3, <2>4, <2>5
<1>7. CASE Codex!Timeout \/ Codex!Marked
  <2>1. /\ UNCHANGED <<turn, verdict, done, err, completed, crossed>>
        /\ pc' = pc \/ (pc = "wait" /\ pc' = "stop")
    BY <1>7 DEF Codex!Timeout, Codex!Marked, Codex!GiveUp, Codex!MarkStarted, Codex!history
  <2> QED BY <1>1, <1>2, <1>7, <2>1, CodexWaits, MidCaller, OtherIsStutter
<1>8. CASE Codex!Stop
  <2>1. EndTurn("error") /\ UNCHANGED <<turn, done, err, completed, crossed>> /\ pc = "stop"
    BY <1>8 DEF Codex!Stop, Codex!EndTurn, EndTurn, Codex!history
  <2>2. CodexInv'
    BY <1>8, CodexStops
  <2>3. CallerOk'
    BY <1>2, <2>1, EndCaller
  <2>4. TE!Next
    BY <1>1, <2>1, EndIsEnd
  <2> QED BY <2>2, <2>3, <2>4
<1>9. ASSUME NEW p \in DOMAIN runs, Codex!ProcessStep(p)
      PROVE  CallerOk' /\ CodexInv' /\ (TE!Next \/ UNCHANGED TE!vars)
  <2>1. /\ CodexInv' /\ runs[p].turn \in 1 .. turn /\ crossed' = crossed
        /\ completed' = completed \/ completed' = completed \cup {runs[p].turn}
        /\ UNCHANGED <<turn, pc, verdict, done, err>>
    BY <1>9, CodexProcess DEF callVars
  <2>2. CallerOk'
    BY <1>2, <2>1, MidCaller
  <2>3. CASE completed' = completed
    BY <1>1, <2>1, <2>2, <2>3, OtherIsStutter
  <2>4. CASE completed' = completed \cup {runs[p].turn}
    <3>1. (completed \cup Reported)' = completed \cup Reported \cup {runs[p].turn}
      BY <1>1, <2>1, <2>4
    <3> QED BY <2>1, <2>2, <3>1, CompleteIsComplete
  <2> QED BY <2>1, <2>3, <2>4
<1>10. ASSUME NEW p \in DOMAIN runs, Codex!ReaderStep(p)
       PROVE  CallerOk' /\ CodexInv' /\ (TE!Next \/ UNCHANGED TE!vars)
  <2>1. UNCHANGED <<turn, pc, verdict, completed>>
    BY <1>10 DEF Codex!ReaderStep, Codex!ReadSession, Codex!ReadFinal, Codex!ReadEof,
                 Codex!callVars, Codex!history
  <2>2. CodexInv' /\ done' \in BOOLEAN /\ err' \in BOOLEAN
    <3>1. CASE Codex!ReadSession(p)
      BY <1>2, <3>1, CodexReadsSession DEF Codex!ReadSession, Codex!callVars
    <3>2. CASE Codex!ReadFinal(p)
      BY <3>2, CodexReadsFinal
    <3>3. CASE Codex!ReadEof(p)
      BY <3>3, CodexReadsEof
    <3> QED BY <1>10, <3>1, <3>2, <3>3 DEF Codex!ReaderStep
  <2>3. \/ Codex!Misreported' = Codex!Misreported
        \/ turn \in 1 .. turn /\ Codex!Misreported' = Codex!Misreported \cup {turn}
    <3>1. CASE Codex!ReadSession(p)
      BY <3>1 DEF Codex!ReadSession, Codex!Misreported
    <3>2. CASE Codex!ReadFinal(p)
      BY <3>2, CodexReadsFinal
    <3>3. CASE Codex!ReadEof(p)
      BY <3>3, CodexReadsEof
    <3> QED BY <1>10, <3>1, <3>2, <3>3 DEF Codex!ReaderStep
  <2>4. CallerOk'
    BY <1>2, <2>1, <2>2, MidCaller
  <2>5. CASE Codex!Misreported' = Codex!Misreported
    BY <1>1, <2>1, <2>2, <2>4, <2>5, OtherIsStutter
  <2>6. CASE turn \in 1 .. turn /\ Codex!Misreported' = Codex!Misreported \cup {turn}
    <3>1. (completed \cup Reported)' = completed \cup Reported \cup {turn}
      BY <1>1, <2>1, <2>6 DEF Reported
    <3> QED BY <2>1, <2>2, <2>4, <2>6, <3>1, CompleteIsComplete
  <2> QED BY <2>3, <2>5, <2>6
<1> QED BY <1>3, <1>4, <1>5, <1>6, <1>7, <1>8, <1>9, <1>10 DEF Codex!Next, Codex!CallerStep

-----------------------------------------------------------------------------
(* InteractiveEngine: at most one process has a prompt, and it is the last *)
(* one, whose reader will report or is about to settle.                    *)

Proc == [alive : BOOLEAN, resume : BOOLEAN, fits : BOOLEAN,
         inbox : {<<>>} \cup {<<n>> : n \in Turns}, busy : Turns \cup {NoTurn},
         out : {<<>>} \cup {<<res>> : res \in [turn : Turns, ok : BOOLEAN]},
         reader : {"loop", "settle", "ended"}]

Quiet(q) == q.inbox = <<>> /\ q.busy = NoTurn /\ q.out = <<>>

(* The current turn's prompt is in its stdin, in work, or answered. *)
HasPrompt(q)  == q.alive /\ q.inbox = <<turn>> /\ q.busy = NoTurn /\ q.out = <<>>
HasAnswer(q) == /\ q.inbox = <<>> /\ q.busy = NoTurn
                /\ \E ok \in BOOLEAN : /\ q.out = <<[turn |-> turn, ok |-> ok]>>
                                       /\ ok => turn \in completed
Owes(q) ==
    \/ HasPrompt(q)
    \/ q.alive /\ q.inbox = <<>> /\ q.busy = turn /\ q.out = <<>>
    \/ HasAnswer(q)

Waits == pc \in {"wait", "stop"} /\ ~done

(* The last process while a turn is in flight. *)
Serves(q) ==
    \/ /\ q.reader = "loop" /\ Waits /\ engine.pending = <<>>
       /\ Owes(q) \/ (Quiet(q) /\ ~q.alive)
    \/ /\ q.reader = "settle" /\ Quiet(q)
       /\ \/ engine.pending = <<>> /\ ~Waits
          \/ engine.pending = <<turn>> /\ Waits /\ pc = "wait"

Engine == [spawned : BOOLEAN, inFlight : BOOLEAN, pending : {<<>>} \cup {<<n>> : n \in Turns},
           respawned : BOOLEAN, startedOnce : BOOLEAN, raised : BOOLEAN]

ProcsShape ==
    /\ procs \in Seq(Proc) /\ engine \in Engine
    /\ engine.spawned => procs # <<>>
    /\ started \in BOOLEAN /\ exists \in BOOLEAN
    /\ \A p \in DOMAIN procs : procs[p].reader = "ended" => ~procs[p].alive

OneServes ==
    /\ IF engine.inFlight THEN procs # <<>> /\ Serves(procs[Len(procs)])
       ELSE engine.pending = <<>> /\ ~Waits
    /\ \A p \in DOMAIN procs :
          (Quiet(procs[p]) /\ procs[p].reader # "settle") \/ (engine.inFlight /\ p = Len(procs))
    /\ pc = "send" => ~done /\ err
    /\ (pc = "wait" /\ done /\ ~err) => turn \in completed

(* A prompt that is still to be read was not read before. *)
Unread ==
    \/ pc = "send" \/ engine.pending # <<>>
    \/ \E p \in DOMAIN procs : procs[p].inbox # <<>>

ReadOnce ==
    /\ \A w \in worked : w[1] \in 1 .. turn /\ (Unread => w[1] # turn)
    /\ \A w, v \in worked : w[2] \in Nat /\ (w[1] = v[1] => w[2] = v[2])

InteractiveInv == ProcsShape /\ OneServes /\ ReadOnce

(* What writing a prompt does to processes that have none: they are still  *)
(* there, perhaps with others started after them, and only the last one    *)
(* may have the prompt.                                                    *)
Idle(ps) ==
    /\ ps \in Seq(Proc) /\ Len(ps) \in Nat /\ Len(ps) >= Len(procs)
    /\ \A q \in 1 .. Len(ps) : Quiet(ps[q]) /\ (ps[q].reader = "ended" => ~ps[q].alive)
    /\ \A q \in 1 .. Len(procs) : ps[q].reader = procs[q].reader
    /\ \A q \in 1 .. Len(ps) : q > Len(procs) => ps[q].reader = "loop"

Wrote(ps, n) ==
    /\ ps \in Seq(Proc) /\ Len(ps) \in Nat /\ Len(ps) >= Len(procs) /\ Len(ps) > 0
    /\ \A q \in 1 .. Len(ps) : /\ q # Len(ps) => Quiet(ps[q])
                               /\ ps[q].reader = "ended" => ~ps[q].alive
    /\ \A q \in 1 .. Len(procs) : ps[q].reader = procs[q].reader
    /\ \A q \in 1 .. Len(ps) : q > Len(procs) => ps[q].reader = "loop"
    /\ ps[Len(ps)].inbox = <<n>> /\ ps[Len(ps)].busy = NoTurn /\ ps[Len(ps)].out = <<>>
    /\ ps[Len(ps)].reader # "ended" /\ ps[Len(ps)].alive

LEMMA SpawnIdle ==
    ASSUME exists \in BOOLEAN, Len(procs) \in Nat, NEW ps, Idle(ps), NEW resume \in BOOLEAN
    PROVE  /\ Idle(Interactive!Spawn(ps, resume)) /\ Len(Interactive!Spawn(ps, resume)) > 0
           /\ Interactive!Spawn(ps, resume)[Len(Interactive!Spawn(ps, resume))].reader # "ended"
           /\ Interactive!Spawn(ps, resume)[Len(Interactive!Spawn(ps, resume))].alive
<1> PICK t : t = Interactive!Spawn(ps, resume)
  OBVIOUS
<1> PICK r : r = Interactive!NewProc(resume)
  OBVIOUS
<1>1. r \in Proc /\ Quiet(r) /\ r.reader = "loop" /\ r.alive
  <2>1. PICK fits \in BOOLEAN : fits = (resume = exists)
    OBVIOUS
  <2>2. r = [alive |-> TRUE, resume |-> resume, fits |-> fits, inbox |-> <<>>, busy |-> NoTurn,
             out |-> <<>>, reader |-> "loop"]
    BY <2>1 DEF Interactive!NewProc, Interactive!NoTurn, NoTurn
  <2> QED BY <2>2 DEF Proc, Quiet
<1>2. t = Append(ps, r)
  BY DEF Interactive!Spawn
<1>3. /\ t \in Seq(Proc) /\ Len(t) = Len(ps) + 1
      /\ \A q \in 1 .. Len(ps) : t[q] = ps[q]
      /\ t[Len(ps) + 1] = r
  BY <1>1, <1>2, AppendProperties DEF Idle
<1>4. \A q \in 1 .. Len(t) : (q \in 1 .. Len(ps) /\ t[q] = ps[q]) \/ (q = Len(ps) + 1 /\ t[q] = r)
  BY <1>3 DEF Idle
<1>5. Idle(t) /\ Len(t) > 0 /\ t[Len(t)].reader # "ended" /\ t[Len(t)].alive
  BY <1>1, <1>3, <1>4 DEF Idle
<1> QED BY <1>5

LEMMA KillIdle ==
    ASSUME Len(procs) \in Nat, NEW ps, Idle(ps), Len(ps) > 0
    PROVE  Idle(Interactive!KillLast(ps)) /\ Len(Interactive!KillLast(ps)) > 0
<1> PICK t : t = Interactive!KillLast(ps)
  OBVIOUS
<1> PICK r : r = [ps[Len(ps)] EXCEPT !.alive = FALSE, !.inbox = <<>>, !.busy = NoTurn]
  OBVIOUS
<1>1. ps[Len(ps)] \in Proc /\ Len(ps) \in 1 .. Len(ps)
  BY ElementOfSeq DEF Idle
<1>2. r \in Proc /\ Quiet(r) /\ r.reader = ps[Len(ps)].reader /\ ~r.alive
  BY <1>1 DEF Proc, Quiet, Idle
<1>3. t = [ps EXCEPT ![Len(ps)] = r]
  BY DEF Interactive!KillLast, Interactive!NoTurn, NoTurn
<1>4. t \in Seq(Proc) /\ Len(t) = Len(ps) /\ \A q \in 1 .. Len(ps) : t[q] = IF q = Len(ps) THEN r ELSE ps[q]
  BY <1>1, <1>2, <1>3, ExceptSeq DEF Idle
<1>5. \A q \in 1 .. Len(ps) : /\ t[q].reader = ps[q].reader /\ Quiet(t[q])
                              /\ t[q].reader = "ended" => ~t[q].alive
  BY <1>2, <1>4 DEF Idle
<1>6. \A q \in 1 .. Len(procs) : q \in 1 .. Len(ps)
  BY DEF Idle
<1>7. /\ \A q \in 1 .. Len(procs) : t[q].reader = procs[q].reader
      /\ \A q \in 1 .. Len(t) : q > Len(procs) => t[q].reader = "loop"
  BY <1>4, <1>5, <1>6 DEF Idle
<1>8. t \in Seq(Proc) /\ Len(t) \in Nat /\ Len(t) >= Len(procs) /\ Len(t) > 0
  BY <1>4 DEF Idle
<1>9. Idle(t) /\ Len(t) > 0
  BY <1>4, <1>5, <1>7, <1>8 DEF Idle
<1> QED BY <1>9

LEMMA PutWrites ==
    ASSUME Len(procs) \in Nat, NEW ps, Idle(ps), Len(ps) > 0, NEW n \in Turns,
           ps[Len(ps)].reader # "ended", ps[Len(ps)].alive
    PROVE  Wrote(Interactive!Put(ps, n), n)
<1> PICK t : t = Interactive!Put(ps, n)
  OBVIOUS
<1> PICK r : r = [ps[Len(ps)] EXCEPT !.inbox = <<n>>]
  OBVIOUS
<1>1. ps[Len(ps)] \in Proc /\ Len(ps) \in 1 .. Len(ps) /\ ps[Len(ps)].inbox = <<>>
  BY ElementOfSeq DEF Idle, Quiet
<1>2. r \in Proc /\ r.inbox = <<n>> /\ r.busy = NoTurn /\ r.out = <<>> /\ r.reader = ps[Len(ps)].reader /\ r.alive
  BY <1>1 DEF Proc, Quiet, Idle
<1>3. t = [ps EXCEPT ![Len(ps)] = r]
  <2>1. Append(<<>>, n) = <<n>>
    OBVIOUS
  <2>2. t = [ps EXCEPT ![Len(ps)] = [ps[Len(ps)] EXCEPT !.inbox = Append(@, n)]]
    BY DEF Interactive!Put
  <2> QED BY <1>1, <2>1, <2>2
<1>4. t \in Seq(Proc) /\ Len(t) = Len(ps) /\ \A q \in 1 .. Len(ps) : t[q] = IF q = Len(ps) THEN r ELSE ps[q]
  BY <1>1, <1>2, <1>3, ExceptSeq DEF Idle
<1>5. \A q \in 1 .. Len(ps) : /\ t[q].reader = ps[q].reader /\ (q # Len(ps) => Quiet(t[q]))
                              /\ t[q].reader = "ended" => ~t[q].alive
  BY <1>2, <1>4 DEF Idle
<1>6. \A q \in 1 .. Len(procs) : q \in 1 .. Len(ps)
  BY DEF Idle
<1>7. t[Len(t)] = r /\ t[Len(t)].reader # "ended" /\ t[Len(t)].alive
  BY <1>1, <1>2, <1>4
<1>8. /\ \A q \in 1 .. Len(procs) : t[q].reader = procs[q].reader
      /\ \A q \in 1 .. Len(t) : q > Len(procs) => t[q].reader = "loop"
  BY <1>4, <1>5, <1>6 DEF Idle
<1>9. t \in Seq(Proc) /\ Len(t) \in Nat /\ Len(t) >= Len(procs) /\ Len(t) > 0
  BY <1>4 DEF Idle
<1>10. Wrote(t, n)
  BY <1>2, <1>4, <1>5, <1>7, <1>8, <1>9 DEF Wrote
<1> QED BY <1>10

LEMMA WriteOutcome ==
    ASSUME ProcsShape, Idle(procs), NEW n \in Turns, NEW respawned \in BOOLEAN,
           NEW o \in Interactive!WriteUserLine(engine, procs, n, respawned)
    PROVE  /\ \/ o.end = "written" /\ Wrote(o.procs, n)
              \/ o.end = "failed" /\ Idle(o.procs) /\ Len(o.procs) > 0
           /\ o.respawned \in BOOLEAN
<1> DEFINE Good(x) == /\ \/ x.end = "written" /\ Wrote(x.procs, n)
                         \/ x.end = "failed" /\ Idle(x.procs) /\ Len(x.procs) > 0
                      /\ x.respawned \in BOOLEAN
<1>1. exists \in BOOLEAN /\ Len(procs) \in Nat /\ engine.startedOnce \in BOOLEAN
      /\ (engine.spawned => Len(procs) > 0)
  <2>1. exists \in BOOLEAN /\ engine.startedOnce \in BOOLEAN /\ Len(procs) \in Nat
    BY DEF ProcsShape, Idle, Engine
  <2>2. engine.spawned => Len(procs) > 0
    BY EmptySeq DEF ProcsShape
  <2> QED BY <2>1, <2>2
<1> PICK up : up = IF engine.spawned /\ Interactive!Last(procs).alive THEN procs
                   ELSE Interactive!Spawn(procs, engine.startedOnce)
  OBVIOUS
<1>2. Idle(up) /\ Len(up) > 0 /\ up[Len(up)].reader # "ended" /\ up[Len(up)].alive
  <2>1. CASE engine.spawned /\ Interactive!Last(procs).alive
    <3>1. up = procs /\ Len(procs) > 0 /\ procs[Len(procs)].alive
      BY <1>1, <2>1 DEF Interactive!Last
    <3>2. Len(procs) \in DOMAIN procs
      BY <1>1, <3>1, LenProperties DEF Idle
    <3> QED BY <3>1, <3>2 DEF ProcsShape
  <2>2. CASE ~(engine.spawned /\ Interactive!Last(procs).alive)
    BY <1>1, <2>2, SpawnIdle
  <2> QED BY <2>1, <2>2
<1>3. o \in {Interactive!Outcome(Interactive!Put(up, n), "written", respawned)}
            \cup Interactive!BrokenPipe(Interactive!KillLast(up), n, respawned)
  BY DEF Interactive!WriteUserLine, Interactive!SpawnRaises
<1>4. ASSUME NEW ps, Wrote(ps, n), NEW b \in BOOLEAN PROVE Good(Interactive!Outcome(ps, "written", b))
  BY <1>4 DEF Interactive!Outcome
<1>5. ASSUME NEW ps, Idle(ps), Len(ps) > 0, NEW b \in BOOLEAN PROVE Good(Interactive!Outcome(ps, "failed", b))
  BY <1>5 DEF Interactive!Outcome
<1> HIDE DEF Good
<1>6. CASE o = Interactive!Outcome(Interactive!Put(up, n), "written", respawned)
  BY <1>1, <1>2, <1>4, <1>6, PutWrites DEF Good
<1>7. CASE o \in Interactive!BrokenPipe(Interactive!KillLast(up), n, respawned)
  <2> PICK ps : ps = Interactive!KillLast(up)
    OBVIOUS
  <2> PICK new : new = Interactive!Spawn(ps, TRUE)
    OBVIOUS
  <2>1. Idle(ps) /\ Len(ps) > 0
    BY <1>1, <1>2, KillIdle
  <2>2. Idle(new) /\ Len(new) > 0 /\ new[Len(new)].reader # "ended" /\ new[Len(new)].alive
    BY <1>1, <2>1, SpawnIdle
  <2>3. \/ o = Interactive!Outcome(ps, "failed", TRUE)
        \/ o = Interactive!Outcome(Interactive!Put(new, n), "written", TRUE)
        \/ o = Interactive!Outcome(Interactive!KillLast(new), "failed", TRUE)
    BY <1>7 DEF Interactive!BrokenPipe, Interactive!SpawnRaises
  <2>4. Wrote(Interactive!Put(new, n), n)
    BY <1>1, <2>2, PutWrites
  <2>5. Idle(Interactive!KillLast(new)) /\ Len(Interactive!KillLast(new)) > 0
    BY <1>1, <2>2, KillIdle
  <2>6. Good(o)
    BY <2>1, <2>3, <2>4, <2>5, <1>4, <1>5
  <2> QED BY <2>6 DEF Good
<1> QED BY <1>3, <1>6, <1>7

(* The engine after a write, its queue aside. *)
LEMMA AfterWrite ==
    ASSUME ProcsShape, NEW o, o.respawned \in BOOLEAN, o.end \in {"written", "failed"}
    PROVE  /\ Interactive!After(engine, o) \in Engine
           /\ Interactive!After(engine, o).inFlight = (o.end = "written")
           /\ Interactive!After(engine, o).pending = engine.pending
<1> PICK spawned \in BOOLEAN : spawned = (engine.spawned \/ o.procs # procs)
  OBVIOUS
<1> PICK startedOnce \in BOOLEAN : startedOnce = (engine.startedOnce \/ o.end = "written")
  OBVIOUS
<1> PICK raised \in BOOLEAN : raised = (engine.raised \/ o.end = "raised")
  OBVIOUS
<1> PICK inFlight \in BOOLEAN : inFlight = (o.end # "failed")
  OBVIOUS
<1> PICK respawned \in BOOLEAN : respawned = o.respawned
  OBVIOUS
<1>1. Interactive!After(engine, o) =
         [engine EXCEPT !.spawned = spawned, !.respawned = respawned, !.inFlight = inFlight,
                        !.startedOnce = startedOnce, !.raised = raised]
  BY DEF Interactive!After
<1>2. inFlight = (o.end = "written")
  OBVIOUS
<1> QED BY <1>1, <1>2 DEF ProcsShape, Engine

(* A turn that is not in flight: no process has a prompt. *)
LEMMA FreeIsIdle ==
    ASSUME ProcsShape, OneServes, ~engine.inFlight
    PROVE  /\ Idle(procs) /\ DOMAIN procs = 1 .. Len(procs) /\ engine.pending = <<>> /\ ~Waits
           /\ \A q \in 1 .. Len(procs) : procs[q].reader # "settle" /\ procs[q].inbox = <<>>
<1>1. procs \in Seq(Proc) /\ Len(procs) \in Nat /\ DOMAIN procs = 1 .. Len(procs)
  BY LenProperties DEF ProcsShape
<1> QED BY <1>1 DEF ProcsShape, OneServes, Idle, Quiet

LEMMA InteractiveSends ==
    ASSUME CallerOk, InteractiveInv, Interactive!Send
    PROVE  /\ InteractiveInv' /\ UNCHANGED <<turn, verdict, completed>>
           /\ pc = "send" /\ pc' = "wait" /\ done' \in BOOLEAN /\ err' \in BOOLEAN
<1>1. /\ pc = "send" /\ ~engine.inFlight /\ turn \in Turns /\ ~done /\ err
      /\ UNCHANGED <<turn, err, started, exists, completed, worked>>
  BY DEF Interactive!Send, Interactive!history, CallerOk, InteractiveInv, OneServes
<1>2. PICK o \in Interactive!WriteUserLine(engine, procs, turn, FALSE) :
          /\ procs' = o.procs /\ engine' = Interactive!After(engine, o)
          /\ done' = (done \/ o.end = "failed")
          /\ IF o.end = "raised" THEN Interactive!EndTurn("error") ELSE pc' = "wait" /\ UNCHANGED verdict
  BY DEF Interactive!Send
<1>3. /\ Idle(procs) /\ DOMAIN procs = 1 .. Len(procs) /\ engine.pending = <<>> /\ ~Waits
      /\ \A q \in 1 .. Len(procs) : procs[q].reader # "settle" /\ procs[q].inbox = <<>>
  BY <1>1, FreeIsIdle DEF InteractiveInv
<1>4. /\ \/ o.end = "written" /\ Wrote(o.procs, turn)
         \/ o.end = "failed" /\ Idle(o.procs) /\ Len(o.procs) > 0
      /\ o.respawned \in BOOLEAN
  BY <1>1, <1>3, WriteOutcome DEF InteractiveInv
<1>5. /\ engine' \in Engine
      /\ engine'.inFlight = (o.end = "written") /\ engine'.pending = <<>>
  BY <1>2, <1>3, <1>4, AfterWrite DEF InteractiveInv
<1>6. pc' = "wait" /\ verdict' = verdict /\ done' = (o.end = "failed") /\ done' \in BOOLEAN /\ err' \in BOOLEAN
  BY <1>1, <1>2, <1>4 DEF CallerOk
<1>7. /\ procs' \in Seq(Proc) /\ Len(procs') \in Nat /\ Len(procs') > 0 /\ procs' # <<>>
      /\ \A q \in 1 .. Len(procs') : procs'[q].reader = "ended" => ~procs'[q].alive
  <2>1. procs' \in Seq(Proc) /\ Len(procs') \in Nat /\ Len(procs') > 0
    BY <1>2, <1>4 DEF Wrote, Idle
  <2>2. \A q \in 1 .. Len(procs') : procs'[q].reader = "ended" => ~procs'[q].alive
    BY <1>2, <1>4 DEF Wrote, Idle
  <2>3. Len(<<>>) = 0
    OBVIOUS
  <2> QED BY <2>1, <2>2, <2>3
<1>8. DOMAIN procs' = 1 .. Len(procs')
  BY <1>7, LenProperties
<1>9. \A q \in 1 .. Len(procs') : procs'[q].reader # "settle"
  <2>1. \A q \in 1 .. Len(procs') : q \in 1 .. Len(procs) \/ q > Len(procs)
    BY <1>3, <1>7 DEF Idle
  <2>2. \A q \in 1 .. Len(procs) : procs'[q].reader # "settle"
    BY <1>2, <1>3, <1>4 DEF Wrote, Idle
  <2>3. \A q \in 1 .. Len(procs') : q > Len(procs) => procs'[q].reader = "loop"
    BY <1>2, <1>4 DEF Wrote, Idle
  <2> QED BY <2>1, <2>2, <2>3
<1>10. ProcsShape'
  BY <1>1, <1>5, <1>7, <1>8 DEF InteractiveInv, ProcsShape
<1>12. OneServes'
  <2>1. (pc = "send" => ~done /\ err)' /\ ((pc = "wait" /\ done /\ ~err) => turn \in completed)'
    BY <1>1, <1>6
  <2>2. CASE o.end = "written"
    <3>1. Wrote(procs', turn)
      BY <1>2, <1>4, <2>2
    <3>2. Len(procs') \in 1 .. Len(procs') /\ procs'[Len(procs')] \in Proc
      BY <1>7, ElementOfSeq
    <3>3. procs'[Len(procs')].reader = "loop" /\ HasPrompt(procs[Len(procs)])'
      BY <1>1, <1>9, <3>1, <3>2 DEF Wrote, Proc, HasPrompt
    <3>4. Serves(procs[Len(procs)])'
      BY <1>5, <1>6, <2>2, <3>3 DEF Serves, Owes, Waits
    <3>5. \A q \in 1 .. Len(procs') : Quiet(procs'[q]) \/ q = Len(procs')
      BY <3>1 DEF Wrote
    <3> QED BY <1>5, <1>7, <1>8, <1>9, <2>1, <2>2, <3>4, <3>5 DEF OneServes
  <2>3. CASE o.end = "failed"
    <3>1. \A q \in 1 .. Len(procs') : Quiet(procs'[q])
      BY <1>2, <1>4, <2>3 DEF Idle
    <3>2. ~Waits' /\ ~engine'.inFlight
      BY <1>5, <1>6, <2>3 DEF Waits
    <3> QED BY <1>5, <1>8, <1>9, <2>1, <3>1, <3>2 DEF OneServes
  <2> QED BY <1>4, <2>2, <2>3
<1>13. ReadOnce'
  <2>1. \A w \in worked : w[1] \in 1 .. turn /\ w[1] # turn
    BY <1>1 DEF InteractiveInv, ReadOnce, Unread
  <2> QED BY <1>1, <2>1 DEF InteractiveInv, ReadOnce
<1> QED BY <1>1, <1>6, <1>10, <1>12, <1>13 DEF InteractiveInv

(* One process changes, or its reader, and perhaps the engine with it. *)
LEMMA ProcChanges ==
    ASSUME ProcsShape, NEW p \in DOMAIN procs, NEW r \in Proc, procs' = [procs EXCEPT ![p] = r]
    PROVE  /\ procs' \in Seq(Proc) /\ Len(procs') = Len(procs) /\ Len(procs) \in Nat
           /\ DOMAIN procs = 1 .. Len(procs) /\ DOMAIN procs' = 1 .. Len(procs)
           /\ Len(procs) \in 1 .. Len(procs)
           /\ \A q \in 1 .. Len(procs) : procs'[q] = IF q = p THEN r ELSE procs[q]
<1>1. procs \in Seq(Proc) /\ DOMAIN procs = 1 .. Len(procs) /\ Len(procs) \in Nat
  BY LenProperties DEF ProcsShape
<1>2. procs' \in Seq(Proc) /\ Len(procs') = Len(procs)
  BY <1>1, ExceptSeq
<1>3. DOMAIN procs' = 1 .. Len(procs)
  BY <1>2, LenProperties
<1> QED BY <1>1, <1>2, <1>3, ExceptSeq

LEMMA ProcKeeps ==
    ASSUME ProcsShape, OneServes, NEW p \in DOMAIN procs, NEW r \in Proc, procs' = [procs EXCEPT ![p] = r],
           r.reader = "ended" => ~r.alive,
           engine' \in Engine, engine'.spawned = engine.spawned,
           UNCHANGED <<turn, pc, started>>, exists' \in BOOLEAN,
           engine'.inFlight => engine.inFlight,
           engine'.inFlight /\ p = Len(procs) => Serves(r)',
           p # Len(procs) => UNCHANGED <<engine, done, completed>>,
           ~engine'.inFlight => engine'.pending = <<>> /\ ~Waits',
           (Quiet(r) /\ r.reader # "settle") \/ (engine'.inFlight /\ p = Len(procs)),
           pc = "send" => ~done' /\ err',
           (pc = "wait" /\ done' /\ ~err') => turn \in completed'
    PROVE  ProcsShape' /\ OneServes'
<1>1. /\ procs' \in Seq(Proc) /\ Len(procs') = Len(procs) /\ Len(procs) \in Nat
      /\ DOMAIN procs = 1 .. Len(procs) /\ DOMAIN procs' = 1 .. Len(procs)
      /\ Len(procs) \in 1 .. Len(procs)
      /\ \A q \in 1 .. Len(procs) : procs'[q] = IF q = p THEN r ELSE procs[q]
  BY ProcChanges
<1>2. procs # <<>> /\ procs' # <<>>
  BY <1>1
<1>3. \A q \in DOMAIN procs' : procs'[q].reader = "ended" => ~procs'[q].alive
  BY <1>1 DEF ProcsShape
<1>4. ProcsShape'
  BY <1>1, <1>2, <1>3, Zenon DEF ProcsShape
<1>5. engine'.inFlight => Serves(procs[Len(procs)])'
  <2>1. CASE p = Len(procs)
    BY <1>1, <2>1 DEF Serves, Owes, HasPrompt, HasAnswer, Waits
  <2>2. CASE p # Len(procs)
    <3> PICK q : q = procs[Len(procs)]
      OBVIOUS
    <3>1. q = procs'[Len(procs')]
      BY <1>1, <2>2
    <3>2. Waits' = Waits /\ Owes(q)' = Owes(q) /\ engine'.pending = engine.pending
      BY <2>2 DEF Owes, HasPrompt, HasAnswer, Waits
    <3>3. Serves(q) => Serves(q)'
      BY <3>2 DEF Serves, Waits
    <3>4. engine'.inFlight => Serves(q)
      BY DEF OneServes
    <3>5. Serves(q)' => Serves(procs[Len(procs)])'
      BY <3>1 DEF Serves, Owes, HasPrompt, HasAnswer, Waits
    <3> QED BY <3>3, <3>4, <3>5
  <2> QED BY <2>1, <2>2
<1>6. \A q \in 1 .. Len(procs) :
          (Quiet(procs'[q]) /\ procs'[q].reader # "settle") \/ (engine'.inFlight /\ q = Len(procs))
  <2> SUFFICES ASSUME NEW q \in 1 .. Len(procs)
               PROVE  (Quiet(procs'[q]) /\ procs'[q].reader # "settle") \/ (engine'.inFlight /\ q = Len(procs))
    OBVIOUS
  <2>1. CASE q = p
    BY <1>1, <2>1
  <2>2. CASE q # p
    <3>1. procs'[q] = procs[q]
      BY <1>1, <2>2
    <3>2. (Quiet(procs[q]) /\ procs[q].reader # "settle") \/ (engine.inFlight /\ q = Len(procs))
      BY <1>1 DEF OneServes
    <3> QED BY <2>2, <3>1, <3>2
  <2> QED BY <2>1, <2>2
<1>7. OneServes'
  BY <1>1, <1>2, <1>5, <1>6 DEF OneServes
<1> QED BY <1>4, <1>7

(* Who has a prompt, or is about to settle, serves the turn. *)
LEMMA BusyServes ==
    ASSUME ProcsShape, OneServes, NEW p \in DOMAIN procs, ~Quiet(procs[p]) \/ procs[p].reader = "settle"
    PROVE  engine.inFlight /\ p = Len(procs) /\ Serves(procs[p])
BY DEF OneServes

LEMMA ProcType ==
    ASSUME ProcsShape, NEW p \in DOMAIN procs
    PROVE  procs[p] \in Proc
BY ElementOfSeq, LenProperties DEF ProcsShape

(* What waits to be read is no more than it was. *)
LEMMA ReadKeeps ==
    ASSUME ReadOnce, NEW p \in DOMAIN procs, NEW r, procs' = [procs EXCEPT ![p] = r],
           r.inbox # <<>> => procs[p].inbox # <<>>,
           engine'.pending # <<>> => engine.pending # <<>>,
           UNCHANGED <<turn, pc, worked>>
    PROVE  ReadOnce'
<1>1. \A q \in DOMAIN procs' : q \in DOMAIN procs /\ procs'[q] = IF q = p THEN r ELSE procs[q]
  OBVIOUS
<1>2. Unread' => Unread
  BY <1>1 DEF Unread
<1> QED BY <1>2 DEF ReadOnce

LEMMA InteractiveTakes ==
    ASSUME CallerOk, InteractiveInv, NEW p \in DOMAIN procs, Interactive!Take(p)
    PROVE  InteractiveInv'
<1>1. /\ procs[p].alive /\ procs[p].inbox # <<>> /\ procs[p] \in Proc
      /\ UNCHANGED <<turn, pc, done, err, verdict, started, engine, completed>> /\ exists' = TRUE
  BY ProcType DEF Interactive!Take, Interactive!callVars, InteractiveInv
<1>2. engine.inFlight /\ p = Len(procs) /\ Serves(procs[p])
  BY <1>1, BusyServes DEF InteractiveInv, Quiet
<1>3. HasPrompt(procs[p]) /\ procs[p].reader = "loop" /\ Waits /\ engine.pending = <<>>
  BY <1>1, <1>2 DEF Serves, Owes, HasAnswer, Quiet, HasPrompt
<1> PICK r : r = [procs[p] EXCEPT !.busy = turn, !.inbox = <<>>]
  OBVIOUS
<1>4. turn \in Turns
  BY <1>3 DEF Waits, CallerOk
<1>5. Head(procs[p].inbox) = turn /\ Tail(procs[p].inbox) = <<>>
  BY <1>3 DEF HasPrompt
<1>6. procs' = [procs EXCEPT ![p] = r] /\ worked' = worked \cup {<<turn, p>>}
  BY <1>5 DEF Interactive!Take
<1>7. /\ r \in Proc /\ r.busy = turn /\ r.inbox = <<>> /\ r.out = <<>> /\ r.reader = "loop"
  BY <1>1, <1>3, <1>4 DEF Proc, HasPrompt
<1>8. Serves(r)'
  BY <1>1, <1>3, <1>7 DEF Serves, Owes, Waits
<1>9. ProcsShape' /\ OneServes'
  <2>1. ProcsShape /\ OneServes /\ engine' \in Engine /\ exists' \in BOOLEAN
    BY <1>1 DEF InteractiveInv, ProcsShape
  <2>2. (pc = "send" => ~done' /\ err') /\ ((pc = "wait" /\ done' /\ ~err') => turn \in completed')
    BY <1>1 DEF InteractiveInv, OneServes
  <2> QED BY <1>1, <1>2, <1>6, <1>7, <1>8, <2>1, <2>2, ProcKeeps
<1>10. ReadOnce'
  <2>1. \A q \in DOMAIN procs : q # p => procs[q].inbox = <<>>
    BY <1>2 DEF InteractiveInv, OneServes, Quiet
  <2>2. \A q \in DOMAIN procs' : q \in DOMAIN procs /\ procs'[q] = IF q = p THEN r ELSE procs[q]
    BY <1>6
  <2>3. ~Unread'
    BY <1>1, <1>3, <1>7, <2>1, <2>2 DEF Unread, Waits
  <2>4. Unread
    BY <1>1 DEF Unread
  <2>5. \A w \in worked : w[1] \in 1 .. turn /\ w[1] # turn
    BY <2>4 DEF InteractiveInv, ReadOnce
  <2>6. turn \in 1 .. turn
    BY <1>4 DEF Turns
  <2>7. \A w \in worked' : w[1] \in 1 .. turn
    BY <1>6, <2>5, <2>6
  <2>8. \A w, v \in worked' : w[1] = v[1] => w[2] = v[2]
    BY <1>6, <2>5 DEF InteractiveInv, ReadOnce
  <2>9. \A w \in worked' : w[2] \in Nat
    <3>1. p \in Nat
      BY LenProperties DEF InteractiveInv, ProcsShape
    <3>2. \A w \in worked : w[2] \in Nat
      BY DEF InteractiveInv, ReadOnce
    <3> QED BY <1>6, <3>1, <3>2
  <2> QED BY <1>1, <2>3, <2>7, <2>8, <2>9 DEF ReadOnce
<1> QED BY <1>9, <1>10 DEF InteractiveInv

LEMMA InteractiveAnswers ==
    ASSUME CallerOk, InteractiveInv, NEW p \in DOMAIN procs, NEW ok \in BOOLEAN, Interactive!Result(p, ok)
    PROVE  /\ InteractiveInv' /\ turn \in 1 .. turn
           /\ completed' = IF ok THEN completed \cup {turn} ELSE completed
<1>1. /\ procs[p].alive /\ procs[p].busy # NoTurn /\ procs[p] \in Proc
      /\ UNCHANGED <<turn, pc, done, err, verdict, started, engine, exists, worked>>
  BY ProcType DEF Interactive!Result, Interactive!callVars, InteractiveInv, Interactive!NoTurn, NoTurn
<1>2. engine.inFlight /\ p = Len(procs) /\ Serves(procs[p])
  BY <1>1, BusyServes DEF InteractiveInv, Quiet
<1>3. /\ procs[p].busy = turn /\ procs[p].inbox = <<>> /\ procs[p].out = <<>>
      /\ procs[p].reader = "loop" /\ Waits /\ engine.pending = <<>>
  BY <1>1, <1>2 DEF Serves, Owes, HasAnswer, Quiet, HasPrompt
<1> PICK out : out = <<[turn |-> turn, ok |-> ok]>>
  OBVIOUS
<1> PICK r : r = [procs[p] EXCEPT !.busy = NoTurn, !.out = out]
  OBVIOUS
<1>4. turn \in Turns /\ turn \in 1 .. turn
  BY <1>3 DEF Waits, CallerOk, Turns
<1>5. Append(<<>>, [turn |-> turn, ok |-> ok]) = out
  OBVIOUS
<1>6. /\ procs' = [procs EXCEPT ![p] = r]
      /\ completed' = IF ok THEN completed \cup {turn} ELSE completed
  BY <1>3, <1>5 DEF Interactive!Result, Interactive!NoTurn, NoTurn
<1>7. /\ r \in Proc /\ r.busy = NoTurn /\ r.inbox = <<>> /\ r.out = out /\ r.reader = "loop"
  <2>1. out \in {<<res>> : res \in [turn : Turns, ok : BOOLEAN]}
    BY <1>4
  <2> QED BY <1>1, <1>3, <2>1 DEF Proc
<1>8. HasAnswer(r)'
  BY <1>1, <1>6, <1>7 DEF HasAnswer
<1>9. Serves(r)'
  BY <1>1, <1>3, <1>7, <1>8 DEF Serves, Owes, Waits
<1>10. ProcsShape' /\ OneServes'
  <2>1. ProcsShape /\ OneServes /\ engine' \in Engine /\ exists' \in BOOLEAN
    BY <1>1 DEF InteractiveInv, ProcsShape
  <2>2. (pc = "send" => ~done' /\ err') /\ ((pc = "wait" /\ done' /\ ~err') => turn \in completed')
    BY <1>1, <1>6 DEF InteractiveInv, OneServes
  <2> QED BY <1>1, <1>2, <1>6, <1>7, <1>9, <2>1, <2>2, ProcKeeps
<1>11. ReadOnce'
  BY <1>1, <1>6, <1>7, ReadKeeps DEF InteractiveInv
<1> QED BY <1>4, <1>6, <1>10, <1>11 DEF InteractiveInv

LEMMA InteractiveDies ==
    ASSUME CallerOk, InteractiveInv, NEW p \in DOMAIN procs, Interactive!Die(p)
    PROVE  InteractiveInv'
<1>1. /\ procs[p] \in Proc
      /\ UNCHANGED <<turn, pc, done, err, verdict, started, engine, exists, worked, completed>>
  BY ProcType DEF Interactive!Die, Interactive!callVars, Interactive!history, InteractiveInv
<1> PICK r : r = [procs[p] EXCEPT !.alive = FALSE, !.inbox = <<>>, !.busy = NoTurn]
  OBVIOUS
<1>2. procs' = [procs EXCEPT ![p] = r]
  BY DEF Interactive!Die, Interactive!NoTurn, NoTurn
<1>3. /\ r \in Proc /\ r.busy = NoTurn /\ r.inbox = <<>> /\ r.out = procs[p].out
      /\ r.reader = procs[p].reader /\ ~r.alive
  BY <1>1 DEF Proc
<1>4. procs[p].out # <<>> => HasAnswer(procs[p])
  <2>1. procs[p].out # <<>> => Serves(procs[p])
    BY BusyServes DEF InteractiveInv, Quiet
  <2> QED BY <2>1 DEF Serves, Owes, HasPrompt, Quiet
<1>5. HasAnswer(r)' \/ Quiet(r)
  BY <1>1, <1>3, <1>4 DEF HasAnswer, Quiet
<1>6. (engine.inFlight /\ p = Len(procs)) => Serves(r)'
  <2> HAVE engine.inFlight /\ p = Len(procs)
  <2>1. Serves(procs[p])
    BY DEF InteractiveInv, OneServes
  <2>2. CASE procs[p].reader = "loop"
    BY <1>1, <1>3, <1>5, <2>1, <2>2 DEF Serves, Owes, Waits
  <2>3. CASE procs[p].reader = "settle"
    <3>1. Quiet(r)
      BY <1>3, <2>1, <2>3 DEF Serves, Quiet
    <3> QED BY <1>1, <1>3, <2>1, <2>3, <3>1 DEF Serves, Waits
  <2> QED BY <2>1, <2>2, <2>3 DEF Serves
<1>7. (Quiet(r) /\ r.reader # "settle") \/ (engine'.inFlight /\ p = Len(procs))
  BY <1>1, <1>3 DEF InteractiveInv, OneServes, Quiet
<1>8. ProcsShape' /\ OneServes'
  <2>1. ProcsShape /\ OneServes /\ engine' \in Engine /\ exists' \in BOOLEAN
    BY <1>1 DEF InteractiveInv, ProcsShape
  <2>2. /\ pc = "send" => ~done' /\ err'
        /\ (pc = "wait" /\ done' /\ ~err') => turn \in completed'
        /\ ~engine'.inFlight => engine'.pending = <<>> /\ ~Waits'
    BY <1>1 DEF InteractiveInv, OneServes, Waits
  <2> QED BY <1>1, <1>2, <1>3, <1>6, <1>7, <2>1, <2>2, ProcKeeps
<1>9. ReadOnce'
  BY <1>1, <1>2, <1>3, ReadKeeps DEF InteractiveInv
<1> QED BY <1>8, <1>9 DEF InteractiveInv

(* The reader of the process that answered calls back, and is to settle. *)
LEMMA InteractiveReadsResult ==
    ASSUME CallerOk, InteractiveInv, NEW p \in DOMAIN procs, Interactive!ReadResult(p)
    PROVE  InteractiveInv'
<1>1. /\ procs[p] \in Proc /\ procs[p].reader = "loop" /\ procs[p].out # <<>>
      /\ done' = TRUE /\ err' = ~Head(procs[p].out).ok
      /\ UNCHANGED <<turn, pc, verdict, started, engine, exists, worked, completed>>
  BY ProcType DEF Interactive!ReadResult, Interactive!history, InteractiveInv
<1>2. engine.inFlight /\ p = Len(procs) /\ Serves(procs[p])
  BY <1>1, BusyServes DEF InteractiveInv, Quiet
<1>3. HasAnswer(procs[p]) /\ Waits /\ engine.pending = <<>>
  BY <1>1, <1>2 DEF Serves, Owes, HasPrompt, Quiet
<1>4. PICK ok \in BOOLEAN : procs[p].out = <<[turn |-> turn, ok |-> ok]>> /\ (ok => turn \in completed)
  BY <1>3 DEF HasAnswer
<1>5. Tail(procs[p].out) = <<>> /\ Head(procs[p].out) = [turn |-> turn, ok |-> ok]
  BY <1>4
<1> PICK r : r = [procs[p] EXCEPT !.out = <<>>, !.reader = "settle"]
  OBVIOUS
<1>6. procs' = [procs EXCEPT ![p] = r]
  BY <1>5 DEF Interactive!ReadResult
<1>7. r \in Proc /\ Quiet(r) /\ r.reader = "settle" /\ r.inbox = <<>>
  BY <1>1, <1>3 DEF Proc, Quiet, HasAnswer
<1>8. Serves(r)' /\ err' = ~ok
  <2>1. ~Waits'
    BY <1>1 DEF Waits
  <2> QED BY <1>1, <1>3, <1>5, <1>7, <2>1 DEF Serves
<1>9. ProcsShape' /\ OneServes'
  <2>1. ProcsShape /\ OneServes /\ engine' \in Engine /\ exists' \in BOOLEAN
    BY <1>1 DEF InteractiveInv, ProcsShape
  <2>2. (pc = "send" => ~done' /\ err') /\ ((pc = "wait" /\ done' /\ ~err') => turn \in completed')
    BY <1>1, <1>3, <1>4, <1>8 DEF Waits
  <2> QED BY <1>1, <1>2, <1>6, <1>7, <1>8, <2>1, <2>2, ProcKeeps
<1>10. ReadOnce'
  BY <1>1, <1>6, <1>7, ReadKeeps DEF InteractiveInv
<1> QED BY <1>9, <1>10 DEF InteractiveInv

(* The end of a process: the turn in flight has failed. *)
LEMMA InteractiveReadsEof ==
    ASSUME CallerOk, InteractiveInv, NEW p \in DOMAIN procs, Interactive!ReadEof(p)
    PROVE  InteractiveInv'
<1>1. /\ procs[p] \in Proc /\ procs[p].reader = "loop" /\ procs[p].out = <<>> /\ ~procs[p].alive
      /\ UNCHANGED <<turn, pc, verdict, started, exists, worked, completed>>
  BY ProcType DEF Interactive!ReadEof, Interactive!AtEof, Interactive!history, InteractiveInv
<1> PICK r : r = [procs[p] EXCEPT !.reader = "ended"]
  OBVIOUS
<1>2. procs' = [procs EXCEPT ![p] = r]
  BY DEF Interactive!ReadEof
<1>3. r \in Proc /\ r.inbox = procs[p].inbox /\ r.busy = procs[p].busy /\ r.out = <<>> /\ r.reader = "ended" /\ ~r.alive
  BY <1>1 DEF Proc
<1>4. CASE engine.inFlight /\ p = Len(procs)
  <2>1. Serves(procs[p])
    BY <1>4 DEF InteractiveInv, OneServes
  <2>2. Waits /\ engine.pending = <<>>
    BY <1>1, <2>1 DEF Serves
  <2>3. done' = TRUE /\ err' = TRUE /\ engine' = [engine EXCEPT !.inFlight = FALSE]
    BY <1>4 DEF Interactive!ReadEof
  <2>4. engine' \in Engine /\ engine'.spawned = engine.spawned /\ ~engine'.inFlight /\ engine'.pending = <<>>
    BY <2>2, <2>3 DEF InteractiveInv, ProcsShape, Engine
  <2>5. /\ ~Waits' /\ pc # "send"
    BY <2>2, <2>3 DEF Waits
  <2>6. Quiet(r)
    BY <1>1, <1>3, <2>1 DEF Serves, Owes, HasPrompt, HasAnswer, Quiet
  <2>7. ProcsShape' /\ OneServes'
    <3>1. ProcsShape /\ OneServes /\ exists' \in BOOLEAN
      BY <1>1 DEF InteractiveInv, ProcsShape
    <3> QED BY <1>1, <1>2, <1>3, <1>4, <2>3, <2>4, <2>5, <2>6, <3>1, ProcKeeps
  <2>8. ReadOnce'
    BY <1>1, <1>2, <1>3, <2>4, ReadKeeps DEF InteractiveInv
  <2> QED BY <2>7, <2>8 DEF InteractiveInv
<1>5. CASE ~(engine.inFlight /\ p = Len(procs))
  <2>1. UNCHANGED <<done, err, engine>>
    BY <1>5 DEF Interactive!ReadEof
  <2>2. Quiet(r)
    BY <1>3, <1>5 DEF InteractiveInv, OneServes, Quiet
  <2>3. ProcsShape' /\ OneServes'
    <3>1. ProcsShape /\ OneServes /\ engine' \in Engine /\ exists' \in BOOLEAN
      BY <1>1, <2>1 DEF InteractiveInv, ProcsShape
    <3>2. /\ pc = "send" => ~done' /\ err'
          /\ (pc = "wait" /\ done' /\ ~err') => turn \in completed'
          /\ ~engine'.inFlight => engine'.pending = <<>> /\ ~Waits'
      BY <1>1, <2>1 DEF InteractiveInv, OneServes, Waits
    <3> QED BY <1>1, <1>2, <1>3, <1>5, <2>1, <2>2, <3>1, <3>2, ProcKeeps
  <2>4. ReadOnce'
    BY <1>1, <1>2, <1>3, <2>1, ReadKeeps DEF InteractiveInv
  <2> QED BY <2>3, <2>4 DEF InteractiveInv
<1> QED BY <1>4, <1>5

(* Nobody waits in the engine: it is free. *)
LEMMA InteractiveSettlesFree ==
    ASSUME CallerOk, InteractiveInv, NEW p \in DOMAIN procs, Interactive!Settle(p), engine.pending = <<>>
    PROVE  InteractiveInv' /\ UNCHANGED <<turn, pc, verdict, done, err, completed>>
<1>1. /\ procs[p] \in Proc /\ procs[p].reader = "settle" /\ procs' = [procs EXCEPT ![p].reader = "loop"]
      /\ engine' = [engine EXCEPT !.inFlight = FALSE]
      /\ UNCHANGED <<turn, pc, verdict, started, exists, worked, completed, done, err>>
  BY ProcType DEF Interactive!Settle, Interactive!history, InteractiveInv
<1> PICK r : r = [procs[p] EXCEPT !.reader = "loop"]
  OBVIOUS
<1>2. procs' = [procs EXCEPT ![p] = r]
  BY <1>1
<1>3. engine.inFlight /\ p = Len(procs) /\ Serves(procs[p])
  BY <1>1, BusyServes DEF InteractiveInv
<1>4. Quiet(procs[p]) /\ ~Waits
  BY <1>1, <1>3 DEF Serves
<1>5. r \in Proc /\ Quiet(r) /\ r.reader = "loop" /\ r.inbox = <<>>
  BY <1>1, <1>4 DEF Proc, Quiet
<1>6. engine' \in Engine /\ engine'.spawned = engine.spawned /\ ~engine'.inFlight /\ engine'.pending = <<>> /\ ~Waits'
  BY <1>1, <1>4 DEF InteractiveInv, ProcsShape, Engine, Waits
<1>7. ProcsShape' /\ OneServes'
  <2>1. ProcsShape /\ OneServes /\ exists' \in BOOLEAN
    BY <1>1 DEF InteractiveInv, ProcsShape
  <2>2. (pc = "send" => ~done' /\ err') /\ ((pc = "wait" /\ done' /\ ~err') => turn \in completed')
    BY <1>1 DEF InteractiveInv, OneServes
  <2> QED BY <1>1, <1>2, <1>3, <1>5, <1>6, <2>1, <2>2, ProcKeeps
<1>8. ReadOnce'
  BY <1>1, <1>2, <1>5, <1>6, ReadKeeps DEF InteractiveInv
<1> QED BY <1>1, <1>7, <1>8 DEF InteractiveInv

(* The prompt that came meanwhile is written. *)
LEMMA InteractiveSettlesNext ==
    ASSUME CallerOk, InteractiveInv, NEW p \in DOMAIN procs, Interactive!Settle(p), engine.pending # <<>>
    PROVE  /\ InteractiveInv' /\ UNCHANGED <<turn, pc, verdict, completed>>
           /\ done' \in BOOLEAN /\ err' \in BOOLEAN
<1>1. /\ procs[p] \in Proc /\ procs[p].reader = "settle"
      /\ UNCHANGED <<turn, pc, verdict, started, exists, worked, completed>>
      /\ err' = IF done' # done THEN TRUE ELSE err
  BY ProcType DEF Interactive!Settle, Interactive!history, InteractiveInv
<1>2. engine.inFlight /\ p = Len(procs) /\ Serves(procs[p])
  BY <1>1, BusyServes DEF InteractiveInv
<1>3. Quiet(procs[p]) /\ engine.pending = <<turn>> /\ pc = "wait" /\ ~done
  BY <1>1, <1>2 DEF Serves, Waits
<1>4. turn \in Turns /\ Head(engine.pending) = turn /\ Tail(engine.pending) = <<>>
  BY <1>3 DEF CallerOk
<1>5. PICK o \in Interactive!WriteUserLine(engine, procs, turn, engine.respawned) :
          /\ engine' = [Interactive!After(engine, o) EXCEPT !.pending = Tail(@)]
          /\ procs' = [o.procs EXCEPT ![p].reader = IF o.end = "raised" THEN "ended" ELSE "loop"]
          /\ done' = (done \/ o.end = "failed")
  BY <1>4 DEF Interactive!Settle
<1>6. procs \in Seq(Proc) /\ Len(procs) \in Nat /\ DOMAIN procs = 1 .. Len(procs) /\ p \in 1 .. Len(procs)
  BY LenProperties DEF InteractiveInv, ProcsShape
<1>7. Idle(procs)
  <2>1. \A q \in 1 .. Len(procs) : Quiet(procs[q]) /\ (procs[q].reader = "ended" => ~procs[q].alive)
    BY <1>2, <1>3, <1>6 DEF InteractiveInv, OneServes, ProcsShape
  <2> QED BY <1>6, <2>1 DEF Idle
<1>8. /\ \/ o.end = "written" /\ Wrote(o.procs, turn)
         \/ o.end = "failed" /\ Idle(o.procs) /\ Len(o.procs) > 0
      /\ o.respawned \in BOOLEAN
  <2>1. engine.respawned \in BOOLEAN
    BY DEF InteractiveInv, ProcsShape, Engine
  <2> QED BY <1>4, <1>7, <2>1, WriteOutcome DEF InteractiveInv
<1>9. engine' \in Engine /\ engine'.inFlight = (o.end = "written") /\ engine'.pending = <<>>
  <2> PICK e : e = Interactive!After(engine, o)
    OBVIOUS
  <2>1. e \in Engine /\ e.inFlight = (o.end = "written") /\ e.pending = <<turn>>
    BY <1>3, <1>8, AfterWrite DEF InteractiveInv
  <2>2. engine' = [e EXCEPT !.pending = <<>>]
    BY <1>3, <1>4, <1>5, <2>1
  <2> QED BY <2>1, <2>2 DEF Engine
<1>10. done' = (o.end = "failed") /\ (done' => err') /\ done' \in BOOLEAN /\ err' \in BOOLEAN
  BY <1>1, <1>3, <1>5, <1>8 DEF CallerOk
<1>11. /\ o.procs \in Seq(Proc) /\ Len(o.procs) \in Nat /\ Len(o.procs) >= p
       /\ \A q \in 1 .. Len(o.procs) : /\ q # Len(o.procs) \/ o.end = "failed" => Quiet(o.procs[q])
                                       /\ o.procs[q].reader = "ended" => ~o.procs[q].alive
       /\ \A q \in 1 .. Len(procs) : o.procs[q].reader = procs[q].reader
       /\ \A q \in 1 .. Len(o.procs) : q > Len(procs) => o.procs[q].reader = "loop"
  BY <1>2, <1>8 DEF Wrote, Idle
<1> PICK r : r = [o.procs[p] EXCEPT !.reader = "loop"]
  OBVIOUS
<1>12. /\ p \in 1 .. Len(o.procs) /\ r \in Proc /\ r.reader = "loop" /\ r.inbox = o.procs[p].inbox
       /\ r.busy = o.procs[p].busy /\ r.out = o.procs[p].out /\ r.alive = o.procs[p].alive
  <2>1. p \in 1 .. Len(o.procs) /\ o.procs[p] \in Proc
    BY <1>6, <1>11, ElementOfSeq
  <2> QED BY <2>1 DEF Proc
<1>13. procs' = [o.procs EXCEPT ![p] = r]
  BY <1>5, <1>8
<1>14. /\ procs' \in Seq(Proc) /\ Len(procs') = Len(o.procs)
       /\ \A q \in 1 .. Len(o.procs) : procs'[q] = IF q = p THEN r ELSE o.procs[q]
  BY <1>11, <1>12, <1>13, ExceptSeq
<1>15. DOMAIN procs' = 1 .. Len(o.procs)
  BY <1>14, LenProperties
<1>16. \A q \in 1 .. Len(o.procs) :
          /\ procs'[q].reader # "settle"
          /\ procs'[q].reader = "ended" => ~procs'[q].alive
          /\ procs'[q].inbox = o.procs[q].inbox /\ procs'[q].busy = o.procs[q].busy
          /\ procs'[q].out = o.procs[q].out /\ procs'[q].alive = o.procs[q].alive
  <2> SUFFICES ASSUME NEW q \in 1 .. Len(o.procs)
               PROVE  /\ procs'[q].reader # "settle"
                      /\ procs'[q].reader = "ended" => ~procs'[q].alive
                      /\ procs'[q].inbox = o.procs[q].inbox /\ procs'[q].busy = o.procs[q].busy
                      /\ procs'[q].out = o.procs[q].out /\ procs'[q].alive = o.procs[q].alive
    OBVIOUS
  <2>1. CASE q = p
    BY <1>12, <1>14, <2>1
  <2>2. CASE q # p
    <3>1. procs'[q] = o.procs[q]
      BY <1>14, <2>2
    <3>2. o.procs[q].reader # "settle"
      <4>1. CASE q > Len(procs)
        BY <1>11, <4>1
      <4>2. CASE ~(q > Len(procs))
        <5>1. q \in 1 .. Len(procs)
          BY <1>6, <1>11, <4>2
        <5> QED BY <1>2, <1>6, <1>11, <2>2, <5>1 DEF InteractiveInv, OneServes
      <4> QED BY <4>1, <4>2
    <3> QED BY <1>11, <3>1, <3>2
  <2> QED BY <2>1, <2>2
<1>17. procs' # <<>>
  BY <1>12, <1>15
<1>18. ProcsShape'
  BY <1>1, <1>9, <1>14, <1>15, <1>16, <1>17 DEF InteractiveInv, ProcsShape
<1>19. OneServes'
  <2>1. (pc = "send" => ~done /\ err)' /\ ((pc = "wait" /\ done /\ ~err) => turn \in completed)'
    BY <1>1, <1>3, <1>10
  <2>2. \A q \in 1 .. Len(o.procs) : q # Len(o.procs) \/ o.end = "failed" => Quiet(procs'[q])
    BY <1>11, <1>16 DEF Quiet
  <2>3. CASE o.end = "written"
    <3>1. Len(o.procs) \in 1 .. Len(o.procs) /\ procs'[Len(o.procs)] \in Proc
      BY <1>11, <1>12, <1>14, ElementOfSeq
    <3>2. procs'[Len(o.procs)].reader = "loop"
      <4>1. o.procs[Len(o.procs)].reader # "ended" /\ o.procs[Len(o.procs)].alive
        BY <1>8, <2>3 DEF Wrote
      <4> QED BY <1>16, <3>1, <4>1 DEF Proc
    <3>3. HasPrompt(procs[Len(procs)])'
      BY <1>1, <1>8, <1>14, <1>16, <2>3, <3>1 DEF Wrote, HasPrompt
    <3>4. Serves(procs[Len(procs)])'
      BY <1>1, <1>3, <1>9, <1>10, <1>14, <2>3, <3>2, <3>3 DEF Serves, Owes, Waits
    <3> QED BY <1>9, <1>14, <1>15, <1>16, <1>17, <2>1, <2>2, <2>3, <3>4 DEF OneServes
  <2>4. CASE o.end = "failed"
    <3>1. ~Waits' /\ ~engine'.inFlight
      BY <1>9, <1>10, <2>4 DEF Waits
    <3> QED BY <1>9, <1>14, <1>15, <1>16, <2>1, <2>2, <2>4, <3>1 DEF OneServes
  <2> QED BY <1>8, <2>3, <2>4
<1>20. ReadOnce'
  <2>1. \A w \in worked : w[1] \in 1 .. turn /\ w[1] # turn
    BY <1>3 DEF InteractiveInv, ReadOnce, Unread
  <2> QED BY <1>1, <2>1 DEF InteractiveInv, ReadOnce
<1> QED BY <1>1, <1>10, <1>18, <1>19, <1>20 DEF InteractiveInv

(* The caller's steps that leave the processes alone. *)
LEMMA InteractiveAsks ==
    ASSUME CallerOk, InteractiveInv, Interactive!Ask
    PROVE  InteractiveInv'
<1>1. /\ pc = "idle" /\ pc' = "send" /\ done' = FALSE /\ err' = TRUE /\ turn' = turn + 1 /\ turn \in Nat
      /\ UNCHANGED <<exists, started, procs, completed, worked>>
  BY DEF Interactive!Ask, Interactive!NextPrompt, Interactive!history, CallerOk
<1>2. /\ engine' \in Engine /\ engine'.spawned = engine.spawned /\ engine'.inFlight = engine.inFlight
      /\ engine'.pending = engine.pending
  <2> PICK startedOnce \in BOOLEAN : startedOnce = (engine.startedOnce \/ started)
    OBVIOUS
  <2>1. engine' = engine \/ engine' = [engine EXCEPT !.startedOnce = startedOnce]
    BY DEF Interactive!Ask
  <2> QED BY <2>1 DEF InteractiveInv, ProcsShape, Engine
<1>3. ProcsShape'
  BY <1>1, <1>2 DEF InteractiveInv, ProcsShape
<1>4. OneServes'
  <2>1. engine.inFlight => Serves(procs[Len(procs)])'
    <3>1. engine.inFlight => Serves(procs[Len(procs)])
      BY DEF InteractiveInv, OneServes
    <3>2. ~Waits /\ ~Waits'
      BY <1>1 DEF Waits
    <3> QED BY <1>1, <1>2, <3>1, <3>2 DEF Serves
  <2> QED BY <1>1, <1>2, <2>1 DEF InteractiveInv, OneServes, Waits
<1>5. ReadOnce'
  <2>1. \A w \in worked : w[1] \in 1 .. turn
    BY DEF InteractiveInv, ReadOnce
  <2>2. \A w \in worked : w[1] # turn' /\ w[1] \in 1 .. turn'
    BY <1>1, <2>1
  <2> QED BY <1>1, <2>2 DEF InteractiveInv, ReadOnce
<1> QED BY <1>3, <1>4, <1>5 DEF InteractiveInv

(* While the last turn's reader is still to settle. *)
LEMMA InteractiveQueues ==
    ASSUME CallerOk, InteractiveInv, Interactive!SendQueued
    PROVE  InteractiveInv'
<1>1. /\ pc = "send" /\ pc' = "wait" /\ engine.inFlight /\ ~done /\ err /\ turn \in Turns
      /\ engine' = [engine EXCEPT !.pending = Append(@, turn)]
      /\ UNCHANGED <<turn, done, err, started, exists, procs, completed, worked>>
  BY DEF Interactive!SendQueued, Interactive!history, CallerOk, InteractiveInv, OneServes
<1>2. Serves(procs[Len(procs)]) /\ procs # <<>>
  BY <1>1 DEF InteractiveInv, OneServes
<1>3. procs[Len(procs)].reader = "settle" /\ Quiet(procs[Len(procs)]) /\ engine.pending = <<>>
  BY <1>1, <1>2 DEF Serves, Waits
<1>4. Append(engine.pending, turn) = <<turn>>
  BY <1>3
<1>5. engine' \in Engine /\ engine'.spawned = engine.spawned /\ engine'.inFlight /\ engine'.pending = <<turn>>
  BY <1>1, <1>4 DEF InteractiveInv, ProcsShape, Engine
<1>6. ProcsShape'
  BY <1>1, <1>5 DEF InteractiveInv, ProcsShape
<1>7. OneServes'
  <2>1. Waits'
    BY <1>1 DEF Waits
  <2>2. Serves(procs[Len(procs)])'
    BY <1>1, <1>3, <1>5, <2>1 DEF Serves
  <2> QED BY <1>1, <1>2, <1>5, <2>2 DEF InteractiveInv, OneServes
<1>8. ReadOnce'
  <2>1. \A w \in worked : w[1] \in 1 .. turn /\ w[1] # turn
    BY <1>1 DEF InteractiveInv, ReadOnce, Unread
  <2> QED BY <1>1, <2>1 DEF InteractiveInv, ReadOnce
<1> QED BY <1>6, <1>7, <1>8 DEF InteractiveInv

LEMMA InteractiveWakes ==
    ASSUME CallerOk, InteractiveInv, Interactive!Woken
    PROVE  InteractiveInv'
<1>1. /\ pc = "wait" /\ pc' = "idle" /\ done
      /\ UNCHANGED <<turn, done, err, started, exists, engine, procs, completed, worked>>
  BY DEF Interactive!Woken, Interactive!Wake, Interactive!EndTurn, Interactive!history
<1>2. ~Waits /\ ~Waits'
  BY <1>1 DEF Waits
<1>3. ProcsShape'
  BY <1>1 DEF InteractiveInv, ProcsShape
<1>4. engine.inFlight => Serves(procs[Len(procs)])'
  BY <1>1, <1>2 DEF InteractiveInv, OneServes, Serves
<1>5. OneServes'
  BY <1>1, <1>2, <1>4 DEF InteractiveInv, OneServes
<1>6. ReadOnce'
  BY <1>1 DEF InteractiveInv, ReadOnce, Unread
<1> QED BY <1>3, <1>5, <1>6 DEF InteractiveInv

(* No reader is between a callback and the lock then. *)
LEMMA InteractiveTimesOut ==
    ASSUME CallerOk, InteractiveInv, Interactive!Timeout
    PROVE  InteractiveInv'
<1>1. /\ pc = "wait" /\ pc' = "stop" /\ ~done /\ \A p \in DOMAIN procs : procs[p].reader # "settle"
      /\ UNCHANGED <<turn, done, err, started, exists, engine, procs, completed, worked>>
  BY DEF Interactive!Timeout, Interactive!GiveUp, Interactive!history
<1>2. Waits /\ Waits'
  BY <1>1 DEF Waits
<1>3. engine.inFlight /\ procs # <<>> /\ Serves(procs[Len(procs)])
  BY <1>2 DEF InteractiveInv, OneServes
<1>4. procs[Len(procs)].reader = "loop"
  <2>1. Len(procs) \in DOMAIN procs
    BY <1>3, EmptySeq, LenProperties DEF InteractiveInv, ProcsShape
  <2> QED BY <1>1, <1>3, <2>1 DEF Serves
<1>5. ProcsShape'
  BY <1>1 DEF InteractiveInv, ProcsShape
<1>6. Serves(procs[Len(procs)])'
  BY <1>1, <1>2, <1>3, <1>4 DEF Serves, Owes, HasPrompt, HasAnswer
<1>7. OneServes'
  BY <1>1, <1>3, <1>6 DEF InteractiveInv, OneServes
<1>8. ReadOnce'
  BY <1>1 DEF InteractiveInv, ReadOnce, Unread
<1> QED BY <1>5, <1>7, <1>8 DEF InteractiveInv

LEMMA InteractiveMarks ==
    ASSUME InteractiveInv, Interactive!Marked
    PROVE  InteractiveInv'
<1>1. /\ started' = TRUE
      /\ UNCHANGED <<turn, pc, done, err, exists, engine, procs, completed, worked>>
  BY DEF Interactive!Marked, Interactive!MarkStarted, Interactive!history
<1>2. ProcsShape'
  BY <1>1 DEF InteractiveInv, ProcsShape
<1>3. OneServes'
  BY <1>1 DEF InteractiveInv, OneServes, Serves, Owes, HasPrompt, HasAnswer, Waits
<1>4. ReadOnce'
  BY <1>1 DEF InteractiveInv, ReadOnce, Unread
<1> QED BY <1>2, <1>3, <1>4 DEF InteractiveInv

LEMMA InteractiveStops ==
    ASSUME CallerOk, InteractiveInv, Interactive!Stop
    PROVE  InteractiveInv'
<1>1. /\ pc = "stop" /\ pc' = "idle" /\ engine' = Interactive!Fresh
      /\ UNCHANGED <<turn, done, err, exists, started, completed, worked>>
  BY DEF Interactive!Stop, Interactive!EndTurn, Interactive!history
<1>2. procs' = [p \in DOMAIN procs |-> [procs[p] EXCEPT !.alive = FALSE, !.inbox = <<>>, !.busy = NoTurn,
                                                       !.out = <<>>, !.reader = "ended"]]
  BY DEF Interactive!Stop, Interactive!NoTurn, NoTurn
<1>3. procs \in Seq(Proc) /\ Len(procs) \in Nat /\ DOMAIN procs = 1 .. Len(procs)
      /\ \A q \in DOMAIN procs : procs[q] \in Proc
  BY LenProperties, ElementOfSeq DEF InteractiveInv, ProcsShape
<1>4. \A q \in DOMAIN procs : /\ procs'[q] \in Proc /\ Quiet(procs'[q])
                              /\ procs'[q].reader = "ended" /\ ~procs'[q].alive
  BY <1>2, <1>3 DEF Proc, Quiet
<1>5. procs' \in Seq(Proc) /\ DOMAIN procs' = DOMAIN procs
  <2>1. procs' \in [1 .. Len(procs) -> Proc]
    BY <1>2, <1>3, <1>4
  <2> QED BY <1>2, <1>3, <2>1, SeqDef
<1>6. engine' \in Engine /\ ~engine'.spawned /\ ~engine'.inFlight /\ engine'.pending = <<>>
  BY <1>1 DEF Interactive!Fresh, Engine
<1>7. ProcsShape'
  BY <1>1, <1>4, <1>5, <1>6 DEF InteractiveInv, ProcsShape
<1>8. OneServes'
  BY <1>1, <1>4, <1>5, <1>6 DEF OneServes, Waits
<1>9. ReadOnce'
  <2>1. ~Unread'
    BY <1>1, <1>4, <1>5, <1>6 DEF Unread, Quiet
  <2> QED BY <1>1, <2>1 DEF InteractiveInv, ReadOnce
<1> QED BY <1>7, <1>8, <1>9 DEF InteractiveInv

LEMMA InteractiveStarts ==
    ASSUME CallerInit, Interactive!Init
    PROVE  InteractiveInv
<1>1. /\ turn = 0 /\ pc = "idle" /\ engine = Interactive!Fresh /\ procs = <<>> /\ worked = {}
      /\ started = exists /\ exists \in BOOLEAN
  BY DEF CallerInit, Interactive!Init
<1>2. engine \in Engine /\ ~engine.spawned /\ ~engine.inFlight /\ engine.pending = <<>>
  BY <1>1 DEF Interactive!Fresh, Engine
<1>3. procs \in Seq(Proc) /\ DOMAIN procs = {}
  BY <1>1, EmptySeq
<1>4. started \in BOOLEAN /\ exists \in BOOLEAN
  BY <1>1, Zenon
<1>5. ProcsShape
  BY <1>2, <1>3, <1>4 DEF ProcsShape
<1>6. OneServes
  BY <1>1, <1>2, <1>3 DEF OneServes, Waits
<1>7. ReadOnce
  BY <1>1 DEF ReadOnce
<1> QED BY <1>5, <1>6, <1>7 DEF InteractiveInv

LEMMA InteractiveStep ==
    ASSUME CallerOk, InteractiveInv, Interactive!Next, UNCHANGED <<pVars, crossed>>
    PROVE  CallerOk' /\ InteractiveInv' /\ (TE!Next \/ UNCHANGED TE!vars)
<1>1. Reported' = Reported
  BY DEF Reported, Process!Reported, Codex!Misreported, pVars
<1>2. done \in BOOLEAN /\ err \in BOOLEAN /\ completed \subseteq 1 .. turn
  BY DEF CallerOk
<1>3. CASE Interactive!Ask
  <2>1. NextPrompt /\ completed' = completed
    BY <1>3 DEF Interactive!Ask, Interactive!NextPrompt, NextPrompt, Interactive!history
  <2> QED BY <1>1, <1>3, <2>1, InteractiveAsks, BeginCaller, BeginIsBegin
<1>4. CASE Interactive!SendQueued
  <2>1. UNCHANGED <<turn, verdict, done, err, completed>> /\ pc = "send" /\ pc' = "wait"
    BY <1>4 DEF Interactive!SendQueued, Interactive!history
  <2> QED BY <1>1, <1>2, <1>4, <2>1, InteractiveQueues, MidCaller, OtherIsStutter
<1>5. CASE Interactive!Send
  <2>1. /\ InteractiveInv' /\ UNCHANGED <<turn, verdict, completed>>
        /\ pc = "send" /\ pc' = "wait" /\ done' \in BOOLEAN /\ err' \in BOOLEAN
    BY <1>5, InteractiveSends
  <2> QED BY <1>1, <1>2, <2>1, MidCaller, OtherIsStutter
<1>6. CASE Interactive!Woken
  <2> PICK v : v = IF err THEN "error" ELSE "ok"
    OBVIOUS
  <2>1. EndTurn(v) /\ UNCHANGED <<turn, done, err, completed>> /\ pc = "wait" /\ done
    BY <1>6 DEF Interactive!Woken, Interactive!Wake, Interactive!EndTurn, EndTurn, Interactive!history
  <2>2. v \in {"ok", "error"} /\ (v = "ok" => turn \in completed \cup Reported)
    BY <2>1 DEF InteractiveInv, OneServes
  <2>3. InteractiveInv'
    BY <1>6, InteractiveWakes
  <2>4. CallerOk'
    BY <1>2, <2>1, <2>2, EndCaller
  <2>5. TE!Next
    BY <1>1, <2>1, <2>2, EndIsEnd
  <2> QED BY <2>3, <2>4, <2>5
<1>7. CASE Interactive!Timeout \/ Interactive!Marked
  <2>1. /\ UNCHANGED <<turn, verdict, done, err, completed>>
        /\ pc' = pc \/ (pc = "wait" /\ pc' = "stop")
    BY <1>7 DEF Interactive!Timeout, Interactive!Marked, Interactive!GiveUp, Interactive!MarkStarted,
                Interactive!history
  <2> QED BY <1>1, <1>2, <1>7, <2>1, InteractiveTimesOut, InteractiveMarks, MidCaller, OtherIsStutter
<1>8. CASE Interactive!Stop
  <2>1. EndTurn("error") /\ UNCHANGED <<turn, done, err, completed>> /\ pc = "stop"
    BY <1>8 DEF Interactive!Stop, Interactive!EndTurn, EndTurn, Interactive!history
  <2>2. InteractiveInv'
    BY <1>8, InteractiveStops
  <2>3. CallerOk'
    BY <1>2, <2>1, EndCaller
  <2>4. TE!Next
    BY <1>1, <2>1, EndIsEnd
  <2> QED BY <2>2, <2>3, <2>4
<1>9. ASSUME NEW p \in DOMAIN procs, Interactive!Take(p) \/ Interactive!Die(p)
      PROVE  CallerOk' /\ InteractiveInv' /\ (TE!Next \/ UNCHANGED TE!vars)
  <2>1. UNCHANGED <<turn, pc, verdict, done, err, completed>>
    BY <1>9 DEF Interactive!Take, Interactive!Die, Interactive!callVars, Interactive!history
  <2> QED BY <1>1, <1>2, <1>9, <2>1, InteractiveTakes, InteractiveDies, MidCaller, OtherIsStutter
<1>10. ASSUME NEW p \in DOMAIN procs, NEW ok \in BOOLEAN, Interactive!Result(p, ok)
       PROVE  CallerOk' /\ InteractiveInv' /\ (TE!Next \/ UNCHANGED TE!vars)
  <2>1. /\ InteractiveInv' /\ turn \in 1 .. turn
        /\ completed' = IF ok THEN completed \cup {turn} ELSE completed
    BY <1>10, InteractiveAnswers
  <2>2. UNCHANGED <<turn, pc, verdict, done, err>>
    BY <1>10 DEF Interactive!Result, Interactive!callVars
  <2>3. CallerOk'
    BY <1>2, <2>1, <2>2, MidCaller
  <2>4. CASE completed' = completed
    BY <1>1, <2>1, <2>2, <2>3, <2>4, OtherIsStutter
  <2>5. CASE completed' = completed \cup {turn}
    BY <1>1, <2>1, <2>2, <2>3, <2>5, CompleteIsComplete
  <2> QED BY <2>1, <2>4, <2>5
<1>11. ASSUME NEW p \in DOMAIN procs, Interactive!ReadResult(p) \/ Interactive!ReadEof(p)
       PROVE  CallerOk' /\ InteractiveInv' /\ (TE!Next \/ UNCHANGED TE!vars)
  <2>1. InteractiveInv'
    BY <1>11, InteractiveReadsResult, InteractiveReadsEof
  <2>2. /\ UNCHANGED <<turn, pc, verdict, completed>>
        /\ done' = done \/ done' = TRUE
        /\ err' = err \/ err' = TRUE \/ err' = ~Head(procs[p].out).ok
    BY <1>11 DEF Interactive!ReadResult, Interactive!ReadEof, Interactive!history
  <2>3. done' \in BOOLEAN /\ err' \in BOOLEAN
    BY <1>2, <2>2
  <2> QED BY <1>1, <1>2, <2>1, <2>2, <2>3, MidCaller, OtherIsStutter
<1>12. ASSUME NEW p \in DOMAIN procs, Interactive!Settle(p)
       PROVE  CallerOk' /\ InteractiveInv' /\ (TE!Next \/ UNCHANGED TE!vars)
  <2>1. /\ InteractiveInv' /\ UNCHANGED <<turn, pc, verdict, completed>>
        /\ done' \in BOOLEAN /\ err' \in BOOLEAN
    BY <1>2, <1>12, InteractiveSettlesFree, InteractiveSettlesNext
  <2> QED BY <1>1, <1>2, <2>1, MidCaller, OtherIsStutter
<1> QED BY <1>3, <1>4, <1>5, <1>6, <1>7, <1>8, <1>9, <1>10, <1>11, <1>12
        DEF Interactive!Next, Interactive!CallerStep, Interactive!ProcessStep, Interactive!ReaderStep

-----------------------------------------------------------------------------
(* HeadlessRun.  A second try of a turn is the last, and creates what the  *)
(* first resumed, or resumes what it created.                              *)

Try == [turn : Turns, create : BOOLEAN, fits : BOOLEAN, ran : BOOLEAN, alive : BOOLEAN,
        acted : BOOLEAN, result : {"none", "ok", "error"}, killed : BOOLEAN]

TryOk(t) ==
    /\ t.turn <= turn
    /\ t.acted => t.fits /\ exists
    /\ t.result = "ok" => t.acted /\ t.turn \in completed
    /\ (engineMode = "sdk" /\ t.result # "none") => t.fits

(* One of the two fits.  Both act only if the first created the session,   *)
(* and the engine is the SDK, which tries again whatever was heard.        *)
Second(t, s) ==
    /\ t.fits \/ s.fits
    /\ t.acted => engineMode = "sdk" /\ (t.create \/ ~s.fits)

TriesOk ==
    /\ tries \in Seq(Try) /\ engineMode \in {"stream", "sdk"} /\ started \in BOOLEAN /\ exists \in BOOLEAN
    /\ \A p \in DOMAIN tries :
          /\ TryOk(tries[p])
          /\ \A q \in 1 .. p - 1 :
                /\ tries[q].turn <= tries[p].turn
                /\ tries[q].turn = tries[p].turn => p = q + 1 /\ Second(tries[q], tries[p])
    /\ \A w \in worked :
          w[2] \in DOMAIN tries /\ tries[w[2]].acted /\ tries[w[2]].turn = w[1]

(* Of the turn that runs there is a try, or two; before the second, the    *)
(* first is not one after which there is none.                             *)
TriedOnce == tries # <<>> /\ tries[Len(tries)].turn = turn

RunnerOk ==
    /\ pc \in {"idle", "send", "wait"}
    /\ pc = "wait" => TriedOnce
    /\ pc = "send" =>
          /\ \A q \in 1 .. Len(tries) - 1 : tries[q].turn # turn
          /\ TriedOnce /\ tries[Len(tries)].acted => engineMode = "sdk"
    /\ pc # "idle" /\ TriedOnce /\ ~tries[Len(tries)].fits => tries[Len(tries)].create = exists

ProcessInv == TriesOk /\ RunnerOk /\ Process!HintNeverDecides

LEMMA SameCardinality ==
    ASSUME NEW S
    PROVE  Process!Cardinality(S) = Cardinality(S)
BY DEF Process!Cardinality, Cardinality

LEMMA TwoMembers ==
    ASSUME NEW a, NEW b, a # b
    PROVE  Cardinality({a} \cup {b}) = 2
<1> PICK c : c = Cardinality({a})
  OBVIOUS
<1> PICK d : d = Cardinality({a} \cup {b})
  OBVIOUS
<1>1. c = 1 /\ IsFiniteSet({a}) /\ b \notin {a}
  BY FS_Singleton
<1>2. d = c + 1
  <2> PICK S : S = {a} /\ IsFiniteSet(S) /\ b \notin S
    BY <1>1
  <2>1. Cardinality(S \cup {b}) = IF b \in S THEN Cardinality(S) ELSE Cardinality(S) + 1
    BY FS_AddElement
  <2> QED BY <2>1
<1>3. d = 2
  BY <1>1, <1>2
<1> QED BY <1>3

(* How many tries a turn has. *)
LEMMA HowManyTries ==
    ASSUME ProcessInv, TriedOnce
    PROVE  /\ Len(tries) \in DOMAIN tries /\ DOMAIN tries = 1 .. Len(tries) /\ Len(tries) \in Nat
           /\ tries[Len(tries)] \in Try
           /\ Process!Tries(turn) # {}
           /\ Cardinality(Process!Tries(turn)) = 2 <=>
                 \E q \in 1 .. Len(tries) - 1 : tries[q].turn = turn
<1>1. /\ Len(tries) \in DOMAIN tries /\ DOMAIN tries = 1 .. Len(tries) /\ Len(tries) \in Nat
      /\ tries[Len(tries)] \in Try
  BY EmptySeq, LenProperties, ElementOfSeq DEF ProcessInv, TriesOk, TriedOnce
<1>2. Len(tries) \in Process!Tries(turn)
  BY <1>1 DEF Process!Tries, TriedOnce
<1>3. CASE \A q \in 1 .. Len(tries) - 1 : tries[q].turn # turn
  <2>1. Process!Tries(turn) = {Len(tries)}
    BY <1>1, <1>2, <1>3 DEF Process!Tries
  <2>2. Cardinality(Process!Tries(turn)) = 1
    BY <2>1, FS_Singleton
  <2> QED BY <1>1, <1>2, <1>3, <2>2
<1>4. CASE \E q \in 1 .. Len(tries) - 1 : tries[q].turn = turn
  <2>1. PICK o \in 1 .. Len(tries) - 1 : tries[o].turn = turn
    BY <1>4
  <2>0. Len(tries) \in Nat /\ o \in 1 .. Len(tries)
    BY <1>1, <2>1
  <2>2. \A q \in 1 .. Len(tries) - 1 : tries[q].turn = turn => Len(tries) = q + 1
    BY <1>1 DEF ProcessInv, TriesOk, TriedOnce
  <2>3. Process!Tries(turn) = {o, Len(tries)}
    <3>1. \A q \in 1 .. Len(tries) : tries[q].turn = turn <=> q = o \/ q = Len(tries)
      BY <2>0, <2>1, <2>2 DEF TriedOnce
    <3> QED BY <1>1, <2>0, <2>1, <3>1 DEF Process!Tries
  <2>4. o # Len(tries)
    BY <2>0, <2>1
  <2>5. Cardinality({o} \cup {Len(tries)}) = 2 /\ {o, Len(tries)} = {o} \cup {Len(tries)}
    BY <2>4, TwoMembers
  <2>6. Cardinality(Process!Tries(turn)) = 2
    BY <2>3, <2>5, Zenon
  <2> QED BY <1>1, <1>2, <1>4, <2>6
<1> QED BY <1>3, <1>4

(* The last try changes: what holds of the tries goes on to hold. *)
LEMMA LastTryChanges ==
    ASSUME CallerOk, ProcessInv, TriedOnce,
           NEW r \in Try, tries' = [tries EXCEPT ![Len(tries)] = r],
           r.turn = turn, r.create = tries[Len(tries)].create, r.fits = tries[Len(tries)].fits,
           r.ran = tries[Len(tries)].ran, tries[Len(tries)].killed => r.killed,
           tries[Len(tries)].acted => r.acted,
           UNCHANGED <<turn, started, engineMode>>, completed \subseteq completed',
           exists' \in BOOLEAN, exists => exists', TryOk(r)',
           \A w \in worked' : w \in worked \/ (r.acted /\ w = <<turn, Len(tries)>>)
    PROVE  /\ TriesOk' /\ TriedOnce' /\ Len(tries') = Len(tries) /\ tries'[Len(tries)] = r
           /\ \A q \in 1 .. Len(tries) - 1 : tries'[q] = tries[q]
           /\ \A n \in Turns :
                 (\E p \in DOMAIN tries :
                     tries[p].turn = n /\ (tries[p].fits \/ tries[p].killed \/ ~tries[p].ran))
                 => \E p \in DOMAIN tries' :
                        tries'[p].turn = n /\ (tries'[p].fits \/ tries'[p].killed \/ ~tries'[p].ran)
<1>1. /\ Len(tries) \in DOMAIN tries /\ DOMAIN tries = 1 .. Len(tries) /\ Len(tries) \in Nat
      /\ tries[Len(tries)] \in Try
  BY HowManyTries
<1>2. tries \in Seq(Try) /\ tries[Len(tries)].turn = turn
  BY DEF ProcessInv, TriesOk, TriedOnce
<1>3. /\ tries' \in Seq(Try) /\ Len(tries') = Len(tries)
      /\ \A q \in 1 .. Len(tries) : tries'[q] = IF q = Len(tries) THEN r ELSE tries[q]
  BY <1>1, <1>2, ExceptSeq
<1>4. DOMAIN tries' = 1 .. Len(tries)
  BY <1>3, LenProperties
<1>5. TriedOnce'
  BY <1>1, <1>3, <1>4 DEF TriedOnce
<1>6. \A p \in 1 .. Len(tries) : TryOk(tries[p])'
  <2> SUFFICES ASSUME NEW p \in 1 .. Len(tries) PROVE TryOk(tries[p])'
    OBVIOUS
  <2>1. CASE p = Len(tries)
    BY <1>3, <2>1
  <2>2. CASE p # Len(tries)
    <3>1. TryOk(tries[p]) /\ tries'[p] = tries[p]
      BY <1>1, <1>3, <2>2 DEF ProcessInv, TriesOk
    <3> QED BY <3>1 DEF TryOk
  <2> QED BY <2>1, <2>2
<1>7. \A p \in 1 .. Len(tries) : \A q \in 1 .. p - 1 :
          /\ tries'[q].turn <= tries'[p].turn
          /\ tries'[q].turn = tries'[p].turn => p = q + 1 /\ Second(tries[q], tries[p])'
  <2> SUFFICES ASSUME NEW p \in 1 .. Len(tries), NEW q \in 1 .. p - 1
               PROVE  /\ tries'[q].turn <= tries'[p].turn
                      /\ tries'[q].turn = tries'[p].turn => p = q + 1 /\ Second(tries[q], tries[p])'
    OBVIOUS
  <2>1. q \in 1 .. Len(tries) /\ q # Len(tries) /\ tries'[q] = tries[q]
    <3>1. q \in 1 .. Len(tries) /\ q # Len(tries)
      <4> PICK l \in Nat : l = Len(tries)
        BY <1>1
      <4>1. q \in 1 .. l /\ q # l
        OBVIOUS
      <4> QED BY <4>1
    <3> QED BY <1>3, <3>1
  <2>2. /\ tries[q].turn <= tries[p].turn
        /\ tries[q].turn = tries[p].turn => p = q + 1 /\ Second(tries[q], tries[p])
    BY <1>1 DEF ProcessInv, TriesOk
  <2>3. tries'[p].turn = tries[p].turn /\ tries'[p].fits = tries[p].fits
    BY <1>2, <1>3
  <2> QED BY <2>1, <2>2, <2>3 DEF Second
<1>8. \A w \in worked' : w[2] \in DOMAIN tries' /\ tries'[w[2]].acted /\ tries'[w[2]].turn = w[1]
  <2> SUFFICES ASSUME NEW w \in worked'
               PROVE  w[2] \in DOMAIN tries' /\ tries'[w[2]].acted /\ tries'[w[2]].turn = w[1]
    OBVIOUS
  <2>1. CASE w \in worked
    <3>1. w[2] \in DOMAIN tries /\ tries[w[2]].acted /\ tries[w[2]].turn = w[1]
      BY <2>1 DEF ProcessInv, TriesOk
    <3> QED BY <1>1, <1>2, <1>3, <1>4, <3>1
  <2>2. CASE r.acted /\ w = <<turn, Len(tries)>>
    BY <1>1, <1>3, <1>4, <2>2
  <2> QED BY <2>1, <2>2
<1>9. engineMode' \in {"stream", "sdk"} /\ started' \in BOOLEAN
  BY DEF ProcessInv, TriesOk
<1>10. TriesOk'
  BY <1>3, <1>4, <1>6, <1>7, <1>8, <1>9 DEF TriesOk
<1>11. \A n \in Turns :
          (\E p \in DOMAIN tries :
              tries[p].turn = n /\ (tries[p].fits \/ tries[p].killed \/ ~tries[p].ran))
          => \E p \in DOMAIN tries' :
                 tries'[p].turn = n /\ (tries'[p].fits \/ tries'[p].killed \/ ~tries'[p].ran)
  <2> SUFFICES ASSUME NEW n \in Turns, NEW p \in DOMAIN tries,
                      tries[p].turn = n /\ (tries[p].fits \/ tries[p].killed \/ ~tries[p].ran)
               PROVE  \E o \in DOMAIN tries' :
                          tries'[o].turn = n /\ (tries'[o].fits \/ tries'[o].killed \/ ~tries'[o].ran)
    OBVIOUS
  <2>1. tries[p].turn = n /\ (tries[p].fits \/ tries[p].killed \/ ~tries[p].ran)
    OBVIOUS
  <2>2. tries'[p].turn = n /\ (tries'[p].fits \/ tries'[p].killed \/ ~tries'[p].ran)
    BY <1>1, <1>2, <1>3, <2>1
  <2> QED BY <1>1, <1>4, <2>2
<1>12. \A q \in 1 .. Len(tries) - 1 : tries'[q] = tries[q]
  <2>1. Len(tries) \in Nat
    BY <1>1
  <2>2. \A q \in 1 .. Len(tries) - 1 : q \in 1 .. Len(tries) /\ q # Len(tries)
    BY <2>1
  <2> QED BY <1>3, <2>2, Zenon
<1>13. tries'[Len(tries)] = r /\ Len(tries') = Len(tries)
  BY <1>1, <1>3
<1> QED BY <1>5, <1>10, <1>11, <1>12, <1>13, Zenon

(* The process does something, and the caller goes on waiting. *)
LEMMA TryGoesOn ==
    ASSUME CallerOk, ProcessInv, pc = "wait",
           NEW r \in Try, tries' = [tries EXCEPT ![Len(tries)] = r],
           r.turn = turn, r.create = tries[Len(tries)].create, r.fits = tries[Len(tries)].fits,
           r.ran = tries[Len(tries)].ran, tries[Len(tries)].killed => r.killed,
           tries[Len(tries)].acted => r.acted,
           UNCHANGED <<turn, pc, verdict, started, engineMode>>, completed \subseteq completed',
           exists' \in BOOLEAN, exists => exists', exists' = exists \/ r.fits, TryOk(r)',
           \A w \in worked' : w \in worked \/ (r.acted /\ w = <<turn, Len(tries)>>)
    PROVE  ProcessInv'
<1>1. TriedOnce
  BY DEF ProcessInv, RunnerOk
<1>2. /\ TriesOk' /\ TriedOnce' /\ Len(tries') = Len(tries) /\ tries'[Len(tries)] = r
      /\ \A n \in Turns :
            (\E p \in DOMAIN tries :
                tries[p].turn = n /\ (tries[p].fits \/ tries[p].killed \/ ~tries[p].ran))
            => \E p \in DOMAIN tries' :
                   tries'[p].turn = n /\ (tries'[p].fits \/ tries'[p].killed \/ ~tries'[p].ran)
  BY <1>1, LastTryChanges
<1>3. RunnerOk'
  BY <1>1, <1>2 DEF ProcessInv, RunnerOk
<1>4. Process!HintNeverDecides'
  BY <1>2 DEF ProcessInv, Process!HintNeverDecides, Process!Turns, Turns
<1> QED BY <1>2, <1>3, <1>4 DEF ProcessInv

(* The attempt is over: either the turn is, or another follows. *)
LEMMA TryEnds ==
    ASSUME CallerOk, ProcessInv, pc = "wait",
           NEW r \in Try, tries' = [tries EXCEPT ![Len(tries)] = r],
           r = [tries[Len(tries)] EXCEPT !.alive = r.alive],
           UNCHANGED <<turn, started, exists, engineMode, completed, worked>>,
           NEW v \in {"ok", "error"},
           \/ EndTurn(v)
           \/ pc' = "send" /\ UNCHANGED verdict /\ Cardinality(Process!Tries(turn)) # 2
              /\ (r.acted => engineMode = "sdk"),
           v = "error" => r.fits \/ r.killed \/ ~r.ran \/ Cardinality(Process!Tries(turn)) = 2
    PROVE  ProcessInv'
<1>1. TriedOnce
  BY DEF ProcessInv, RunnerOk
<1>2. /\ Len(tries) \in DOMAIN tries /\ DOMAIN tries = 1 .. Len(tries) /\ Len(tries) \in Nat
      /\ tries[Len(tries)] \in Try
  BY <1>1, HowManyTries
<1>3. /\ r.turn = tries[Len(tries)].turn /\ r.create = tries[Len(tries)].create
      /\ r.fits = tries[Len(tries)].fits /\ r.ran = tries[Len(tries)].ran
      /\ r.killed = tries[Len(tries)].killed /\ r.acted = tries[Len(tries)].acted
      /\ r.result = tries[Len(tries)].result
  BY <1>2 DEF Try
<1>4. TryOk(r)' /\ r.turn = turn
  <2>1. TryOk(tries[Len(tries)]) /\ tries[Len(tries)].turn = turn
    BY <1>1, <1>2 DEF ProcessInv, TriesOk, TriedOnce
  <2> QED BY <1>3, <2>1 DEF TryOk
<1>5. exists \in BOOLEAN
  BY DEF ProcessInv, TriesOk
<1>6. /\ TriesOk' /\ TriedOnce' /\ Len(tries') = Len(tries) /\ tries'[Len(tries)] = r
      /\ \A q \in 1 .. Len(tries) - 1 : tries'[q] = tries[q]
      /\ \A n \in Turns :
            (\E p \in DOMAIN tries :
                tries[p].turn = n /\ (tries[p].fits \/ tries[p].killed \/ ~tries[p].ran))
            => \E p \in DOMAIN tries' :
                   tries'[p].turn = n /\ (tries'[p].fits \/ tries'[p].killed \/ ~tries'[p].ran)
  BY <1>1, <1>3, <1>4, <1>5, LastTryChanges
<1>7. Cardinality(Process!Tries(turn)) = 2 <=> \E q \in 1 .. Len(tries) - 1 : tries[q].turn = turn
  BY <1>1, HowManyTries
<1>8. CASE EndTurn(v)
  <2>1. pc' = "idle" /\ verdict' = [verdict EXCEPT ![turn] = v]
    BY <1>8 DEF EndTurn
  <2>2. RunnerOk'
    BY <2>1 DEF RunnerOk
  <2>3. v = "error" => \E p \in DOMAIN tries : tries[p].turn = turn
                           /\ (tries[p].fits \/ tries[p].killed \/ ~tries[p].ran)
    <3>1. CASE r.fits \/ r.killed \/ ~r.ran
      BY <1>2, <1>3, <1>4, <3>1
    <3>2. CASE Cardinality(Process!Tries(turn)) = 2
      <4>1. PICK q \in 1 .. Len(tries) - 1 : tries[q].turn = turn
        BY <1>7, <3>2
      <4>2. q \in DOMAIN tries /\ tries[Len(tries)].turn = turn
        BY <1>2, <1>3, <1>4, <4>1
      <4>3. tries[q].fits \/ tries[Len(tries)].fits
        BY <1>2, <4>1, <4>2 DEF ProcessInv, TriesOk, Second
      <4> QED BY <1>2, <4>1, <4>2, <4>3
    <3> QED BY <3>1, <3>2
  <2>4. \A n \in Turns : verdict'[n] = "error" =>
            \E p \in DOMAIN tries : tries[p].turn = n /\ (tries[p].fits \/ tries[p].killed \/ ~tries[p].ran)
    <3>1. \A n \in Turns : verdict'[n] = IF n = turn THEN v ELSE verdict[n]
      BY <2>1 DEF CallerOk
    <3>2. \A n \in Turns : verdict[n] = "error" =>
            \E p \in DOMAIN tries : tries[p].turn = n /\ (tries[p].fits \/ tries[p].killed \/ ~tries[p].ran)
      BY DEF ProcessInv, Process!HintNeverDecides, Process!Turns, Turns
    <3> QED BY <2>3, <3>1, <3>2, Zenon
  <2>5. Process!HintNeverDecides'
    BY <1>6, <2>4 DEF Process!HintNeverDecides, Process!Turns, Turns
  <2> QED BY <1>6, <2>2, <2>5 DEF ProcessInv
<1>9. CASE /\ pc' = "send" /\ UNCHANGED verdict /\ Cardinality(Process!Tries(turn)) # 2
           /\ (r.acted => engineMode = "sdk")
  <2>1. \A q \in 1 .. Len(tries) - 1 : tries'[q].turn # turn
    BY <1>6, <1>7, <1>9
  <2>2. r.fits \/ r.create = exists
    BY <1>1, <1>3 DEF ProcessInv, RunnerOk
  <2>3. RunnerOk'
    BY <1>6, <1>9, <2>1, <2>2 DEF RunnerOk
  <2>4. Process!HintNeverDecides'
    BY <1>6, <1>9 DEF ProcessInv, Process!HintNeverDecides, Process!Turns, Turns
  <2> QED BY <1>6, <2>3, <2>4 DEF ProcessInv
<1> QED BY <1>8, <1>9

LEMMA ProcessStreamEnds ==
    ASSUME CallerOk, ProcessInv, Process!StreamEnds
    PROVE  /\ ProcessInv' /\ UNCHANGED <<turn, done, err, completed, Process!Reported>>
           /\ \/ \E v \in {"ok", "error"} : EndTurn(v) /\ (v = "ok" => turn \in completed)
              \/ pc' = "send" /\ UNCHANGED verdict
<1>1. /\ pc = "wait" /\ engineMode = "stream"
      /\ UNCHANGED <<turn, done, err, started, exists, engineMode, tries, completed, worked>>
  BY DEF Process!StreamEnds, Process!history
<1>2. PICK r : r = tries[Len(tries)]
  OBVIOUS
<1>3. TriedOnce
  BY <1>1 DEF ProcessInv, RunnerOk
<1>4. /\ r \in Try /\ Len(tries) \in DOMAIN tries /\ tries \in Seq(Try) /\ TryOk(r) /\ r.turn = turn
  BY <1>2, <1>3, HowManyTries DEF ProcessInv, TriesOk, TriedOnce
<1>5. PICK v : v = IF r.result = "ok" /\ ~r.killed THEN "ok" ELSE "error"
  OBVIOUS
<1>6. \/ EndTurn(v) /\ Process!StreamEnded(r)
      \/ pc' = "send" /\ UNCHANGED verdict /\ ~Process!StreamEnded(r)
  BY <1>2, <1>5 DEF Process!StreamEnds, Process!Last, Process!EndTurn, EndTurn
<1>7. /\ v \in {"ok", "error"} /\ (v = "ok" => turn \in completed)
      /\ EndTurn(v) \/ (pc' = "send" /\ UNCHANGED verdict)
  BY <1>4, <1>5, <1>6 DEF TryOk
<1>8. Process!StreamEnded(r) <=> v = "ok" \/ Cardinality(Process!Tries(turn)) = 2 \/ r.acted
  BY <1>4, <1>5, SameCardinality DEF Process!StreamEnded, Try
<1>9. r.acted => r.fits
  BY <1>4 DEF TryOk
<1>10. tries' = [tries EXCEPT ![Len(tries)] = r] /\ r = [tries[Len(tries)] EXCEPT !.alive = r.alive]
  <2>1. r = [r EXCEPT !.alive = r.alive]
    BY <1>4 DEF Try
  <2>2. tries = [tries EXCEPT ![Len(tries)] = r]
    BY <1>2, <1>4
  <2> QED BY <1>1, <1>2, <2>1, <2>2
<1>11. CASE EndTurn(v) /\ Process!StreamEnded(r)
  <2>1. v = "error" => r.fits \/ r.killed \/ ~r.ran \/ Cardinality(Process!Tries(turn)) = 2
    BY <1>8, <1>9, <1>11
  <2>2. ProcessInv'
    BY <1>1, <1>4, <1>7, <1>10, <1>11, <2>1, TryEnds
  <2> QED BY <1>1, <1>7, <2>2 DEF Process!Reported
<1>12. CASE pc' = "send" /\ UNCHANGED verdict /\ ~Process!StreamEnded(r)
  <2>1. Cardinality(Process!Tries(turn)) # 2 /\ ~r.acted
    BY <1>8, <1>12
  <2>2. ProcessInv'
    <3> PICK w \in {"ok", "error"} : w = "ok"
      OBVIOUS
    <3> QED BY <1>1, <1>4, <1>10, <1>12, <2>1, TryEnds
  <2> QED BY <1>1, <1>7, <2>2 DEF Process!Reported
<1> QED BY <1>6, <1>11, <1>12

LEMMA ProcessSdkEnds ==
    ASSUME CallerOk, ProcessInv, Process!SdkEnds
    PROVE  /\ ProcessInv' /\ UNCHANGED <<turn, done, err, completed, Process!Reported>>
           /\ \/ \E v \in {"ok", "error"} : EndTurn(v) /\ (v = "ok" => turn \in Process!Reported)
              \/ pc' = "send" /\ UNCHANGED verdict
<1>1. /\ pc = "wait" /\ engineMode = "sdk"
      /\ UNCHANGED <<turn, done, err, started, exists, engineMode, completed, worked>>
  BY DEF Process!SdkEnds, Process!history
<1>2. PICK l : l = tries[Len(tries)]
  OBVIOUS
<1>3. TriedOnce
  BY <1>1 DEF ProcessInv, RunnerOk
<1>4. /\ l \in Try /\ Len(tries) \in DOMAIN tries /\ tries \in Seq(Try) /\ TryOk(l) /\ l.turn = turn
  BY <1>2, <1>3, HowManyTries DEF ProcessInv, TriesOk, TriedOnce
<1>5. PICK r : r = [l EXCEPT !.alive = FALSE]
  OBVIOUS
<1>6. /\ r \in Try /\ r = [tries[Len(tries)] EXCEPT !.alive = r.alive]
      /\ r.acted = l.acted /\ r.fits = l.fits /\ r.killed = l.killed /\ r.ran = l.ran
      /\ r.turn = l.turn /\ r.result = l.result
  <2>1. r \in Try /\ r.alive = FALSE
    BY <1>4, <1>5 DEF Try
  <2>2. r = [l EXCEPT !.alive = r.alive]
    BY <1>5, <2>1
  <2> QED BY <1>2, <1>4, <1>5, <2>1, <2>2 DEF Try
<1>7. tries' = [tries EXCEPT ![Len(tries)] = r]
  BY <1>2, <1>5 DEF Process!SdkEnds
<1>8. PICK v : v = IF l.result # "none" /\ ~l.killed THEN "ok" ELSE "error"
  OBVIOUS
<1>9. \/ EndTurn(v) /\ Process!SdkEnded(l)
      \/ pc' = "send" /\ UNCHANGED verdict /\ ~Process!SdkEnded(l)
  BY <1>2, <1>8 DEF Process!SdkEnds, Process!SdkSucceeded, Process!Last, Process!EndTurn, EndTurn
<1>10. v \in {"ok", "error"} /\ (v = "ok" => l.result # "none")
  BY <1>8
<1>11. Process!SdkEnded(l) <=> l.result # "none" \/ l.killed \/ Cardinality(Process!Tries(turn)) = 2
  BY <1>4, SameCardinality DEF Process!SdkEnded, Try
<1>12. l.result # "none" => l.fits
  BY <1>1, <1>4 DEF TryOk
<1>13. ProcessInv'
  <2>1. CASE EndTurn(v) /\ Process!SdkEnded(l)
    <3>1. v = "error" => r.fits \/ r.killed \/ ~r.ran \/ Cardinality(Process!Tries(turn)) = 2
      BY <1>6, <1>11, <1>12, <2>1
    <3> QED BY <1>1, <1>6, <1>7, <1>10, <2>1, <3>1, TryEnds
  <2>2. CASE pc' = "send" /\ UNCHANGED verdict /\ ~Process!SdkEnded(l)
    <3>1. Cardinality(Process!Tries(turn)) # 2
      BY <1>11, <2>2
    <3> PICK w \in {"ok", "error"} : w = "ok"
      OBVIOUS
    <3> QED BY <1>1, <1>6, <1>7, <2>2, <3>1, TryEnds
  <2> QED BY <1>9, <2>1, <2>2
<1>14. Process!Reported' = Process!Reported
  <2>1. /\ DOMAIN tries' = DOMAIN tries
        /\ \A p \in DOMAIN tries : tries'[p].turn = tries[p].turn /\ tries'[p].result = tries[p].result
    BY <1>2, <1>4, <1>6, <1>7
  <2> QED BY <1>1, <2>1 DEF Process!Reported, Process!Turns
<1>15. v = "ok" => turn \in Process!Reported
  BY <1>1, <1>2, <1>4, <1>10 DEF Process!Reported, Process!Turns, CallerOk, Turns
<1> QED BY <1>1, <1>9, <1>10, <1>13, <1>14, <1>15

LEMMA ProcessAsks ==
    ASSUME CallerOk, ProcessInv, Process!Ask
    PROVE  ProcessInv'
<1>1. /\ pc = "idle" /\ pc' = "send" /\ turn' = turn + 1 /\ turn \in Nat
      /\ verdict' = [verdict EXCEPT ![turn + 1] = "running"]
      /\ UNCHANGED <<started, exists, engineMode, tries, completed, worked>>
  BY DEF Process!Ask, Process!NextPrompt, Process!history, CallerOk
<1>2. tries \in Seq(Try) /\ Len(tries) \in Nat /\ DOMAIN tries = 1 .. Len(tries)
  BY LenProperties DEF ProcessInv, TriesOk
<1>3. \A p \in 1 .. Len(tries) : TryOk(tries[p]) /\ tries[p].turn \in Nat /\ tries[p].turn # turn'
  <2>1. \A p \in 1 .. Len(tries) : tries[p] \in Try
    BY <1>2, ElementOfSeq
  <2>2. \A p \in 1 .. Len(tries) : tries[p].turn \in Nat
    BY <2>1 DEF Try, Turns
  <2>3. \A p \in 1 .. Len(tries) : TryOk(tries[p])
    BY <1>2 DEF ProcessInv, TriesOk
  <2> QED BY <1>1, <2>2, <2>3 DEF TryOk
<1>4. ~TriedOnce'
  <2>1. tries # <<>> => Len(tries) \in 1 .. Len(tries)
    BY <1>2, EmptySeq
  <2> QED BY <1>1, <1>3, <2>1 DEF TriedOnce
<1>5. RunnerOk'
  BY <1>1, <1>2, <1>3, <1>4 DEF RunnerOk
<1>6. \A p \in 1 .. Len(tries) : TryOk(tries[p])'
  BY <1>1, <1>3 DEF TryOk
<1>7. TriesOk'
  BY <1>1, <1>2, <1>6 DEF ProcessInv, TriesOk, Second
<1>8. Process!HintNeverDecides'
  <2>1. \A n \in Turns : verdict'[n] = "error" => verdict[n] = "error"
    BY <1>1 DEF CallerOk
  <2> QED BY <1>1, <2>1 DEF ProcessInv, Process!HintNeverDecides, Process!Turns, Turns
<1> QED BY <1>5, <1>7, <1>8 DEF ProcessInv

(* A try is started, or cannot be. *)
LEMMA ProcessTries ==
    ASSUME CallerOk, ProcessInv, Process!Start \/ Process!StartFails
    PROVE  ProcessInv' /\ \E r \in Try : r.result = "none" /\ tries' = Append(tries, r)
<1>1. /\ pc = "send" /\ pc' = "wait" /\ turn \in Turns /\ turn \in Nat
      /\ UNCHANGED <<turn, verdict, started, exists, engineMode, completed, worked>>
  BY DEF Process!Start, Process!StartFails, Process!history, CallerOk, Turns
<1>2. /\ tries \in Seq(Try) /\ Len(tries) \in Nat /\ DOMAIN tries = 1 .. Len(tries)
      /\ started \in BOOLEAN /\ exists \in BOOLEAN
  BY LenProperties DEF ProcessInv, TriesOk
<1>3. TriedOnce => /\ Process!Tries(turn) # {} /\ tries[Len(tries)] \in Try
                   /\ Len(tries) \in 1 .. Len(tries)
  BY <1>2, HowManyTries
<1>4. ~TriedOnce => \A p \in 1 .. Len(tries) : tries[p].turn # turn
  <2> SUFFICES ASSUME ~TriedOnce, NEW p \in 1 .. Len(tries) PROVE tries[p].turn # turn
    OBVIOUS
  <2>1. tries # <<>>
    BY <1>2, EmptySeq
  <2>2. p = Len(tries) \/ p \in 1 .. Len(tries) - 1
    <3>1. Len(tries) \in Nat
      BY <1>2
    <3> QED BY <3>1
  <2> QED BY <1>1, <2>1, <2>2 DEF TriedOnce, ProcessInv, RunnerOk
<1>5. PICK c : c = Process!Creates
  OBVIOUS
<1>6. c \in BOOLEAN /\ (TriedOnce => c = ~tries[Len(tries)].create)
  <2>1. CASE TriedOnce
    BY <1>3, <1>5, <2>1 DEF Process!Creates, Process!Last, Try
  <2>2. CASE ~TriedOnce
    <3>1. Process!Tries(turn) = {}
      BY <1>2, <1>4, <2>2 DEF Process!Tries
    <3>2. c = ~started
      BY <1>5, <3>1 DEF Process!Creates
    <3>3. c \in BOOLEAN
      BY <1>2, <3>2
    <3> QED BY <2>2, <3>3
  <2> QED BY <2>1, <2>2
<1>7. PICK f \in BOOLEAN : f = (c # exists)
  OBVIOUS
<1>8. PICK new : new = Process!NewTry
  OBVIOUS
<1>9. PICK r : tries' = Append(tries, r) /\ (r = new \/ r = [new EXCEPT !.ran = FALSE, !.alive = FALSE])
  BY <1>8 DEF Process!Start, Process!StartFails
<1>10. r \in Try /\ r.turn = turn /\ r.create = c /\ r.fits = f /\ ~r.acted /\ r.result = "none"
  <2>1. /\ new \in Try /\ new.turn = turn /\ new.create = c /\ new.fits = f /\ ~new.acted /\ new.result = "none"
    BY <1>1, <1>5, <1>6, <1>7, <1>8 DEF Process!NewTry, Try
  <2> QED BY <1>9, <2>1 DEF Try
<1>11. /\ tries' \in Seq(Try) /\ Len(tries') = Len(tries) + 1
       /\ \A q \in 1 .. Len(tries) : tries'[q] = tries[q]
       /\ tries'[Len(tries) + 1] = r
  <2>1. tries' = Append(tries, r)
    BY <1>9
  <2> QED BY <1>2, <1>10, <2>1, AppendProperties
<1>12. DOMAIN tries' = 1 .. Len(tries) + 1
  BY <1>11, LenProperties
<1>13. TriedOnce' /\ r.turn = turn
  <2>1. tries' # <<>>
    BY <1>2, <1>12
  <2> QED BY <1>1, <1>10, <1>11, <2>1 DEF TriedOnce
<1>14. \A p \in 1 .. Len(tries) + 1 : TryOk(tries[p])'
  <2> SUFFICES ASSUME NEW p \in 1 .. Len(tries) + 1 PROVE TryOk(tries[p])'
    OBVIOUS
  <2>1. CASE p = Len(tries) + 1
    BY <1>1, <1>10, <1>11, <2>1 DEF TryOk
  <2>2. CASE p # Len(tries) + 1
    <3>1. p \in 1 .. Len(tries)
      BY <1>2, <2>2
    <3>2. TryOk(tries[p]) /\ tries'[p] = tries[p]
      BY <1>2, <1>11, <3>1 DEF ProcessInv, TriesOk
    <3> QED BY <1>1, <3>2 DEF TryOk
  <2> QED BY <2>1, <2>2
<1>15. \A q \in 1 .. Len(tries) : tries[q].turn = turn => q = Len(tries) /\ TriedOnce
  <2>1. \A q \in 1 .. Len(tries) : q = Len(tries) \/ q \in 1 .. Len(tries) - 1
    <3>1. Len(tries) \in Nat
      BY <1>2
    <3> QED BY <3>1
  <2> QED BY <1>1, <1>4, <2>1 DEF ProcessInv, RunnerOk
<1>16. TriedOnce => Second(tries[Len(tries)], r)
  <2> SUFFICES ASSUME TriedOnce PROVE Second(tries[Len(tries)], r)
    OBVIOUS
  <2>1. PICK l : l = tries[Len(tries)]
    OBVIOUS
  <2>2. l \in Try /\ TryOk(l)
    BY <1>2, <1>3, <2>1 DEF ProcessInv, TriesOk
  <2>3. (l.fits \/ l.create = exists) /\ (l.acted => engineMode = "sdk")
    BY <1>1, <2>1 DEF ProcessInv, RunnerOk
  <2>4. l.acted => exists
    BY <2>2 DEF TryOk
  <2>5. c = ~l.create /\ l.create \in BOOLEAN /\ l.fits \in BOOLEAN /\ l.acted \in BOOLEAN
    BY <1>6, <2>1, <2>2 DEF Try
  <2>6. (l.fits \/ f) /\ (l.acted => l.create \/ ~f)
    BY <1>2, <1>7, <2>3, <2>4, <2>5
  <2>7. Second(l, r)
    BY <1>10, <2>3, <2>6 DEF Second
  <2> QED BY <2>1, <2>7
<1>17. \A p \in 1 .. Len(tries) + 1 : \A q \in 1 .. p - 1 :
          /\ tries'[q].turn <= tries'[p].turn
          /\ tries'[q].turn = tries'[p].turn => p = q + 1 /\ Second(tries[q], tries[p])'
  <2> SUFFICES ASSUME NEW p \in 1 .. Len(tries) + 1, NEW q \in 1 .. p - 1
               PROVE  /\ tries'[q].turn <= tries'[p].turn
                      /\ tries'[q].turn = tries'[p].turn => p = q + 1 /\ Second(tries[q], tries[p])'
    OBVIOUS
  <2>1. q \in 1 .. Len(tries) /\ tries'[q] = tries[q]
    BY <1>2, <1>11
  <2>2. CASE p = Len(tries) + 1
    <3>1. tries'[p] = r /\ TryOk(tries[q])
      BY <1>2, <1>11, <2>1, <2>2 DEF ProcessInv, TriesOk
    <3>2. CASE tries[q].turn = turn
      <4>1. q = Len(tries) /\ TriedOnce
        BY <1>15, <2>1, <3>2
      <4>2. Second(tries[q], r)
        BY <1>16, <4>1
      <4>3. Second(tries[q], tries[p])'
        BY <1>1, <2>1, <3>1, <4>2 DEF Second
      <4> QED BY <1>1, <1>10, <2>1, <2>2, <3>1, <3>2, <4>1, <4>3
    <3>3. CASE tries[q].turn # turn
      BY <1>1, <1>10, <2>1, <3>1, <3>3 DEF TryOk
    <3> QED BY <3>2, <3>3
  <2>3. CASE p # Len(tries) + 1
    <3>1. p \in 1 .. Len(tries)
      BY <1>2, <2>3
    <3>2. /\ tries[q].turn <= tries[p].turn /\ tries'[p] = tries[p]
          /\ tries[q].turn = tries[p].turn => p = q + 1 /\ Second(tries[q], tries[p])
      BY <1>2, <1>11, <3>1 DEF ProcessInv, TriesOk
    <3> QED BY <1>1, <2>1, <3>2 DEF Second
  <2> QED BY <2>2, <2>3
<1>18. \A w \in worked' : w[2] \in DOMAIN tries' /\ tries'[w[2]].acted /\ tries'[w[2]].turn = w[1]
  <2>1. \A w \in worked : w[2] \in 1 .. Len(tries) /\ tries[w[2]].acted /\ tries[w[2]].turn = w[1]
    BY <1>2 DEF ProcessInv, TriesOk
  <2>2. \A p \in 1 .. Len(tries) : p \in DOMAIN tries'
    BY <1>2, <1>12
  <2> QED BY <1>1, <1>11, <2>1, <2>2
<1>19. engineMode' \in {"stream", "sdk"} /\ started' \in BOOLEAN /\ exists' \in BOOLEAN
  BY <1>1 DEF ProcessInv, TriesOk
<1>20. TriesOk'
  BY <1>11, <1>12, <1>14, <1>17, <1>18, <1>19 DEF TriesOk
<1>21. RunnerOk'
  <2>1. r.fits \/ r.create = exists
    BY <1>2, <1>6, <1>7, <1>10
  <2>2. tries'[Len(tries')] = r
    BY <1>11
  <2> QED BY <1>1, <1>13, <2>1, <2>2 DEF RunnerOk
<1>22. Process!HintNeverDecides'
  <2> SUFFICES ASSUME NEW n \in Turns, verdict'[n] = "error"
               PROVE  \E p \in DOMAIN tries' : tries'[p].turn = n
                          /\ (tries'[p].fits \/ tries'[p].killed \/ ~tries'[p].ran)
    BY DEF Process!HintNeverDecides, Process!Turns, Turns
  <2>1. PICK p \in DOMAIN tries : tries[p].turn = n /\ (tries[p].fits \/ tries[p].killed \/ ~tries[p].ran)
    BY <1>1 DEF ProcessInv, Process!HintNeverDecides, Process!Turns, Turns
  <2>2. p \in DOMAIN tries' /\ tries'[p] = tries[p]
    BY <1>2, <1>11, <1>12
  <2> QED BY <2>1, <2>2
<1> QED BY <1>9, <1>10, <1>20, <1>21, <1>22 DEF ProcessInv

(* What a process that lives may do, and what may become of it. *)
LEMMA ProcessWorks ==
    ASSUME CallerOk, ProcessInv, Process!Watchdog \/ Process!Exit
    PROVE  ProcessInv' /\ UNCHANGED <<turn, pc, verdict, done, err, completed, Process!Reported>>
<1>1. /\ pc = "wait"
      /\ UNCHANGED <<turn, pc, verdict, done, err, started, exists, engineMode, completed, worked>>
  BY DEF Process!Watchdog, Process!Exit, Process!callVars, Process!history
<1>2. PICK l : l = tries[Len(tries)]
  OBVIOUS
<1>3. TriedOnce
  BY <1>1 DEF ProcessInv, RunnerOk
<1>4. /\ l \in Try /\ Len(tries) \in DOMAIN tries /\ tries \in Seq(Try) /\ TryOk(l) /\ l.turn = turn
      /\ exists \in BOOLEAN
  BY <1>2, <1>3, HowManyTries DEF ProcessInv, TriesOk, TriedOnce
<1>5. PICK r : /\ tries' = [tries EXCEPT ![Len(tries)] = r]
               /\ r = [l EXCEPT !.alive = FALSE] \/ r = [l EXCEPT !.alive = FALSE, !.killed = TRUE]
  BY <1>2 DEF Process!Watchdog, Process!Exit
<1>6. /\ r \in Try /\ r.turn = turn /\ r.create = l.create /\ r.fits = l.fits /\ r.ran = l.ran
      /\ (l.killed => r.killed) /\ r.acted = l.acted /\ r.result = l.result
  BY <1>4, <1>5 DEF Try
<1>7. TryOk(r)'
  BY <1>1, <1>4, <1>6 DEF TryOk
<1>8. ProcessInv'
  <2>1. exists => exists'
    BY <1>1
  <2>2. exists' = exists \/ r.fits
    BY <1>1, <1>4
  <2> QED BY <1>1, <1>2, <1>4, <1>5, <1>6, <1>7, <2>1, <2>2, TryGoesOn
<1>9. Process!Reported' = Process!Reported
  <2>1. /\ DOMAIN tries' = DOMAIN tries
        /\ \A p \in DOMAIN tries : tries'[p].turn = tries[p].turn /\ tries'[p].result = tries[p].result
    BY <1>2, <1>4, <1>5, <1>6
  <2> QED BY <1>1, <2>1 DEF Process!Reported, Process!Turns
<1> QED BY <1>1, <1>8, <1>9

LEMMA ProcessActs ==
    ASSUME CallerOk, ProcessInv, Process!Act
    PROVE  ProcessInv' /\ UNCHANGED <<turn, pc, verdict, done, err, completed, Process!Reported>>
<1>1. /\ pc = "wait" /\ exists' = TRUE
      /\ UNCHANGED <<turn, pc, verdict, done, err, started, engineMode, completed>>
  BY DEF Process!Act, Process!callVars
<1>2. PICK l : l = tries[Len(tries)]
  OBVIOUS
<1>3. TriedOnce
  BY <1>1 DEF ProcessInv, RunnerOk
<1>4. /\ l \in Try /\ Len(tries) \in DOMAIN tries /\ tries \in Seq(Try) /\ TryOk(l) /\ l.turn = turn
      /\ exists \in BOOLEAN
  BY <1>2, <1>3, HowManyTries DEF ProcessInv, TriesOk, TriedOnce
<1>5. PICK r : r = [l EXCEPT !.acted = TRUE]
  OBVIOUS
<1>6. /\ r \in Try /\ r.turn = turn /\ r.create = l.create /\ r.fits = l.fits /\ r.ran = l.ran
      /\ r.killed = l.killed /\ r.acted = TRUE /\ r.result = l.result
  BY <1>4, <1>5 DEF Try
<1>7. tries' = [tries EXCEPT ![Len(tries)] = r] /\ l.fits = TRUE
  BY <1>2, <1>4, <1>5 DEF Process!Act, Process!Last, Try
<1>8. \A w \in worked' : w \in worked \/ (r.acted /\ w = <<turn, Len(tries)>>)
  BY <1>6 DEF Process!Act
<1>9. TryOk(r)'
  BY <1>1, <1>4, <1>6, <1>7 DEF TryOk
<1>10. ProcessInv'
  <2>1. exists' \in BOOLEAN /\ (exists => exists') /\ exists' = (exists \/ r.fits)
    BY <1>1, <1>4, <1>6, <1>7
  <2>2. /\ r.create = tries[Len(tries)].create /\ r.fits = tries[Len(tries)].fits
        /\ r.ran = tries[Len(tries)].ran /\ (tries[Len(tries)].killed => r.killed)
        /\ (tries[Len(tries)].acted => r.acted)
    BY <1>2, <1>6
  <2> QED BY <1>1, <1>6, <1>7, <1>8, <1>9, <2>1, <2>2, TryGoesOn
<1>11. Process!Reported' = Process!Reported
  <2>1. /\ DOMAIN tries' = DOMAIN tries
        /\ \A p \in DOMAIN tries : tries'[p].turn = tries[p].turn /\ tries'[p].result = tries[p].result
    BY <1>2, <1>4, <1>6, <1>7
  <2> QED BY <1>1, <2>1 DEF Process!Reported, Process!Turns
<1> QED BY <1>1, <1>10, <1>11

(* For the SDK engine, whatever it reports completes the turn. *)
LEMMA ProcessReports ==
    ASSUME CallerOk, ProcessInv, NEW ok \in BOOLEAN, Process!Report(ok)
    PROVE  /\ ProcessInv' /\ UNCHANGED <<turn, pc, verdict, done, err>>
           /\ turn \in 1 .. turn
           /\ completed' \subseteq completed \cup {turn}
           /\ \/ (completed \cup Process!Reported)' = completed \cup Process!Reported \cup {turn}
              \/ UNCHANGED <<completed, Process!Reported>>
<1>1. /\ pc = "wait" /\ turn \in Turns
      /\ UNCHANGED <<turn, pc, verdict, done, err, started, exists, engineMode, worked>>
      /\ completed' = IF ok THEN completed \cup {turn} ELSE completed
  BY DEF Process!Report, Process!callVars, CallerOk
<1>2. PICK l : l = tries[Len(tries)]
  OBVIOUS
<1>3. TriedOnce
  BY <1>1 DEF ProcessInv, RunnerOk
<1>4. /\ l \in Try /\ Len(tries) \in DOMAIN tries /\ tries \in Seq(Try) /\ TryOk(l) /\ l.turn = turn
      /\ exists \in BOOLEAN
  BY <1>2, <1>3, HowManyTries DEF ProcessInv, TriesOk, TriedOnce
<1>5. PICK k : k = IF ok THEN "ok" ELSE "error"
  OBVIOUS
<1>6. PICK r : r = [l EXCEPT !.result = k]
  OBVIOUS
<1>7. /\ r \in Try /\ r.turn = turn /\ r.create = l.create /\ r.fits = l.fits /\ r.ran = l.ran
      /\ r.killed = l.killed /\ r.acted = l.acted /\ r.result = k
  BY <1>4, <1>5, <1>6 DEF Try
<1>8. /\ tries' = [tries EXCEPT ![Len(tries)] = r] /\ (ok => l.acted) /\ (engineMode = "sdk" => l.fits)
  BY <1>2, <1>5, <1>6 DEF Process!Report, Process!Last
<1>9. TryOk(r)'
  BY <1>1, <1>4, <1>5, <1>7, <1>8 DEF TryOk
<1>10. ProcessInv'
  <2>1. exists' \in BOOLEAN /\ (exists => exists') /\ exists' = exists
    BY <1>1, <1>4
  <2>2. /\ r.create = tries[Len(tries)].create /\ r.fits = tries[Len(tries)].fits
        /\ r.ran = tries[Len(tries)].ran /\ (tries[Len(tries)].killed => r.killed)
        /\ (tries[Len(tries)].acted => r.acted)
    BY <1>2, <1>7
  <2>3. completed \subseteq completed'
    BY <1>1
  <2> QED BY <1>1, <1>7, <1>8, <1>9, <2>1, <2>2, <2>3, TryGoesOn
<1>11. turn \in 1 .. turn /\ completed' \subseteq completed \cup {turn}
  BY <1>1 DEF Turns
<1>12. /\ DOMAIN tries' = DOMAIN tries
       /\ \A p \in DOMAIN tries : tries'[p].turn = tries[p].turn
                                  /\ (p # Len(tries) => tries'[p].result = tries[p].result)
       /\ tries'[Len(tries)].result # "none"
  BY <1>2, <1>4, <1>5, <1>7, <1>8
<1>13. CASE engineMode = "sdk"
  <2>1. Process!Reported' = Process!Reported \cup {turn}
    <3>1. \A n \in Turns : (\E p \in DOMAIN tries' : tries'[p].turn = n /\ tries'[p].result # "none")
                <=> n = turn \/ \E p \in DOMAIN tries : tries[p].turn = n /\ tries[p].result # "none"
      <4>1. tries[Len(tries)].turn = turn /\ tries'[Len(tries)].turn = turn
        BY <1>2, <1>4, <1>7, <1>8
      <4> QED BY <1>4, <1>12, <4>1
    <3> QED BY <1>1, <1>13, <3>1 DEF Process!Reported, Process!Turns, Turns
  <2> QED BY <1>1, <1>10, <1>11, <2>1
<1>14. CASE engineMode # "sdk"
  <2>1. Process!Reported' = Process!Reported
    BY <1>1, <1>14 DEF Process!Reported
  <2>2. \/ (completed \cup Process!Reported)' = completed \cup Process!Reported \cup {turn}
        \/ UNCHANGED <<completed, Process!Reported>>
    BY <1>1, <2>1
  <2> QED BY <1>1, <1>10, <1>11, <2>2
<1> QED BY <1>13, <1>14

LEMMA ProcessMarks ==
    ASSUME ProcessInv, Process!Marked
    PROVE  ProcessInv'
<1>1. /\ started' = TRUE
      /\ UNCHANGED <<turn, pc, verdict, exists, engineMode, tries, completed, worked>>
  BY DEF Process!Marked, Process!MarkStarted, Process!history
<1>2. TriesOk'
  BY <1>1 DEF ProcessInv, TriesOk, TryOk, Second
<1>3. RunnerOk'
  BY <1>1 DEF ProcessInv, RunnerOk, TriedOnce
<1>4. Process!HintNeverDecides'
  BY <1>1 DEF ProcessInv, Process!HintNeverDecides
<1> QED BY <1>2, <1>3, <1>4 DEF ProcessInv

LEMMA ProcessStarts ==
    ASSUME CallerInit, Process!Init
    PROVE  ProcessInv
<1>1. /\ pc = "idle" /\ tries = <<>> /\ worked = {} /\ engineMode \in {"stream", "sdk"}
      /\ started = exists /\ exists \in BOOLEAN /\ verdict = [n \in Turns |-> "none"]
  BY DEF CallerInit, Process!Init
<1>2. tries \in Seq(Try) /\ DOMAIN tries = {}
  BY <1>1, EmptySeq
<1>3. started \in BOOLEAN /\ exists \in BOOLEAN
  BY <1>1, Zenon
<1>4. TriesOk
  BY <1>1, <1>2, <1>3 DEF TriesOk
<1>5. RunnerOk
  BY <1>1 DEF RunnerOk
<1>6. Process!HintNeverDecides
  BY <1>1 DEF Process!HintNeverDecides, Process!Turns, Turns
<1> QED BY <1>4, <1>5, <1>6 DEF ProcessInv

LEMMA ProcessStep ==
    ASSUME CallerOk, ProcessInv, Process!Next, UNCHANGED crossed
    PROVE  CallerOk' /\ ProcessInv' /\ (TE!Next \/ UNCHANGED TE!vars)
<1>1. done \in BOOLEAN /\ err \in BOOLEAN /\ completed \subseteq 1 .. turn
  BY DEF CallerOk
<1>9. /\ Process!Reported' = Process!Reported => Reported' = Reported
      /\ Process!Reported \subseteq Reported
      /\ (completed \cup Process!Reported)' = completed \cup Process!Reported \cup {turn}
            => (completed \cup Reported)' = completed \cup Reported \cup {turn}
  <2>1. Codex!Misreported' = Codex!Misreported
    BY DEF Codex!Misreported
  <2> QED BY <2>1 DEF Reported
<1>2. CASE Process!Ask
  <2>1. NextPrompt /\ completed' = completed /\ Process!Reported' = Process!Reported
    BY <1>2 DEF Process!Ask, Process!NextPrompt, NextPrompt, Process!history, Process!Reported
  <2> QED BY <1>2, <1>9, <2>1, ProcessAsks, BeginCaller, BeginIsBegin
<1>3. CASE Process!Start \/ Process!StartFails
  <2>1. UNCHANGED <<turn, verdict, done, err, completed, engineMode>> /\ pc = "send" /\ pc' = "wait"
    BY <1>3 DEF Process!Start, Process!StartFails, Process!history
  <2>2. Process!Reported' = Process!Reported
    <3>1. PICK r \in Try : r.result = "none" /\ tries' = Append(tries, r)
      BY <1>3, ProcessTries
    <3>2. tries \in Seq(Try)
      BY DEF ProcessInv, TriesOk
    <3>3. /\ Len(tries) \in Nat /\ DOMAIN tries = 1 .. Len(tries) /\ DOMAIN tries' = 1 .. Len(tries) + 1
          /\ \A q \in 1 .. Len(tries) : tries'[q] = tries[q]
          /\ tries'[Len(tries) + 1] = r
      BY <3>1, <3>2, AppendProperties, LenProperties
    <3>4. \A n \in Turns : (\E p \in DOMAIN tries' : tries'[p].turn = n /\ tries'[p].result # "none")
                <=> \E p \in DOMAIN tries : tries[p].turn = n /\ tries[p].result # "none"
      <4>1. \A q \in 1 .. Len(tries) + 1 : q \in 1 .. Len(tries) \/ q = Len(tries) + 1
        BY <3>3
      <4>2. \A q \in 1 .. Len(tries) : q \in 1 .. Len(tries) + 1
        BY <3>3
      <4> QED BY <3>1, <3>3, <4>1, <4>2
    <3> QED BY <2>1, <3>4 DEF Process!Reported, Process!Turns, Turns
  <2> QED BY <1>1, <1>3, <1>9, <2>1, <2>2, ProcessTries, MidCaller, OtherIsStutter
<1>4. CASE Process!StreamEnds \/ Process!SdkEnds
  <2>1. /\ ProcessInv' /\ UNCHANGED <<turn, done, err, completed, Process!Reported>> /\ pc = "wait"
        /\ \/ \E v \in {"ok", "error"} : EndTurn(v) /\ (v = "ok" => turn \in completed \cup Process!Reported)
           \/ pc' = "send" /\ UNCHANGED verdict
    <3>1. pc = "wait"
      BY <1>4 DEF Process!StreamEnds, Process!SdkEnds
    <3>2. CASE Process!StreamEnds
      BY <3>1, <3>2, ProcessStreamEnds
    <3>3. CASE Process!SdkEnds
      BY <3>1, <3>3, ProcessSdkEnds
    <3> QED BY <1>4, <3>2, <3>3
  <2>2. CASE pc' = "send" /\ UNCHANGED verdict
    BY <1>1, <1>9, <2>1, <2>2, MidCaller, OtherIsStutter
  <2>3. CASE \E v \in {"ok", "error"} : EndTurn(v) /\ (v = "ok" => turn \in completed \cup Process!Reported)
    <3>1. PICK v \in {"ok", "error"} : EndTurn(v) /\ (v = "ok" => turn \in completed \cup Process!Reported)
      BY <2>3
    <3>2. CallerOk'
      BY <1>1, <2>1, <3>1, EndCaller
    <3>3. TE!Next
      BY <1>9, <2>1, <3>1, EndIsEnd
    <3> QED BY <2>1, <3>2, <3>3
  <2> QED BY <2>1, <2>2, <2>3
<1>5. CASE Process!Watchdog \/ Process!Exit
  BY <1>1, <1>5, <1>9, ProcessWorks, MidCaller, OtherIsStutter
<1>6. CASE Process!Act
  BY <1>1, <1>6, <1>9, ProcessActs, MidCaller, OtherIsStutter
<1>7. CASE Process!Marked
  <2>1. UNCHANGED <<turn, pc, verdict, done, err, completed>> /\ Process!Reported' = Process!Reported
    BY <1>7 DEF Process!Marked, Process!MarkStarted, Process!history, Process!Reported
  <2> QED BY <1>1, <1>7, <1>9, <2>1, ProcessMarks, MidCaller, OtherIsStutter
<1>8. ASSUME NEW ok \in BOOLEAN, Process!Report(ok)
      PROVE  CallerOk' /\ ProcessInv' /\ (TE!Next \/ UNCHANGED TE!vars)
  <2>1. /\ ProcessInv' /\ UNCHANGED <<turn, pc, verdict, done, err>>
        /\ turn \in 1 .. turn
        /\ completed' \subseteq completed \cup {turn}
        /\ \/ (completed \cup Process!Reported)' = completed \cup Process!Reported \cup {turn}
           \/ UNCHANGED <<completed, Process!Reported>>
    BY <1>8, ProcessReports
  <2>2. CallerOk'
    BY <1>1, <2>1, MidCaller
  <2>3. CASE (completed \cup Process!Reported)' = completed \cup Process!Reported \cup {turn}
    BY <1>9, <2>1, <2>2, <2>3, CompleteIsComplete
  <2>4. CASE UNCHANGED <<completed, Process!Reported>>
    BY <1>9, <2>1, <2>2, <2>4, OtherIsStutter
  <2> QED BY <2>1, <2>3, <2>4
<1> QED BY <1>2, <1>3, <1>4, <1>5, <1>6, <1>7, <1>8 DEF Process!Next, Process!RunnerStep

-----------------------------------------------------------------------------
(* The three together: the mode does not change, and the engines that are  *)
(* not the mode's stand still.                                             *)

DrivesInv ==
    /\ mode \in Modes
    /\ CallerOk
    /\ mode = "codex"       => CodexInv
    /\ mode = "interactive" => InteractiveInv
    /\ mode = "process"     => ProcessInv

LEMMA DrivesStarts == Init => DrivesInv /\ TE!Init
<1> SUFFICES ASSUME Init PROVE DrivesInv /\ TE!Init
  OBVIOUS
<1>1. mode \in Modes /\ Codex!Init /\ Interactive!Init /\ CallerInit
  BY DEF Init, Codex!Init, Codex!CallerInit, CallerInit, Codex!Turns, Turns
<1>2. mode = "process" => Process!Init
  BY DEF Init
<1>3. CallerOk
  BY <1>1, InitCaller
<1>4. CodexInv
  BY <1>1, CodexStarts
<1>5. InteractiveInv
  BY <1>1, InteractiveStarts
<1>6. mode = "process" => ProcessInv
  BY <1>1, <1>2, ProcessStarts
<1>7. Reported = {}
  <2>1. tries = <<>> /\ crossed = {}
    BY <1>1 DEF Init, Process!Init, Codex!Init
  <2> QED BY <2>1 DEF Reported, Process!Reported, Codex!Misreported
<1>8. TE!Init
  BY <1>1, <1>7 DEF TE!Init, CallerInit, TE!Turns, Turns
<1> QED BY <1>1, <1>3, <1>4, <1>5, <1>6, <1>8 DEF DrivesInv

LEMMA DrivesStutters ==
    ASSUME DrivesInv, UNCHANGED vars
    PROVE  DrivesInv' /\ UNCHANGED TE!vars
<1>1. /\ UNCHANGED <<turn, pc, done, err, verdict, started, exists, completed, worked, mode>>
      /\ UNCHANGED <<engine, procs, codex, runs, crossed, engineMode, tries>>
  BY DEF vars, callVars, history, iVars, cVars, pVars
<1>2. CallerOk'
  BY <1>1 DEF DrivesInv, CallerOk, VerdictOk
<1>3. (mode = "codex" => CodexInv)'
  BY <1>1 DEF DrivesInv, CodexInv, CodexShape, OneByOne, RunOk, SaysInOrder, SessionGoesOn, Calm,
              CalmBefore, CalmGoesOn, Flies, Knows, OkIsReported, Codex!Crossed, Codex!Misreported,
              Codex!ContinuesConversation
<1>4. (mode = "interactive" => InteractiveInv)'
  BY <1>1 DEF DrivesInv, InteractiveInv, ProcsShape, OneServes, Serves, Owes, HasPrompt, HasAnswer,
              Waits, ReadOnce, Unread
<1>5. (mode = "process" => ProcessInv)'
  BY <1>1 DEF DrivesInv, ProcessInv, TriesOk, TryOk, Second, RunnerOk, TriedOnce,
              Process!HintNeverDecides
<1>6. UNCHANGED TE!vars
  BY <1>1 DEF TE!vars, Reported, Process!Reported, Codex!Misreported
<1> QED BY <1>1, <1>2, <1>3, <1>4, <1>5, <1>6 DEF DrivesInv

LEMMA DrivesStep ==
    ASSUME DrivesInv, Next
    PROVE  DrivesInv' /\ (TE!Next \/ UNCHANGED TE!vars)
<1>1. CallerOk /\ mode \in Modes
  BY DEF DrivesInv
<1>2. CASE ByCodex(Codex!Next)
  <2>1. mode = "codex" /\ Codex!Next /\ UNCHANGED <<mode, pVars>> /\ CodexInv
    BY <1>2 DEF ByCodex, DrivesInv
  <2>2. CallerOk' /\ CodexInv' /\ (TE!Next \/ UNCHANGED TE!vars)
    BY <1>1, <2>1, CodexStep
  <2> QED BY <1>1, <2>1, <2>2 DEF DrivesInv
<1>3. CASE ByInteractive(Interactive!Next)
  <2>1. mode = "interactive" /\ Interactive!Next /\ UNCHANGED <<mode, pVars, crossed>> /\ InteractiveInv
    BY <1>3 DEF ByInteractive, DrivesInv, cVars
  <2>2. CallerOk' /\ InteractiveInv' /\ (TE!Next \/ UNCHANGED TE!vars)
    BY <1>1, <2>1, InteractiveStep
  <2> QED BY <1>1, <2>1, <2>2 DEF DrivesInv
<1>4. CASE ByProcess(Process!Next)
  <2>1. mode = "process" /\ Process!Next /\ UNCHANGED <<mode, crossed>> /\ ProcessInv
    BY <1>4 DEF ByProcess, DrivesInv, cVars
  <2>2. CallerOk' /\ ProcessInv' /\ (TE!Next \/ UNCHANGED TE!vars)
    BY <1>1, <2>1, ProcessStep
  <2> QED BY <1>1, <2>1, <2>2 DEF DrivesInv
<1> QED BY <1>2, <1>3, <1>4 DEF Next

(* What is promised of the turns follows.                                  *)
LEMMA DrivesPromises ==
    ASSUME DrivesInv
    PROVE  WorkedOnce /\ NoVainWait /\ ContinuesConversation /\ HintNeverDecides
<1>1. CASE mode = "codex"
  <2>1. CodexInv
    BY <1>1 DEF DrivesInv
  <2>2. \A w, v \in worked : ~(w[1] = v[1] /\ w[2] < v[2])
    <3> SUFFICES ASSUME NEW w \in worked, NEW v \in worked, w[1] = v[1], w[2] < v[2] PROVE FALSE
      OBVIOUS
    <3>1. DOMAIN runs = 1 .. Len(runs) /\ Len(runs) \in Nat
          /\ \A q \in 1 .. Len(runs) : runs[q].turn \in Nat
      BY <2>1, CodexFacts
    <3>2. /\ w[2] \in 1 .. Len(runs) /\ w[1] = runs[w[2]].turn
          /\ v[2] \in 1 .. Len(runs) /\ v[1] = runs[v[2]].turn
      BY <2>1, <3>1 DEF CodexInv, OneByOne
    <3>3. w[2] \in 1 .. v[2] - 1
      BY <3>1, <3>2
    <3>4. runs[w[2]].turn < runs[v[2]].turn
      BY <2>1, <3>1, <3>2, <3>3 DEF CodexInv, OneByOne
    <3>5. runs[w[2]].turn \in Nat
      BY <3>1, <3>2
    <3>6. runs[w[2]].turn = runs[v[2]].turn
      BY <3>2
    <3> QED BY <3>4, <3>5, <3>6
  <2>3. Codex!ContinuesConversation
    BY <2>1 DEF CodexInv, SessionGoesOn
  <2> QED BY <1>1, <2>2, <2>3 DEF WorkedOnce, NoVainWait, ContinuesConversation, HintNeverDecides
<1>2. CASE mode = "interactive"
  <2>1. InteractiveInv
    BY <1>2 DEF DrivesInv
  <2>2. \A w, v \in worked : ~(w[1] = v[1] /\ w[2] < v[2])
    BY <2>1 DEF InteractiveInv, ReadOnce
  <2>3. Interactive!NoVainWait
    <3> SUFFICES ASSUME pc = "wait", ~done
                 PROVE  \E p \in DOMAIN procs : \/ procs[p].reader = "settle"
                                                \/ procs[p].reader = "loop" /\ p = Len(procs) /\ engine.inFlight
      BY DEF Interactive!NoVainWait
    <3>1. engine.inFlight /\ procs # <<>> /\ Serves(procs[Len(procs)])
      BY <2>1 DEF InteractiveInv, OneServes, Waits
    <3>2. Len(procs) \in DOMAIN procs
      BY <2>1, <3>1, EmptySeq, LenProperties DEF InteractiveInv, ProcsShape
    <3> QED BY <3>1, <3>2 DEF Serves
  <2> QED BY <1>2, <2>2, <2>3 DEF WorkedOnce, NoVainWait, ContinuesConversation, HintNeverDecides
<1>3. CASE mode = "process"
  <2>1. ProcessInv
    BY <1>3 DEF DrivesInv
  <2>2. \A w, v \in worked : (w[1] = v[1] /\ w[2] < v[2]) => engineMode = "sdk" /\ tries[w[2]].create
    <3> SUFFICES ASSUME NEW w \in worked, NEW v \in worked, w[1] = v[1], w[2] < v[2]
                 PROVE  engineMode = "sdk" /\ tries[w[2]].create
      OBVIOUS
    <3>1. DOMAIN tries = 1 .. Len(tries) /\ Len(tries) \in Nat
      BY <2>1, LenProperties DEF ProcessInv, TriesOk
    <3>2. /\ w[2] \in 1 .. Len(tries) /\ tries[w[2]].acted /\ tries[w[2]].turn = w[1]
          /\ v[2] \in 1 .. Len(tries) /\ tries[v[2]].acted /\ tries[v[2]].turn = v[1]
      BY <2>1, <3>1 DEF ProcessInv, TriesOk
    <3>3. w[2] \in 1 .. v[2] - 1
      BY <3>1, <3>2
    <3>4. Second(tries[w[2]], tries[v[2]]) /\ TryOk(tries[v[2]])
      BY <2>1, <3>1, <3>2, <3>3 DEF ProcessInv, TriesOk
    <3> QED BY <3>2, <3>4 DEF Second, TryOk
  <2>3. Process!HintNeverDecides
    BY <2>1 DEF ProcessInv
  <2> QED BY <1>3, <2>2, <2>3 DEF WorkedOnce, NoVainWait, ContinuesConversation, HintNeverDecides
<1> QED BY <1>1, <1>2, <1>3, DrivesAssumption DEF DrivesInv

(* The invariant, whichever engines are looked at.                         *)
THEOREM DrivesKeepInvariant == Spec => []DrivesInv
<1>1. Init => DrivesInv
  BY DrivesStarts
<1>2. DrivesInv /\ [Next]_vars => DrivesInv'
  BY DrivesStep, DrivesStutters
<1> QED BY <1>1, <1>2, PTL DEF Spec

(* The safety of KeepsContract: headless.prompt begins turns in order, one *)
(* at a time, and answers "ok" only for a prompt that was reported as      *)
(* completed, whichever engine runs them; the only such reports that are   *)
(* not of the prompt's own process are those counted in Misreported.       *)
THEOREM EnginesImplementTurnEngine == Spec => TE!Init /\ [][TE!Next]_(TE!vars)
<1>1. Init => TE!Init
  BY DrivesStarts
<1>2. DrivesInv /\ [Next]_vars => [TE!Next]_(TE!vars)
  BY DrivesStep, DrivesStutters
<1>3. Spec => []DrivesInv
  BY DrivesKeepInvariant
<1> QED BY <1>1, <1>2, <1>3, PTL DEF Spec

(* No prompt is worked on by two processes, but for the SDK engine in the  *)
(* turn that creates the session.                                          *)
THEOREM PromptsWorkedOnce == Spec => []WorkedOnce
<1>1. DrivesInv => WorkedOnce
  BY DrivesPromises
<1> QED BY <1>1, DrivesKeepInvariant, PTL

(* A caller of _interactive_turn waits only while a reader will wake it.   *)
THEOREM CallersDoNotWaitInVain == Spec => []NoVainWait
<1>1. DrivesInv => NoVainWait
  BY DrivesPromises
<1> QED BY <1>1, DrivesKeepInvariant, PTL

(* What _CodexEngine resumes holds the turns that were answered before,    *)
(* as long as none of them was ended by what another's process reported:   *)
(* however many ends the processes report, and whoever reads them.         *)
THEOREM ConversationsGoOn == Spec => []ContinuesConversation
<1>1. DrivesInv => ContinuesConversation
  BY DrivesPromises
<1> QED BY <1>1, DrivesKeepInvariant, PTL

(* The flag of the frame is a hint to run_headless_streaming: a wrong one  *)
(* fails no turn.                                                          *)
THEOREM WrongHintsAreHarmless == Spec => []HintNeverDecides
<1>1. DrivesInv => HintNeverDecides
  BY DrivesPromises
<1> QED BY <1>1, DrivesKeepInvariant, PTL
==============================================================================
