----------------------------- MODULE TurnCaller -----------------------------
(***************************************************************************)
(* The caller's side of a driven turn, whichever engine runs it: the       *)
(* headless.prompt task of host-agent/agent_host/wsclient.py.  A session's *)
(* prompts are run one at a time, in order, under the session's lock.  The *)
(* engines' modules extend this one with what stands behind the callback.  *)
(*                                                                         *)
(* Prompts come with the flag claude_session_started of the thread's       *)
(* metadata, which the backend sets when a reply has arrived, be it an     *)
(* error: it says that a session was addressed before, not that it exists. *)
(***************************************************************************)
EXTENDS SequencesExt, Integers

CONSTANT MaxTurns   \* bound: prompts driven

ASSUME CallerAssumption == MaxTurns \in Nat

Turns  == 1 .. MaxTurns
NoTurn == 0

VARIABLES
    turn,         \* the last turn begun
    pc,           \* the caller: "idle", "send", "wait" or "stop"
    done,         \* the turn's Event
    err,          \* what its callback said last
    verdict,      \* what each turn's caller was told
    started,      \* claude_session_started in the thread's metadata
    exists,       \* whether the agent knows the session the thread is bound to
    completed,    \* history: turns the agent completed with success
    worked        \* history: <<turn, process>>: the agent began to work on it

callVars == <<turn, pc, done, err, verdict, started>>
history  == <<completed, worked>>

(* Beyond the types: an idle caller has no running turn.                   *)
CallerTypeOK ==
    /\ turn \in 0 .. MaxTurns /\ pc \in {"idle", "send", "wait", "stop"}
    /\ done \in BOOLEAN /\ err \in BOOLEAN
    /\ verdict \in [Turns -> {"none", "running", "ok", "error"}]
    /\ started \in BOOLEAN /\ exists \in BOOLEAN
    /\ completed \subseteq Turns
    /\ \A n \in Turns : verdict[n] = "running" <=> (n = turn /\ pc # "idle")

(* A thread bound to the operator's own session is started from the        *)
(* beginning; for one that is not, an id was made up.                      *)
CallerInit ==
    /\ turn = 0 /\ pc = "idle" /\ done = FALSE /\ err = TRUE
    /\ verdict = [n \in Turns |-> "none"]
    /\ exists \in BOOLEAN /\ started = exists
    /\ completed = {} /\ worked = {}

(* The next prompt: a new Event, callbacks bound to it. *)
NextPrompt ==
    /\ pc = "idle" /\ turn < MaxTurns
    /\ turn' = turn + 1 /\ pc' = "send"
    /\ done' = FALSE /\ err' = TRUE
    /\ verdict' = [verdict EXCEPT ![turn + 1] = "running"]
    /\ UNCHANGED started

EndTurn(v) ==
    /\ verdict' = [verdict EXCEPT ![turn] = v]
    /\ pc' = "idle"

(* The callback's Event is set. *)
Wake ==
    /\ pc = "wait" /\ done
    /\ EndTurn(IF err THEN "error" ELSE "ok")
    /\ UNCHANGED <<turn, done, err, started>>

(* Until now nothing was heard for 600 s: the engine leaves the table, and *)
(* is then stopped.                                                        *)
GiveUp ==
    /\ pc = "wait" /\ ~done
    /\ pc' = "stop"
    /\ UNCHANGED <<turn, done, err, verdict, started>>

(* A reply of the session reached the backend. *)
MarkStarted ==
    /\ turn > 0 /\ ~started
    /\ started' = TRUE
    /\ UNCHANGED <<turn, pc, done, err, verdict>>
=============================================================================
