-------------------------- MODULE InteractiveEngine --------------------------
(***************************************************************************)
(* The persistent engine of host-agent/agent_host/interactive_engine.py    *)
(* and the turns that _interactive_turn of wsclient.py runs on it.  One    *)
(* claude process serves turn after turn; a reader thread per process      *)
(* turns its output into callbacks.  A process may die at any point and is *)
(* replaced when the next prompt is written; a turn that takes too long    *)
(* ends with its engine.                                                   *)
(*                                                                         *)
(* Threads: the caller (one turn at a time, under the session's lock), the *)
(* readers, and the processes.  What runs under the engine's lock is one   *)
(* step; a result's callback runs before the reader takes the lock.        *)
(* Callbacks of a turn are those the engine was last given.                *)
(***************************************************************************)
EXTENDS TurnCaller

CONSTANT SpawnMayFail   \* whether starting claude may raise

VARIABLES
    engine,       \* the engine in _engines
    procs         \* every process started, in order

vars == <<callVars, exists, engine, procs, history>>

(* spawned: self._proc is set, and is then the last of procs; startedOnce: *)
(* the next process is told to resume the session, not to create it;       *)
(* raised: starting a process raised once (history).                       *)
Fresh == [spawned |-> FALSE, inFlight |-> FALSE, pending |-> <<>>, respawned |-> FALSE,
          startedOnce |-> FALSE, raised |-> FALSE]

(* inbox: lines in its stdin; busy: the turn it works on; out: results in  *)
(* its stdout; reader: what its thread does next.  A process told to resume *)
(* a session that is not there, or to create one that is, only exits.      *)
NewProc(resume) == [alive |-> TRUE, resume |-> resume, fits |-> (resume = exists),
                    inbox |-> <<>>, busy |-> NoTurn, out |-> <<>>, reader |-> "loop"]

(* Beyond the types: prompts wait in the engine only while a turn is in    *)
(* flight.                                                                 *)
TypeOK ==
    /\ CallerTypeOK
    /\ engine \in [spawned : BOOLEAN, inFlight : BOOLEAN, pending : Seq(Turns),
                   respawned : BOOLEAN, startedOnce : BOOLEAN, raised : BOOLEAN]
    /\ procs \in Seq([alive : BOOLEAN, resume : BOOLEAN, fits : BOOLEAN,
                      inbox : Seq(Turns), busy : Turns \cup {NoTurn},
                      out : Seq([turn : Turns, ok : BOOLEAN]),
                      reader : {"loop", "settle", "ended"}])
    /\ worked \subseteq Turns \X DOMAIN procs
    /\ engine.pending # <<>> => engine.inFlight \/ engine.raised

Init ==
    /\ CallerInit
    /\ engine = Fresh /\ procs = <<>>

-----------------------------------------------------------------------------
(* Writing a prompt to the process, under the lock. *)

Outcome(ps, end, respawned) == [procs |-> ps, end |-> end, respawned |-> respawned]

Spawn(ps, resume) == Append(ps, NewProc(resume))
Put(ps, n)    == [ps EXCEPT ![Len(ps)].inbox = Append(@, n)]
KillLast(ps)  == [ps EXCEPT ![Len(ps)] = [@ EXCEPT !.alive = FALSE, !.inbox = <<>>, !.busy = NoTurn]]

SpawnRaises(ps, respawned) ==
    IF SpawnMayFail THEN {Outcome(ps, "raised", respawned)} ELSE {}

(* The pipe is broken: one respawn for each send, which resumes, then the  *)
(* turn fails.                                                             *)
BrokenPipe(ps, n, respawned) ==
    IF respawned THEN {Outcome(ps, "failed", TRUE)}
    ELSE SpawnRaises(ps, TRUE)
           \cup {Outcome(Put(Spawn(ps, TRUE), n), "written", TRUE),
                 Outcome(KillLast(Spawn(ps, TRUE)), "failed", TRUE)}

(* _write_user_line: the process is started if there is none or it exited; *)
(* it may die before the line is in its pipe.                              *)
WriteUserLine(e, ps, n, respawned) ==
    LET up == IF e.spawned /\ Last(ps).alive THEN ps ELSE Spawn(ps, e.startedOnce)
    IN  (IF up = ps THEN {} ELSE SpawnRaises(ps, respawned))
          \cup {Outcome(Put(up, n), "written", respawned)}
          \cup BrokenPipe(KillLast(up), n, respawned)

(* What the engine is after it; a failed write ends the turn. *)
After(e, o) ==
    [e EXCEPT !.spawned = (@ \/ o.procs # procs), !.respawned = o.respawned,
              !.inFlight = (o.end # "failed"),
              !.startedOnce = (@ \/ o.end = "written"),
              !.raised = (@ \/ o.end = "raised")]

-----------------------------------------------------------------------------
(* The caller: _interactive_turn, under the session's lock. *)

(* The next prompt; the first one, or the first after a timeout, makes an  *)
(* engine with the hint of its frame.                                      *)
Ask ==
    /\ NextPrompt
    /\ engine' = IF engine.spawned \/ engine.inFlight THEN engine
                 ELSE [engine EXCEPT !.startedOnce = @ \/ started]
    /\ UNCHANGED <<exists, procs, history>>

(* send, while the last turn's reader is still to settle: the prompt waits *)
(* in the engine.                                                          *)
SendQueued ==
    /\ pc = "send" /\ engine.inFlight
    /\ engine' = [engine EXCEPT !.pending = Append(@, turn)]
    /\ pc' = "wait"
    /\ UNCHANGED <<turn, done, err, verdict, started, exists, procs, history>>

(* send: the prompt is written; a start that raises leaves the turn in     *)
(* flight and ends the caller.                                             *)
Send ==
    /\ pc = "send" /\ ~engine.inFlight
    /\ \E o \in WriteUserLine(engine, procs, turn, FALSE) :
          /\ procs' = o.procs
          /\ engine' = After(engine, o)
          /\ done' = (done \/ o.end = "failed")
          /\ IF o.end = "raised" THEN EndTurn("error")
             ELSE pc' = "wait" /\ UNCHANGED verdict
    /\ UNCHANGED <<turn, err, started, exists, history>>

Woken == Wake /\ UNCHANGED <<exists, engine, procs, history>>

(* A reader between a callback and the lock is not as slow as the turn's   *)
(* 600 s.                                                                  *)
Timeout ==
    /\ GiveUp
    /\ \A p \in DOMAIN procs : procs[p].reader # "settle"
    /\ UNCHANGED <<exists, engine, procs, history>>

(* The engine is stopped: its process is gone, its readers emit no more. *)
Stop ==
    /\ pc = "stop"
    /\ EndTurn("error")
    /\ engine' = Fresh
    /\ procs' = [p \in DOMAIN procs |->
                    [procs[p] EXCEPT !.alive = FALSE, !.inbox = <<>>, !.busy = NoTurn,
                                     !.out = <<>>, !.reader = "ended"]]
    /\ UNCHANGED <<turn, done, err, started, exists, history>>

-----------------------------------------------------------------------------
(* The claude processes. *)

Take(p) ==
    /\ procs[p].alive /\ procs[p].fits
    /\ procs[p].busy = NoTurn /\ procs[p].inbox # <<>>
    /\ procs' = [procs EXCEPT ![p].busy = Head(procs[p].inbox),
                              ![p].inbox = Tail(procs[p].inbox)]
    /\ worked' = worked \cup {<<Head(procs[p].inbox), p>>}
    /\ exists' = TRUE
    /\ UNCHANGED <<callVars, engine, completed>>

(* One result line for each prompt. *)
Result(p, ok) ==
    /\ procs[p].alive /\ procs[p].busy # NoTurn
    /\ procs' = [procs EXCEPT ![p].busy = NoTurn,
                              ![p].out = Append(@, [turn |-> procs[p].busy, ok |-> ok])]
    /\ completed' = IF ok THEN completed \cup {procs[p].busy} ELSE completed
    /\ UNCHANGED <<callVars, exists, engine, worked>>

Die(p) ==
    /\ procs[p].alive
    /\ procs' = [procs EXCEPT ![p] = [@ EXCEPT !.alive = FALSE, !.inbox = <<>>, !.busy = NoTurn]]
    /\ UNCHANGED <<callVars, exists, engine, history>>

-----------------------------------------------------------------------------
(* The reader threads. *)

(* A result line: the callback is called, without the lock. *)
ReadResult(p) ==
    /\ procs[p].reader = "loop" /\ procs[p].out # <<>>
    /\ done' = TRUE
    /\ err' = ~Head(procs[p].out).ok
    /\ procs' = [procs EXCEPT ![p].out = Tail(@), ![p].reader = "settle"]
    /\ UNCHANGED <<turn, pc, verdict, started, exists, engine, history>>

(* Mutant: prompts that came meanwhile are not looked for. *)
SettleForgetting(p) ==
    /\ procs[p].reader = "settle"
    /\ engine' = [engine EXCEPT !.inFlight = FALSE, !.pending = <<>>]
    /\ procs' = [procs EXCEPT ![p].reader = "loop"]
    /\ UNCHANGED <<callVars, exists, history>>

(* Then, under the lock: the prompt that came meanwhile is written, or the *)
(* engine is free.  A start that raises ends the thread.                   *)
Settle(p) ==
    /\ procs[p].reader = "settle"
    /\ IF engine.pending = <<>>
       THEN /\ engine' = [engine EXCEPT !.inFlight = FALSE]
            /\ procs' = [procs EXCEPT ![p].reader = "loop"]
            /\ UNCHANGED done
       ELSE \E o \in WriteUserLine(engine, procs, Head(engine.pending), engine.respawned) :
            /\ engine' = [After(engine, o) EXCEPT !.pending = Tail(@)]
            /\ procs' = [o.procs EXCEPT ![p].reader = IF o.end = "raised" THEN "ended" ELSE "loop"]
            /\ done' = (done \/ o.end = "failed")
    /\ err' = IF done' # done THEN TRUE ELSE err
    /\ UNCHANGED <<turn, pc, verdict, started, exists, history>>

AtEof(p) == procs[p].reader = "loop" /\ procs[p].out = <<>> /\ ~procs[p].alive

(* Mutant: any process's end fails the turn. *)
ReadEofAny(p) ==
    /\ AtEof(p)
    /\ IF engine.inFlight
       THEN done' = TRUE /\ err' = TRUE /\ engine' = [engine EXCEPT !.inFlight = FALSE]
       ELSE UNCHANGED <<done, err, engine>>
    /\ procs' = [procs EXCEPT ![p].reader = "ended"]
    /\ UNCHANGED <<turn, pc, verdict, started, exists, history>>

(* Mutant: the prompt of a process that died is given to the next one. *)
ReadEofRetrying(p) ==
    /\ AtEof(p)
    /\ engine' = engine /\ UNCHANGED <<done, err>>
    /\ procs' = IF engine.inFlight /\ p = Len(procs) /\ Len(procs) < 2 * MaxTurns
                THEN Put(Spawn([procs EXCEPT ![p].reader = "ended"], TRUE), turn)
                ELSE [procs EXCEPT ![p].reader = "ended"]
    /\ UNCHANGED <<turn, pc, verdict, started, exists, history>>

(* The end of its output: only the current process's reader may fail the   *)
(* turn.                                                                   *)
ReadEof(p) ==
    /\ AtEof(p)
    /\ IF engine.inFlight /\ p = Len(procs)
       THEN done' = TRUE /\ err' = TRUE /\ engine' = [engine EXCEPT !.inFlight = FALSE]
       ELSE UNCHANGED <<done, err, engine>>
    /\ procs' = [procs EXCEPT ![p].reader = "ended"]
    /\ UNCHANGED <<turn, pc, verdict, started, exists, history>>

Marked == MarkStarted /\ UNCHANGED <<exists, engine, procs, history>>

CallerStep    == Ask \/ SendQueued \/ Send \/ Woken \/ Timeout \/ Stop \/ Marked
ProcessStep(p) == Take(p) \/ Result(p, TRUE) \/ Result(p, FALSE) \/ Die(p)
ReaderStep(p) == ReadResult(p) \/ Settle(p) \/ ReadEof(p)

Next == CallerStep \/ \E p \in DOMAIN procs : ProcessStep(p) \/ ReaderStep(p)

Spec == Init /\ [][Next]_vars

(* What must go on: the caller, whose wait is bounded. *)
CallerGoesOn == SendQueued \/ Send \/ Woken \/ Timeout \/ Stop

-----------------------------------------------------------------------------
(* Properties. *)

(* A caller that waits has something to wait for: its prompt is with the   *)
(* engine's process, whose reader will report, or a reader is on its way.  *)
(* Only an engine for which starting a process has raised keeps its caller *)
(* waiting for nothing, until the timeout.                                 *)
NoVainWait ==
    (pc = "wait" /\ ~done) =>
        \/ engine.raised
        \/ \E p \in DOMAIN procs :
            \/ procs[p].reader = "settle"
            \/ procs[p].reader = "loop" /\ p = Len(procs) /\ engine.inFlight
=============================================================================
