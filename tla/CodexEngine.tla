----------------------------- MODULE CodexEngine -----------------------------
(***************************************************************************)
(* The engine of host-agent/agent_host/codex_engine.py and the turns that  *)
(* _codex_turn of wsclient.py runs on it.  Every turn is a process of its  *)
(* own, `codex exec` or `codex exec resume <session>`; the session a turn  *)
(* leaves is a fork of the one it resumed, and the next turn resumes that. *)
(*                                                                         *)
(* What runs under the engine's lock is one step, the callback of a turn's *)
(* end included.  A process may report an end more than once (an error     *)
(* that it recovers from, and the turn's end after it), and the engine     *)
(* does not look which process reports: a report that finds a later turn   *)
(* not finished ends that one.  Then its process is still at work when the *)
(* next prompt is sent, which has to queue in the engine.                  *)
(***************************************************************************)
EXTENDS TurnCaller

CONSTANTS
    MaxFinals,    \* bound: final events a process reports
    MaxAgain      \* bound: processes that report more than one

Operators == 0   \* what the operator's own conversation held, as a "turn"

VARIABLES
    codex,        \* the engine in _codex_engines, while up
    runs,         \* every process started, in order
    crossed       \* history: <<turn, report>>: what another prompt's process
                  \* reported ended the turn

vars == <<callVars, exists, codex, runs, crossed, history>>

(* A session id: none; made up by the backend and unknown to Codex; or of  *)
(* a session that Codex keeps, given by the turns it holds.                *)
NoId     == [kind |-> "none", has |-> {}]
MadeUpId == [kind |-> "made up", has |-> {}]
Id(turns) == [kind |-> "codex", has |-> turns]

Ids == [kind : {"none", "made up", "codex"}, has : SUBSET (Turns \cup {Operators})]

Down == [up |-> FALSE, inFlight |-> FALSE, finished |-> FALSE, session |-> NoId, first |-> 1,
         pending |-> <<>>]

(* Beyond the types: no more than the caller's own prompt is ever queued.  *)
TypeOK ==
    /\ CallerTypeOK
    /\ codex \in [up : BOOLEAN, inFlight : BOOLEAN, finished : BOOLEAN, session : Ids,
                  first : Nat, pending : {<<>>, <<turn>>}]
    /\ runs \in Seq([turn : Turns, resumed : Ids, first : Nat, alive : BOOLEAN,
                     told : BOOLEAN, finals : 0 .. MaxFinals,
                     out : Seq({"session", "ok", "error"}), reader : {"loop", "ended"}])
    /\ worked \subseteq Turns \X DOMAIN runs
    /\ crossed \subseteq Turns \X {"ok", "error"}
    /\ codex.pending # <<>> => codex.inFlight /\ pc # "send"

(* exists: the operator's session was discovered when the thread was made. *)
Init ==
    /\ CallerInit
    /\ codex = Down /\ runs = <<>> /\ crossed = {}

(* The id the thread is bound to; `exists` does not change for it. *)
BoundId == IF exists THEN Id({Operators}) ELSE MadeUpId

(* What the reader sees of a process, and what its session holds. *)
Session(p) == Id(runs[p].resumed.has \cup {runs[p].turn})

(* The turns that another prompt's process ended; those it made succeed.   *)
Crossed     == {c[1] : c \in crossed}
Misreported == {n \in Turns : <<n, "ok">> \in crossed}

-----------------------------------------------------------------------------
(* The caller. *)

(* The next prompt; an engine is made if there is none, bound to the       *)
(* thread's session id if the frame says that it was started.              *)
Ask ==
    /\ NextPrompt
    /\ codex' = IF codex.up THEN codex
                ELSE [Down EXCEPT !.up = TRUE, !.first = Len(runs) + 1,
                                  !.session = IF started THEN BoundId ELSE NoId]
    /\ UNCHANGED <<exists, runs, crossed, history>>

NewRun(n) == [turn |-> n, resumed |-> codex.session, first |-> codex.first, alive |-> TRUE,
              told |-> FALSE, finals |-> 0, out |-> <<>>, reader |-> "loop"]

(* send, with no turn in flight, and _run_turn: a process for the turn. *)
Send ==
    /\ pc = "send" /\ ~codex.inFlight
    /\ runs' = Append(runs, NewRun(turn))
    /\ codex' = [codex EXCEPT !.inFlight = TRUE, !.finished = FALSE]
    /\ pc' = "wait"
    /\ UNCHANGED <<turn, done, err, verdict, started, exists, crossed, history>>

(* It cannot be started: the turn has failed. *)
SendFails ==
    /\ pc = "send" /\ ~codex.inFlight
    /\ codex' = [codex EXCEPT !.finished = FALSE]
    /\ pc' = "wait" /\ done' = TRUE /\ err' = TRUE
    /\ UNCHANGED <<turn, verdict, started, exists, runs, crossed, history>>

(* A turn is in flight, one that was ended before its process had: the     *)
(* prompt waits in the engine's queue.                                     *)
SendQueues ==
    /\ pc = "send" /\ codex.inFlight
    /\ codex' = [codex EXCEPT !.pending = Append(@, turn)]
    /\ pc' = "wait"
    /\ UNCHANGED <<turn, done, err, verdict, started, exists, runs, crossed, history>>

Woken   == Wake        /\ UNCHANGED <<exists, codex, runs, crossed, history>>
Timeout == GiveUp      /\ UNCHANGED <<exists, codex, runs, crossed, history>>
Marked  == MarkStarted /\ UNCHANGED <<exists, codex, runs, crossed, history>>

(* The engine is stopped: its process ends, its readers report no more. *)
Stop ==
    /\ pc = "stop"
    /\ EndTurn("error")
    /\ codex' = Down
    /\ runs' = [p \in DOMAIN runs |->
                   [runs[p] EXCEPT !.out = <<>>, !.reader = "ended",
                                   !.alive = @ /\ p # Len(runs)]]
    /\ UNCHANGED <<turn, done, err, started, exists, crossed, history>>

-----------------------------------------------------------------------------
(* The codex processes. *)

(* thread.started: the process works in a session of its own, forked from  *)
(* the one it was told to resume, which Codex must know.                   *)
Tell(p) ==
    /\ runs[p].alive /\ ~runs[p].told /\ runs[p].finals = 0
    /\ runs[p].resumed.kind # "made up"
    /\ runs' = [runs EXCEPT ![p].told = TRUE, ![p].out = Append(@, "session")]
    /\ worked' = worked \cup {<<runs[p].turn, p>>}
    /\ UNCHANGED <<callVars, exists, codex, crossed, completed>>

(* turn.completed, turn.failed or error. *)
Final(p, kind) ==
    /\ runs[p].alive /\ runs[p].finals < MaxFinals
    /\ runs[p].finals = 1 => Cardinality({q \in DOMAIN runs : runs[q].finals > 1}) < MaxAgain
    /\ kind = "ok" => runs[p].told
    /\ runs' = [runs EXCEPT ![p].finals = @ + 1, ![p].out = Append(@, kind)]
    /\ completed' = IF kind = "ok" THEN completed \cup {runs[p].turn} ELSE completed
    /\ UNCHANGED <<callVars, exists, codex, crossed, worked>>

(* It exits, or the watchdog kills it. *)
Exit(p) ==
    /\ runs[p].alive
    /\ runs' = [runs EXCEPT ![p].alive = FALSE]
    /\ UNCHANGED <<callVars, exists, codex, crossed, history>>

-----------------------------------------------------------------------------
(* The reader threads. *)

Has(p, kinds) == runs[p].reader = "loop" /\ runs[p].out # <<>> /\ Head(runs[p].out) \in kinds
Consume(p)      == [runs EXCEPT ![p].out = Tail(@)]

(* Mutant: the id of the first session is kept. *)
ReadSessionOnce(p) ==
    /\ Has(p, {"session"})
    /\ codex' = IF codex.session = NoId THEN [codex EXCEPT !.session = Session(p)] ELSE codex
    /\ runs' = Consume(p)
    /\ UNCHANGED <<callVars, exists, crossed, history>>

ReadSession(p) ==
    /\ Has(p, {"session"})
    /\ codex' = [codex EXCEPT !.session = Session(p)]
    /\ runs' = Consume(p)
    /\ UNCHANGED <<callVars, exists, crossed, history>>

(* A final event, or the end of the turn's process without one, ends the   *)
(* turn in flight: its callback, and then the first of the queue, whose    *)
(* process may fail to start (it has the same callback, for it is the      *)
(* caller's prompt that waits).                                            *)
EndsTurn(p, report, left) ==
    /\ done' = TRUE
    /\ \/ /\ codex.pending = <<>>
          /\ codex' = [codex EXCEPT !.finished = (report # "eof"), !.inFlight = FALSE]
          /\ err' = (report # "ok") /\ runs' = left
       \/ /\ codex.pending # <<>>
          /\ codex' = [codex EXCEPT !.finished = FALSE, !.pending = Tail(@)]
          /\ err' = (report # "ok") /\ runs' = Append(left, NewRun(Head(codex.pending)))
       \/ /\ codex.pending # <<>>
          /\ codex' = [codex EXCEPT !.finished = FALSE, !.inFlight = FALSE, !.pending = Tail(@)]
          /\ err' \in {report # "ok", TRUE} /\ runs' = left
    /\ crossed' = IF pc = "idle" \/ runs[p].turn = turn THEN crossed
                  ELSE crossed \cup {<<turn, IF report = "ok" THEN "ok" ELSE "error">>}

(* _finish: the first final event of a turn ends it, whoever reports it. *)
ReadFinal(p) ==
    /\ Has(p, {"ok", "error"})
    /\ IF codex.finished THEN runs' = Consume(p) /\ UNCHANGED <<done, err, codex, crossed>>
                         ELSE EndsTurn(p, Head(runs[p].out), Consume(p))
    /\ UNCHANGED <<turn, pc, verdict, started, exists, history>>

AtEof(p)  == runs[p].reader = "loop" /\ runs[p].out = <<>> /\ ~runs[p].alive
Leave(p) == [runs EXCEPT ![p].reader = "ended"]

(* The end of the last process started, if no final event came, fails the  *)
(* turn.                                                                   *)
ReadEof(p) ==
    /\ AtEof(p)
    /\ IF codex.inFlight /\ p = Len(runs) /\ ~codex.finished THEN EndsTurn(p, "eof", Leave(p))
       ELSE runs' = Leave(p) /\ UNCHANGED <<done, err, codex, crossed>>
    /\ UNCHANGED <<turn, pc, verdict, started, exists, history>>

CallerStep     == Ask \/ Send \/ SendFails \/ SendQueues \/ Woken \/ Timeout \/ Stop \/ Marked
ProcessStep(p) == Tell(p) \/ Final(p, "ok") \/ Final(p, "error") \/ Exit(p)
ReaderStep(p)  == ReadSession(p) \/ ReadFinal(p) \/ ReadEof(p)

Next == CallerStep \/ \E p \in DOMAIN runs : ProcessStep(p) \/ ReaderStep(p)

Spec == Init /\ [][Next]_vars

(* What must go on: the caller, whose wait is bounded. *)
CallerGoesOn == Send \/ SendQueues \/ Woken \/ Timeout \/ Stop

-----------------------------------------------------------------------------
(* Properties. *)

(* A conversation goes on: every process of a thread whose session was     *)
(* discovered works in a fork of it, and knows each turn that this engine  *)
(* completed before, unless one of them was ended by another's process: it *)
(* may then still be at work, and its session be read late.                *)
ContinuesConversation ==
    \A p \in DOMAIN runs :
        /\ exists => Operators \in runs[p].resumed.has
        /\ \/ \E o \in runs[p].first .. p - 1 : runs[o].turn \in Crossed
           \/ \A q \in runs[p].first .. p - 1 :
                 verdict[runs[q].turn] = "ok" => runs[q].turn \in runs[p].resumed.has

(* wsclient.py:107-109 says that _codex_turn runs one turn and returns       *)
(* is_error, and that turns are serialized: a turn succeeds by what its own  *)
(* process reports.  It does not hold when a process reports twice, and no   *)
(* run claims it: the success is then Misreported.                           *)
VerdictIsOwn == \A n \in Turns : verdict[n] = "ok" => n \in completed

(* A process resumes a session that Codex knows. *)
ResumesKnownSession ==
    \A p \in DOMAIN runs : runs[p].resumed.kind # "made up"
=============================================================================
