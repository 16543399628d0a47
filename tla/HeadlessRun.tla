----------------------------- MODULE HeadlessRun -----------------------------
(***************************************************************************)
(* A turn on a process of its own that creates the session or resumes it:  *)
(* run_headless_streaming of host-agent/agent_host/claude_headless.py, the *)
(* default engine, and run_turn of sdk_session.py.  Both try what the      *)
(* frame's flag hints at and then, if that failed, the other, so that a    *)
(* hint that is wrong does no harm; the first never does so when the agent *)
(* was heard, for its tools would run twice.                               *)
(*                                                                         *)
(* One thread reads the process to its end: what it reads is decided when  *)
(* it is written, and is not a step of its own.                            *)
(***************************************************************************)
EXTENDS TurnCaller

VARIABLES
    engineMode,   \* ORC_HEADLESS_ENGINE: "sdk", or "stream" for the default
    tries         \* every process started, in order

vars == <<callVars, exists, engineMode, tries, history>>

Tries(n) == {p \in DOMAIN tries : tries[p].turn = n}

TypeOK ==
    /\ CallerTypeOK
    /\ engineMode \in {"stream", "sdk"}
    /\ tries \in Seq([turn : Turns, create : BOOLEAN, fits : BOOLEAN, ran : BOOLEAN,
                      alive : BOOLEAN, acted : BOOLEAN, result : {"none", "ok", "error"}, killed : BOOLEAN])
    /\ worked \subseteq Turns \X DOMAIN tries
    /\ \A n \in Turns : Cardinality(Tries(n)) <= 2

Init ==
    /\ CallerInit
    /\ engineMode \in {"stream", "sdk"}
    /\ tries = <<>>

-----------------------------------------------------------------------------
(* The caller and the thread that runs the turn. *)

Ask == NextPrompt /\ UNCHANGED <<exists, engineMode, tries, history>>

(* First what the hint says, then the other. *)
Creates == IF Tries(turn) = {} THEN ~started ELSE ~Last(tries).create

NewTry == [turn |-> turn, create |-> Creates, fits |-> (Creates # exists), ran |-> TRUE, alive |-> TRUE,
           acted |-> FALSE, result |-> "none", killed |-> FALSE]

(* A process is started with --session-id or --resume. *)
Start ==
    /\ pc = "send"
    /\ tries' = Append(tries, NewTry)
    /\ pc' = "wait"
    /\ UNCHANGED <<turn, done, err, verdict, started, exists, engineMode, history>>

(* It cannot be started. *)
StartFails ==
    /\ pc = "send"
    /\ tries' = Append(tries, [NewTry EXCEPT !.ran = FALSE, !.alive = FALSE])
    /\ pc' = "wait"
    /\ UNCHANGED <<turn, done, err, verdict, started, exists, engineMode, history>>

(* Mutant: a turn that failed is tried again, whatever was heard of it. *)
EndedAfterAll(t) ==
    \/ t.result = "ok" /\ ~t.killed
    \/ Cardinality(Tries(turn)) = 2

(* Mutant: the hint is taken for the truth. *)
EndedAtOnce(t) == t \in Range(tries)

(* No other attempt follows: it succeeded, it was the second, or the agent *)
(* was heard.                                                              *)
StreamEnded(t) ==
    \/ t.result = "ok" /\ ~t.killed
    \/ Cardinality(Tries(turn)) = 2
    \/ t.acted

(* For the SDK: any result, or the timeout, or the second exception. *)
SdkEnded(t) == t.result # "none" \/ t.killed \/ Cardinality(Tries(turn)) = 2

SdkSucceeded(t) == t.result # "none" /\ ~t.killed

(* The stream of the process has ended. *)
StreamEnds ==
    /\ engineMode = "stream" /\ pc = "wait"
    /\ ~Last(tries).alive
    /\ IF StreamEnded(Last(tries))
       THEN EndTurn(IF Last(tries).result = "ok" /\ ~Last(tries).killed THEN "ok" ELSE "error")
       ELSE pc' = "send" /\ UNCHANGED verdict
    /\ UNCHANGED <<turn, done, err, started, exists, engineMode, tries, history>>

(* The SDK's responses end with the result, and its process with them. *)
SdkEnds ==
    /\ engineMode = "sdk" /\ pc = "wait"
    /\ ~Last(tries).alive \/ Last(tries).result # "none"
    /\ tries' = [tries EXCEPT ![Len(tries)].alive = FALSE]
    /\ IF SdkEnded(Last(tries))
       THEN EndTurn(IF SdkSucceeded(Last(tries)) THEN "ok" ELSE "error")
       ELSE pc' = "send" /\ UNCHANGED verdict
    /\ UNCHANGED <<turn, done, err, started, exists, engineMode, history>>

(* The watchdog of an attempt: the process has had its time. *)
Watchdog ==
    /\ pc = "wait" /\ Last(tries).alive
    /\ tries' = [tries EXCEPT ![Len(tries)] = [@ EXCEPT !.alive = FALSE, !.killed = TRUE]]
    /\ UNCHANGED <<callVars, exists, engineMode, history>>

Marked == MarkStarted /\ UNCHANGED <<exists, engineMode, tries, history>>

-----------------------------------------------------------------------------
(* The claude process.  One whose flag does not fit the session ends with  *)
(* an error and does nothing.                                              *)

Act ==
    /\ pc = "wait" /\ Last(tries).alive /\ Last(tries).fits
    /\ ~Last(tries).acted /\ Last(tries).result = "none"
    /\ tries' = [tries EXCEPT ![Len(tries)].acted = TRUE]
    /\ exists' = TRUE
    /\ worked' = worked \cup {<<turn, Len(tries)>>}
    /\ UNCHANGED <<callVars, engineMode, completed>>

Report(ok) ==
    /\ pc = "wait" /\ Last(tries).alive /\ Last(tries).result = "none"
    /\ ok => Last(tries).acted
    /\ engineMode = "sdk" => Last(tries).fits
    /\ tries' = [tries EXCEPT ![Len(tries)].result = IF ok THEN "ok" ELSE "error"]
    /\ completed' = IF ok THEN completed \cup {turn} ELSE completed
    /\ UNCHANGED <<callVars, exists, engineMode, worked>>

Exit ==
    /\ pc = "wait" /\ Last(tries).alive
    /\ tries' = [tries EXCEPT ![Len(tries)].alive = FALSE]
    /\ UNCHANGED <<callVars, exists, engineMode, history>>

RunnerStep == Start \/ StartFails \/ StreamEnds \/ SdkEnds \/ Watchdog

Next == Ask \/ RunnerStep \/ Marked \/ Act \/ Report(TRUE) \/ Report(FALSE) \/ Exit

Spec == Init /\ [][Next]_vars

-----------------------------------------------------------------------------
(* Properties. *)

(* Turns for which the agent reported a result, which the SDK engine takes *)
(* for success whatever it says.                                           *)
Reported ==
    IF engineMode = "sdk" THEN {n \in Turns : \E p \in DOMAIN tries :
                                    tries[p].turn = n /\ tries[p].result # "none"}
    ELSE {}

(* The flag of the frame is a hint: no turn fails only because it created  *)
(* what exists, or resumed what does not.  Some process of it could work,  *)
(* or was killed, or never ran.                                            *)
HintNeverDecides ==
    \A n \in Turns : verdict[n] = "error" =>
        \E p \in DOMAIN tries :
            tries[p].turn = n /\ (tries[p].fits \/ tries[p].killed \/ ~tries[p].ran)
=============================================================================
