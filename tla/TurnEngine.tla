----------------------------- MODULE TurnEngine -----------------------------
(***************************************************************************)
(* What headless.prompt relies on from an engine that drives a session:    *)
(* the contract of _interactive_turn in host-agent/agent_host/wsclient.py, *)
(* whatever processes and threads stand behind it.                         *)
(*                                                                         *)
(* Turns are begun in order, one at a time, under the session's lock.      *)
(* Each gets one verdict.  It is "ok" only if the agent completed that     *)
(* very prompt: never because another turn's result was taken for it.      *)
(***************************************************************************)
EXTENDS Naturals

CONSTANT MaxTurns   \* bound: prompts driven

Turns == 1 .. MaxTurns

VARIABLES
    verdict,      \* "none" before a turn, "running" during it, then the result
    completed     \* turns the agent has completed successfully

vars == <<verdict, completed>>

Running(n) == verdict[n] = "running"

Init ==
    /\ verdict = [n \in Turns |-> "none"]
    /\ completed = {}

Begin(n) ==
    /\ verdict[n] = "none"
    /\ \A m \in Turns : ~Running(m) /\ (m < n => verdict[m] # "none")
    /\ verdict' = [verdict EXCEPT ![n] = "running"]
    /\ UNCHANGED completed

Complete(n) ==
    /\ verdict[n] # "none"
    /\ completed' = completed \cup {n}
    /\ UNCHANGED verdict

End(n) ==
    /\ Running(n)
    /\ \/ n \in completed /\ verdict' = [verdict EXCEPT ![n] = "ok"]
       \/ verdict' = [verdict EXCEPT ![n] = "error"]
    /\ UNCHANGED completed

Next == \E n \in Turns : Begin(n) \/ Complete(n) \/ End(n)

(* A turn that was begun ends: the timeout sees to it. *)
Spec == Init /\ [][Next]_vars /\ \A n \in Turns : WF_vars(End(n))
=============================================================================
