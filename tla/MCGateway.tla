----------------------------- MODULE MCGateway ------------------------------
(* A small instance of Gateway for TLC. *)
EXTENDS Gateway, TLC

MCKeys    == {"allow", "deny"}
MCLabels  == {"Allow", "Deny"}
MCNumber  == [t \in Texts |-> IF t = "1" THEN 1 ELSE 0]
MCAliases == [t \in Texts |-> IF t = "no" THEN "deny" ELSE NoText]
MCMenu    == <<[key |-> "deny", label |-> "Deny"], [key |-> "allow", label |-> "Allow"]>>

(* Prompts, turns, messages and faults. *)
Limit(p, t, m, f) == [prompts |-> p, turns |-> t, messages |-> m, faults |-> f]
MCLimits ==
    {Limit(0, 3, 0, 2), Limit(1, 0, 2, 0), Limit(0, 0, 2, 1), Limit(2, 0, 1, 1)}
==============================================================================
