--------------------------- MODULE MCConnectorAsk ---------------------------
(* A small instance of ConnectorAsk for TLC. *)
EXTENDS ConnectorAsk, TLC

MCKeys   == {"allow", "deny", "k1", "k2"}
MCLabels == {"Allow", "Deny", "L1", "L2"}
MCTexts  == {"hello"}

(* Two labels with keys of their own, as short labels have. *)
MCMenus == {<<[key |-> "k1", label |-> "L1"], [key |-> "k2", label |-> "L2"]>>}

(* Every client is a connector of its own. *)
MCOwnThreads   == "a1" :> "t1" @@ "a2" :> "t2"

(* A client built with a long overall_timeout sees prompts expire before it *)
(* stops asking.                                                            *)
MCTTL     == "ask" :> 1 @@ "approve" :> 1 @@ "tool" :> 1
MCTimeout == "ask" :> 2 @@ "approve" :> 2 @@ "tool" :> 2
=============================================================================
