---------------------------- MODULE MCSessionTopics ----------------------------
(* Small instances of SessionTopics for TLC. *)
EXTENDS SessionTopics, TLC

(* Two requests for one session over one connector, and one of an agent that *)
(* does not know its session.                                                *)
MCSessionOf   == "s1" :> "S"  @@ "s2" :> "S"  @@ "s3" :> "no session"
MCConnectorOf == "s1" :> "c1" @@ "s2" :> "c1" @@ "s3" :> "c2"
=============================================================================
