---------------------------- MODULE MCTelegramBot ----------------------------
(* A small instance of TelegramBot for TLC. *)
EXTENDS TelegramBot, TLC

MCKeys   == {"allow", "deny"}
MCLabels == {"Allow", "Deny"}
MCRefs   == [action : {"none", "pty_inject", "session_start"},
             thread : Threads, text : Texts \cup {NoText}]

(* A terminal that asks before it is typed into, a trusted one, a headless *)
(* session, and a thread without host, which stands for the operator's     *)
(* chat too.                                                               *)
MCModes == "pty" :> "pty" @@ "trust" :> "trusted" @@ "head" :> "headless"
           @@ "conn" :> "api"
=============================================================================
