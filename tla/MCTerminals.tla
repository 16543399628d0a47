----------------------------- MODULE MCTerminals -----------------------------
(* A small instance of Terminals for TLC. *)
EXTENDS Terminals, TLC

(* An orc run that takes the name of a launch, and a run of claude. *)
MCRunName == "r1" :> "n1" @@ "r2" :> "n2"
MCTexts   == {{"chain"}, {"escape"}}

(* Lines printed, commands, faults, and the orc run beside the daemon. *)
Limit(l, c, f, rs) ==
    [lines |-> l, commands |-> c, faults |-> f, runs |-> rs]
MCLimits ==
    {Limit(0, 2, 0, {"r1"}), Limit(0, 1, 1, {"r1"}), Limit(0, 1, 1, {"r2"}),
     Limit(2, 0, 1, {"r1"}), Limit(2, 0, 1, {"r2"}), Limit(0, 0, 2, {"r2"}),
     Limit(2, 1, 1, {}), Limit(0, 2, 1, {}), Limit(0, 1, 2, {})}
==============================================================================
