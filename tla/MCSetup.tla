------------------------------ MODULE MCSetup -------------------------------
(* A small instance of Setup for TLC. *)
EXTENDS Setup, TLC

NoEnv == [bot |-> None, chat |-> None, user |-> None]
Bot1  == [NoEnv EXCEPT !.bot = "bot1"]
Full  == [bot |-> "bot1", chat |-> "group1", user |-> "me"]

At0(stage, connected, challenge) ==
    [stage |-> stage, connected |-> connected, completed |-> stage = "done",
     challenge |-> challenge]

(* Where it starts; requests of each kind; posts, faults and ticks. *)
Max(page, advance, complete, token, discover, command) ==
    [page |-> page, advance |-> advance, complete |-> complete, token |-> token,
     discover |-> discover, command |-> command]
L(s, e, max, posts, f, ticks) ==
    [setup |-> s, env |-> e, max |-> max, posts |-> posts, faults |-> f, ticks |-> ticks]

MCLimits ==
    { L(At0("providers", TRUE, 0), Full, Max(0, 2, 2, 0, 0, 0), 0, 0, 0),
      L(At0("runtimes", TRUE, 0), Full, Max(0, 1, 1, 1, 0, 0), 0, 1, 1),
      L(At0("providers", FALSE, 0), NoEnv, Max(0, 0, 0, 2, 1, 0), 1, 1, 0),
      L(At0("providers", FALSE, 1), Bot1, Max(0, 1, 0, 0, 2, 0), 2, 0, 0),
      L(At0("providers", FALSE, 1), Bot1, Max(0, 0, 0, 1, 2, 0), 1, 1, 0),
      L(At0("providers", FALSE, 0), NoEnv, Max(2, 0, 0, 0, 0, 1), 0, 1, 1),
      L(At0("done", TRUE, 0), Full, Max(1, 1, 0, 0, 0, 2), 0, 0, 0) }
==============================================================================
