------------------------------- MODULE Drives -------------------------------
(***************************************************************************)
(* The driven turns of one thread, headless.prompt of                      *)
(* host-agent/agent_host/wsclient.py: which engine runs them is decided by *)
(* the thread's provider and by ORC_HEADLESS_ENGINE, and whichever it is   *)
(* keeps the contract of TurnEngine.                                       *)
(***************************************************************************)
EXTENDS TurnCaller

CONSTANTS
    Modes,        \* the ways of running turns that are looked at
    MaxFinals,    \* bound: final events a codex process reports
    MaxAgain,     \* bound: codex processes that report more than one
    MaxRuns       \* bound: prompts driven in mode "process"

ASSUME DrivesAssumption ==
    /\ Modes \subseteq {"codex", "interactive", "process"}
    /\ MaxFinals \in Nat \ {0} /\ MaxAgain \in Nat /\ MaxRuns \in 0 .. MaxTurns

VARIABLES
    mode,         \* the branch of headless.prompt that runs the turns
    engine, procs,          \* InteractiveEngine's
    codex, runs, crossed,   \* CodexEngine's
    engineMode, tries       \* HeadlessRun's

Codex       == INSTANCE CodexEngine
Interactive == INSTANCE InteractiveEngine WITH SpawnMayFail <- FALSE
Process     == INSTANCE HeadlessRun

iVars == <<engine, procs>>
cVars == <<codex, runs, crossed>>
pVars == <<engineMode, tries>>
vars  == <<callVars, exists, history, mode, iVars, cVars, pVars>>

Init ==
    /\ mode \in Modes
    /\ Codex!Init /\ Interactive!Init
    /\ IF mode = "process" THEN Process!Init ELSE engineMode = "stream" /\ tries = <<>>

ByCodex(A)       == mode = "codex"       /\ A /\ UNCHANGED <<mode, iVars, pVars>>
ByInteractive(A) == mode = "interactive" /\ A /\ UNCHANGED <<mode, cVars, pVars>>
ByProcess(A)     == /\ mode = "process"    /\ A /\ UNCHANGED <<mode, iVars, cVars>>
                    /\ turn' <= MaxRuns

Next == ByCodex(Codex!Next) \/ ByInteractive(Interactive!Next) \/ ByProcess(Process!Next)

Spec == Init /\ [][Next]_vars

(* The caller goes on and its waits are bounded; readers run.  Nothing is  *)
(* assumed of the agents.                                                  *)
CallerGoesOn ==
    \/ ByCodex(Codex!CallerGoesOn)
    \/ ByInteractive(Interactive!CallerGoesOn)
    \/ ByProcess(Process!RunnerStep)

ReadersGoOn ==
    \/ ByCodex(\E p \in DOMAIN runs : Codex!ReaderStep(p))
    \/ ByInteractive(\E p \in DOMAIN procs : Interactive!ReaderStep(p))

FairSpec == Spec /\ WF_vars(CallerGoesOn) /\ WF_vars(ReadersGoOn)
-----------------------------------------------------------------------------
(* Properties. *)

TypeOK ==
    CASE mode = "codex"       -> Codex!TypeOK
      [] mode = "interactive" -> Interactive!TypeOK
      [] OTHER                -> Process!TypeOK

(* Besides what the agent completed, what was reported as completed: by    *)
(* the SDK engine of its own tries; with Codex, of the turns that the      *)
(* success of another prompt's process was taken for (see VerdictIsOwn of  *)
(* CodexEngine).                                                           *)
Reported == Process!Reported \cup Codex!Misreported

TE == INSTANCE TurnEngine WITH
          verdict   <- verdict,
          completed <- completed \cup Reported

(* Every engine keeps the contract of TurnEngine: turns one at a time and  *)
(* in order, each with one verdict in the end, "ok" only for a prompt that *)
(* was reported as completed, by its own process in all engines but Codex. *)
KeepsContract == TE!Spec

(* No prompt is worked on by two processes: they run with permissions      *)
(* bypassed, and side effects would happen twice.  The exception is the    *)
(* SDK engine in the turn that creates the session.                        *)
WorkedOnce ==
    \A w, v \in worked : (w[1] = v[1] /\ w[2] < v[2]) =>
        mode = "process" /\ engineMode = "sdk" /\ tries[w[2]].create

(* InteractiveEngine: a caller that waits has something to wait for. *)
NoVainWait == mode = "interactive" => Interactive!NoVainWait

(* CodexEngine: the conversation goes on from turn to turn. *)
ContinuesConversation == mode = "codex" => Codex!ContinuesConversation

(* HeadlessRun: a wrong hint fails no turn. *)
HintNeverDecides == mode = "process" => Process!HintNeverDecides

(* CodexEngine: "`started` + a session id means the operator's Codex       *)
(* session was discovered at dispatch", so what is resumed is known.  It   *)
(* does not hold (README 8), and no run checks it.                         *)
ResumesKnownSession == mode = "codex" => Codex!ResumesKnownSession
=============================================================================
