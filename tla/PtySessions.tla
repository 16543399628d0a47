----------------------------- MODULE PtySessions -----------------------------
(***************************************************************************)
(* tmux as host-agent/agent_host/pty_session.py uses it, the classifier of *)
(* agent_host/input_policy.py in front of it, and the line diff of         *)
(* agent_host/pty_stream.py on what a capture returns.                     *)
(*                                                                         *)
(* A session is addressed by its name, and a name may be used again once   *)
(* its session has ended.  The sessions are numbered as they were made, so *)
(* that properties can tell them apart; the code cannot.                   *)
(***************************************************************************)
EXTENDS SequencesExt, Integers, FiniteSets

CONSTANTS
    Names,        \* tmux session names
    Procs,        \* the processes of the host that make sessions
    MaxSessions,  \* bound: sessions made
    MaxLines,     \* bound: lines a session prints
    History       \* lines a capture returns at most

ASSUME PtySessionsAssumption ==
    /\ MaxSessions \in Nat /\ MaxLines \in Nat /\ History \in Nat \ {0}

VARIABLE
    sessions      \* every tmux session made: name, maker, whether it lives,
                  \* lines printed, and the numbers of the lines on screen

SessionIds == 1 .. Len(sessions)

SessionsOk ==
    /\ sessions \in Seq([name : Names, by : Procs, alive : BOOLEAN,
                         printed : 0 .. MaxLines, screen : Seq(1 .. MaxLines)])
    /\ Len(sessions) <= MaxSessions

LiveNames == {sessions[k].name : k \in {i \in SessionIds : sessions[i].alive}}

Exists(n) == n \in LiveNames

Current(n) == CHOOSE k \in SessionIds : sessions[k].name = n /\ sessions[k].alive

Of(n) == {k \in SessionIds : sessions[k].name = n}

(* new_session; tmux refuses a name in use. *)
NewSession(p, n) ==
    /\ ~Exists(n) /\ Len(sessions) < MaxSessions
    /\ sessions' = Append(sessions, [name |-> n, by |-> p, alive |-> TRUE,
                                     printed |-> 0, screen |-> <<>>])

(* The sessions after kill(n), which is a no-op when there is none. *)
Killed(n) ==
    IF Exists(n) THEN [sessions EXCEPT ![Current(n)].alive = FALSE] ELSE sessions

(* What the program in a session does: it prints a line, erases one, exits. *)
Prints(k) ==
    /\ sessions[k].alive /\ sessions[k].printed < MaxLines
    /\ LET line   == sessions[k].printed + 1
           screen == Append(sessions[k].screen, line)
       IN  sessions' = [sessions EXCEPT
               ![k].printed = line,
               ![k].screen  = IF Len(screen) > History THEN Tail(screen) ELSE screen]

Erases(k) ==
    /\ sessions[k].alive /\ sessions[k].screen # <<>>
    /\ sessions' = [sessions EXCEPT ![k].screen = Front(@)]

Exits(k) ==
    /\ sessions[k].alive
    /\ sessions' = [sessions EXCEPT ![k].alive = FALSE]

-----------------------------------------------------------------------------
(* Mutant: a screen that got shorter is sent again. *)
NewLinesResent(screen, sent) ==
    SubSeq(screen, IF Len(screen) < sent THEN 1 ELSE sent + 1, Len(screen))

(* The diff of a capture against the lines already sent.  A screen that got *)
(* shorter yields nothing, and becomes the new baseline.                    *)
NewLines(screen, sent) == SubSeq(screen, sent + 1, Len(screen))

-----------------------------------------------------------------------------
(* classify_input: a text by the checks it trips. *)
Traits == {"control", "destructive", "escape", "multiline", "long", "chain"}

Risk(text) ==
    CASE text \cap {"control", "destructive", "escape"} # {} -> "DANGEROUS"
      [] text \cap {"control", "destructive", "escape"} = {} /\ text # {} -> "REVIEW"
      [] text = {} -> "SAFE"

(* The gate of send_keys, before tmux is touched. *)
MayType(text, approved) ==
    \/ Risk(text) = "SAFE"
    \/ Risk(text) = "REVIEW" /\ approved
=============================================================================
