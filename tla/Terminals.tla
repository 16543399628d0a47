------------------------------ MODULE Terminals ------------------------------
(***************************************************************************)
(* Terminal sessions: the daemon and the `orc run' processes of one host   *)
(* (host-agent/agent_host/wsclient.py, run_cmd.py, pty_session.py), their  *)
(* connections to the backend (backend/apps/hostlink/consumers.py), the    *)
(* Thread rows of the sessions, and the bot's /stop.                       *)
(*                                                                         *)
(* A command is sent to the group of the host: every process connected to  *)
(* it gets the command, and decides by what it knows whether to act.       *)
(*                                                                         *)
(* The daemon's outbound queue is taken to keep its events in order and to *)
(* lose none while the daemon lives; HostSender.tla is about that queue.   *)
(***************************************************************************)
EXTENDS PtySessions

CONSTANTS
    Runs,         \* the orc run processes, each run once
    Daemon,       \* the daemon
    RunName,      \* [Runs -> Names]
    ClaudeRuns,   \* runs of claude: their session id names the row
    Launches,     \* names made up for /run launches, one for each approval
    Texts,        \* texts to inject, by their traits
    Limits,       \* bounds: lines, commands, faults and the orc runs made
    MaxWire       \* bound: frames on the wire of a connection

Refs == Names \cup ClaudeRuns
RefOf(p, n) == IF p \in ClaudeRuns THEN p ELSE n
NoRef  == "none"
NoConn == 0

ASSUME TerminalsAssumption ==
    /\ Procs = Runs \cup {Daemon} /\ Daemon \notin Runs
    /\ RunName \in [Runs -> Names] /\ ClaudeRuns \subseteq Runs
    /\ Launches \subseteq Names
    /\ \A t \in Texts : t \subseteq Traits
    /\ NoRef \notin Refs
    /\ Names \cap ClaudeRuns = {}      \* no tmux session is named by a uuid
    /\ \A l \in Limits :
           /\ l \in [lines : 0 .. MaxLines, commands : Nat, faults : Nat,
                     runs : SUBSET Runs]
    /\ MaxWire \in Nat

VARIABLES
    proc,         \* the processes: see ProcType
    file,         \* owned-sessions.json
    conns,        \* the connections ever made: see ConnType
    rows,         \* status and tmux name of the Thread rows
    stopping,     \* the row a /stop has sent the kill for
    commands,     \* history: the commands sent
    outbound,     \* the daemon's queue of frames
    typed,        \* history: commands typed, into which session, by whom
    recorded,     \* history: the lines recorded of each session
    orphans,      \* history: sessions a daemon died with, unknown to the file
    unsaved,      \* history: the daemon's last write of the file failed
    limit,        \* the one of Limits that holds in this behaviour
    faultCount    \* connections that broke, failed writes, the daemon's deaths

vars == <<sessions, proc, file, conns, rows, stopping, commands, outbound,
          typed, recorded, orphans, unsaved, limit, faultCount>>

(* owned: _started_sessions, which only the daemon reads.  stream: how many *)
(* lines of a session were sent, if its stream runs.  drives: the           *)
(* headless prompts the process has in hand; its lock lets one run.         *)
NoStream == -1
ProcType ==
    [st : {"off", "made", "up", "gone"}, conn : Nat, owned : SUBSET Names,
     stream : [Names -> {NoStream} \cup 0 .. MaxLines], drives : Nat]

Off == [st |-> "off", conn |-> NoConn, owned |-> {},
        stream |-> [n \in Names |-> NoStream], drives |-> 0]

(* Frames to the backend.  asOf, how many sessions had been made when the   *)
(* frame was built, and session, whose lines they are, are history.         *)
Frame(kind, p, n, lines, k) ==
    [kind |-> kind, ref |-> RefOf(p, n), name |-> n, lines |-> lines,
     session |-> k, live |-> {}, asOf |-> Len(sessions)]

(* Mutant: the names are left out of the frame. *)
ReconcileOrNone(live) ==
    [kind |-> "reconcile", ref |-> NoRef, name |-> NoRef, lines |-> <<>>,
     session |-> 0, live |-> {}, asOf |-> Len(sessions)]

Reconcile(live) ==
    [kind |-> "reconcile", ref |-> NoRef, name |-> NoRef, lines |-> <<>>,
     session |-> 0, live |-> live, asOf |-> Len(sessions)]

Command(kind, n, text) == [kind |-> kind, name |-> n, text |-> text]

(* joined: in the group of the host.  known: the names _pty_threads has.    *)
NewConn(p, wire) ==
    [proc |-> p, joined |-> TRUE, known |-> {}, wire |-> wire, inbox |-> <<>>]

Init ==
    /\ sessions = <<>> /\ file = {} /\ conns = <<>> /\ outbound = <<>>
    /\ proc = [p \in Procs |-> Off]
    /\ rows = [f \in Refs |-> [status |-> "none", name |-> NoRef]]
    /\ stopping = NoRef
    /\ commands = <<>> /\ typed = <<>>
    /\ recorded = [k \in 1 .. MaxSessions |-> <<>>]
    /\ orphans = {} /\ unsaved = FALSE
    /\ limit \in Limits /\ faultCount = 0

backend == <<rows, stopping, recorded>>
faults  == <<orphans, unsaved, limit, faultCount>>

GoesWrong == faultCount < limit.faults /\ faultCount' = faultCount + 1

ConnIds  == 1 .. Len(conns)
IsUp(p)  == proc[p].st = "up"
Online(p) == proc[p].conn # NoConn

(* A connection ends: the group loses it, commands on their way are lost,   *)
(* and so are the frames after the first n.                                 *)
Closed(c, n) ==
    [conns EXCEPT ![c].joined = FALSE, ![c].inbox = <<>>,
                  ![c].wire = SubSeq(@, 1, n)]

-----------------------------------------------------------------------------
(* Programs in sessions. *)

Program ==
    /\ \E k \in SessionIds :
           \/ sessions[k].printed < limit.lines /\ Prints(k)
           \/ Erases(k)
           \/ Exits(k)
    /\ UNCHANGED <<proc, file, conns, outbound, backend, commands, typed, faults>>

-----------------------------------------------------------------------------
(* Output.  An orc run writes to its own socket, and what it writes to a    *)
(* broken one is lost; the daemon goes through its queue.                   *)

Emit(p, frame) ==
    IF p = Daemon
    THEN outbound' = Append(outbound, frame) /\ UNCHANGED conns
    ELSE /\ UNCHANGED outbound
         /\ IF Online(p)
            THEN /\ Len(conns[proc[p].conn].wire) < MaxWire
                 /\ conns' = [conns EXCEPT ![proc[p].conn].wire = Append(@, frame)]
            ELSE UNCHANGED conns

(* One round of stream_pty_output or _stream_via_queue. *)
Polls(p, n) ==
    /\ IsUp(p) /\ proc[p].stream[n] # NoStream /\ Exists(n)
    /\ LET k     == Current(n)
           lines == NewLines(sessions[k].screen, proc[p].stream[n])
       IN  /\ proc' = [proc EXCEPT ![p].stream[n] = Len(sessions[k].screen)]
           /\ IF lines = <<>>
              THEN UNCHANGED <<outbound, conns>>
              ELSE Emit(p, Frame("output", p, n, lines, k))
    /\ UNCHANGED <<sessions, file, backend, commands, typed, faults>>

(* The session is gone, and so is its pane: the last capture fails.  An orc *)
(* run is over with its stream.                                             *)
StreamEnds(p, n) ==
    /\ IsUp(p) /\ proc[p].stream[n] # NoStream /\ ~Exists(n)
    /\ LET frame == Frame("end", p, n, <<>>, 0)
       IN  IF p = Daemon
           THEN /\ Emit(p, frame)
                /\ proc' = [proc EXCEPT ![p].stream[n] = NoStream]
           ELSE /\ proc' = [proc EXCEPT ![p] = [Off EXCEPT !.st = "gone"]]
                /\ UNCHANGED outbound
                /\ IF Online(p)
                   THEN LET c == proc[p].conn IN
                        conns' = [conns EXCEPT ![c].joined = FALSE, ![c].inbox = <<>>,
                                               ![c].wire = Append(@, frame)]
                   ELSE UNCHANGED conns
    /\ UNCHANGED <<sessions, file, backend, commands, typed, faults>>

-----------------------------------------------------------------------------
(* orc run. *)

RunStarts(r) ==
    /\ proc[r].st = "off" /\ r \in limit.runs
    /\ \/ /\ NewSession(r, RunName[r])
          /\ proc' = [proc EXCEPT ![r].st = "made"]
       \/ /\ Exists(RunName[r])
          /\ proc' = [proc EXCEPT ![r].st = "gone"]
          /\ UNCHANGED sessions
    /\ UNCHANGED <<file, conns, outbound, backend, commands, typed, faults>>

RunConnects(r) ==
    /\ proc[r].st = "made"
    /\ conns' = Append(conns, NewConn(r, <<Frame("start", r, RunName[r], <<>>, 0)>>))
    /\ proc' = [proc EXCEPT ![r].st = "up", ![r].conn = Len(conns) + 1,
                            ![r].stream[RunName[r]] = 0]
    /\ UNCHANGED <<sessions, file, outbound, backend, commands, typed, faults>>

(* The connection cannot be made, or the operator interrupts: the process   *)
(* ends and leaves the session running.                                     *)
RunLeaves(r) ==
    /\ proc[r].st \in {"made", "up"}
    /\ GoesWrong
    /\ proc' = [proc EXCEPT ![r] = [Off EXCEPT !.st = "gone"]]
    /\ conns' = IF Online(r)
                THEN Closed(proc[r].conn, Len(conns[proc[r].conn].wire))
                ELSE conns
    /\ UNCHANGED <<sessions, file, outbound, backend, commands, typed, orphans, unsaved,
                   limit>>

-----------------------------------------------------------------------------
(* The daemon. *)

(* _flush replaces the file; a write that fails is logged and no more.  An   *)
(* orc run keeps no file.                                                    *)
NoFlush == UNCHANGED <<file, unsaved, faultCount>>

Flush(p, owned) ==
    IF p # Daemon THEN NoFlush
    ELSE \/ file' = owned /\ unsaved' = FALSE /\ UNCHANGED faultCount
         \/ UNCHANGED file /\ unsaved' = TRUE /\ GoesWrong

(* prune_to_live drops the stale names, and writes only if there are some. *)
Prune(owned) == owned \cap LiveNames
PruneToLive(owned) ==
    IF owned \subseteq LiveNames THEN NoFlush ELSE Flush(Daemon, Prune(owned))

(* Mutant: the daemon begins with an empty registry. *)
DaemonStartsEmpty ==
    /\ proc[Daemon].st = "off"
    /\ proc' = [proc EXCEPT ![Daemon].st = "up"]
    /\ UNCHANGED <<sessions, file, conns, outbound, backend, commands, typed, faults>>

(* run: ownership is read from the file, and pruned if tmux answers. *)
DaemonStarts ==
    /\ proc[Daemon].st = "off"
    /\ \/ /\ proc' = [proc EXCEPT ![Daemon].st = "up", ![Daemon].owned = file]
          /\ NoFlush
       \/ /\ proc' = [proc EXCEPT ![Daemon].st = "up", ![Daemon].owned = Prune(file)]
          /\ PruneToLive(file)
    /\ UNCHANGED <<sessions, conns, outbound, backend, commands, typed, orphans, limit>>

(* _build_reconcile_frame prunes as it enumerates. *)
Pruned ==
    /\ proc' = [proc EXCEPT ![Daemon].owned = Prune(@), ![Daemon].conn = Len(conns')]
    /\ PruneToLive(proc[Daemon].owned)

(* An event whose send failed is sent first; then the reconcile frame, if   *)
(* tmux answers.                                                            *)
DaemonConnects ==
    /\ IsUp(Daemon) /\ ~Online(Daemon)
    /\ \E first \in 0 .. 1 :
           /\ first <= Len(outbound)
           /\ outbound' = SubSeq(outbound, first + 1, Len(outbound))
           /\ LET drained == SubSeq(outbound, 1, first)
              IN  \/ /\ conns' = Append(conns, NewConn(Daemon,
                                          drained \o <<Reconcile(LiveNames)>>))
                     /\ Pruned
                  \/ /\ conns' = Append(conns, NewConn(Daemon, drained))
                     /\ proc' = [proc EXCEPT ![Daemon].conn = Len(conns')]
                     /\ NoFlush
    /\ UNCHANGED <<sessions, backend, commands, typed, orphans, limit>>

(* A heartbeat's reconcile frame; one that fails changes nothing.  Bound:   *)
(* the wire is empty.                                                       *)
Heartbeat ==
    /\ Online(Daemon) /\ conns[proc[Daemon].conn].wire = <<>>
    /\ conns' = [conns EXCEPT ![proc[Daemon].conn].wire = <<Reconcile(LiveNames)>>]
    /\ proc' = [proc EXCEPT ![Daemon].owned = Prune(@)]
    /\ PruneToLive(proc[Daemon].owned)
    /\ UNCHANGED <<sessions, outbound, backend, commands, typed, orphans, limit>>

DaemonSends ==
    /\ Online(Daemon) /\ outbound # <<>>
    /\ Len(conns[proc[Daemon].conn].wire) < MaxWire
    /\ conns' = [conns EXCEPT ![proc[Daemon].conn].wire = Append(@, Head(outbound))]
    /\ outbound' = Tail(outbound)
    /\ UNCHANGED <<sessions, proc, file, backend, commands, typed, faults>>

(* What the file does not name since a write of it failed. *)
Unsaved ==
    {k \in SessionIds : /\ unsaved /\ sessions[k].alive /\ sessions[k].by = Daemon
                        /\ sessions[k].name \notin file}

(* The daemon dies with its streams, its queue and what it did not write;    *)
(* tmux goes on.                                                             *)
Dies(lostConns, lost) ==
    /\ GoesWrong
    /\ proc' = [proc EXCEPT ![Daemon] = Off]
    /\ outbound' = <<>>
    /\ conns' = lostConns
    /\ orphans' = orphans \cup lost /\ unsaved' = FALSE

DaemonDies ==
    /\ IsUp(Daemon)
    /\ IF Online(Daemon)
       THEN \E n \in 0 .. Len(conns[proc[Daemon].conn].wire) :
                Dies(Closed(proc[Daemon].conn, n), Unsaved)
       ELSE Dies(conns, Unsaved)
    /\ UNCHANGED <<sessions, file, backend, commands, typed, limit>>

(* A connection breaks.  The daemon makes another, an orc run does not. *)
Breaks(p) ==
    /\ Online(p)
    /\ GoesWrong
    /\ \E n \in 0 .. Len(conns[proc[p].conn].wire) :
           conns' = Closed(proc[p].conn, n)
    /\ proc' = [proc EXCEPT ![p].conn = NoConn]
    /\ UNCHANGED <<sessions, file, outbound, backend, commands, typed, orphans, unsaved,
                   limit>>

-----------------------------------------------------------------------------
(* handle_host_command, in the daemon and in an orc run alike. *)

Receives(p, kind) ==
    /\ IsUp(p) /\ Online(p)
    /\ conns[proc[p].conn].inbox # <<>>
    /\ commands[Head(conns[proc[p].conn].inbox)].kind = kind

Next1(p)   == Head(conns[proc[p].conn].inbox)
NameIn(p)  == commands[Next1(p)].name
Taken(p)   == conns' = [conns EXCEPT ![proc[p].conn].inbox = Tail(@)]

(* Mutant: whoever has such a session may type. *)
OwnsAny(p, n) == Exists(n)

(* The daemon asks its registry, an orc run knows the one name it made. *)
Owns(p, n) == IF p = Daemon THEN n \in proc[p].owned ELSE RunName[p] = n

(* Every text comes with the approval, given by a tap or in advance. *)
HandleInject(p) ==
    /\ Receives(p, "inject")
    /\ typed' = IF Owns(p, NameIn(p)) /\ MayType(commands[Next1(p)].text, TRUE)
                   /\ Exists(NameIn(p))
                THEN Append(typed, [command |-> Next1(p), by |-> p,
                                    session |-> Current(NameIn(p))])
                ELSE typed
    /\ Taken(p)
    /\ UNCHANGED <<sessions, proc, file, outbound, backend, commands, faults>>

(* mark_started and mark_stopped write the daemon's file. *)
HandleKill(p) ==
    /\ Receives(p, "kill")
    /\ sessions' = Killed(NameIn(p))
    /\ proc' = [proc EXCEPT ![p].owned = @ \ {NameIn(p)}]
    /\ Flush(p, proc[p].owned \ {NameIn(p)})
    /\ Taken(p)
    /\ UNCHANGED <<outbound, backend, commands, typed, orphans, limit>>

(* session.start.  An orc run has no queue to report the session to. *)
HandleStart(p) ==
    /\ Receives(p, "start")
    /\ LET n == NameIn(p) IN
       \/ /\ NewSession(p, n)
          /\ Flush(p, proc[p].owned \cup {n})
          /\ IF p = Daemon
             THEN /\ proc' = [proc EXCEPT ![p].owned = @ \cup {n}, ![p].stream[n] = 0]
                  /\ outbound' = Append(outbound, Frame("start", p, n, <<>>, 0))
             ELSE /\ proc' = [proc EXCEPT ![p].owned = @ \cup {n}]
                  /\ UNCHANGED outbound
       \/ /\ Exists(n)
          /\ NoFlush
          /\ UNCHANGED <<sessions, proc, outbound>>
    /\ Taken(p)
    /\ UNCHANGED <<backend, commands, typed, orphans, limit>>

(* The daemon dies after new_session, before it could note the name. *)
DiesInStart ==
    /\ Receives(Daemon, "start")
    /\ NewSession(Daemon, NameIn(Daemon))
    /\ Dies(Closed(proc[Daemon].conn, Len(conns[proc[Daemon].conn].wire)),
            Unsaved \cup {Len(sessions) + 1})
    /\ UNCHANGED <<file, backend, commands, typed, limit>>

(* headless.prompt, which every process obeys; drives are InteractiveEngine, *)
(* CodexEngine and HeadlessRun.                                              *)
HandlePrompt(p) ==
    /\ Receives(p, "prompt")
    /\ proc' = [proc EXCEPT ![p].drives = @ + 1]
    /\ Taken(p)
    /\ UNCHANGED <<sessions, file, outbound, backend, commands, typed, faults>>

DriveEnds(p) ==
    /\ proc[p].drives > 0
    /\ proc' = [proc EXCEPT ![p].drives = @ - 1]
    /\ UNCHANGED <<sessions, file, conns, outbound, backend, commands, typed, faults>>

Handles(p) ==
    HandleInject(p) \/ HandleKill(p) \/ HandleStart(p) \/ HandlePrompt(p)

-----------------------------------------------------------------------------
(* The bot: send_host_command, and what leads to it. *)

Send(command) ==
    /\ Len(commands) < limit.commands
    /\ commands' = Append(commands, command)
    /\ conns' = [c \in ConnIds |->
                    IF conns[c].joined
                    THEN [conns[c] EXCEPT !.inbox = Append(@, Len(commands) + 1)]
                    ELSE conns[c]]

(* A text for the terminal of a row, whatever the status of the row. *)
AskInject(f, text) ==
    /\ rows[f].status # "none"
    /\ Send(Command("inject", rows[f].name, text))
    /\ UNCHANGED <<sessions, proc, file, outbound, backend, typed, faults>>

AskLaunch(n) ==
    /\ \A i \in DOMAIN commands : commands[i].name # n
    /\ Send(Command("start", n, {}))
    /\ UNCHANGED <<sessions, proc, file, outbound, backend, typed, faults>>

AskPrompt ==
    /\ Send(Command("prompt", NoRef, {}))
    /\ UNCHANGED <<sessions, proc, file, outbound, backend, typed, faults>>

(* /stop finds a running row, sends the kill, and then writes the status. *)
StopSends(f) ==
    /\ stopping = NoRef /\ rows[f].status = "running"
    /\ Send(Command("kill", rows[f].name, {}))
    /\ stopping' = f
    /\ UNCHANGED <<sessions, proc, file, outbound, rows, recorded, typed, faults>>

StopMarks ==
    /\ stopping # NoRef
    /\ rows' = IF rows[stopping].status = "running"
               THEN [rows EXCEPT ![stopping].status = "stopped"] ELSE rows
    /\ stopping' = NoRef
    /\ UNCHANGED <<sessions, proc, file, conns, outbound, recorded, commands, typed, faults>>

-----------------------------------------------------------------------------
(* The consumer of a connection, which handles one frame at a time, and all *)
(* that arrived even when the connection is gone.                           *)

Arrives(c, kind) == conns[c].wire # <<>> /\ Head(conns[c].wire).kind = kind

Arrival(c) == Head(conns[c].wire)

Handled(c, known) ==
    conns' = [conns EXCEPT ![c].wire = Tail(@), ![c].known = known]

WithStatus(fs, status) ==
    [f \in Refs |-> IF f \in fs THEN [rows[f] EXCEPT !.status = status] ELSE rows[f]]

RowWork == UNCHANGED <<sessions, proc, file, outbound, stopping, commands, typed, faults>>

(* A row there already keeps its status. *)
PtyStart(c) ==
    /\ Arrives(c, "start")
    /\ LET x == Arrival(c) IN
       /\ rows' = [rows EXCEPT ![x.ref] =
                      [status |-> IF @.status = "none" THEN "running" ELSE @.status,
                       name   |-> x.name]]
       /\ Handled(c, conns[c].known \cup {x.name})
    /\ UNCHANGED recorded /\ RowWork

PtyOutput(c) ==
    /\ Arrives(c, "output")
    /\ LET x == Arrival(c) IN
       /\ recorded' = IF x.name \in conns[c].known
                      THEN [recorded EXCEPT ![x.session] = @ \o x.lines]
                      ELSE recorded
       /\ Handled(c, conns[c].known)
    /\ UNCHANGED rows /\ RowWork

PtyEnd(c) ==
    /\ Arrives(c, "end")
    /\ LET x == Arrival(c) IN
       /\ rows' = IF x.name \in conns[c].known THEN WithStatus({x.ref}, "completed") ELSE rows
       /\ Handled(c, conns[c].known \ {x.name})
    /\ UNCHANGED recorded /\ RowWork

(* Mutant: only what this connection announced is reconciled. *)
PtyReconcileKnown(c) ==
    /\ Arrives(c, "reconcile")
    /\ rows' = WithStatus({f \in Refs : /\ rows[f].status = "running"
                                        /\ rows[f].name \in conns[c].known
                                        /\ rows[f].name \notin Arrival(c).live},
                          "completed")
    /\ Handled(c, conns[c].known)
    /\ UNCHANGED recorded /\ RowWork

PtyReconcile(c) ==
    /\ Arrives(c, "reconcile")
    /\ rows' = WithStatus({f \in Refs : /\ rows[f].status = "running"
                                        /\ rows[f].name \notin Arrival(c).live},
                          "completed")
    /\ Handled(c, conns[c].known)
    /\ UNCHANGED recorded /\ RowWork

ReceiveJson(c) == PtyStart(c) \/ PtyOutput(c) \/ PtyEnd(c) \/ PtyReconcile(c)

-----------------------------------------------------------------------------
Next ==
    \/ Program
    \/ \E p \in Procs, n \in Names : Polls(p, n) \/ StreamEnds(p, n)
    \/ \E r \in Runs : RunStarts(r) \/ RunConnects(r) \/ RunLeaves(r)
    \/ DaemonStarts \/ DaemonConnects \/ Heartbeat \/ DaemonSends
    \/ DaemonDies \/ DiesInStart
    \/ \E p \in Procs : Breaks(p) \/ Handles(p) \/ DriveEnds(p)
    \/ \E f \in Refs, text \in Texts : AskInject(f, text)
    \/ \E n \in Launches : AskLaunch(n)
    \/ AskPrompt
    \/ \E f \in Refs : StopSends(f)
    \/ StopMarks
    \/ \E c \in ConnIds : ReceiveJson(c)

Spec == Init /\ [][Next]_vars

(* The daemon is a service that is started again, connects again and beats;  *)
(* tmux answers it in the end; the backend handles what arrives.             *)
FairSpec ==
    /\ Spec
    /\ WF_vars(DaemonStarts) /\ WF_vars(DaemonConnects)
    /\ WF_vars(Heartbeat) /\ WF_vars(DaemonSends)
    /\ WF_vars(\E c \in ConnIds : ReceiveJson(c))

-----------------------------------------------------------------------------
(* Beyond the types: unless a write failed the file names what the daemon    *)
(* owns, commands on their way were sent, and only a process that is up is   *)
(* connected.                                                                *)
TypeOK ==
    /\ SessionsOk
    /\ proc \in [Procs -> ProcType]
    /\ \A p \in Procs : Online(p) => IsUp(p) /\ proc[p].conn \in ConnIds
                                    /\ conns[proc[p].conn].joined
    /\ IsUp(Daemon) /\ ~unsaved => proc[Daemon].owned = file
    /\ \A c \in ConnIds :
           /\ conns[c].known \subseteq Names
           /\ ToSet(conns[c].inbox) \subseteq DOMAIN commands
           /\ conns[c].joined => proc[conns[c].proc].conn = c
    /\ rows \in [Refs -> [status : {"none", "running", "completed", "stopped"},
                          name : Names \cup {NoRef}]]
    /\ stopping \in Refs \cup {NoRef}
    /\ Len(commands) <= limit.commands /\ faultCount \in 0 .. limit.faults

(* A text is typed once, though every process of the host hears of it, into  *)
(* a terminal whose name was used once.                                      *)
TypedOnce ==
    \A i, j \in DOMAIN typed :
        (typed[i].command = typed[j].command /\ i # j)
            => Cardinality(Of(commands[typed[i].command].name)) > 1

(* What the daemon launched it may type into, after its restarts too: unless *)
(* it died in making the session, or with a failed write not made good.      *)
DaemonKeepsItsSessions ==
    IsUp(Daemon) =>
        \A k \in SessionIds \ orphans :
            (sessions[k].alive /\ sessions[k].by = Daemon)
                => sessions[k].name \in proc[Daemon].owned

(* A line is recorded at most once, and in order, however the screen moved   *)
(* and whatever connections did, in a terminal whose name was used once.     *)
LinesOnceInOrder ==
    \A k \in SessionIds :
        Cardinality(Of(sessions[k].name)) = 1
            => \A i, j \in DOMAIN recorded[k] :
                   i < j => recorded[k][i] < recorded[k][j]

(* The row of a living session is completed only by a frame older than the   *)
(* session.                                                                  *)
LiveRowEndsOnOldNews ==
    [][\A f \in Refs :
          (/\ rows[f].status = "running" /\ rows'[f].status = "completed"
           /\ Exists(rows[f].name))
              => \E c \in ConnIds :
                     /\ conns'[c].wire # conns[c].wire
                     /\ Arrival(c).asOf < Current(rows[f].name)]_vars

(* The end of a session shows in its row, though the frame that reports it   *)
(* may be lost or come over a connection that does not know the session.     *)
EndIsSeen ==
    \A f \in Refs :
        (rows[f].status = "running" /\ ~Exists(rows[f].name))
            ~> (rows[f].status # "running" \/ Exists(rows[f].name))

(* wsclient.py:43-44 says of the lock of a session that "two prompts to the   *)
(* same session cannot overlap".                                             *)
DrivesNeverOverlap ==
    \A p, q \in Procs : (proc[p].drives > 0 /\ proc[q].drives > 0) => p = q
==============================================================================
