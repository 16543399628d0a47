--------------------------- MODULE Terminals_proofs ---------------------------
(***************************************************************************)
(* The terminals of a host, for any number of orc runs, sessions, commands *)
(* and lines, however often the daemon dies and connections break.         *)
(***************************************************************************)
EXTENDS Terminals, SequenceTheorems, FiniteSetTheorems, TLAPS

-----------------------------------------------------------------------------
(* A part of a sequence.                                                     *)
LEMMA PartOf ==
    ASSUME NEW S, NEW s \in Seq(S), NEW m \in 1 .. Len(s) + 1, NEW n \in 0 .. Len(s)
    PROVE  /\ SubSeq(s, m, n) \in Seq(S) /\ Len(s) \in Nat
           /\ Len(SubSeq(s, m, n)) = IF m <= n THEN n - m + 1 ELSE 0
           /\ \A i \in 1 .. n - m + 1 : SubSeq(s, m, n)[i] = s[m + i - 1]
<1>1. Len(s) \in Nat /\ \A i \in 1 .. Len(s) : s[i] \in S
  BY LenProperties, ElementOfSeq
<1>2. m \in Int /\ n \in Int /\ \A i \in m .. n : s[i] \in S
  BY <1>1
<1> QED BY <1>1, <1>2, SubSeqProperties

-----------------------------------------------------------------------------
(* Sessions.  tmux has one living session of a name. *)
Session ==
    [name : Names, by : Procs, alive : BOOLEAN, printed : 0 .. MaxLines,
     screen : Seq(1 .. MaxLines)]

LiveOnce ==
    \A i, j \in SessionIds :
        (sessions[i].alive /\ sessions[j].alive /\ sessions[i].name = sessions[j].name)
            => i = j

SessionsSane == SessionsOk /\ LiveOnce

(* What no step takes back: a session was made under its name by its maker,  *)
(* and it ends once.                                                         *)
SessionsGrow ==
    /\ Len(sessions) <= Len(sessions')
    /\ \A k \in SessionIds :
          /\ sessions'[k].name = sessions[k].name /\ sessions'[k].by = sessions[k].by
          /\ sessions'[k].alive => sessions[k].alive

Made(p, n) == \E k \in SessionIds : sessions[k].by = p /\ sessions[k].name = n

LEMMA Lengths ==
    ASSUME SessionsSane
    PROVE  /\ Len(sessions) \in Nat /\ DOMAIN sessions = SessionIds
           /\ sessions \in Seq(Session) /\ \A k \in SessionIds : sessions[k] \in Session
<1>1. sessions \in Seq(Session)
  BY DEF SessionsSane, SessionsOk, Session
<1>2. Len(sessions) \in Nat /\ DOMAIN sessions = SessionIds
  BY <1>1, LenProperties DEF SessionIds
<1>3. \A k \in SessionIds : sessions[k] \in Session
  BY <1>1, <1>2, ElementOfSeq DEF SessionIds
<1> QED BY <1>1, <1>2, <1>3

LEMMA MadeStays ==
    ASSUME SessionsSane, SessionsGrow, SessionsSane', NEW p, NEW n, Made(p, n)
    PROVE  Made(p, n)'
<1>1. PICK k \in SessionIds : sessions[k].by = p /\ sessions[k].name = n
  BY DEF Made
<1>2. Len(sessions) \in Nat /\ Len(sessions') \in Nat
  BY Lengths DEF SessionsSane, SessionsOk
<1>3. k \in SessionIds'
  BY <1>2 DEF SessionIds, SessionsGrow
<1> QED BY <1>1, <1>3 DEF Made, SessionsGrow

LEMMA CurrentIs ==
    ASSUME NEW n, Exists(n)
    PROVE  Current(n) \in SessionIds /\ sessions[Current(n)].name = n /\ sessions[Current(n)].alive
BY DEF Exists, LiveNames, Current

(* new_session. *)
LEMMA SessionMade ==
    ASSUME SessionsSane, NEW p \in Procs, NEW n \in Names, NewSession(p, n)
    PROVE  /\ SessionsSane' /\ SessionsGrow
           /\ Len(sessions') = Len(sessions) + 1
           /\ \A k \in SessionIds : sessions'[k] = sessions[k]
           /\ sessions'[Len(sessions) + 1] =
                  [name |-> n, by |-> p, alive |-> TRUE, printed |-> 0, screen |-> <<>>]
           /\ SessionIds' = SessionIds \cup {Len(sessions) + 1}
           /\ Len(sessions) + 1 \notin SessionIds
           /\ Made(p, n)'
<1> DEFINE new == [name |-> n, by |-> p, alive |-> TRUE, printed |-> 0, screen |-> <<>>]
<1>1. Len(sessions) \in Nat /\ sessions \in Seq(Session) /\ \A k \in SessionIds : sessions[k] \in Session
  BY Lengths
<1>2. new \in Session /\ sessions' = Append(sessions, new) /\ Len(sessions) < MaxSessions
  BY PtySessionsAssumption DEF NewSession, Session
<1> HIDE DEF new
<1>3. /\ sessions' \in Seq(Session) /\ Len(sessions') = Len(sessions) + 1
      /\ \A k \in 1 .. Len(sessions) : sessions'[k] = sessions[k]
      /\ sessions'[Len(sessions) + 1] = new
  BY <1>1, <1>2, AppendProperties
<1>4. /\ SessionIds' = SessionIds \cup {Len(sessions) + 1}
      /\ Len(sessions) + 1 \notin SessionIds
      /\ \A k \in SessionIds : sessions'[k] = sessions[k]
  BY <1>1, <1>3 DEF SessionIds
<1>5. new.name = n /\ new.by = p /\ new.alive = TRUE
  BY DEF new
<1>6. LiveOnce'
  <2> SUFFICES ASSUME NEW i \in SessionIds', NEW j \in SessionIds',
                      sessions'[i].alive, sessions'[j].alive,
                      sessions'[i].name = sessions'[j].name
               PROVE  i = j
    BY DEF LiveOnce
  <2>1. ASSUME NEW k \in SessionIds, sessions'[k].alive PROVE sessions'[k].name # n
    BY <1>4, <2>1 DEF NewSession, Exists, LiveNames
  <2>2. CASE i \in SessionIds /\ j \in SessionIds
    BY <1>4, <2>2 DEF SessionsSane, LiveOnce
  <2>3. CASE i \notin SessionIds /\ j \in SessionIds
    BY <1>3, <1>4, <1>5, <2>1, <2>3
  <2>4. CASE i \in SessionIds /\ j \notin SessionIds
    BY <1>3, <1>4, <1>5, <2>1, <2>4
  <2>5. CASE i \notin SessionIds /\ j \notin SessionIds
    BY <1>4, <2>5
  <2> QED BY <2>2, <2>3, <2>4, <2>5
<1>7. SessionsOk'
  BY <1>1, <1>2, <1>3, PtySessionsAssumption DEF SessionsOk, Session
<1>8. Made(p, n)'
  BY <1>3, <1>4, <1>5 DEF Made
<1> QED BY <1>1, <1>3, <1>4, <1>6, <1>7, <1>8 DEF SessionsSane, SessionsGrow, new

(* One session changed, and did not come to life. *)
LEMMA SessionChanged ==
    ASSUME SessionsSane, NEW k \in SessionIds, NEW x \in Session,
           sessions' = [sessions EXCEPT ![k] = x],
           x.name = sessions[k].name, x.by = sessions[k].by, x.alive => sessions[k].alive
    PROVE  /\ SessionsSane' /\ SessionsGrow /\ SessionIds' = SessionIds
           /\ Len(sessions') = Len(sessions)
           /\ \A j \in SessionIds : sessions'[j] = IF j = k THEN x ELSE sessions[j]
<1>1. Len(sessions) \in Nat /\ sessions \in Seq(Session) /\ DOMAIN sessions = SessionIds
  BY Lengths
<1>2. sessions' \in Seq(Session) /\ Len(sessions') = Len(sessions)
  BY <1>1, ExceptSeq DEF SessionIds
<1>3. \A j \in SessionIds : sessions'[j] = IF j = k THEN x ELSE sessions[j]
  BY <1>1
<1>4. SessionIds' = SessionIds
  BY <1>2 DEF SessionIds
<1>5. SessionsOk'
  BY <1>2 DEF SessionsSane, SessionsOk, Session
<1>6. \A j \in SessionIds : /\ sessions'[j].name = sessions[j].name
                            /\ sessions'[j].by = sessions[j].by
                            /\ sessions'[j].alive => sessions[j].alive
  BY <1>3
<1>7. LiveOnce'
  BY <1>4, <1>6 DEF SessionsSane, LiveOnce
<1> QED BY <1>1, <1>2, <1>3, <1>4, <1>5, <1>6, <1>7 DEF SessionsSane, SessionsGrow

(* kill. *)
LEMMA SessionKilled ==
    ASSUME SessionsSane, NEW n, sessions' = Killed(n)
    PROVE  /\ SessionsSane' /\ SessionsGrow /\ SessionIds' = SessionIds
           /\ Len(sessions') = Len(sessions)
           /\ \A k \in SessionIds : sessions'[k].alive => sessions[k].alive /\ sessions[k].name # n
           /\ \A k \in SessionIds : /\ sessions'[k].printed = sessions[k].printed
                                    /\ sessions'[k].screen = sessions[k].screen
<1>1. Len(sessions) \in Nat /\ \A k \in SessionIds : sessions[k] \in Session
  BY Lengths
<1>2. CASE Exists(n)
  <2>1. PICK k \in SessionIds : k = Current(n)
    BY <1>2, CurrentIs
  <2>2. sessions[k].name = n /\ sessions[k].alive
    BY <1>2, <2>1, CurrentIs
  <2>3. PICK x : x = [sessions[k] EXCEPT !.alive = FALSE]
    OBVIOUS
  <2>4. sessions' = [sessions EXCEPT ![k] = x]
    BY <1>2, <2>1, <2>3 DEF Killed
  <2>5. /\ x \in Session /\ x.name = sessions[k].name /\ x.by = sessions[k].by
        /\ x.alive = FALSE /\ x.printed = sessions[k].printed /\ x.screen = sessions[k].screen
    BY <1>1, <2>3 DEF Session
  <2>6. /\ SessionsSane' /\ SessionsGrow /\ SessionIds' = SessionIds
        /\ Len(sessions') = Len(sessions)
        /\ \A j \in SessionIds : sessions'[j] = IF j = k THEN x ELSE sessions[j]
    BY <2>4, <2>5, SessionChanged
  <2>7. \A j \in SessionIds : sessions'[j].alive => sessions[j].alive /\ sessions[j].name # n
    BY <2>2, <2>5, <2>6 DEF SessionsSane, LiveOnce
  <2> QED BY <2>5, <2>6, <2>7
<1>3. CASE ~Exists(n)
  <2>1. sessions' = sessions
    BY <1>3 DEF Killed
  <2>2. \A k \in SessionIds : sessions[k].alive => sessions[k].name # n
    BY <1>3 DEF Exists, LiveNames
  <2>3. SessionsSane' /\ SessionIds' = SessionIds
    BY <2>1 DEF SessionsSane, SessionsOk, LiveOnce, SessionIds
  <2> QED BY <1>1, <2>1, <2>2, <2>3 DEF SessionsGrow
<1> QED BY <1>2, <1>3

(* The program in a session prints a line, erases one or exits. *)
LEMMA ProgramRuns ==
    ASSUME SessionsSane, NEW k \in SessionIds, Prints(k) \/ Erases(k) \/ Exits(k)
    PROVE  /\ SessionsSane' /\ SessionsGrow /\ SessionIds' = SessionIds
           /\ Len(sessions') = Len(sessions)
           /\ \A j \in SessionIds \ {k} : sessions'[j] = sessions[j]
<1>1. /\ sessions[k] \in Session /\ sessions[k].screen \in Seq(1 .. MaxLines)
      /\ sessions[k].printed \in 0 .. MaxLines
  BY Lengths DEF Session
<1>2. \E x \in Session : /\ sessions' = [sessions EXCEPT ![k] = x] /\ x.name = sessions[k].name
                         /\ x.by = sessions[k].by /\ (x.alive => sessions[k].alive)
  <2>1. CASE Prints(k)
    <3>1. PICK line \in 1 .. MaxLines : line = sessions[k].printed + 1
      BY <1>1, <2>1, PtySessionsAssumption DEF Prints
    <3>2. PICK long : long = Append(sessions[k].screen, line)
      OBVIOUS
    <3>3. long \in Seq(1 .. MaxLines) /\ long # <<>>
      BY <1>1, <3>1, <3>2, AppendProperties
    <3>4. Tail(long) \in Seq(1 .. MaxLines)
      BY <3>3, HeadTailProperties
    <3>5. PICK screen \in Seq(1 .. MaxLines) :
              screen = IF Len(long) > History THEN Tail(long) ELSE long
      BY <3>3, <3>4
    <3>6. PICK x : x = [sessions[k] EXCEPT !.printed = line, !.screen = screen]
      OBVIOUS
    <3>7. sessions' = [sessions EXCEPT ![k] = x]
      BY <1>1, <2>1, <3>1, <3>2, <3>5, <3>6, Lengths DEF Prints, Session
    <3>8. line \in 0 .. MaxLines
      BY <3>1, PtySessionsAssumption
    <3>9. x \in Session /\ x.name = sessions[k].name /\ x.by = sessions[k].by /\ x.alive = sessions[k].alive
      BY <1>1, <3>5, <3>6, <3>8 DEF Session
    <3> QED BY <3>7, <3>9
  <2>2. CASE Erases(k)
    <3>1. Len(sessions[k].screen) \in Nat \ {0}
      BY <1>1, <2>2, EmptySeq, LenProperties DEF Erases
    <3> PICK old \in Seq(1 .. MaxLines) : old = sessions[k].screen
      BY <1>1
    <3> PICK l \in Nat \ {0} : l = Len(old)
      BY <3>1
    <3>2. l - 1 \in Nat /\ l - 1 \in 0 .. Len(old) /\ 1 \in 1 .. Len(old) + 1
      OBVIOUS
    <3>3. SubSeq(old, 1, l - 1) \in Seq(1 .. MaxLines)
      BY <3>2, PartOf
    <3>4. PICK screen \in Seq(1 .. MaxLines) : screen = Front(sessions[k].screen)
      BY <3>2, <3>3 DEF Front
    <3>5. PICK x : x = [sessions[k] EXCEPT !.screen = screen]
      OBVIOUS
    <3>6. sessions' = [sessions EXCEPT ![k] = x]
      BY <2>2, <3>4, <3>5 DEF Erases
    <3>7. x \in Session /\ x.name = sessions[k].name /\ x.by = sessions[k].by /\ x.alive = sessions[k].alive
      BY <1>1, <3>4, <3>5 DEF Session
    <3> QED BY <3>6, <3>7
  <2>3. CASE Exits(k)
    <3>1. PICK x : x = [sessions[k] EXCEPT !.alive = FALSE]
      OBVIOUS
    <3>2. sessions' = [sessions EXCEPT ![k] = x]
      BY <2>3, <3>1 DEF Exits
    <3>3. x \in Session /\ x.name = sessions[k].name /\ x.by = sessions[k].by /\ x.alive = FALSE
      BY <1>1, <3>1 DEF Session
    <3> QED BY <3>2, <3>3
  <2> QED BY <2>1, <2>2, <2>3
<1>3. PICK x \in Session : /\ sessions' = [sessions EXCEPT ![k] = x] /\ x.name = sessions[k].name
                           /\ x.by = sessions[k].by /\ (x.alive => sessions[k].alive)
  BY <1>2
<1> QED BY <1>3, SessionChanged

-----------------------------------------------------------------------------
(* Processes and connections. *)
Process ==
    [st : {"off", "made", "up", "gone"}, conn : Nat, owned : SUBSET Names,
     stream : [Names -> {NoStream} \cup Nat], drives : Int]

FrameSet ==
    [kind : {"start", "output", "end", "reconcile"}, ref : Refs \cup {NoRef},
     name : Names \cup {NoRef}, lines : Seq(1 .. MaxLines), session : Nat,
     live : SUBSET Names, asOf : Nat]

ConnSet ==
    [proc : Procs, joined : BOOLEAN, known : SUBSET (Names \cup {NoRef}),
     wire : Seq(FrameSet), inbox : Seq(Nat)]

CommandSet ==
    {x \in [kind : {"inject", "kill", "start", "prompt"}, name : Names \cup {NoRef},
            text : SUBSET Traits] : x.kind = "start" => x.name \in Names}

RowSet ==
    [status : {"none", "running", "completed", "stopped"}, name : Names \cup {NoRef}]

HostShape ==
    /\ proc \in [Procs -> Process]
    /\ conns \in Seq(ConnSet) /\ outbound \in Seq(FrameSet)
    /\ commands \in Seq(CommandSet) /\ rows \in [Refs -> RowSet]

(* A process that is online is up, and its connection is the only one in the *)
(* group; the commands on their way are in the order they were sent.         *)
OnlineOk(p) ==
    Online(p) => /\ IsUp(p) /\ proc[p].conn \in ConnIds
                 /\ conns[proc[p].conn].proc = p /\ conns[proc[p].conn].joined

InboxOk(c) ==
    /\ conns[c].joined => proc[conns[c].proc].conn = c
    /\ ~conns[c].joined => conns[c].inbox = <<>>
    /\ \A i \in 1 .. Len(conns[c].inbox) : conns[c].inbox[i] \in 1 .. Len(commands)
    /\ \A i, j \in 1 .. Len(conns[c].inbox) : i < j => conns[c].inbox[i] < conns[c].inbox[j]

(* An orc run has one connection. *)
RunConn(c) ==
    conns[c].proc \in Runs => /\ proc[conns[c].proc].st \in {"up", "gone"}
                              /\ \A d \in ConnIds : conns[d].proc = conns[c].proc => d = c

LinkInv ==
    /\ HostShape
    /\ \A p \in Procs : OnlineOk(p)
    /\ \A c \in ConnIds : InboxOk(c) /\ RunConn(c)

LEMMA HostFacts ==
    ASSUME HostShape
    PROVE  /\ Len(conns) \in Nat /\ DOMAIN conns = ConnIds
           /\ \A c \in ConnIds : conns[c] \in ConnSet
           /\ \A p \in Procs : proc[p] \in Process
           /\ Len(commands) \in Nat /\ Len(outbound) \in Nat
<1>1. Len(conns) \in Nat /\ DOMAIN conns = 1 .. Len(conns)
  BY LenProperties DEF HostShape
<1>2. \A c \in 1 .. Len(conns) : conns[c] \in ConnSet
  BY <1>1, ElementOfSeq DEF HostShape
<1>3. Len(commands) \in Nat /\ Len(outbound) \in Nat
  BY LenProperties DEF HostShape
<1> QED BY <1>1, <1>2, <1>3 DEF HostShape, ConnIds

(* One connection changed. *)
LEMMA ConnUpdate ==
    ASSUME HostShape, NEW c \in ConnIds, NEW x \in ConnSet, conns' = [conns EXCEPT ![c] = x]
    PROVE  /\ conns' \in Seq(ConnSet) /\ ConnIds' = ConnIds
           /\ \A d \in ConnIds : conns'[d] = IF d = c THEN x ELSE conns[d]
<1>1. Len(conns) \in Nat /\ DOMAIN conns = ConnIds /\ conns \in Seq(ConnSet)
  BY HostFacts DEF HostShape
<1>2. conns' \in Seq(ConnSet) /\ Len(conns') = Len(conns)
  BY <1>1, ExceptSeq DEF ConnIds
<1> QED BY <1>1, <1>2 DEF ConnIds

-----------------------------------------------------------------------------
(* What a step does to processes and connections, seen from the group: which *)
(* process is online over which connection, and which commands are on the    *)
(* way.  Frames on the wire and what a connection knows do not matter here.  *)
SameOnline(p) == proc'[p].st = proc[p].st /\ proc'[p].conn = proc[p].conn

SameInbox(c) ==
    /\ conns'[c].proc = conns[c].proc /\ conns'[c].joined = conns[c].joined
    /\ conns'[c].inbox = conns[c].inbox

(* Nobody comes or goes.                                                     *)
NobodyMoves ==
    /\ ConnIds' = ConnIds /\ commands' = commands
    /\ \A p \in Procs : SameOnline(p)
    /\ \A c \in ConnIds : SameInbox(c)

(* p begins or ends without a connection. *)
Changes(p) ==
    /\ ~Online(p) /\ proc'[p].conn = NoConn
    /\ proc[p].st = "off" \/ proc'[p].st \in {"up", "gone"} \/ p = Daemon
    /\ proc[p].st \in {"up", "gone"} => (p \in Runs => proc'[p].st \in {"up", "gone"})
    /\ ConnIds' = ConnIds /\ commands' = commands
    /\ \A q \in Procs \ {p} : SameOnline(q)
    /\ \A c \in ConnIds : SameInbox(c)

(* p leaves its connection. *)
Leaves(p) ==
    /\ Online(p) /\ proc'[p].conn = NoConn
    /\ p \in Runs => proc'[p].st \in {"up", "gone"}
    /\ ConnIds' = ConnIds /\ commands' = commands
    /\ \A q \in Procs \ {p} : SameOnline(q)
    /\ \A c \in ConnIds \ {proc[p].conn} : SameInbox(c)
    /\ conns'[proc[p].conn].proc = p /\ ~conns'[proc[p].conn].joined
    /\ conns'[proc[p].conn].inbox = <<>>

(* p makes a connection. *)
Joins(p) ==
    /\ ~Online(p) /\ proc'[p].st = "up" /\ proc'[p].conn = Len(conns) + 1
    /\ p \in Runs => proc[p].st = "made"
    /\ Len(conns') = Len(conns) + 1 /\ commands' = commands
    /\ \A q \in Procs \ {p} : SameOnline(q)
    /\ \A c \in ConnIds : SameInbox(c)
    /\ conns'[Len(conns) + 1].proc = p /\ conns'[Len(conns) + 1].joined
    /\ conns'[Len(conns) + 1].inbox = <<>>

(* p takes a command, *)
TakesCommand(p) ==
    /\ Online(p) /\ conns[proc[p].conn].inbox # <<>>
    /\ ConnIds' = ConnIds /\ commands' = commands
    /\ \A q \in Procs : SameOnline(q)
    /\ \A c \in ConnIds \ {proc[p].conn} : SameInbox(c)
    /\ conns'[proc[p].conn].proc = conns[proc[p].conn].proc
    /\ conns'[proc[p].conn].joined = conns[proc[p].conn].joined
    /\ conns'[proc[p].conn].inbox = Tail(conns[proc[p].conn].inbox)

(* and the backend sends one. *)
Sends(command) ==
    /\ ConnIds' = ConnIds /\ proc' = proc
    /\ commands' = Append(commands, command)
    /\ \A c \in ConnIds :
          conns'[c] = IF conns[c].joined
                      THEN [conns[c] EXCEPT !.inbox = Append(@, Len(commands) + 1)]
                      ELSE conns[c]

(* The commands on the way stay in order where nothing moves. *)
LEMMA SameInboxOk ==
    ASSUME NEW c, InboxOk(c), SameInbox(c), commands' = commands,
           conns'[c].joined => proc'[conns'[c].proc].conn = c
    PROVE  InboxOk(c)'
<1>1. PICK box : box = conns[c].inbox
  OBVIOUS
<1>2. conns'[c].inbox = box /\ (~conns'[c].joined => box = <<>>)
  BY <1>1 DEF InboxOk, SameInbox
<1>3. /\ \A i \in 1 .. Len(box) : box[i] \in 1 .. Len(commands')
      /\ \A i, j \in 1 .. Len(box) : i < j => box[i] < box[j]
  BY <1>1 DEF InboxOk
<1> QED BY <1>2, <1>3 DEF InboxOk

LEMMA NobodyMovesLinks ==
    ASSUME LinkInv, HostShape', NobodyMoves
    PROVE  LinkInv'
<1>1. \A c \in ConnIds : conns[c].proc \in Procs
  BY HostFacts DEF LinkInv, ConnSet
<1>2. ASSUME NEW p \in Procs PROVE OnlineOk(p)'
  BY <1>2 DEF LinkInv, NobodyMoves, SameOnline, SameInbox, OnlineOk, Online, IsUp
<1>3. ASSUME NEW c \in ConnIds PROVE InboxOk(c)'
  <2>1. InboxOk(c) /\ SameInbox(c) /\ commands' = commands
    BY DEF LinkInv, NobodyMoves
  <2>2. conns'[c].joined => proc'[conns'[c].proc].conn = c
    BY <1>1, <2>1 DEF NobodyMoves, SameOnline, SameInbox, InboxOk
  <2> QED BY <2>1, <2>2, SameInboxOk
<1>4. ASSUME NEW c \in ConnIds PROVE RunConn(c)'
  BY <1>1, <1>4 DEF LinkInv, NobodyMoves, SameOnline, SameInbox, RunConn
<1> QED BY <1>2, <1>3, <1>4 DEF LinkInv, NobodyMoves

LEMMA ChangesLinks ==
    ASSUME LinkInv, HostShape', NEW p \in Procs, Changes(p)
    PROVE  LinkInv'
<1>1. \A c \in ConnIds : conns[c].proc \in Procs
  BY HostFacts DEF LinkInv, ConnSet
<1>2. \A c \in ConnIds : conns[c].joined => conns[c].proc # p
  BY HostFacts DEF LinkInv, InboxOk, Changes, Online, NoConn, ConnIds
<1>3. ASSUME NEW q \in Procs PROVE OnlineOk(q)'
  BY <1>2, <1>3 DEF LinkInv, Changes, SameOnline, SameInbox, OnlineOk, Online, IsUp
<1>4. ASSUME NEW c \in ConnIds PROVE InboxOk(c)'
  <2>1. InboxOk(c) /\ SameInbox(c) /\ commands' = commands
    BY DEF LinkInv, Changes
  <2>2. conns'[c].joined => proc'[conns'[c].proc].conn = c
    BY <1>1, <1>2, <2>1 DEF Changes, SameOnline, SameInbox, InboxOk
  <2> QED BY <2>1, <2>2, SameInboxOk
<1>5. ASSUME NEW c \in ConnIds PROVE RunConn(c)'
  BY <1>1, <1>5 DEF LinkInv, Changes, SameOnline, SameInbox, RunConn
<1> QED BY <1>3, <1>4, <1>5 DEF LinkInv, Changes

LEMMA LeavesLinks ==
    ASSUME LinkInv, HostShape', NEW p \in Procs, Leaves(p)
    PROVE  LinkInv'
<1>1. \A c \in ConnIds : conns[c].proc \in Procs
  BY HostFacts DEF LinkInv, ConnSet
<1>2. /\ proc[p].conn \in ConnIds /\ conns[proc[p].conn].proc = p /\ IsUp(p)
      /\ \A c \in ConnIds \ {proc[p].conn} : conns[c].joined => conns[c].proc # p
  BY DEF LinkInv, OnlineOk, InboxOk, Leaves
<1>3. ASSUME NEW q \in Procs PROVE OnlineOk(q)'
  <2>1. CASE q = p
    BY <2>1 DEF Leaves, OnlineOk, Online
  <2>2. CASE q # p
    BY <1>2, <2>2 DEF LinkInv, Leaves, SameOnline, SameInbox, OnlineOk, Online, IsUp
  <2> QED BY <2>1, <2>2
<1>4. ASSUME NEW c \in ConnIds PROVE InboxOk(c)'
  <2>1. CASE c = proc[p].conn
    <3>1. Len(conns'[c].inbox) = 0 /\ ~conns'[c].joined /\ conns'[c].inbox = <<>>
      BY <2>1 DEF Leaves
    <3> QED BY <3>1 DEF InboxOk
  <2>2. CASE c # proc[p].conn
    <3>1. InboxOk(c) /\ SameInbox(c) /\ commands' = commands
      BY <2>2 DEF LinkInv, Leaves
    <3>2. conns'[c].joined => proc'[conns'[c].proc].conn = c
      BY <1>1, <1>2, <2>2, <3>1 DEF Leaves, SameOnline, SameInbox, InboxOk
    <3> QED BY <3>1, <3>2, SameInboxOk
  <2> QED BY <2>1, <2>2
<1>5. \A c \in ConnIds : conns'[c].proc = conns[c].proc
  BY <1>2 DEF Leaves, SameInbox
<1>6. \A q \in Runs : proc[q].st \in {"up", "gone"} => proc'[q].st \in {"up", "gone"}
  BY TerminalsAssumption DEF Leaves, SameOnline
<1>7. ASSUME NEW c \in ConnIds PROVE RunConn(c)'
  BY <1>5, <1>6, <1>7 DEF LinkInv, Leaves, RunConn
<1> QED BY <1>3, <1>4, <1>7 DEF LinkInv, Leaves

LEMMA JoinsLinks ==
    ASSUME LinkInv, HostShape', NEW p \in Procs, Joins(p)
    PROVE  LinkInv'
<1>1. \A c \in ConnIds : conns[c].proc \in Procs
  BY HostFacts DEF LinkInv, ConnSet
<1>2. PICK n \in Nat : n = Len(conns)
  BY HostFacts DEF LinkInv
<1>3. ConnIds = 1 .. n /\ ConnIds' = 1 .. n + 1 /\ n + 1 \notin ConnIds
  BY <1>2 DEF Joins, ConnIds
<1>4. \A c \in ConnIds : conns[c].joined => conns[c].proc # p
  BY <1>3 DEF LinkInv, InboxOk, Joins, Online, NoConn
<1>5. ASSUME NEW q \in Procs PROVE OnlineOk(q)'
  <2>1. CASE q = p
    BY <1>2, <1>3, <2>1 DEF Joins, OnlineOk, IsUp
  <2>2. CASE q # p
    <3>1. SameOnline(q) /\ OnlineOk(q)
      BY <2>2 DEF LinkInv, Joins
    <3>2. ASSUME Online(q) PROVE SameInbox(proc[q].conn) /\ proc[q].conn \in ConnIds'
      BY <1>3, <3>1, <3>2 DEF Joins, OnlineOk
    <3> QED BY <3>1, <3>2 DEF SameOnline, SameInbox, OnlineOk, Online, IsUp
  <2> QED BY <2>1, <2>2
<1>6. ASSUME NEW c \in ConnIds' PROVE InboxOk(c)'
  <2>1. CASE c = n + 1
    <3>1. conns'[c].proc = p /\ conns'[c].joined /\ conns'[c].inbox = <<>> /\ proc'[p].conn = c
      BY <1>2, <2>1 DEF Joins
    <3>2. Len(conns'[c].inbox) = 0
      BY <3>1
    <3> QED BY <3>1, <3>2 DEF InboxOk
  <2>2. CASE c # n + 1
    <3>1. c \in ConnIds
      BY <1>3, <2>2
    <3>2. InboxOk(c) /\ SameInbox(c) /\ commands' = commands
      BY <3>1 DEF LinkInv, Joins
    <3>3. conns'[c].joined => proc'[conns'[c].proc].conn = c
      BY <1>1, <1>4, <3>1, <3>2 DEF Joins, SameOnline, SameInbox, InboxOk
    <3> QED BY <3>2, <3>3, SameInboxOk
  <2> QED BY <2>1, <2>2
<1>7. ASSUME NEW c \in ConnIds' PROVE RunConn(c)'
  <2>1. \A d \in ConnIds : conns'[d].proc = conns[d].proc
    BY DEF Joins, SameInbox
  <2>2. p \in Runs => \A d \in ConnIds : conns[d].proc # p
    BY DEF LinkInv, RunConn, Joins
  <2>3. \A d \in ConnIds' : conns'[d].proc = p /\ p \in Runs => d = n + 1
    BY <1>3, <2>1, <2>2
  <2>4. CASE conns'[c].proc = p
    BY <2>3, <2>4 DEF RunConn, Joins
  <2>5. CASE conns'[c].proc # p
    <3>1. conns'[n + 1].proc = p
      BY <1>2 DEF Joins
    <3>2. c \in ConnIds /\ conns'[c].proc = conns[c].proc /\ conns[c].proc \in Procs
      BY <1>1, <1>3, <2>1, <2>5, <3>1
    <3>3. \A d \in ConnIds' : conns'[d].proc = conns'[c].proc => d \in ConnIds
      BY <1>3, <2>5, <3>1
    <3>4. proc'[conns[c].proc].st = proc[conns[c].proc].st
      BY <2>5, <3>2 DEF Joins, SameOnline
    <3> QED BY <2>1, <3>2, <3>3, <3>4 DEF LinkInv, RunConn
  <2> QED BY <2>4, <2>5
<1> QED BY <1>5, <1>6, <1>7 DEF LinkInv

LEMMA TakesLinks ==
    ASSUME LinkInv, HostShape', NEW p \in Procs, TakesCommand(p)
    PROVE  LinkInv'
<1>1. \A c \in ConnIds : conns[c].proc \in Procs
  BY HostFacts DEF LinkInv, ConnSet
<1>2. PICK d \in ConnIds : d = proc[p].conn /\ conns[d].inbox \in Seq(Nat) /\ conns[d].inbox # <<>>
  BY HostFacts DEF LinkInv, OnlineOk, TakesCommand, ConnSet
<1> PICK box \in Seq(Nat) : box = conns[d].inbox /\ box # <<>>
  BY <1>2
<1>3. PICK m \in Nat \ {0} : m = Len(box) /\ m = Len(conns[d].inbox)
  BY EmptySeq, LenProperties
<1> PICK rest : rest = Tail(box)
  OBVIOUS
<1>r. /\ Len(rest) = m - 1
      /\ \A i \in 1 .. m - 1 : rest[i] = box[i + 1]
  BY <1>3, HeadTailProperties
<1>4. /\ Len(conns'[d].inbox) = m - 1
      /\ \A i \in 1 .. m - 1 : conns'[d].inbox[i] = conns[d].inbox[i + 1]
  BY <1>2, <1>r DEF TakesCommand
<1>5. \A c \in ConnIds : conns'[c].proc = conns[c].proc /\ conns'[c].joined = conns[c].joined
  BY <1>2 DEF TakesCommand, SameInbox
<1>6. ASSUME NEW q \in Procs PROVE OnlineOk(q)'
  BY <1>5, <1>6 DEF LinkInv, TakesCommand, SameOnline, OnlineOk, Online, IsUp
<1>7. ASSUME NEW c \in ConnIds PROVE InboxOk(c)'
  <2>1. CASE c = d
    <3>1. /\ \A i \in 1 .. m : conns[d].inbox[i] \in 1 .. Len(commands)
          /\ \A i, j \in 1 .. m : i < j => conns[d].inbox[i] < conns[d].inbox[j]
          /\ conns[d].joined
      BY <1>2, <1>3 DEF LinkInv, InboxOk, OnlineOk, TakesCommand
    <3>2. \A i \in 1 .. m - 1 : conns'[d].inbox[i] \in 1 .. Len(commands)
      <4> SUFFICES ASSUME NEW i \in 1 .. m - 1 PROVE conns'[d].inbox[i] \in 1 .. Len(commands)
        OBVIOUS
      <4>1. i + 1 \in 1 .. m
        OBVIOUS
      <4> QED BY <1>4, <3>1, <4>1
    <3>3. \A i, j \in 1 .. m - 1 : i < j => conns'[d].inbox[i] < conns'[d].inbox[j]
      BY <1>4, <3>1
    <3>4. commands' = commands /\ proc'[conns[d].proc].conn = d /\ conns'[d].joined
      BY <1>1, <1>2, <1>5, <3>1 DEF LinkInv, InboxOk, TakesCommand, SameOnline
    <3> QED BY <1>4, <1>5, <2>1, <3>2, <3>3, <3>4 DEF InboxOk
  <2>2. CASE c # d
    <3>1. InboxOk(c) /\ SameInbox(c) /\ commands' = commands
      BY <1>1, <1>2, <2>2 DEF LinkInv, TakesCommand
    <3>2. conns'[c].joined => proc'[conns'[c].proc].conn = c
      BY <1>1, <1>2, <2>2, <3>1 DEF TakesCommand, SameOnline, SameInbox, InboxOk
    <3> QED BY <3>1, <3>2, SameInboxOk
  <2> QED BY <2>1, <2>2
<1>8. ASSUME NEW c \in ConnIds PROVE RunConn(c)'
  BY <1>1, <1>5, <1>8 DEF LinkInv, TakesCommand, SameOnline, RunConn
<1> QED BY <1>6, <1>7, <1>8 DEF LinkInv, TakesCommand

LEMMA SendsLinks ==
    ASSUME LinkInv, HostShape', NEW command \in CommandSet, Sends(command)
    PROVE  LinkInv'
<1>1. \A c \in ConnIds : conns[c] \in ConnSet
  BY HostFacts DEF LinkInv
<1>2. PICK n \in Nat : n = Len(commands)
  BY HostFacts DEF LinkInv
<1>3. Len(commands') = n + 1
  BY <1>2, AppendProperties DEF Sends, LinkInv, HostShape
<1>4. \A c \in ConnIds : conns'[c].proc = conns[c].proc /\ conns'[c].joined = conns[c].joined
  BY <1>1 DEF Sends, ConnSet
<1>5. ASSUME NEW q \in Procs PROVE OnlineOk(q)'
  BY <1>4, <1>5 DEF LinkInv, Sends, OnlineOk, Online, IsUp
<1>6. ASSUME NEW c \in ConnIds PROVE InboxOk(c)'
  <2>1. PICK m \in Nat : m = Len(conns[c].inbox) /\ conns[c].inbox \in Seq(Nat)
    BY <1>1, LenProperties DEF ConnSet
  <2>2. /\ conns[c].joined => proc[conns[c].proc].conn = c
        /\ ~conns[c].joined => conns[c].inbox = <<>>
        /\ \A i \in 1 .. m : conns[c].inbox[i] \in 1 .. n
        /\ \A i, j \in 1 .. m : i < j => conns[c].inbox[i] < conns[c].inbox[j]
    BY <1>2, <2>1 DEF LinkInv, InboxOk
  <2>3. CASE conns[c].joined
    <3>1. conns'[c].inbox = Append(conns[c].inbox, n + 1)
      BY <1>1, <1>2, <2>3 DEF Sends, ConnSet
    <3>2. /\ Len(conns'[c].inbox) = m + 1 /\ conns'[c].inbox[m + 1] = n + 1
          /\ \A i \in 1 .. m : conns'[c].inbox[i] = conns[c].inbox[i]
      BY <2>1, <3>1, AppendProperties
    <3>3. \A i \in 1 .. m + 1 : conns'[c].inbox[i] \in 1 .. n + 1
      BY <2>2, <3>2
    <3>4. \A i, j \in 1 .. m + 1 : i < j => conns'[c].inbox[i] < conns'[c].inbox[j]
      <4> SUFFICES ASSUME NEW i \in 1 .. m + 1, NEW j \in 1 .. m + 1, i < j
                   PROVE  conns'[c].inbox[i] < conns'[c].inbox[j]
        OBVIOUS
      <4>1. i \in 1 .. m /\ conns'[c].inbox[i] = conns[c].inbox[i] /\ conns[c].inbox[i] \in 1 .. n
        BY <2>2, <3>2
      <4>2. CASE j \in 1 .. m
        BY <2>2, <3>2, <4>1, <4>2
      <4>3. CASE j = m + 1
        BY <3>2, <4>1, <4>3
      <4> QED BY <4>2, <4>3
    <3> QED BY <1>3, <1>4, <2>2, <2>3, <3>2, <3>3, <3>4 DEF InboxOk, Sends
  <2>4. CASE ~conns[c].joined
    <3>1. conns'[c].inbox = <<>>
      BY <2>2, <2>4 DEF Sends
    <3>2. Len(conns'[c].inbox) = 0
      BY <3>1
    <3> QED BY <1>4, <2>4, <3>1, <3>2 DEF InboxOk
  <2> QED BY <2>3, <2>4
<1>7. ASSUME NEW c \in ConnIds PROVE RunConn(c)'
  BY <1>4, <1>7 DEF LinkInv, Sends, RunConn
<1> QED BY <1>5, <1>6, <1>7 DEF LinkInv, Sends

(* The links hold whatever a step does to them. *)
Moves ==
    \/ NobodyMoves
    \/ \E p \in Procs : Changes(p) \/ Leaves(p) \/ Joins(p) \/ TakesCommand(p)
    \/ \E command \in CommandSet : Sends(command)

LEMMA MovesLinks ==
    ASSUME LinkInv, HostShape', Moves
    PROVE  LinkInv'
BY NobodyMovesLinks, ChangesLinks, LeavesLinks, JoinsLinks, TakesLinks, SendsLinks DEF Moves

-----------------------------------------------------------------------------
(* The parts of the actions. *)
HostInv == SessionsSane /\ LinkInv

LEMMA FrameTyped ==
    ASSUME SessionsSane, NEW p \in Procs, NEW n \in Names, NEW k \in Nat,
           NEW kind \in {"start", "output", "end"}, NEW lines \in Seq(1 .. MaxLines)
    PROVE  Frame(kind, p, n, lines, k) \in FrameSet
<1>1. RefOf(p, n) \in Refs
  BY DEF RefOf, Refs
<1>2. Len(sessions) \in Nat
  BY Lengths
<1> QED BY <1>1, <1>2 DEF Frame, FrameSet

LEMMA LiveNamesTyped ==
    ASSUME SessionsSane
    PROVE  LiveNames \subseteq Names
BY Lengths DEF LiveNames, Session

LEMMA ReconcileTyped ==
    ASSUME SessionsSane
    PROVE  Reconcile(LiveNames) \in FrameSet
<1>1. Len(sessions) \in Nat /\ LiveNames \subseteq Names
  BY Lengths, LiveNamesTyped
<1>2. <<>> \in Seq(1 .. MaxLines)
  OBVIOUS
<1> QED BY <1>1, <1>2 DEF Reconcile, FrameSet

(* One process changed. *)
LEMMA ProcUpdate ==
    ASSUME HostShape, NEW p \in Procs, NEW x \in Process, proc' = [proc EXCEPT ![p] = x]
    PROVE  /\ proc' \in [Procs -> Process]
           /\ \A q \in Procs : proc'[q] = IF q = p THEN x ELSE proc[q]
BY DEF HostShape

LEMMA StreamUpdate ==
    ASSUME HostShape, NEW p \in Procs, NEW n \in Names, NEW v \in {NoStream} \cup Nat,
           proc' = [proc EXCEPT ![p].stream[n] = v]
    PROVE  /\ proc' \in [Procs -> Process]
           /\ \A q \in Procs : SameOnline(q) /\ proc'[q].owned = proc[q].owned
           /\ \A q \in Procs, m \in Names :
                 proc'[q].stream[m] = IF q = p /\ m = n THEN v ELSE proc[q].stream[m]
<1>1. PICK s : s = [proc[p].stream EXCEPT ![n] = v]
  OBVIOUS
<1>2. PICK x : x = [proc[p] EXCEPT !.stream = s]
  OBVIOUS
<1>3. proc[p] \in Process /\ proc[p].stream \in [Names -> {NoStream} \cup Nat]
  BY DEF HostShape, Process
<1>4. s \in [Names -> {NoStream} \cup Nat] /\ \A m \in Names : s[m] = IF m = n THEN v ELSE proc[p].stream[m]
  BY <1>1, <1>3
<1>5. /\ x \in Process /\ x.st = proc[p].st /\ x.conn = proc[p].conn /\ x.owned = proc[p].owned
      /\ x.stream = s
  BY <1>2, <1>3, <1>4 DEF Process
<1>6. proc' = [proc EXCEPT ![p] = x]
  BY <1>1, <1>2
<1>7. proc' \in [Procs -> Process] /\ \A q \in Procs : proc'[q] = IF q = p THEN x ELSE proc[q]
  BY <1>5, <1>6, ProcUpdate
<1> QED BY <1>4, <1>5, <1>7 DEF SameOnline

(* A wire changed, or what a connection knows. *)
LEMMA WireUpdate ==
    ASSUME HostShape, NEW c \in ConnIds, NEW w \in Seq(FrameSet),
           conns' = [conns EXCEPT ![c].wire = w]
    PROVE  /\ conns' \in Seq(ConnSet) /\ ConnIds' = ConnIds
           /\ \A d \in ConnIds : SameInbox(d) /\ conns'[d].known = conns[d].known
           /\ \A d \in ConnIds : conns'[d].wire = IF d = c THEN w ELSE conns[d].wire
<1>1. PICK x : x = [conns[c] EXCEPT !.wire = w]
  OBVIOUS
<1>2. conns[c] \in ConnSet
  BY HostFacts
<1>3. /\ x \in ConnSet /\ x.proc = conns[c].proc /\ x.joined = conns[c].joined
      /\ x.inbox = conns[c].inbox /\ x.known = conns[c].known /\ x.wire = w
  BY <1>1, <1>2 DEF ConnSet
<1>4. conns' = [conns EXCEPT ![c] = x]
  BY <1>1
<1>5. /\ conns' \in Seq(ConnSet) /\ ConnIds' = ConnIds
      /\ \A d \in ConnIds : conns'[d] = IF d = c THEN x ELSE conns[d]
  BY <1>3, <1>4, ConnUpdate
<1> QED BY <1>3, <1>5 DEF SameInbox

LEMMA HandledFrame ==
    ASSUME HostShape, NEW c \in ConnIds, NEW known \in SUBSET (Names \cup {NoRef}),
           conns[c].wire # <<>>, Handled(c, known)
    PROVE  /\ conns' \in Seq(ConnSet) /\ ConnIds' = ConnIds
           /\ \A d \in ConnIds : SameInbox(d)
           /\ \A d \in ConnIds : conns'[d].known = IF d = c THEN known ELSE conns[d].known
           /\ \A d \in ConnIds : conns'[d].wire = IF d = c THEN Tail(conns[c].wire) ELSE conns[d].wire
<1>1. PICK w : w = Tail(conns[c].wire)
  OBVIOUS
<1>2. conns[c] \in ConnSet
  BY HostFacts
<1>3. w \in Seq(FrameSet)
  BY <1>1, <1>2, HeadTailProperties DEF ConnSet
<1>4. PICK x : x = [conns[c] EXCEPT !.wire = w, !.known = known]
  OBVIOUS
<1>5. /\ x \in ConnSet /\ x.proc = conns[c].proc /\ x.joined = conns[c].joined
      /\ x.inbox = conns[c].inbox /\ x.known = known /\ x.wire = w
  BY <1>2, <1>3, <1>4 DEF ConnSet
<1>6. conns' = [conns EXCEPT ![c] = x]
  BY <1>1, <1>4 DEF Handled
<1>7. /\ conns' \in Seq(ConnSet) /\ ConnIds' = ConnIds
      /\ \A d \in ConnIds : conns'[d] = IF d = c THEN x ELSE conns[d]
  BY <1>5, <1>6, ConnUpdate
<1> QED BY <1>1, <1>5, <1>7 DEF SameInbox

LEMMA InboxUpdate ==
    ASSUME LinkInv, NEW p \in Procs, Online(p), conns[proc[p].conn].inbox # <<>>, Taken(p)
    PROVE  /\ conns' \in Seq(ConnSet) /\ ConnIds' = ConnIds
           /\ \A c \in ConnIds \ {proc[p].conn} : SameInbox(c)
           /\ conns'[proc[p].conn].proc = conns[proc[p].conn].proc
           /\ conns'[proc[p].conn].joined = conns[proc[p].conn].joined
           /\ conns'[proc[p].conn].inbox = Tail(conns[proc[p].conn].inbox)
           /\ \A d \in ConnIds : conns'[d].known = conns[d].known /\ conns'[d].wire = conns[d].wire
<1>1. PICK c \in ConnIds : c = proc[p].conn
  BY DEF LinkInv, OnlineOk
<1>2. conns[c] \in ConnSet /\ conns[c].inbox # <<>>
  BY <1>1, HostFacts DEF LinkInv
<1>3. PICK w : w = Tail(conns[c].inbox)
  OBVIOUS
<1>4. w \in Seq(Nat)
  BY <1>2, <1>3, HeadTailProperties DEF ConnSet
<1>5. PICK x : x = [conns[c] EXCEPT !.inbox = w]
  OBVIOUS
<1>6. /\ x \in ConnSet /\ x.proc = conns[c].proc /\ x.joined = conns[c].joined
      /\ x.inbox = w /\ x.known = conns[c].known /\ x.wire = conns[c].wire
  BY <1>2, <1>4, <1>5 DEF ConnSet
<1>7. conns' = [conns EXCEPT ![c] = x]
  BY <1>1, <1>3, <1>5 DEF Taken
<1>8. /\ conns' \in Seq(ConnSet) /\ ConnIds' = ConnIds
      /\ \A d \in ConnIds : conns'[d] = IF d = c THEN x ELSE conns[d]
  BY <1>6, <1>7, ConnUpdate DEF LinkInv
<1> QED BY <1>1, <1>3, <1>6, <1>8 DEF SameInbox

(* A connection that ends keeps the first frames of its wire. *)
LEMMA ClosedConn ==
    ASSUME HostShape, NEW c \in ConnIds, NEW n \in 0 .. Len(conns[c].wire), conns' = Closed(c, n)
    PROVE  /\ conns' \in Seq(ConnSet) /\ ConnIds' = ConnIds
           /\ \A d \in ConnIds \ {c} : SameInbox(d)
           /\ conns'[c].proc = conns[c].proc /\ ~conns'[c].joined /\ conns'[c].inbox = <<>>
           /\ \A d \in ConnIds : conns'[d].known = conns[d].known
           /\ \A d \in ConnIds : conns'[d].wire = IF d = c THEN SubSeq(conns[c].wire, 1, n)
                                                  ELSE conns[d].wire
<1>1. conns[c] \in ConnSet
  BY HostFacts
<1> PICK old \in Seq(FrameSet) : old = conns[c].wire
  BY <1>1 DEF ConnSet
<1>2. Len(old) \in Nat /\ n \in 0 .. Len(old)
  BY LenProperties
<1>3. 1 \in 1 .. Len(old) + 1
  BY <1>2
<1>4. PICK w \in Seq(FrameSet) : w = SubSeq(old, 1, n)
  BY <1>2, <1>3, PartOf
<1>5. PICK x : x = [conns[c] EXCEPT !.joined = FALSE, !.inbox = <<>>, !.wire = w]
  OBVIOUS
<1>6. /\ x \in ConnSet /\ x.proc = conns[c].proc /\ x.joined = FALSE
      /\ x.inbox = <<>> /\ x.known = conns[c].known /\ x.wire = w
  <2>1. <<>> \in Seq(Nat)
    OBVIOUS
  <2> QED BY <1>1, <1>5, <2>1 DEF ConnSet
<1>7. conns' = [conns EXCEPT ![c] = x]
  BY <1>4, <1>5 DEF Closed
<1>8. /\ conns' \in Seq(ConnSet) /\ ConnIds' = ConnIds
      /\ \A d \in ConnIds : conns'[d] = IF d = c THEN x ELSE conns[d]
  BY <1>6, <1>7, ConnUpdate
<1> QED BY <1>4, <1>6, <1>8 DEF SameInbox

(* A connection is made. *)
LEMMA NewConnection ==
    ASSUME HostShape, NEW p \in Procs, NEW w \in Seq(FrameSet), conns' = Append(conns, NewConn(p, w))
    PROVE  /\ conns' \in Seq(ConnSet) /\ Len(conns') = Len(conns) + 1
           /\ \A c \in ConnIds : conns'[c] = conns[c]
           /\ conns'[Len(conns) + 1] = NewConn(p, w)
           /\ ConnIds' = ConnIds \cup {Len(conns) + 1} /\ Len(conns) + 1 \notin ConnIds
<1>1. NewConn(p, w) \in ConnSet
  <2>1. <<>> \in Seq(Nat)
    OBVIOUS
  <2> QED BY <2>1 DEF NewConn, ConnSet
<1>2. conns \in Seq(ConnSet) /\ Len(conns) \in Nat
  BY HostFacts DEF HostShape
<1> PICK x \in ConnSet : x = NewConn(p, w)
  BY <1>1
<1>3. /\ conns' \in Seq(ConnSet) /\ Len(conns') = Len(conns) + 1
      /\ \A c \in 1 .. Len(conns) : conns'[c] = conns[c]
      /\ conns'[Len(conns) + 1] = x
  BY <1>2, AppendProperties
<1> QED BY <1>2, <1>3 DEF ConnIds

(* A frame is handed on. *)
LEMMA Emitted ==
    ASSUME LinkInv, NEW p \in Procs, NEW frame \in FrameSet, Emit(p, frame)
    PROVE  /\ conns' \in Seq(ConnSet) /\ ConnIds' = ConnIds /\ outbound' \in Seq(FrameSet)
           /\ \A d \in ConnIds : SameInbox(d) /\ conns'[d].known = conns[d].known
           /\ outbound' = IF p = Daemon THEN Append(outbound, frame) ELSE outbound
           /\ \A d \in ConnIds :
                 conns'[d].wire = IF p # Daemon /\ Online(p) /\ d = proc[p].conn
                                  THEN Append(conns[d].wire, frame) ELSE conns[d].wire
<1>1. HostShape /\ conns \in Seq(ConnSet) /\ outbound \in Seq(FrameSet)
  BY DEF LinkInv, HostShape
<1>2. CASE p = Daemon
  <2>1. outbound' = Append(outbound, frame) /\ conns' = conns
    BY <1>2 DEF Emit
  <2>2. outbound' \in Seq(FrameSet)
    BY <1>1, <2>1, AppendProperties
  <2> QED BY <1>1, <1>2, <2>1, <2>2 DEF SameInbox, ConnIds
<1>3. CASE p # Daemon /\ Online(p)
  <2>1. PICK c \in ConnIds : c = proc[p].conn
    BY <1>3 DEF LinkInv, OnlineOk
  <2>2. conns[c].wire \in Seq(FrameSet)
    BY <1>1, HostFacts DEF ConnSet
  <2>3. PICK w \in Seq(FrameSet) : w = Append(conns[c].wire, frame)
    BY <2>2, AppendProperties
  <2>4. outbound' = outbound /\ conns' = [conns EXCEPT ![c].wire = w]
    BY <1>3, <2>1, <2>3 DEF Emit
  <2>5. /\ conns' \in Seq(ConnSet) /\ ConnIds' = ConnIds
        /\ \A d \in ConnIds : SameInbox(d) /\ conns'[d].known = conns[d].known
        /\ \A d \in ConnIds : conns'[d].wire = IF d = c THEN w ELSE conns[d].wire
    BY <1>1, <2>4, WireUpdate
  <2>6. \A d \in ConnIds : conns'[d].wire = IF d = c THEN Append(conns[d].wire, frame)
                                           ELSE conns[d].wire
    BY <2>3, <2>5
  <2> QED BY <1>1, <1>3, <2>1, <2>4, <2>5, <2>6
<1>4. CASE p # Daemon /\ ~Online(p)
  BY <1>1, <1>4 DEF Emit, SameInbox, ConnIds
<1> QED BY <1>2, <1>3, <1>4

(* The lines of a poll. *)
LEMMA NewLinesTyped ==
    ASSUME NEW screen \in Seq(1 .. MaxLines), NEW sent \in Int
    PROVE  sent >= 0 => NewLines(screen, sent) \in Seq(1 .. MaxLines)
<1> SUFFICES ASSUME sent >= 0 PROVE SubSeq(screen, sent + 1, Len(screen)) \in Seq(1 .. MaxLines)
  BY DEF NewLines
<1>1. Len(screen) \in Nat
  BY LenProperties
<1>2. CASE sent <= Len(screen)
  <2>1. sent + 1 \in 1 .. Len(screen) + 1 /\ Len(screen) \in 0 .. Len(screen)
    BY <1>1, <1>2
  <2> QED BY <2>1, PartOf
<1>3. CASE sent > Len(screen)
  <2>1. SubSeq(screen, sent + 1, Len(screen)) = <<>>
    BY <1>1, <1>3, SubSeqEmpty
  <2>2. <<>> \in Seq(1 .. MaxLines)
    OBVIOUS
  <2> QED BY <2>1, <2>2
<1> QED BY <1>1, <1>2, <1>3

-----------------------------------------------------------------------------
(* Every action keeps the shape of the host, and moves links as above. *)
HostStep == HostShape' /\ Moves /\ SessionsSane' /\ SessionsGrow

LEMMA SessionsIdle ==
    ASSUME SessionsSane, sessions' = sessions
    PROVE  SessionsSane' /\ SessionsGrow /\ SessionIds' = SessionIds
<1>1. Len(sessions) \in Nat
  BY Lengths
<1> QED BY <1>1 DEF SessionsSane, SessionsOk, LiveOnce, SessionIds, SessionsGrow

(* Only frames and streams, *)
LEMMA QuietHost ==
    ASSUME HostInv, proc' \in [Procs -> Process], conns' \in Seq(ConnSet), ConnIds' = ConnIds,
           outbound' \in Seq(FrameSet), rows' \in [Refs -> RowSet],
           UNCHANGED <<sessions, commands>>,
           \A p \in Procs : SameOnline(p), \A c \in ConnIds : SameInbox(c)
    PROVE  HostStep
<1>1. SessionsSane' /\ SessionsGrow
  BY SessionsIdle DEF HostInv
<1>2. HostShape'
  BY DEF HostInv, LinkInv, HostShape
<1>3. NobodyMoves
  BY DEF NobodyMoves
<1> QED BY <1>1, <1>2, <1>3 DEF HostStep, Moves

(* or nothing that the group sees. *)
LEMMA IdleHost ==
    ASSUME HostInv, UNCHANGED <<proc, conns>>
    PROVE  /\ proc' \in [Procs -> Process] /\ conns' \in Seq(ConnSet) /\ ConnIds' = ConnIds
           /\ \A p \in Procs : SameOnline(p)
           /\ \A c \in ConnIds : SameInbox(c)
BY DEF HostInv, LinkInv, HostShape, SameOnline, SameInbox, ConnIds

LEMMA ProgramHost ==
    ASSUME HostInv, Program
    PROVE  HostStep
<1>1. UNCHANGED <<proc, conns, outbound, rows, commands>>
  BY DEF Program, backend
<1>2. PICK k \in SessionIds : Prints(k) \/ Erases(k) \/ Exits(k)
  BY DEF Program
<1>3. SessionsSane' /\ SessionsGrow
  BY <1>2, ProgramRuns DEF HostInv
<1>4. HostShape'
  BY <1>1 DEF HostInv, LinkInv, HostShape
<1>5. NobodyMoves
  BY <1>1, IdleHost DEF NobodyMoves
<1> QED BY <1>3, <1>4, <1>5 DEF HostStep, Moves

LEMMA PollsHost ==
    ASSUME HostInv, NEW p \in Procs, NEW n \in Names, Polls(p, n)
    PROVE  HostStep
<1>1. /\ IsUp(p) /\ proc[p].stream[n] # NoStream /\ Exists(n)
      /\ UNCHANGED <<sessions, rows, commands>>
  BY DEF Polls, backend
<1>2. PICK k \in SessionIds : k = Current(n)
  BY <1>1, CurrentIs
<1>3. PICK screen \in Seq(1 .. MaxLines) : screen = sessions[k].screen
  BY Lengths DEF HostInv, Session
<1>4. PICK sent \in Nat : sent = proc[p].stream[n]
  BY <1>1 DEF HostInv, LinkInv, HostShape, Process
<1>5. PICK lines \in Seq(1 .. MaxLines) : lines = NewLines(screen, sent)
  BY NewLinesTyped
<1>6. Len(screen) \in Nat /\ k \in Nat
  BY <1>2, LenProperties, Lengths DEF HostInv, SessionIds
<1>7. PICK frame \in FrameSet : frame = Frame("output", p, n, lines, k)
  BY <1>6, FrameTyped DEF HostInv
<1>8. /\ proc' = [proc EXCEPT ![p].stream[n] = Len(screen)]
      /\ UNCHANGED <<outbound, conns>> \/ Emit(p, frame)
  BY <1>2, <1>3, <1>4, <1>5, <1>7 DEF Polls
<1>9. proc' \in [Procs -> Process] /\ \A q \in Procs : SameOnline(q)
  BY <1>6, <1>8, StreamUpdate DEF HostInv, LinkInv
<1>10. /\ conns' \in Seq(ConnSet) /\ ConnIds' = ConnIds /\ outbound' \in Seq(FrameSet)
       /\ \A c \in ConnIds : SameInbox(c)
  <2>1. CASE UNCHANGED <<outbound, conns>>
    BY <2>1 DEF HostInv, LinkInv, HostShape, SameInbox, ConnIds
  <2>2. CASE Emit(p, frame)
    BY <2>2, Emitted DEF HostInv
  <2> QED BY <1>8, <2>1, <2>2
<1>11. rows' \in [Refs -> RowSet]
  BY <1>1 DEF HostInv, LinkInv, HostShape
<1> QED BY <1>1, <1>9, <1>10, <1>11, QuietHost

LEMMA OffTyped ==
    ASSUME NEW st \in {"off", "gone"}
    PROVE  /\ [Off EXCEPT !.st = st] \in Process /\ [Off EXCEPT !.st = st].conn = NoConn
           /\ [Off EXCEPT !.st = st].st = st /\ [Off EXCEPT !.st = st].owned = {}
           /\ \A n \in Names : [Off EXCEPT !.st = st].stream[n] = NoStream
           /\ [Off EXCEPT !.st = "off"] = Off
BY DEF Off, Process, NoConn

(* A process ends, or its connection does.                                   *)
Closes(p) ==
    /\ conns' \in Seq(ConnSet) /\ ConnIds' = ConnIds
    /\ Online(p) => /\ \A c \in ConnIds \ {proc[p].conn} : SameInbox(c)
                    /\ conns'[proc[p].conn].proc = p /\ ~conns'[proc[p].conn].joined
                    /\ conns'[proc[p].conn].inbox = <<>>
    /\ ~Online(p) => conns' = conns

LEMMA EndsHost ==
    ASSUME HostInv, NEW p \in Procs, NEW x \in Process, x.conn = NoConn,
           p \in Runs => proc[p].st # "off" /\ x.st \in {"up", "gone"},
           proc' = [proc EXCEPT ![p] = x], Closes(p), outbound' \in Seq(FrameSet),
           UNCHANGED <<rows, commands>>, SessionsSane', SessionsGrow
    PROVE  HostStep
<1>1. HostShape
  BY DEF HostInv, LinkInv
<1>2. proc' \in [Procs -> Process] /\ \A q \in Procs : proc'[q] = IF q = p THEN x ELSE proc[q]
  BY <1>1, ProcUpdate
<1>3. HostShape'
  BY <1>1, <1>2 DEF HostShape, Closes
<1>4. CASE Online(p)
  <2>1. Leaves(p)
    BY <1>2, <1>4 DEF Leaves, Closes, SameOnline
  <2> QED BY <1>3, <2>1 DEF HostStep, Moves
<1>5. CASE ~Online(p)
  <2>1. Changes(p)
    BY <1>2, <1>5, TerminalsAssumption DEF Changes, Closes, SameOnline, SameInbox
  <2> QED BY <1>3, <2>1 DEF HostStep, Moves
<1> QED BY <1>4, <1>5

LEMMA ClosedCloses ==
    ASSUME HostInv, NEW p \in Procs, NEW n, Online(p) => n \in 0 .. Len(conns[proc[p].conn].wire),
           conns' = IF Online(p) THEN Closed(proc[p].conn, n) ELSE conns
    PROVE  Closes(p)
<1>1. HostShape
  BY DEF HostInv, LinkInv
<1>2. CASE Online(p)
  <2>1. PICK c \in ConnIds : c = proc[p].conn /\ conns[c].proc = p
    BY <1>2 DEF HostInv, LinkInv, OnlineOk
  <2>2. n \in 0 .. Len(conns[c].wire) /\ conns' = Closed(c, n)
    BY <1>2, <2>1
  <2> QED BY <1>1, <1>2, <2>1, <2>2, ClosedConn DEF Closes
<1>3. CASE ~Online(p)
  BY <1>1, <1>3 DEF Closes, HostShape, ConnIds
<1> QED BY <1>2, <1>3

LEMMA StreamEndsHost ==
    ASSUME HostInv, NEW p \in Procs, NEW n \in Names, StreamEnds(p, n)
    PROVE  HostStep
<1>1. HostShape /\ UNCHANGED <<sessions, rows, commands>> /\ IsUp(p)
  BY DEF StreamEnds, backend, HostInv, LinkInv
<1>2. PICK frame \in FrameSet : frame = Frame("end", p, n, <<>>, 0)
  <2>1. <<>> \in Seq(1 .. MaxLines)
    OBVIOUS
  <2> QED BY <2>1, FrameTyped DEF HostInv
<1>3. SessionsSane' /\ SessionsGrow
  BY <1>1, SessionsIdle DEF HostInv
<1>4. CASE p = Daemon
  <2>1. Emit(p, frame) /\ proc' = [proc EXCEPT ![p].stream[n] = NoStream]
    BY <1>2, <1>4 DEF StreamEnds
  <2>2. proc' \in [Procs -> Process] /\ \A q \in Procs : SameOnline(q)
    BY <1>1, <2>1, StreamUpdate
  <2>3. /\ conns' \in Seq(ConnSet) /\ ConnIds' = ConnIds /\ outbound' \in Seq(FrameSet)
        /\ \A c \in ConnIds : SameInbox(c)
    BY <2>1, Emitted DEF HostInv
  <2>4. rows' \in [Refs -> RowSet]
    BY <1>1 DEF HostShape
  <2> QED BY <1>1, <2>2, <2>3, <2>4, QuietHost
<1>5. CASE p # Daemon
  <2>1. PICK x \in Process : x = [Off EXCEPT !.st = "gone"] /\ x.conn = NoConn /\ x.st = "gone"
    BY OffTyped
  <2>2. proc' = [proc EXCEPT ![p] = x] /\ outbound' = outbound
    BY <1>5, <2>1 DEF StreamEnds
  <2>3. Closes(p)
    <3>1. CASE Online(p)
      <4>1. PICK c \in ConnIds : c = proc[p].conn /\ conns[c].proc = p
        BY <3>1 DEF HostInv, LinkInv, OnlineOk
      <4>2. conns[c] \in ConnSet /\ conns[c].wire \in Seq(FrameSet)
        BY <1>1, HostFacts DEF ConnSet
      <4>3. PICK w \in Seq(FrameSet) : w = Append(conns[c].wire, frame)
        BY <4>2, AppendProperties
      <4>4. PICK y : y = [conns[c] EXCEPT !.joined = FALSE, !.inbox = <<>>, !.wire = w]
        OBVIOUS
      <4>5. y \in ConnSet /\ y.proc = conns[c].proc /\ y.joined = FALSE /\ y.inbox = <<>>
        <5>1. <<>> \in Seq(Nat)
          OBVIOUS
        <5> QED BY <4>2, <4>4, <5>1 DEF ConnSet
      <4>6. conns' = [conns EXCEPT ![c] = y]
        BY <1>2, <1>5, <3>1, <4>1, <4>3, <4>4 DEF StreamEnds
      <4>7. /\ conns' \in Seq(ConnSet) /\ ConnIds' = ConnIds
            /\ \A d \in ConnIds : conns'[d] = IF d = c THEN y ELSE conns[d]
        BY <1>1, <4>5, <4>6, ConnUpdate
      <4> QED BY <3>1, <4>1, <4>5, <4>7 DEF Closes, SameInbox
    <3>2. CASE ~Online(p)
      <4>1. conns' = conns
        BY <1>5, <3>2 DEF StreamEnds
      <4> QED BY <1>1, <3>2, <4>1 DEF Closes, HostShape, ConnIds
    <3> QED BY <3>1, <3>2
  <2>4. proc[p].st # "off" /\ outbound' \in Seq(FrameSet)
    BY <1>1, <2>2 DEF IsUp, HostShape
  <2> QED BY <1>1, <1>3, <2>1, <2>2, <2>3, <2>4, EndsHost
<1> QED BY <1>4, <1>5

LEMMA RunStartsHost ==
    ASSUME HostInv, NEW r \in Runs, RunStarts(r)
    PROVE  HostStep
<1>1. /\ HostShape /\ UNCHANGED <<conns, outbound, rows, commands>> /\ proc[r].st = "off"
      /\ r \in Procs /\ RunName[r] \in Names
  BY TerminalsAssumption DEF RunStarts, backend, HostInv, LinkInv
<1>2. ~Online(r) /\ proc[r].conn = NoConn
  BY <1>1 DEF HostInv, LinkInv, OnlineOk, IsUp, Online
<1>3. proc[r] \in Process
  BY <1>1 DEF HostShape
<1>4. PICK st \in {"made", "gone"} : proc' = [proc EXCEPT ![r].st = st]
  BY DEF RunStarts
<1>5. PICK x : x = [proc[r] EXCEPT !.st = st]
  OBVIOUS
<1>6. x \in Process /\ x.st = st /\ x.conn = NoConn
  BY <1>2, <1>3, <1>5 DEF Process
<1>7. proc' = [proc EXCEPT ![r] = x]
  BY <1>4, <1>5
<1>8. proc' \in [Procs -> Process] /\ \A q \in Procs : proc'[q] = IF q = r THEN x ELSE proc[q]
  BY <1>1, <1>6, <1>7, ProcUpdate
<1>9. SessionsSane' /\ SessionsGrow
  <2>1. CASE NewSession(r, RunName[r])
    BY <1>1, <2>1, SessionMade DEF HostInv
  <2>2. CASE sessions' = sessions
    BY <2>2, SessionsIdle DEF HostInv
  <2> QED BY <2>1, <2>2 DEF RunStarts
<1>10. HostShape'
  BY <1>1, <1>8 DEF HostShape
<1>11. Changes(r)
  BY <1>1, <1>2, <1>6, <1>8 DEF Changes, SameOnline, SameInbox, ConnIds
<1> QED BY <1>1, <1>9, <1>10, <1>11 DEF HostStep, Moves

(* A process connects, with the first frames of its connection.              *)
LEMMA JoinsHost ==
    ASSUME HostInv, NEW p \in Procs, NEW x \in Process, NEW w \in Seq(FrameSet),
           ~Online(p), x.st = "up", x.conn = Len(conns) + 1, p \in Runs => proc[p].st = "made",
           proc' = [proc EXCEPT ![p] = x], conns' = Append(conns, NewConn(p, w)),
           outbound' \in Seq(FrameSet), UNCHANGED <<sessions, rows, commands>>
    PROVE  HostStep
<1>1. HostShape
  BY DEF HostInv, LinkInv
<1>2. SessionsSane' /\ SessionsGrow
  BY SessionsIdle DEF HostInv
<1>3. proc' \in [Procs -> Process] /\ \A q \in Procs : proc'[q] = IF q = p THEN x ELSE proc[q]
  BY <1>1, ProcUpdate
<1>4. /\ conns' \in Seq(ConnSet) /\ Len(conns') = Len(conns) + 1
      /\ \A c \in ConnIds : conns'[c] = conns[c]
      /\ conns'[Len(conns) + 1] = NewConn(p, w)
  BY <1>1, NewConnection
<1>5. HostShape'
  BY <1>1, <1>3, <1>4 DEF HostShape
<1>6. NewConn(p, w).proc = p /\ NewConn(p, w).joined /\ NewConn(p, w).inbox = <<>>
  BY DEF NewConn
<1>7. /\ commands' = commands /\ proc'[p] = x
      /\ \A q \in Procs \ {p} : SameOnline(q)
      /\ \A c \in ConnIds : SameInbox(c)
  BY <1>3, <1>4 DEF SameOnline, SameInbox
<1>8. Joins(p)
  BY <1>4, <1>6, <1>7 DEF Joins
<1> QED BY <1>2, <1>5, <1>8 DEF HostStep, Moves

LEMMA RunConnectsHost ==
    ASSUME HostInv, NEW r \in Runs, RunConnects(r)
    PROVE  HostStep
<1>1. /\ HostShape /\ UNCHANGED <<sessions, outbound, rows, commands>> /\ proc[r].st = "made"
      /\ r \in Procs /\ RunName[r] \in Names
  BY TerminalsAssumption DEF RunConnects, backend, HostInv, LinkInv
<1>2. ~Online(r) /\ Len(conns) \in Nat
  BY <1>1, HostFacts DEF HostInv, LinkInv, OnlineOk, IsUp
<1>3. PICK frame \in FrameSet : frame = Frame("start", r, RunName[r], <<>>, 0)
  <2>1. <<>> \in Seq(1 .. MaxLines)
    OBVIOUS
  <2> QED BY <1>1, <2>1, FrameTyped DEF HostInv
<1>4. PICK w : w = <<frame>>
  OBVIOUS
<1>w. w \in Seq(FrameSet)
  BY <1>4
<1>5. PICK s : s = [proc[r].stream EXCEPT ![RunName[r]] = 0]
  OBVIOUS
<1>6. PICK x : x = [proc[r] EXCEPT !.st = "up", !.conn = Len(conns) + 1, !.stream = s]
  OBVIOUS
<1>7. proc[r] \in Process /\ s \in [Names -> {NoStream} \cup Nat]
  BY <1>1, <1>5 DEF HostShape, Process
<1>n. PICK c \in Nat : c = Len(conns) + 1
  BY <1>2
<1>8. x \in Process /\ x.st = "up" /\ x.conn = Len(conns) + 1
  BY <1>6, <1>7, <1>n DEF Process
<1>9. proc' = [proc EXCEPT ![r] = x] /\ conns' = Append(conns, NewConn(r, w))
  BY <1>3, <1>4, <1>5, <1>6 DEF RunConnects
<1>10. outbound' \in Seq(FrameSet)
  BY <1>1 DEF HostShape
<1> QED BY <1>1, <1>2, <1>w, <1>8, <1>9, <1>10, JoinsHost

LEMMA RunLeavesHost ==
    ASSUME HostInv, NEW r \in Runs, RunLeaves(r)
    PROVE  HostStep
<1>1. /\ HostShape /\ UNCHANGED <<sessions, outbound, rows, commands>> /\ proc[r].st # "off"
      /\ r \in Procs
  BY TerminalsAssumption DEF RunLeaves, backend, HostInv, LinkInv
<1>2. PICK x \in Process : x = [Off EXCEPT !.st = "gone"] /\ x.conn = NoConn /\ x.st = "gone"
  BY OffTyped
<1>3. proc' = [proc EXCEPT ![r] = x]
  BY <1>2 DEF RunLeaves
<1>4. Closes(r)
  <2>1. PICK n : n = Len(conns[proc[r].conn].wire)
    OBVIOUS
  <2>2. ASSUME Online(r) PROVE n \in 0 .. Len(conns[proc[r].conn].wire)
    <3>1. conns[proc[r].conn] \in ConnSet
      BY <1>1, <2>2, HostFacts DEF HostInv, LinkInv, OnlineOk
    <3> QED BY <2>1, <3>1, LenProperties DEF ConnSet
  <2>3. conns' = IF Online(r) THEN Closed(proc[r].conn, n) ELSE conns
    BY <2>1 DEF RunLeaves
  <2> QED BY <1>1, <2>2, <2>3, ClosedCloses
<1>5. SessionsSane' /\ SessionsGrow /\ outbound' \in Seq(FrameSet)
  BY <1>1, SessionsIdle DEF HostInv, HostShape
<1> QED BY <1>1, <1>2, <1>3, <1>4, <1>5, EndsHost

LEMMA BreaksHost ==
    ASSUME HostInv, NEW p \in Procs, Breaks(p)
    PROVE  HostStep
<1>1. /\ HostShape /\ UNCHANGED <<sessions, outbound, rows, commands>> /\ Online(p) /\ IsUp(p)
      /\ proc[p] \in Process
  BY DEF Breaks, backend, HostInv, LinkInv, OnlineOk, HostShape
<1>2. PICK x : x = [proc[p] EXCEPT !.conn = NoConn]
  OBVIOUS
<1>3. x \in Process /\ x.conn = NoConn /\ x.st = "up" /\ proc[p].st # "off"
  BY <1>1, <1>2 DEF Process, NoConn, IsUp
<1>4. proc' = [proc EXCEPT ![p] = x]
  BY <1>2 DEF Breaks
<1>5. PICK n \in 0 .. Len(conns[proc[p].conn].wire) : conns' = Closed(proc[p].conn, n)
  BY DEF Breaks
<1>6. Closes(p)
  BY <1>1, <1>5, ClosedCloses
<1>7. SessionsSane' /\ SessionsGrow /\ outbound' \in Seq(FrameSet)
  BY <1>1, SessionsIdle DEF HostInv, HostShape
<1> QED BY <1>1, <1>3, <1>4, <1>6, <1>7, EndsHost

LEMMA DaemonDiesHost ==
    ASSUME HostInv, NEW lostConns, NEW lost, Dies(lostConns, lost), Closes(Daemon),
           UNCHANGED <<rows, commands>>,
           SessionsSane', SessionsGrow
    PROVE  HostStep
<1>1. PICK x \in Process : x = Off /\ x.conn = NoConn
  BY OffTyped
<1>2. proc' = [proc EXCEPT ![Daemon] = x] /\ outbound' = <<>>
  BY <1>1 DEF Dies
<1>3. Daemon \in Procs /\ Daemon \notin Runs /\ outbound' \in Seq(FrameSet)
  BY <1>2, TerminalsAssumption
<1> QED BY <1>1, <1>2, <1>3, EndsHost

LEMMA DaemonDiesStep ==
    ASSUME HostInv, DaemonDies
    PROVE  HostStep
<1>1. UNCHANGED <<sessions, rows, commands>> /\ Daemon \in Procs
  BY TerminalsAssumption DEF DaemonDies, backend
<1>2. SessionsSane' /\ SessionsGrow
  BY <1>1, SessionsIdle DEF HostInv
<1>3. CASE Online(Daemon)
  <2>1. PICK n \in 0 .. Len(conns[proc[Daemon].conn].wire) :
            Dies(Closed(proc[Daemon].conn, n), Unsaved)
    BY <1>3 DEF DaemonDies
  <2>2. Closes(Daemon)
    BY <1>1, <1>3, <2>1, ClosedCloses DEF Dies
  <2> QED BY <1>1, <1>2, <2>1, <2>2, DaemonDiesHost
<1>4. CASE ~Online(Daemon)
  <2>1. Dies(conns, Unsaved)
    BY <1>4 DEF DaemonDies
  <2>2. conns' = IF Online(Daemon) THEN Closed(proc[Daemon].conn, 0) ELSE conns
    BY <1>4, <2>1 DEF Dies
  <2>3. Closes(Daemon)
    BY <1>1, <1>4, <2>2, ClosedCloses
  <2> QED BY <1>1, <1>2, <2>1, <2>3, DaemonDiesHost
<1> QED BY <1>3, <1>4

(* What is known of a process that takes a command of a kind.                *)
LEMMA Receiving ==
    ASSUME HostInv, NEW p \in Procs, NEW kind, Receives(p, kind)
    PROVE  /\ HostShape /\ IsUp(p) /\ Online(p) /\ conns[proc[p].conn].inbox # <<>>
           /\ proc[p].conn \in ConnIds /\ conns[proc[p].conn] \in ConnSet
           /\ Next1(p) \in 1 .. Len(commands) /\ commands[Next1(p)] \in CommandSet
           /\ NameIn(p) \in Names \cup {NoRef} /\ (kind = "start" => NameIn(p) \in Names)
           /\ commands[Next1(p)].kind = kind
           /\ Next1(p) = conns[proc[p].conn].inbox[1] /\ 1 \in 1 .. Len(conns[proc[p].conn].inbox)
<1>1. /\ HostShape /\ IsUp(p) /\ Online(p) /\ conns[proc[p].conn].inbox # <<>>
      /\ proc[p].conn \in ConnIds /\ conns[proc[p].conn] \in ConnSet
      /\ commands[Next1(p)].kind = kind
  BY HostFacts DEF HostInv, LinkInv, Receives, OnlineOk, Next1
<1>2. PICK box \in Seq(Nat) : box = conns[proc[p].conn].inbox /\ box # <<>>
  BY <1>1 DEF ConnSet
<1>3. 1 \in 1 .. Len(box) /\ Head(box) = box[1]
  BY <1>2, EmptySeq, LenProperties
<1>4. Next1(p) \in 1 .. Len(commands)
  BY <1>1, <1>2, <1>3 DEF HostInv, LinkInv, InboxOk, Next1
<1>5. commands[Next1(p)] \in CommandSet
  BY <1>1, <1>4, ElementOfSeq DEF HostShape
<1>6. NameIn(p) \in Names \cup {NoRef} /\ (kind = "start" => NameIn(p) \in Names)
  BY <1>1, <1>5 DEF CommandSet, NameIn
<1> QED BY <1>1, <1>2, <1>3, <1>4, <1>5, <1>6 DEF Next1

LEMMA DiesInStartHost ==
    ASSUME HostInv, DiesInStart
    PROVE  HostStep
<1>1. /\ UNCHANGED <<rows, commands>> /\ Daemon \in Procs /\ Receives(Daemon, "start")
      /\ NewSession(Daemon, NameIn(Daemon))
  BY TerminalsAssumption DEF DiesInStart, backend
<1>2. HostShape /\ Online(Daemon) /\ NameIn(Daemon) \in Names /\ conns[proc[Daemon].conn] \in ConnSet
  BY <1>1, Receiving
<1>3. SessionsSane' /\ SessionsGrow
  BY <1>1, <1>2, SessionMade DEF HostInv
<1>4. PICK n \in 0 .. Len(conns[proc[Daemon].conn].wire) : n = Len(conns[proc[Daemon].conn].wire)
  BY <1>2, LenProperties DEF ConnSet
<1>5. Dies(Closed(proc[Daemon].conn, n), Unsaved \cup {Len(sessions) + 1})
  BY <1>4 DEF DiesInStart
<1>6. Closes(Daemon)
  BY <1>1, <1>2, <1>4, <1>5, ClosedCloses DEF Dies
<1> QED BY <1>1, <1>3, <1>5, <1>6, DaemonDiesHost

LEMMA DaemonStartsHost ==
    ASSUME HostInv, DaemonStarts, file \subseteq Names
    PROVE  HostStep
<1>1. /\ HostShape /\ UNCHANGED <<sessions, conns, outbound, rows, commands>>
      /\ Daemon \in Procs /\ Daemon \notin Runs /\ proc[Daemon].st = "off"
  BY TerminalsAssumption DEF DaemonStarts, backend, HostInv, LinkInv
<1>2. ~Online(Daemon) /\ proc[Daemon].conn = NoConn
  BY <1>1 DEF HostInv, LinkInv, OnlineOk, IsUp, Online
<1>3. PICK owned \in {file, Prune(file)} :
          proc' = [proc EXCEPT ![Daemon].st = "up", ![Daemon].owned = owned]
  BY DEF DaemonStarts
<1>4. proc[Daemon] \in Process /\ owned \subseteq Names
  BY <1>1 DEF HostShape, Prune
<1>5. PICK x : x = [proc[Daemon] EXCEPT !.st = "up", !.owned = owned]
  OBVIOUS
<1>6. x \in Process /\ x.st = "up" /\ x.conn = NoConn
  BY <1>2, <1>4, <1>5 DEF Process
<1>7. proc' = [proc EXCEPT ![Daemon] = x]
  BY <1>3, <1>5
<1>8. proc' \in [Procs -> Process] /\ \A q \in Procs : proc'[q] = IF q = Daemon THEN x ELSE proc[q]
  BY <1>1, <1>6, <1>7, ProcUpdate
<1>9. SessionsSane' /\ SessionsGrow
  BY <1>1, SessionsIdle DEF HostInv
<1>10. HostShape'
  BY <1>1, <1>8 DEF HostShape
<1>11. Changes(Daemon)
  BY <1>1, <1>2, <1>6, <1>8 DEF Changes, SameOnline, SameInbox, ConnIds
<1> QED BY <1>1, <1>9, <1>10, <1>11 DEF HostStep, Moves

LEMMA DaemonConnectsHost ==
    ASSUME HostInv, DaemonConnects
    PROVE  HostStep
<1>1. /\ HostShape /\ UNCHANGED <<sessions, rows, commands>> /\ Daemon \in Procs
      /\ Daemon \notin Runs /\ IsUp(Daemon) /\ ~Online(Daemon)
  BY TerminalsAssumption DEF DaemonConnects, backend, HostInv, LinkInv
<1>2. PICK out \in Seq(FrameSet) : out = outbound
  BY <1>1 DEF HostShape
<1>3. PICK first \in 0 .. 1 :
         /\ first <= Len(outbound)
         /\ outbound' = SubSeq(outbound, first + 1, Len(outbound))
         /\ \/ /\ conns' = Append(conns, NewConn(Daemon,
                              SubSeq(outbound, 1, first) \o <<Reconcile(LiveNames)>>))
               /\ Pruned
            \/ /\ conns' = Append(conns, NewConn(Daemon, SubSeq(outbound, 1, first)))
               /\ proc' = [proc EXCEPT ![Daemon].conn = Len(conns')]
               /\ NoFlush
  BY DEF DaemonConnects
<1>4. Len(out) \in Nat /\ first \in 0 .. Len(out) /\ first <= Len(out)
  BY <1>2, <1>3, LenProperties
<1>5. SubSeq(out, 1, first) \in Seq(FrameSet) /\ SubSeq(out, first + 1, Len(out)) \in Seq(FrameSet)
  <2>1. /\ 1 \in 1 .. Len(out) + 1 /\ first + 1 \in 1 .. Len(out) + 1
        /\ Len(out) \in 0 .. Len(out)
    BY <1>4
  <2> QED BY <1>4, <2>1, PartOf
<1>6. PICK sent \in Seq(FrameSet) : sent = SubSeq(out, 1, first)
  BY <1>5
<1>7. outbound' \in Seq(FrameSet)
  BY <1>2, <1>3, <1>5
<1>8. PICK r \in FrameSet : r = Reconcile(LiveNames)
  BY ReconcileTyped DEF HostInv
<1>9. PICK c \in Nat : c = Len(conns) + 1
  BY <1>1, HostFacts
<1>10. proc[Daemon] \in Process
  BY <1>1 DEF HostShape
<1>11. CASE /\ conns' = Append(conns, NewConn(Daemon, SubSeq(outbound, 1, first) \o <<Reconcile(LiveNames)>>))
            /\ Pruned
  <2>1. PICK w : w = sent \o <<r>>
    OBVIOUS
  <2>2. w \in Seq(FrameSet)
    <3>1. <<r>> \in Seq(FrameSet)
      OBVIOUS
    <3> QED BY <2>1, <3>1, ConcatProperties
  <2>3. conns' = Append(conns, NewConn(Daemon, w))
    BY <1>2, <1>6, <1>8, <1>11, <2>1
  <2>4. Len(conns') = c
    BY <1>1, <1>9, <2>2, <2>3, NewConnection
  <2>5. PICK x : x = [proc[Daemon] EXCEPT !.owned = Prune(proc[Daemon].owned), !.conn = c]
    OBVIOUS
  <2>6. x \in Process /\ x.st = "up" /\ x.conn = c
    BY <1>1, <1>10, <2>5 DEF Process, Prune, IsUp
  <2>7. proc' = [proc EXCEPT ![Daemon] = x]
    BY <1>11, <2>4, <2>5 DEF Pruned
  <2> QED BY <1>1, <1>7, <1>9, <2>2, <2>3, <2>6, <2>7, JoinsHost
<1>12. CASE /\ conns' = Append(conns, NewConn(Daemon, SubSeq(outbound, 1, first)))
            /\ proc' = [proc EXCEPT ![Daemon].conn = Len(conns')]
            /\ NoFlush
  <2>1. conns' = Append(conns, NewConn(Daemon, sent))
    BY <1>2, <1>6, <1>12
  <2>2. Len(conns') = c
    BY <1>1, <1>9, <2>1, NewConnection
  <2>3. PICK x : x = [proc[Daemon] EXCEPT !.conn = c]
    OBVIOUS
  <2>4. x \in Process /\ x.st = "up" /\ x.conn = c
    BY <1>1, <1>10, <2>3 DEF Process, IsUp
  <2>5. proc' = [proc EXCEPT ![Daemon] = x]
    BY <1>12, <2>2, <2>3
  <2> QED BY <1>1, <1>7, <1>9, <2>1, <2>4, <2>5, JoinsHost
<1> QED BY <1>3, <1>11, <1>12

LEMMA HeartbeatHost ==
    ASSUME HostInv, Heartbeat
    PROVE  HostStep
<1>1. /\ HostShape /\ UNCHANGED <<sessions, outbound, rows, commands>> /\ Daemon \in Procs
      /\ Online(Daemon)
  BY TerminalsAssumption DEF Heartbeat, backend, HostInv, LinkInv
<1>2. PICK c \in ConnIds : c = proc[Daemon].conn
  BY <1>1 DEF HostInv, LinkInv, OnlineOk
<1>3. PICK r \in FrameSet : r = Reconcile(LiveNames)
  BY ReconcileTyped DEF HostInv
<1>4. PICK w : w = <<r>>
  OBVIOUS
<1>5. w \in Seq(FrameSet)
  BY <1>4
<1>6. conns' = [conns EXCEPT ![c].wire = w]
  BY <1>2, <1>3, <1>4 DEF Heartbeat
<1>7. /\ conns' \in Seq(ConnSet) /\ ConnIds' = ConnIds /\ \A d \in ConnIds : SameInbox(d)
  BY <1>1, <1>5, <1>6, WireUpdate
<1>8. PICK x : x = [proc[Daemon] EXCEPT !.owned = Prune(proc[Daemon].owned)]
  OBVIOUS
<1>9. proc[Daemon] \in Process
  BY <1>1 DEF HostShape
<1>10. x \in Process /\ x.st = proc[Daemon].st /\ x.conn = proc[Daemon].conn
  BY <1>8, <1>9 DEF Process, Prune
<1>11. proc' = [proc EXCEPT ![Daemon] = x]
  BY <1>8 DEF Heartbeat
<1>12. proc' \in [Procs -> Process] /\ \A q \in Procs : SameOnline(q)
  BY <1>1, <1>10, <1>11, ProcUpdate DEF SameOnline
<1>13. outbound' \in Seq(FrameSet) /\ rows' \in [Refs -> RowSet]
  BY <1>1 DEF HostShape
<1> QED BY <1>1, <1>7, <1>12, <1>13, QuietHost

LEMMA DaemonSendsHost ==
    ASSUME HostInv, DaemonSends
    PROVE  /\ HostStep
           /\ \E c \in ConnIds : c = proc[Daemon].conn
<1>1. /\ HostShape /\ UNCHANGED <<sessions, proc, rows, commands>> /\ Online(Daemon)
      /\ outbound # <<>> /\ Daemon \in Procs
  BY TerminalsAssumption DEF DaemonSends, backend, HostInv, LinkInv
<1>2. PICK c \in ConnIds : c = proc[Daemon].conn
  BY <1>1 DEF HostInv, LinkInv, OnlineOk
<1>3. PICK out \in Seq(FrameSet) : out = outbound /\ out # <<>>
  BY <1>1 DEF HostShape
<1>4. Head(out) \in FrameSet /\ Tail(out) \in Seq(FrameSet)
  BY <1>3, HeadTailProperties
<1>5. conns[c].wire \in Seq(FrameSet)
  BY <1>1, HostFacts DEF ConnSet
<1>6. PICK w \in Seq(FrameSet) : w = Append(conns[c].wire, Head(out))
  BY <1>4, <1>5, AppendProperties
<1>7. conns' = [conns EXCEPT ![c].wire = w] /\ outbound' = Tail(out)
  BY <1>2, <1>3, <1>6 DEF DaemonSends
<1>8. /\ conns' \in Seq(ConnSet) /\ ConnIds' = ConnIds /\ \A d \in ConnIds : SameInbox(d)
  BY <1>1, <1>7, WireUpdate
<1>9. /\ proc' \in [Procs -> Process] /\ rows' \in [Refs -> RowSet] /\ outbound' \in Seq(FrameSet)
      /\ \A q \in Procs : SameOnline(q)
  BY <1>1, <1>4, <1>7 DEF HostShape, SameOnline
<1> QED BY <1>1, <1>2, <1>8, <1>9, QuietHost

(* A process takes a command. *)
LEMMA TakesHost ==
    ASSUME HostInv, NEW p \in Procs, NEW kind, Receives(p, kind), Taken(p),
           proc' \in [Procs -> Process], outbound' \in Seq(FrameSet),
           UNCHANGED <<rows, commands>>, \A q \in Procs : SameOnline(q),
           SessionsSane', SessionsGrow
    PROVE  HostStep
<1>1. HostShape /\ Online(p) /\ conns[proc[p].conn].inbox # <<>>
  BY Receiving
<1>2. /\ conns' \in Seq(ConnSet) /\ ConnIds' = ConnIds
      /\ \A c \in ConnIds \ {proc[p].conn} : SameInbox(c)
      /\ conns'[proc[p].conn].proc = conns[proc[p].conn].proc
      /\ conns'[proc[p].conn].joined = conns[proc[p].conn].joined
      /\ conns'[proc[p].conn].inbox = Tail(conns[proc[p].conn].inbox)
  BY <1>1, InboxUpdate DEF HostInv
<1>3. HostShape'
  BY <1>1, <1>2 DEF HostShape
<1>4. TakesCommand(p)
  BY <1>1, <1>2 DEF TakesCommand
<1> QED BY <1>3, <1>4 DEF HostStep, Moves

LEMMA HandleInjectHost ==
    ASSUME HostInv, NEW p \in Procs, HandleInject(p)
    PROVE  HostStep
<1>1. /\ Receives(p, "inject") /\ Taken(p)
      /\ UNCHANGED <<sessions, proc, outbound, rows, commands>>
  BY DEF HandleInject, backend
<1>2. /\ proc' \in [Procs -> Process] /\ outbound' \in Seq(FrameSet)
      /\ \A q \in Procs : SameOnline(q)
  BY <1>1, Receiving DEF HostShape, SameOnline
<1> QED BY <1>1, <1>2, SessionsIdle, TakesHost DEF HostInv

(* The names a process owns change. *)
LEMMA OwnedUpdate ==
    ASSUME HostShape, NEW p \in Procs, NEW owned \in SUBSET Names,
           proc' = [proc EXCEPT ![p].owned = owned]
    PROVE  /\ proc' \in [Procs -> Process] /\ \A q \in Procs : SameOnline(q)
           /\ \A q \in Procs : proc'[q].owned = IF q = p THEN owned ELSE proc[q].owned
           /\ \A q \in Procs : proc'[q].stream = proc[q].stream
<1>1. PICK x : x = [proc[p] EXCEPT !.owned = owned]
  OBVIOUS
<1>2. proc[p] \in Process
  BY DEF HostShape
<1>3. /\ x \in Process /\ x.st = proc[p].st /\ x.conn = proc[p].conn /\ x.owned = owned
      /\ x.stream = proc[p].stream
  BY <1>1, <1>2 DEF Process
<1>4. proc' = [proc EXCEPT ![p] = x]
  BY <1>1
<1>5. proc' \in [Procs -> Process] /\ \A q \in Procs : proc'[q] = IF q = p THEN x ELSE proc[q]
  BY <1>3, <1>4, ProcUpdate
<1> QED BY <1>3, <1>5 DEF SameOnline

LEMMA HandleKillHost ==
    ASSUME HostInv, NEW p \in Procs, HandleKill(p)
    PROVE  HostStep
<1>1. /\ Receives(p, "kill") /\ Taken(p) /\ sessions' = Killed(NameIn(p))
      /\ UNCHANGED <<outbound, rows, commands>>
  BY DEF HandleKill, backend
<1>2. HostShape
  BY DEF HostInv, LinkInv
<1>3. PICK owned \in SUBSET Names : owned = proc[p].owned \ {NameIn(p)}
  BY <1>2 DEF HostShape, Process
<1>4. proc' = [proc EXCEPT ![p].owned = owned]
  BY <1>3 DEF HandleKill
<1>5. proc' \in [Procs -> Process] /\ \A q \in Procs : SameOnline(q)
  BY <1>2, <1>4, OwnedUpdate
<1>6. PICK n : n = NameIn(p)
  OBVIOUS
<1>7. SessionsSane' /\ SessionsGrow
  BY <1>1, <1>6, SessionKilled DEF HostInv
<1>8. outbound' \in Seq(FrameSet)
  BY <1>1, <1>2 DEF HostShape
<1> QED BY <1>1, <1>5, <1>7, <1>8, TakesHost

(* What session.start does to the process. *)
StartedProc(p, n) ==
    /\ proc' \in [Procs -> Process] /\ \A q \in Procs : SameOnline(q)
    /\ \A q \in Procs : proc'[q].owned = IF q = p THEN proc[q].owned \cup {n} ELSE proc[q].owned
    /\ \A q \in Procs, m \in Names :
          proc'[q].stream[m] = IF q = p /\ m = n /\ p = Daemon THEN 0 ELSE proc[q].stream[m]

LEMMA Started ==
    ASSUME HostShape, NEW p \in Procs, NEW n \in Names,
           proc' = IF p = Daemon
                   THEN [proc EXCEPT ![p].owned = @ \cup {n}, ![p].stream[n] = 0]
                   ELSE [proc EXCEPT ![p].owned = @ \cup {n}]
    PROVE  StartedProc(p, n)
<1>1. proc[p] \in Process /\ proc[p].owned \cup {n} \in SUBSET Names
      /\ proc[p].stream \in [Names -> {NoStream} \cup Nat]
  BY DEF HostShape, Process
<1>2. CASE p # Daemon
  <2>1. PICK x : x = [proc[p] EXCEPT !.owned = proc[p].owned \cup {n}]
    OBVIOUS
  <2>2. /\ x \in Process /\ x.st = proc[p].st /\ x.conn = proc[p].conn
        /\ x.owned = proc[p].owned \cup {n} /\ x.stream = proc[p].stream
    BY <1>1, <2>1 DEF Process
  <2>3. proc' = [proc EXCEPT ![p] = x]
    BY <1>2, <2>1
  <2>4. proc' \in [Procs -> Process] /\ \A q \in Procs : proc'[q] = IF q = p THEN x ELSE proc[q]
    BY <2>2, <2>3, ProcUpdate
  <2> QED BY <1>2, <2>2, <2>4 DEF StartedProc, SameOnline
<1>3. CASE p = Daemon
  <2>1. PICK s : s = [proc[p].stream EXCEPT ![n] = 0]
    OBVIOUS
  <2>2. PICK x : x = [proc[p] EXCEPT !.owned = proc[p].owned \cup {n}, !.stream = s]
    OBVIOUS
  <2>3. s \in [Names -> {NoStream} \cup Nat] /\ \A m \in Names : s[m] = IF m = n THEN 0 ELSE proc[p].stream[m]
    BY <1>1, <2>1
  <2>4. /\ x \in Process /\ x.st = proc[p].st /\ x.conn = proc[p].conn
        /\ x.owned = proc[p].owned \cup {n} /\ x.stream = s
    BY <1>1, <2>2, <2>3 DEF Process
  <2>5. proc' = [proc EXCEPT ![p] = x]
    BY <1>3, <2>1, <2>2
  <2>6. proc' \in [Procs -> Process] /\ \A q \in Procs : proc'[q] = IF q = p THEN x ELSE proc[q]
    BY <2>4, <2>5, ProcUpdate
  <2>7. /\ \A q \in Procs : proc'[q].st = proc[q].st /\ proc'[q].conn = proc[q].conn
        /\ \A q \in Procs : proc'[q].owned = IF q = p THEN proc[q].owned \cup {n} ELSE proc[q].owned
    BY <2>4, <2>6
  <2>8. \A q \in Procs, m \in Names :
            proc'[q].stream[m] = IF q = p /\ m = n /\ p = Daemon THEN 0 ELSE proc[q].stream[m]
    <3> SUFFICES ASSUME NEW q \in Procs, NEW m \in Names
                 PROVE  proc'[q].stream[m] = IF q = p /\ m = n /\ p = Daemon THEN 0
                                             ELSE proc[q].stream[m]
      OBVIOUS
    <3>1. CASE q = p
      <4>1. proc'[q].stream = s
        BY <2>4, <2>6, <3>1
      <4> QED BY <1>3, <2>3, <3>1, <4>1
    <3>2. CASE q # p
      BY <2>6, <3>2
    <3> QED BY <3>1, <3>2
  <2> QED BY <2>6, <2>7, <2>8 DEF StartedProc, SameOnline
<1> QED BY <1>2, <1>3

LEMMA HandleStartHost ==
    ASSUME HostInv, NEW p \in Procs, HandleStart(p)
    PROVE  HostStep
<1>1. Receives(p, "start") /\ Taken(p) /\ UNCHANGED <<rows, commands>>
  BY DEF HandleStart, backend
<1>2. HostShape /\ NameIn(p) \in Names
  BY <1>1, Receiving
<1> PICK n \in Names : n = NameIn(p)
  BY <1>2
<1>3. CASE NewSession(p, n)
  <2>1. SessionsSane' /\ SessionsGrow
    BY <1>3, SessionMade DEF HostInv
  <2>2. ~Exists(NameIn(p))
    BY <1>3 DEF NewSession
  <2>3. StartedProc(p, n)
    BY <1>2, <2>2, Started DEF HandleStart
  <2>4. outbound' \in Seq(FrameSet)
    <3>1. <<>> \in Seq(1 .. MaxLines)
      OBVIOUS
    <3>2. Frame("start", p, n, <<>>, 0) \in FrameSet
      BY <3>1, FrameTyped DEF HostInv
    <3>3. outbound' = outbound \/ outbound' = Append(outbound, Frame("start", p, n, <<>>, 0))
      BY <2>2 DEF HandleStart
    <3> PICK frame \in FrameSet : frame = Frame("start", p, n, <<>>, 0)
      BY <3>2
    <3> PICK out \in Seq(FrameSet) : out = outbound
      BY <1>2 DEF HostShape
    <3>4. Append(out, frame) \in Seq(FrameSet)
      BY AppendProperties
    <3> QED BY <3>3, <3>4
  <2> QED BY <1>1, <2>1, <2>3, <2>4, TakesHost DEF StartedProc
<1>4. CASE Exists(n)
  <2>1. UNCHANGED <<sessions, proc, outbound>>
    BY <1>4 DEF HandleStart, NewSession
  <2>2. /\ proc' \in [Procs -> Process] /\ outbound' \in Seq(FrameSet)
        /\ \A q \in Procs : SameOnline(q)
    BY <1>2, <2>1 DEF HostShape, SameOnline
  <2> QED BY <1>1, <2>1, <2>2, SessionsIdle, TakesHost DEF HostInv
<1> QED BY <1>3, <1>4 DEF HandleStart

(* headless.prompt and the end of its drive. *)
LEMMA DrivesUpdate ==
    ASSUME HostShape, NEW p \in Procs, NEW v \in Int, proc' = [proc EXCEPT ![p].drives = v]
    PROVE  /\ proc' \in [Procs -> Process] /\ \A q \in Procs : SameOnline(q)
           /\ \A q \in Procs : proc'[q].owned = proc[q].owned /\ proc'[q].stream = proc[q].stream
<1>1. PICK x : x = [proc[p] EXCEPT !.drives = v]
  OBVIOUS
<1>2. proc[p] \in Process
  BY DEF HostShape
<1>3. /\ x \in Process /\ x.st = proc[p].st /\ x.conn = proc[p].conn /\ x.owned = proc[p].owned
      /\ x.stream = proc[p].stream
  BY <1>1, <1>2 DEF Process
<1>4. proc' = [proc EXCEPT ![p] = x]
  BY <1>1
<1>5. proc' \in [Procs -> Process] /\ \A q \in Procs : proc'[q] = IF q = p THEN x ELSE proc[q]
  BY <1>3, <1>4, ProcUpdate
<1> QED BY <1>3, <1>5 DEF SameOnline

LEMMA HandlePromptHost ==
    ASSUME HostInv, NEW p \in Procs, HandlePrompt(p)
    PROVE  HostStep
<1>1. /\ Receives(p, "prompt") /\ Taken(p)
      /\ UNCHANGED <<sessions, outbound, rows, commands>>
  BY DEF HandlePrompt, backend
<1>2. HostShape
  BY DEF HostInv, LinkInv
<1>3. PICK v \in Int : v = proc[p].drives + 1
  BY <1>2 DEF HostShape, Process
<1>4. proc' = [proc EXCEPT ![p].drives = v]
  BY <1>3 DEF HandlePrompt
<1>5. proc' \in [Procs -> Process] /\ \A q \in Procs : SameOnline(q)
  BY <1>2, <1>4, DrivesUpdate
<1>6. SessionsSane' /\ SessionsGrow /\ outbound' \in Seq(FrameSet)
  BY <1>1, <1>2, SessionsIdle DEF HostInv, HostShape
<1> QED BY <1>1, <1>5, <1>6, TakesHost

LEMMA DriveEndsHost ==
    ASSUME HostInv, NEW p \in Procs, DriveEnds(p)
    PROVE  HostStep
<1>1. HostShape /\ UNCHANGED <<sessions, conns, outbound, rows, commands>>
  BY DEF DriveEnds, backend, HostInv, LinkInv
<1>2. PICK v \in Int : v = proc[p].drives - 1
  BY <1>1 DEF HostShape, Process
<1>3. proc' = [proc EXCEPT ![p].drives = v]
  BY <1>2 DEF DriveEnds
<1>4. proc' \in [Procs -> Process] /\ \A q \in Procs : SameOnline(q)
  BY <1>1, <1>3, DrivesUpdate
<1>5. /\ conns' \in Seq(ConnSet) /\ ConnIds' = ConnIds /\ outbound' \in Seq(FrameSet)
      /\ rows' \in [Refs -> RowSet] /\ \A c \in ConnIds : SameInbox(c)
  BY <1>1 DEF HostShape, SameInbox, ConnIds
<1> QED BY <1>1, <1>4, <1>5, QuietHost

-----------------------------------------------------------------------------
(* The bot sends a command. *)
LEMMA SendHost ==
    ASSUME HostInv, NEW command \in CommandSet, Send(command),
           UNCHANGED <<sessions, proc, outbound, rows>>
    PROVE  /\ HostStep /\ Sends(command)
           /\ \A c \in ConnIds : /\ conns'[c].proc = conns[c].proc /\ conns'[c].wire = conns[c].wire
                                 /\ conns'[c].known = conns[c].known
<1>1. HostShape /\ conns \in Seq(ConnSet) /\ Len(conns) \in Nat /\ commands \in Seq(CommandSet)
  BY HostFacts DEF HostInv, LinkInv, HostShape
<1>2. PICK n \in Nat : n = Len(commands) + 1
  BY <1>1, HostFacts
<1>3. commands' = Append(commands, command) /\ commands' \in Seq(CommandSet)
  BY <1>1, AppendProperties DEF Send
<1>4. \A c \in ConnIds : conns[c] \in ConnSet
  BY <1>1, HostFacts
<1>5. conns' = [c \in ConnIds |->
                  IF conns[c].joined THEN [conns[c] EXCEPT !.inbox = Append(conns[c].inbox, n)]
                  ELSE conns[c]]
  BY <1>2 DEF Send
<1>6. ASSUME NEW c \in ConnIds
      PROVE  /\ conns'[c] \in ConnSet /\ conns'[c].proc = conns[c].proc
             /\ conns'[c].wire = conns[c].wire /\ conns'[c].known = conns[c].known
  <2>1. CASE conns[c].joined
    <3>1. conns[c].inbox \in Seq(Nat) /\ conns[c] \in ConnSet
      BY <1>4 DEF ConnSet
    <3>2. PICK box \in Seq(Nat) : box = Append(conns[c].inbox, n)
      BY <3>1, AppendProperties
    <3>3. PICK x : x = [conns[c] EXCEPT !.inbox = box]
      OBVIOUS
    <3>4. x \in ConnSet /\ x.proc = conns[c].proc /\ x.wire = conns[c].wire /\ x.known = conns[c].known
      BY <3>1, <3>3 DEF ConnSet
    <3>5. conns'[c] = x
      BY <1>5, <2>1, <3>2, <3>3
    <3> QED BY <3>4, <3>5
  <2>2. CASE ~conns[c].joined
    <3>1. conns'[c] = conns[c]
      BY <1>5, <2>2
    <3> QED BY <1>4, <3>1
  <2> QED BY <2>1, <2>2
<1>7. conns' \in Seq(ConnSet) /\ ConnIds' = ConnIds
  <2>1. conns' \in [1 .. Len(conns) -> ConnSet]
    BY <1>5, <1>6 DEF ConnIds
  <2>2. conns' \in Seq(ConnSet)
    BY <1>1, <2>1, SeqDef
  <2>3. Len(conns') = Len(conns)
    BY <1>1, <2>1, <2>2, LenProperties
  <2> QED BY <2>2, <2>3 DEF ConnIds
<1>8. HostShape'
  BY <1>1, <1>3, <1>7 DEF HostShape
<1>9. Sends(command)
  BY <1>2, <1>3, <1>5, <1>7 DEF Sends
<1>10. SessionsSane' /\ SessionsGrow
  BY SessionsIdle DEF HostInv
<1> QED BY <1>6, <1>8, <1>9, <1>10 DEF HostStep, Moves

LEMMA NamesOfRows ==
    ASSUME HostInv, NEW f \in Refs
    PROVE  rows[f].name \in Names \cup {NoRef}
BY DEF HostInv, LinkInv, HostShape, RowSet

LEMMA AsksHost ==
    ASSUME HostInv,
           \/ \E f \in Refs, text \in Texts : AskInject(f, text)
           \/ \E n \in Launches : AskLaunch(n)
           \/ AskPrompt
           \/ \E f \in Refs : StopSends(f)
    PROVE  /\ UNCHANGED <<sessions, proc, file, unsaved, outbound, rows, recorded, typed, orphans>>
           /\ \E command \in CommandSet : Send(command)
<1>1. ASSUME NEW f \in Refs, NEW text \in Texts, AskInject(f, text)
      PROVE  \E command \in CommandSet : Send(command)
  <2>1. Command("inject", rows[f].name, text) \in CommandSet
    BY NamesOfRows, TerminalsAssumption DEF Command, CommandSet
  <2> QED BY <1>1, <2>1 DEF AskInject
<1>2. ASSUME NEW n \in Launches, AskLaunch(n)
      PROVE  \E command \in CommandSet : Send(command)
  <2>1. Command("start", n, {}) \in CommandSet
    BY TerminalsAssumption DEF Command, CommandSet
  <2> QED BY <1>2, <2>1 DEF AskLaunch
<1>3. ASSUME AskPrompt PROVE \E command \in CommandSet : Send(command)
  <2>1. Command("prompt", NoRef, {}) \in CommandSet
    BY DEF Command, CommandSet
  <2> QED BY <1>3, <2>1 DEF AskPrompt
<1>4. ASSUME NEW f \in Refs, StopSends(f)
      PROVE  \E command \in CommandSet : Send(command)
  <2>1. Command("kill", rows[f].name, {}) \in CommandSet
    BY NamesOfRows DEF Command, CommandSet
  <2> QED BY <1>4, <2>1 DEF StopSends
<1>5. ASSUME NEW f \in Refs, NEW text \in Texts, AskInject(f, text)
      PROVE  UNCHANGED <<sessions, proc, file, unsaved, outbound, rows, recorded, typed, orphans>>
  BY <1>5 DEF AskInject, backend, faults
<1>6. ASSUME NEW n \in Launches, AskLaunch(n)
      PROVE  UNCHANGED <<sessions, proc, file, unsaved, outbound, rows, recorded, typed, orphans>>
  BY <1>6 DEF AskLaunch, backend, faults
<1>7. ASSUME AskPrompt
      PROVE  UNCHANGED <<sessions, proc, file, unsaved, outbound, rows, recorded, typed, orphans>>
  BY <1>7 DEF AskPrompt, backend, faults
<1>8. ASSUME NEW f \in Refs, StopSends(f)
      PROVE  UNCHANGED <<sessions, proc, file, unsaved, outbound, rows, recorded, typed, orphans>>
  BY <1>8 DEF StopSends, faults
<1> QED BY <1>1, <1>2, <1>3, <1>4, <1>5, <1>6, <1>7, <1>8

LEMMA StopMarksHost ==
    ASSUME HostInv, StopMarks
    PROVE  HostStep
<1>1. HostShape /\ UNCHANGED <<sessions, proc, conns, outbound, commands>>
  BY DEF StopMarks, HostInv, LinkInv
<1>2. /\ proc' \in [Procs -> Process] /\ conns' \in Seq(ConnSet) /\ ConnIds' = ConnIds
      /\ outbound' \in Seq(FrameSet)
      /\ \A p \in Procs : SameOnline(p)
      /\ \A c \in ConnIds : SameInbox(c)
  BY <1>1, IdleHost DEF HostShape
<1>3. rows' \in [Refs -> RowSet]
  BY <1>1 DEF StopMarks, HostShape, RowSet
<1> QED BY <1>1, <1>2, <1>3, QuietHost

(* The consumer handles a frame. *)
LEMMA FirstFrame ==
    ASSUME HostShape, NEW c \in ConnIds, conns[c].wire # <<>>
    PROVE  /\ Arrival(c) \in FrameSet /\ Arrival(c) = conns[c].wire[1]
           /\ conns[c].wire \in Seq(FrameSet) /\ Len(conns[c].wire) \in Nat \ {0}
           /\ conns[c].known \in SUBSET (Names \cup {NoRef})
<1>1. conns[c] \in ConnSet
  BY HostFacts
<1>2. PICK w \in Seq(FrameSet) : w = conns[c].wire
  BY <1>1 DEF ConnSet
<1>3. Head(w) \in FrameSet /\ Head(w) = w[1] /\ Len(w) \in Nat \ {0}
  BY <1>2, HeadTailProperties, EmptySeq, LenProperties
<1> QED BY <1>1, <1>2, <1>3 DEF Arrival, ConnSet

(* What all handlers do with the connection, the rows and what is recorded.  *)
Heard(c, known) ==
    /\ conns[c].wire # <<>> /\ Handled(c, known) /\ known \in SUBSET (Names \cup {NoRef})
    /\ rows' \in [Refs -> RowSet] /\ RowWork

LEMMA FrameHeard ==
    ASSUME HostInv, NEW c \in ConnIds, ReceiveJson(c)
    PROVE  /\ Arrival(c) \in FrameSet
           /\ \/ /\ Arrival(c).kind = "start" /\ recorded' = recorded
                 /\ Heard(c, conns[c].known \cup {Arrival(c).name})
              \/ /\ Arrival(c).kind = "output" /\ Heard(c, conns[c].known)
                 /\ recorded' = IF Arrival(c).name \in conns[c].known
                                THEN [recorded EXCEPT ![Arrival(c).session] = @ \o Arrival(c).lines]
                                ELSE recorded
              \/ /\ Arrival(c).kind = "end" /\ recorded' = recorded
                 /\ Heard(c, conns[c].known \ {Arrival(c).name})
              \/ /\ Arrival(c).kind = "reconcile" /\ recorded' = recorded
                 /\ Heard(c, conns[c].known)
<1>1. HostShape
  BY DEF HostInv, LinkInv
<1>2. conns[c].wire # <<>>
  BY DEF ReceiveJson, PtyStart, PtyOutput, PtyEnd, PtyReconcile, Arrives
<1>3. Arrival(c) \in FrameSet /\ conns[c].known \in SUBSET (Names \cup {NoRef})
  BY <1>1, <1>2, FirstFrame
<1>4. Arrival(c).name \in Names \cup {NoRef}
  BY <1>3 DEF FrameSet
<1>5. rows \in [Refs -> RowSet]
  BY <1>1 DEF HostShape
<1>6. ASSUME NEW fs \in SUBSET Refs PROVE WithStatus(fs, "completed") \in [Refs -> RowSet]
  BY <1>5 DEF WithStatus, RowSet
<1>7. CASE PtyStart(c)
  <2>1. rows' \in [Refs -> RowSet]
    <3>1. PICK r : r = [status |-> IF rows[Arrival(c).ref].status = "none" THEN "running"
                                   ELSE rows[Arrival(c).ref].status,
                        name |-> Arrival(c).name]
      OBVIOUS
    <3>2. rows' = [rows EXCEPT ![Arrival(c).ref] = r]
      BY <1>7, <3>1 DEF PtyStart
    <3>3. Arrival(c).ref \in Refs => r \in RowSet
      <4>1. Arrival(c).ref \in Refs => rows[Arrival(c).ref].status \in {"none", "running", "completed", "stopped"}
        BY <1>5 DEF RowSet
      <4> QED BY <1>4, <3>1, <4>1 DEF RowSet
    <3> QED BY <1>5, <3>2, <3>3
  <2> QED BY <1>2, <1>3, <1>4, <1>7, <2>1 DEF PtyStart, Heard, Arrives, Arrival
<1>8. CASE PtyOutput(c)
  <2>1. rows' = rows
    BY <1>8 DEF PtyOutput
  <2> QED BY <1>2, <1>3, <1>5, <1>8, <2>1 DEF PtyOutput, Heard, Arrives, Arrival
<1>9. CASE PtyEnd(c)
  <2>1. {Arrival(c).ref} \cap Refs \in SUBSET Refs
    OBVIOUS
  <2>2. rows' \in [Refs -> RowSet]
    <3>1. rows' = rows \/ rows' = WithStatus({Arrival(c).ref}, "completed")
      BY <1>9 DEF PtyEnd
    <3>2. WithStatus({Arrival(c).ref}, "completed") = WithStatus({Arrival(c).ref} \cap Refs, "completed")
      BY DEF WithStatus
    <3> QED BY <1>5, <1>6, <2>1, <3>1, <3>2
  <2> QED BY <1>2, <1>3, <1>9, <2>2 DEF PtyEnd, Heard, Arrives, Arrival
<1>10. CASE PtyReconcile(c)
  <2>1. rows' \in [Refs -> RowSet]
    BY <1>6, <1>10 DEF PtyReconcile
  <2> QED BY <1>2, <1>3, <1>10, <2>1 DEF PtyReconcile, Heard, Arrives, Arrival
<1> QED BY <1>7, <1>8, <1>9, <1>10 DEF ReceiveJson

LEMMA HeardHost ==
    ASSUME HostInv, NEW c \in ConnIds, NEW known, Heard(c, known)
    PROVE  HostStep
<1>1. /\ HostShape /\ UNCHANGED <<sessions, proc, outbound, commands>>
      /\ conns[c].wire # <<>> /\ Handled(c, known) /\ known \in SUBSET (Names \cup {NoRef})
      /\ rows' \in [Refs -> RowSet]
  BY DEF Heard, RowWork, HostInv, LinkInv
<1>2. conns' \in Seq(ConnSet) /\ ConnIds' = ConnIds /\ \A d \in ConnIds : SameInbox(d)
  BY <1>1, HandledFrame
<1>3. /\ proc' \in [Procs -> Process] /\ outbound' \in Seq(FrameSet)
      /\ \A p \in Procs : SameOnline(p)
  BY <1>1 DEF HostShape, SameOnline
<1> QED BY <1>1, <1>2, <1>3, QuietHost

-----------------------------------------------------------------------------
(* All steps. *)
LEMMA NextHost ==
    ASSUME HostInv, Next, file \subseteq Names
    PROVE  HostStep
<1>1. CASE Program
  BY <1>1, ProgramHost
<1>2. CASE \E p \in Procs, n \in Names : Polls(p, n) \/ StreamEnds(p, n)
  BY <1>2, PollsHost, StreamEndsHost
<1>3. CASE \E r \in Runs : RunStarts(r) \/ RunConnects(r) \/ RunLeaves(r)
  BY <1>3, RunStartsHost, RunConnectsHost, RunLeavesHost
<1>4. CASE DaemonStarts \/ DaemonConnects \/ Heartbeat \/ DaemonSends \/ DaemonDies \/ DiesInStart
  BY <1>4, DaemonStartsHost, DaemonConnectsHost, HeartbeatHost, DaemonSendsHost, DaemonDiesStep,
     DiesInStartHost
<1>5. CASE \E p \in Procs : Breaks(p) \/ Handles(p) \/ DriveEnds(p)
  BY <1>5, BreaksHost, HandleInjectHost, HandleKillHost, HandleStartHost, HandlePromptHost,
     DriveEndsHost DEF Handles
<1>6. CASE \/ \E f \in Refs, text \in Texts : AskInject(f, text)
           \/ \E n \in Launches : AskLaunch(n)
           \/ AskPrompt
           \/ \E f \in Refs : StopSends(f)
  BY <1>6, AsksHost, SendHost
<1>7. CASE StopMarks
  BY <1>7, StopMarksHost
<1>8. CASE \E c \in ConnIds : ReceiveJson(c)
  BY <1>8, FrameHeard, HeardHost
<1> QED BY <1>1, <1>2, <1>3, <1>4, <1>5, <1>6, <1>7, <1>8 DEF Next

-----------------------------------------------------------------------------
(* Who may type into what.  The daemon goes by its registry, and by the file *)
(* when it starts; a name in either was given to a session by the daemon,    *)
(* and an orc run that is under way has made its session.                    *)
Held == IF IsUp(Daemon) THEN proc[Daemon].owned ELSE file

Kept ==
    \A k \in SessionIds \ orphans :
        (sessions[k].alive /\ sessions[k].by = Daemon) => sessions[k].name \in Held

OwnInv ==
    /\ IsUp(Daemon) /\ ~unsaved => proc[Daemon].owned = file
    /\ Kept
    /\ \A n \in file \cup proc[Daemon].owned : Made(Daemon, n)
    /\ \A r \in Runs : proc[r].st \in {"made", "up"} => Made(r, RunName[r])

LEMMA FileNames ==
    ASSUME HostInv, OwnInv
    PROVE  file \subseteq Names
BY Lengths DEF HostInv, OwnInv, Made, Session

(* A step after which the daemon knows no more names than before. *)
LEMMA OwnStep ==
    ASSUME HostInv, HostStep, OwnInv,
           IsUp(Daemon)' /\ ~unsaved' => proc'[Daemon].owned = file',
           file' \cup proc'[Daemon].owned \subseteq file \cup proc[Daemon].owned,
           \A k \in SessionIds' \ orphans' : \/ k \in SessionIds \ orphans
                                             \/ sessions'[k].by # Daemon,
           \A k \in SessionIds' \ orphans' :
               (sessions'[k].alive /\ sessions'[k].by = Daemon /\ sessions'[k].name \in Held)
                   => sessions'[k].name \in Held',
           \A r \in Runs : proc'[r].st \in {"made", "up"} =>
               proc[r].st \in {"made", "up"} \/ Made(r, RunName[r])'
    PROVE  OwnInv'
<1>1. SessionsSane /\ SessionsSane' /\ SessionsGrow
  BY DEF HostInv, HostStep
<1>2. \A p, n : Made(p, n) => Made(p, n)'
  BY <1>1, MadeStays
<1>3. Kept'
  <2> SUFFICES ASSUME NEW k \in SessionIds' \ orphans', sessions'[k].alive, sessions'[k].by = Daemon
               PROVE  sessions'[k].name \in Held'
    BY DEF Kept
  <2>1. k \in SessionIds \ orphans
    OBVIOUS
  <2>2. sessions[k].alive /\ sessions[k].by = Daemon /\ sessions'[k].name = sessions[k].name
    BY <1>1, <2>1 DEF SessionsGrow
  <2>3. sessions'[k].name \in Held
    BY <2>1, <2>2 DEF OwnInv, Kept
  <2> QED BY <2>3
<1>4. \A n \in file' \cup proc'[Daemon].owned : Made(Daemon, n)'
  BY <1>2 DEF OwnInv
<1>5. \A r \in Runs : proc'[r].st \in {"made", "up"} => Made(r, RunName[r])'
  BY <1>2 DEF OwnInv
<1> QED BY <1>3, <1>4, <1>5 DEF OwnInv, IsUp

(* A step that leaves the file, the registry of the daemon and the runs.     *)
LEMMA OwnQuiet ==
    ASSUME HostInv, HostStep, OwnInv, UNCHANGED <<file, unsaved, orphans>>,
           proc'[Daemon].st = proc[Daemon].st,
           proc'[Daemon].owned = proc[Daemon].owned,
           \A k \in SessionIds' : k \in SessionIds \/ sessions'[k].by # Daemon,
           \A r \in Runs : proc'[r].st \in {"made", "up"} =>
               proc[r].st \in {"made", "up"} \/ Made(r, RunName[r])'
    PROVE  OwnInv'
<1>1. Held' = Held /\ IsUp(Daemon)' = IsUp(Daemon)
  BY DEF Held, IsUp
<1>2. IsUp(Daemon)' /\ ~unsaved' => proc'[Daemon].owned = file'
  BY <1>1 DEF OwnInv
<1>3. \A k \in SessionIds' \ orphans' : k \in SessionIds \ orphans \/ sessions'[k].by # Daemon
  OBVIOUS
<1> QED BY <1>1, <1>2, <1>3, OwnStep

(* No session is made, and no process comes or goes. *)
LEMMA OwnIdle ==
    ASSUME HostInv, HostStep, OwnInv, UNCHANGED <<file, unsaved, orphans>>,
           SessionIds' = SessionIds,
           \A q \in Procs : SameOnline(q),
           proc'[Daemon].owned = proc[Daemon].owned
    PROVE  OwnInv'
<1>1. /\ proc'[Daemon].st = proc[Daemon].st
      /\ \A r \in Runs : proc'[r].st = proc[r].st
  BY TerminalsAssumption DEF SameOnline
<1> QED BY <1>1, OwnQuiet

LEMMA OwnProgram ==
    ASSUME HostInv, HostStep, OwnInv, Program
    PROVE  OwnInv'
<1>1. UNCHANGED <<proc, file, unsaved, orphans>>
  BY DEF Program, faults
<1>2. SessionIds' = SessionIds
  BY ProgramRuns DEF Program, HostInv
<1>3. \A q \in Procs : SameOnline(q)
  BY <1>1 DEF SameOnline
<1> QED BY <1>1, <1>2, <1>3, OwnIdle

LEMMA OwnPolls ==
    ASSUME HostInv, HostStep, OwnInv, NEW p \in Procs, NEW n \in Names, Polls(p, n)
    PROVE  OwnInv'
<1>1. UNCHANGED <<sessions, file, unsaved, orphans>> /\ proc[p].stream[n] # NoStream /\ Exists(n)
  BY DEF Polls, faults
<1>2. PICK k \in SessionIds : k = Current(n)
  BY <1>1, CurrentIs
<1>3. sessions[k].screen \in Seq(1 .. MaxLines)
  BY <1>2, Lengths DEF HostInv, Session
<1>4. PICK v \in Nat : v = Len(sessions[k].screen)
  BY <1>3, LenProperties
<1>5. proc' = [proc EXCEPT ![p].stream[n] = v]
  BY <1>2, <1>4 DEF Polls
<1>6. \A q \in Procs : SameOnline(q) /\ proc'[q].owned = proc[q].owned
  BY <1>5, StreamUpdate DEF HostInv, LinkInv
<1>7. SessionIds' = SessionIds
  BY <1>1 DEF SessionIds
<1> QED BY <1>1, <1>6, <1>7, OwnIdle, TerminalsAssumption

LEMMA OwnStreamEnds ==
    ASSUME HostInv, HostStep, OwnInv, NEW p \in Procs, NEW n \in Names, StreamEnds(p, n)
    PROVE  OwnInv'
<1>1. UNCHANGED <<sessions, file, unsaved, orphans>> /\ HostShape /\ SessionIds' = SessionIds
  BY DEF StreamEnds, faults, HostInv, LinkInv, SessionIds
<1>2. CASE p = Daemon
  <2>1. proc' = [proc EXCEPT ![p].stream[n] = NoStream]
    BY <1>2 DEF StreamEnds
  <2>2. \A q \in Procs : SameOnline(q) /\ proc'[q].owned = proc[q].owned
    BY <1>1, <2>1, StreamUpdate
  <2> QED BY <1>1, <2>2, OwnIdle, TerminalsAssumption
<1>3. CASE p # Daemon
  <2>1. PICK x \in Process : x = [Off EXCEPT !.st = "gone"] /\ x.st = "gone"
    BY OffTyped
  <2>2. proc' = [proc EXCEPT ![p] = x]
    BY <1>3, <2>1 DEF StreamEnds
  <2>3. \A q \in Procs : proc'[q] = IF q = p THEN x ELSE proc[q]
    BY <1>1, <2>2, ProcUpdate
  <2>4. /\ proc'[Daemon] = proc[Daemon]
        /\ \A r \in Runs : proc'[r].st \in {"made", "up"} => proc[r].st \in {"made", "up"}
    BY <1>3, <2>1, <2>3, TerminalsAssumption
  <2> QED BY <1>1, <2>4, OwnQuiet
<1> QED BY <1>2, <1>3

LEMMA OwnRunStarts ==
    ASSUME HostInv, HostStep, OwnInv, NEW r \in Runs, RunStarts(r)
    PROVE  OwnInv'
<1>1. /\ UNCHANGED <<file, unsaved, orphans>> /\ HostShape /\ r \in Procs /\ RunName[r] \in Names
      /\ r # Daemon /\ Daemon \in Procs
  BY TerminalsAssumption DEF RunStarts, faults, HostInv, LinkInv
<1>2. CASE NewSession(r, RunName[r]) /\ proc' = [proc EXCEPT ![r].st = "made"]
  <2> PICK n \in Names : n = RunName[r]
    BY <1>1
  <2>0. NewSession(r, n) /\ SessionsSane
    BY <1>2 DEF HostInv
  <2>1. /\ SessionIds' = SessionIds \cup {Len(sessions) + 1} /\ Made(r, n)'
        /\ sessions'[Len(sessions) + 1] =
               [name |-> n, by |-> r, alive |-> TRUE, printed |-> 0, screen |-> <<>>]
    BY <1>1, <2>0, SessionMade, Zenon
  <2>m. sessions'[Len(sessions) + 1].by = r
    BY <2>1
  <2>2. proc'[Daemon] = proc[Daemon] /\ \A s \in Runs \ {r} : proc'[s] = proc[s]
    BY <1>1, <1>2, TerminalsAssumption DEF HostShape
  <2> QED BY <1>1, <2>1, <2>m, <2>2, OwnQuiet
<1>3. CASE UNCHANGED sessions /\ proc' = [proc EXCEPT ![r].st = "gone"]
  <2>1. /\ proc'[Daemon] = proc[Daemon] /\ proc'[r].st = "gone"
        /\ \A s \in Runs \ {r} : proc'[s] = proc[s]
    BY <1>1, <1>3, TerminalsAssumption DEF HostShape, Process
  <2>2. SessionIds' = SessionIds
    BY <1>3 DEF SessionIds
  <2> QED BY <1>1, <2>1, <2>2, OwnQuiet
<1> QED BY <1>2, <1>3 DEF RunStarts

LEMMA OwnRunConnects ==
    ASSUME HostInv, HostStep, OwnInv, NEW r \in Runs, RunConnects(r)
    PROVE  OwnInv'
<1>1. /\ UNCHANGED <<sessions, file, unsaved, orphans>> /\ HostShape /\ r \in Procs /\ proc[r].st = "made"
      /\ r # Daemon /\ Daemon \in Procs /\ SessionIds' = SessionIds
  BY TerminalsAssumption DEF RunConnects, faults, HostInv, LinkInv, SessionIds
<1>2. PICK s : s = [proc[r].stream EXCEPT ![RunName[r]] = 0]
  OBVIOUS
<1>3. PICK x : x = [proc[r] EXCEPT !.st = "up", !.conn = Len(conns) + 1, !.stream = s]
  OBVIOUS
<1>4. proc' = [proc EXCEPT ![r] = x]
  BY <1>2, <1>3 DEF RunConnects
<1>5. proc'[Daemon] = proc[Daemon] /\ \A q \in Runs \ {r} : proc'[q] = proc[q]
  BY <1>1, <1>4, TerminalsAssumption DEF HostShape
<1> QED BY <1>1, <1>5, OwnQuiet

LEMMA OwnRunLeaves ==
    ASSUME HostInv, HostStep, OwnInv, NEW r \in Runs, RunLeaves(r)
    PROVE  OwnInv'
<1>1. /\ UNCHANGED <<sessions, file, unsaved, orphans>> /\ HostShape /\ r \in Procs
      /\ proc[r].st \in {"made", "up"} /\ r # Daemon /\ Daemon \in Procs /\ SessionIds' = SessionIds
  BY TerminalsAssumption DEF RunLeaves, HostInv, LinkInv, SessionIds
<1>2. PICK x : x = [Off EXCEPT !.st = "gone"]
  OBVIOUS
<1>3. proc' = [proc EXCEPT ![r] = x]
  BY <1>2 DEF RunLeaves
<1>4. proc'[Daemon] = proc[Daemon] /\ \A q \in Runs \ {r} : proc'[q] = proc[q]
  BY <1>1, <1>3, TerminalsAssumption DEF HostShape
<1> QED BY <1>1, <1>4, OwnQuiet

LEMMA OwnBreaks ==
    ASSUME HostInv, HostStep, OwnInv, NEW p \in Procs, Breaks(p)
    PROVE  OwnInv'
<1>1. UNCHANGED <<sessions, file, unsaved, orphans>> /\ HostShape /\ SessionIds' = SessionIds
  BY DEF Breaks, HostInv, LinkInv, SessionIds
<1>2. PICK x : x = [proc[p] EXCEPT !.conn = NoConn]
  OBVIOUS
<1>3. x.st = proc[p].st /\ x.owned = proc[p].owned
  BY <1>1, <1>2 DEF HostShape, Process
<1>4. proc' = [proc EXCEPT ![p] = x]
  BY <1>2 DEF Breaks
<1>5. \A q \in Procs : proc'[q].st = proc[q].st /\ proc'[q].owned = proc[q].owned
  BY <1>1, <1>3, <1>4 DEF HostShape
<1> QED BY <1>1, <1>5, OwnQuiet, TerminalsAssumption

(* What the file holds after a write, and after the pruning of names. *)
LEMMA Flushing ==
    ASSUME NEW names, Flush(Daemon, names)
    PROVE  file' \in {file, names} /\ (~unsaved' => file' = names)
BY DEF Flush

LEMMA Pruning ==
    ASSUME NEW names, PruneToLive(names)
    PROVE  /\ file' \in {file, Prune(names)}
           /\ ~unsaved' => \/ file' = Prune(names)
                           \/ Prune(names) = names /\ UNCHANGED <<file, unsaved>>
BY DEF PruneToLive, NoFlush, Flush, Prune

(* The daemon starts from the file, with the stale names gone or not. *)
LEMMA OwnDaemonStarts ==
    ASSUME HostInv, HostStep, OwnInv, DaemonStarts
    PROVE  OwnInv'
<1>1. /\ UNCHANGED <<sessions, orphans>> /\ HostShape /\ SessionIds' = SessionIds
      /\ Daemon \in Procs /\ Daemon \notin Runs /\ ~IsUp(Daemon)
  BY TerminalsAssumption DEF DaemonStarts, HostInv, LinkInv, SessionIds, IsUp
<1>2. PICK owned \in {file, Prune(file)} :
          /\ proc' = [proc EXCEPT ![Daemon].st = "up", ![Daemon].owned = owned]
          /\ file' \in {file, owned}
          /\ ~unsaved' => file' = owned
  <2>1. CASE /\ proc' = [proc EXCEPT ![Daemon].st = "up", ![Daemon].owned = file]
             /\ NoFlush
    BY <2>1 DEF NoFlush
  <2>2. CASE /\ proc' = [proc EXCEPT ![Daemon].st = "up", ![Daemon].owned = Prune(file)]
             /\ PruneToLive(file)
    BY <2>2, Pruning
  <2> QED BY <2>1, <2>2 DEF DaemonStarts
<1>3. PICK x : x = [proc[Daemon] EXCEPT !.st = "up", !.owned = owned]
  OBVIOUS
<1>4. x.owned = owned /\ x.st = "up"
  BY <1>1, <1>3 DEF HostShape, Process
<1>5. proc' = [proc EXCEPT ![Daemon] = x]
  BY <1>2, <1>3
<1>6. proc'[Daemon] = x /\ \A r \in Runs : proc'[r] = proc[r]
  BY <1>1, <1>5, TerminalsAssumption DEF HostShape
<1>7. Held = file /\ Held' = owned
  BY <1>1, <1>4, <1>6 DEF Held, IsUp
<1>8. /\ owned \subseteq file
      /\ \A k \in SessionIds : sessions[k].alive /\ sessions[k].name \in file
                                => sessions[k].name \in owned
  BY DEF Prune, LiveNames
<1> QED BY <1>1, <1>2, <1>4, <1>6, <1>7, <1>8, OwnStep

(* The daemon drops the stale names as it enumerates. *)
LEMMA OwnPruned ==
    ASSUME HostInv, HostStep, OwnInv, UNCHANGED <<sessions, orphans>>, IsUp(Daemon),
           NEW x, proc' = [proc EXCEPT ![Daemon] = x], x.st = proc[Daemon].st,
           x.owned = Prune(proc[Daemon].owned), PruneToLive(proc[Daemon].owned)
    PROVE  OwnInv'
<1>1. HostShape /\ SessionIds' = SessionIds /\ Daemon \in Procs /\ Daemon \notin Runs
  BY TerminalsAssumption DEF HostInv, LinkInv, SessionIds
<1>2. PICK was : was = proc[Daemon].owned
  OBVIOUS
<1>3. proc'[Daemon] = x /\ \A r \in Runs : proc'[r] = proc[r]
  BY <1>1, TerminalsAssumption DEF HostShape
<1>4. Held = was /\ Held' = Prune(was)
  BY <1>2, <1>3 DEF Held, IsUp
<1>5. /\ Prune(was) \subseteq was
      /\ \A k \in SessionIds : sessions[k].alive /\ sessions[k].name \in was
                                => sessions[k].name \in Prune(was)
  BY DEF Prune, LiveNames
<1>6. file' \in {file, Prune(was)}
  BY <1>2, Pruning
<1>7. ~unsaved' => Prune(was) = file'
  BY <1>2, Pruning DEF OwnInv
<1> QED BY <1>1, <1>2, <1>3, <1>4, <1>5, <1>6, <1>7, OwnStep

LEMMA OwnHeartbeat ==
    ASSUME HostInv, HostStep, OwnInv, Heartbeat
    PROVE  OwnInv'
<1>1. UNCHANGED <<sessions, orphans>> /\ HostShape /\ IsUp(Daemon) /\ proc[Daemon] \in Process
  BY TerminalsAssumption DEF Heartbeat, HostInv, LinkInv, OnlineOk, HostShape
<1>2. PICK x : x = [proc[Daemon] EXCEPT !.owned = Prune(proc[Daemon].owned)]
  OBVIOUS
<1>3. x.owned = Prune(proc[Daemon].owned) /\ x.st = proc[Daemon].st
  BY <1>1, <1>2 DEF Process
<1>4. proc' = [proc EXCEPT ![Daemon] = x]
  BY <1>2 DEF Heartbeat
<1>5. PruneToLive(proc[Daemon].owned)
  BY DEF Heartbeat
<1> QED BY <1>1, <1>3, <1>4, <1>5, OwnPruned

LEMMA OwnDaemonConnects ==
    ASSUME HostInv, HostStep, OwnInv, DaemonConnects
    PROVE  OwnInv'
<1>1. /\ UNCHANGED <<sessions, orphans>> /\ HostShape /\ IsUp(Daemon) /\ proc[Daemon] \in Process
      /\ SessionIds' = SessionIds /\ Daemon \in Procs /\ Daemon \notin Runs
  BY TerminalsAssumption DEF DaemonConnects, HostInv, LinkInv, HostShape, SessionIds
<1>2. CASE Pruned
  <2>1. PICK x : x = [proc[Daemon] EXCEPT !.owned = Prune(proc[Daemon].owned), !.conn = Len(conns')]
    OBVIOUS
  <2>2. x.owned = Prune(proc[Daemon].owned) /\ x.st = proc[Daemon].st
    BY <1>1, <2>1 DEF Process
  <2>3. proc' = [proc EXCEPT ![Daemon] = x]
    BY <1>2, <2>1 DEF Pruned
  <2>4. PruneToLive(proc[Daemon].owned)
    BY <1>2 DEF Pruned
  <2> QED BY <1>1, <2>2, <2>3, <2>4, OwnPruned
<1>3. CASE proc' = [proc EXCEPT ![Daemon].conn = Len(conns')] /\ NoFlush
  <2>1. PICK x : x = [proc[Daemon] EXCEPT !.conn = Len(conns')]
    OBVIOUS
  <2>2. x.owned = proc[Daemon].owned /\ x.st = proc[Daemon].st
    BY <1>1, <2>1 DEF Process
  <2>3. proc' = [proc EXCEPT ![Daemon] = x]
    BY <1>3, <2>1
  <2>4. /\ proc'[Daemon].owned = proc[Daemon].owned /\ proc'[Daemon].st = proc[Daemon].st
        /\ \A r \in Runs : proc'[r] = proc[r]
    BY <1>1, <2>2, <2>3, TerminalsAssumption DEF HostShape
  <2>5. UNCHANGED <<file, unsaved>>
    BY <1>3 DEF NoFlush
  <2> QED BY <1>1, <2>4, <2>5, OwnQuiet
<1> QED BY <1>2, <1>3 DEF DaemonConnects

(* The daemon dies: the file is all that is left of what it knew, and lacks  *)
(* only what a failed write kept from it.                                    *)
LEMMA OwnDies ==
    ASSUME HostInv, HostStep, OwnInv, IsUp(Daemon), UNCHANGED file,
           NEW lostConns, NEW lost, Dies(lostConns, lost), Unsaved \subseteq lost,
           \A k \in SessionIds' \ orphans' : k \in SessionIds
    PROVE  OwnInv'
<1>1. /\ HostShape /\ Daemon \in Procs /\ Daemon \notin Runs /\ SessionsGrow
      /\ proc' = [proc EXCEPT ![Daemon] = Off] /\ orphans' = orphans \cup lost
  BY TerminalsAssumption DEF Dies, HostInv, HostStep, LinkInv
<1>2. proc'[Daemon] = Off /\ \A r \in Runs : proc'[r] = proc[r]
  BY <1>1, TerminalsAssumption DEF HostShape
<1>3. ~IsUp(Daemon)' /\ proc'[Daemon].owned = {}
  BY <1>2 DEF IsUp, Off
<1>4. Held = proc[Daemon].owned /\ Held' = file
  BY <1>3 DEF Held
<1>5. ASSUME NEW k \in SessionIds' \ orphans', sessions'[k].alive, sessions'[k].by = Daemon,
             sessions'[k].name \in Held
      PROVE  sessions'[k].name \in file
  <2>1. k \in SessionIds /\ k \notin Unsaved
    BY <1>1, <1>5
  <2>2. sessions[k].alive /\ sessions[k].by = Daemon /\ sessions'[k].name = sessions[k].name
    BY <1>1, <1>5, <2>1 DEF SessionsGrow
  <2>3. unsaved => sessions[k].name \in file
    BY <2>1, <2>2 DEF Unsaved
  <2>4. ~unsaved => proc[Daemon].owned = file
    BY DEF OwnInv
  <2> QED BY <1>4, <1>5, <2>2, <2>3, <2>4
<1>6. \A k \in SessionIds' \ orphans' : k \in SessionIds \ orphans
  BY <1>1
<1> QED BY <1>2, <1>3, <1>4, <1>5, <1>6, OwnStep

LEMMA OwnDaemonDies ==
    ASSUME HostInv, HostStep, OwnInv, DaemonDies \/ DiesInStart
    PROVE  OwnInv'
<1>1. CASE DaemonDies
  <2>1. /\ UNCHANGED <<sessions, file>> /\ IsUp(Daemon)
        /\ \E lostConns : Dies(lostConns, Unsaved)
    BY <1>1 DEF DaemonDies
  <2>2. SessionIds' = SessionIds
    BY <2>1 DEF SessionIds
  <2> QED BY <2>1, <2>2, OwnDies
<1>2. CASE DiesInStart
  <2>1. PICK lost : lost = Unsaved \cup {Len(sessions) + 1}
    OBVIOUS
  <2>2. /\ UNCHANGED file /\ \E lostConns : Dies(lostConns, lost)
        /\ NewSession(Daemon, NameIn(Daemon))
        /\ Receives(Daemon, "start") /\ Daemon \in Procs /\ SessionsSane
    BY <1>2, <2>1, TerminalsAssumption DEF DiesInStart, HostInv
  <2>3. PICK n \in Names : n = NameIn(Daemon)
    BY <2>2, Receiving
  <2>4. SessionIds' = SessionIds \cup {Len(sessions) + 1}
    BY <2>2, <2>3, SessionMade, Zenon
  <2>5. IsUp(Daemon) /\ orphans' = orphans \cup lost
    BY <2>2 DEF Receives, Dies
  <2>6. \A k \in SessionIds' \ orphans' : k \in SessionIds
    BY <2>1, <2>4, <2>5
  <2> QED BY <2>1, <2>2, <2>5, <2>6, OwnDies
<1> QED BY <1>1, <1>2

(* The commands. *)
LEMMA OwnHandleKill ==
    ASSUME HostInv, HostStep, OwnInv, NEW p \in Procs, HandleKill(p)
    PROVE  OwnInv'
<1>1. /\ UNCHANGED orphans /\ HostShape /\ Daemon \in Procs /\ Daemon \notin Runs /\ Runs \subseteq Procs
      /\ IsUp(p)
  BY TerminalsAssumption, Receiving DEF HandleKill, HostInv, LinkInv
<1>2. PICK n : n = NameIn(p)
  OBVIOUS
<1>3. PICK owned \in SUBSET Names : owned = proc[p].owned \ {n}
  BY <1>1 DEF HostShape, Process
<1>4. proc' = [proc EXCEPT ![p].owned = owned] /\ Flush(p, owned) /\ sessions' = Killed(n)
  BY <1>2, <1>3 DEF HandleKill
<1>h. HostShape /\ proc' = [proc EXCEPT ![p].owned = owned]
  BY <1>1, <1>4
<1>5. /\ \A q \in Procs : SameOnline(q)
      /\ \A q \in Procs : proc'[q].owned = IF q = p THEN owned ELSE proc[q].owned
  BY <1>h, OwnedUpdate, Zenon
<1>6. /\ SessionIds' = SessionIds
      /\ \A k \in SessionIds : sessions'[k].alive => sessions[k].alive /\ sessions[k].name # n
      /\ \A k \in SessionIds : sessions'[k].name = sessions[k].name
  BY <1>4, SessionKilled DEF HostInv, SessionsGrow
<1>7. \A r \in Runs : proc'[r].st = proc[r].st
  BY <1>1, <1>5 DEF SameOnline
<1>8. CASE p = Daemon
  <2>1. file' \in {file, owned} /\ (~unsaved' => file' = owned)
    BY <1>4, <1>8, Flushing
  <2>2. /\ proc'[Daemon].owned = owned /\ IsUp(Daemon) /\ IsUp(Daemon)'
        /\ owned = proc[Daemon].owned \ {n}
    BY <1>1, <1>3, <1>5, <1>8 DEF SameOnline, IsUp
  <2>3. Held = proc[Daemon].owned /\ Held' = owned
    BY <2>2 DEF Held
  <2>4. \A k \in SessionIds' : sessions'[k].alive /\ sessions'[k].name \in Held
                               => sessions'[k].name \in Held'
    BY <1>6, <2>2, <2>3
  <2> QED BY <1>1, <1>6, <1>7, <2>1, <2>2, <2>4, OwnStep
<1>9. CASE p # Daemon
  BY <1>1, <1>4, <1>5, <1>6, <1>9, OwnIdle DEF Flush, NoFlush
<1> QED BY <1>8, <1>9

LEMMA OwnHandleStart ==
    ASSUME HostInv, HostStep, OwnInv, NEW p \in Procs, HandleStart(p)
    PROVE  OwnInv'
<1>1. /\ UNCHANGED orphans /\ HostShape /\ Daemon \in Procs /\ Daemon \notin Runs /\ Runs \subseteq Procs
      /\ IsUp(p) /\ Receives(p, "start") /\ NameIn(p) \in Names /\ SessionsSane
  BY TerminalsAssumption, Receiving DEF HandleStart, HostInv, LinkInv
<1> PICK n \in Names : n = NameIn(p)
  BY <1>1
<1>2. CASE NewSession(p, n)
  <2>1. ~Exists(NameIn(p))
    BY <1>2 DEF NewSession
  <2>2. StartedProc(p, n) /\ Flush(p, proc[p].owned \cup {n})
    BY <1>1, <2>1, Started DEF HandleStart
  <2>3. /\ SessionIds' = SessionIds \cup {Len(sessions) + 1} /\ Made(p, n)' /\ SessionsSane'
        /\ sessions'[Len(sessions) + 1] =
               [name |-> n, by |-> p, alive |-> TRUE, printed |-> 0, screen |-> <<>>]
        /\ SessionsGrow /\ \A k \in SessionIds : sessions'[k] = sessions[k]
    BY <1>1, <1>2, SessionMade, Zenon
  <2>4. sessions'[Len(sessions) + 1].by = p /\ sessions'[Len(sessions) + 1].name = n
    BY <2>3
  <2>5. \A r \in Runs : proc'[r].st = proc[r].st
    BY <1>1, <2>2 DEF StartedProc, SameOnline
  <2>6. CASE p = Daemon
    <3>1. PICK owned : owned = proc[Daemon].owned \cup {n}
      OBVIOUS
    <3>m. /\ proc'[Daemon].owned = owned /\ IsUp(Daemon) /\ IsUp(Daemon)'
          /\ file' \in {file, owned} /\ (~unsaved' => file' = owned)
      BY <1>1, <2>2, <2>6, <3>1, Flushing DEF StartedProc, SameOnline, IsUp
    <3>h. Held = proc[Daemon].owned /\ Held' = owned
      BY <3>m DEF Held
    <3>2. \A q, m : Made(q, m) => Made(q, m)'
      BY <1>1, <2>3, MadeStays
    <3>3. Kept'
      BY <1>1, <2>3, <2>4, <3>1, <3>h DEF Kept, OwnInv
    <3>4. \A m \in file' \cup proc'[Daemon].owned : Made(Daemon, m)'
      BY <2>3, <2>6, <3>1, <3>m, <3>2 DEF OwnInv
    <3>5. \A r \in Runs : proc'[r].st \in {"made", "up"} => Made(r, RunName[r])'
      BY <2>5, <3>2 DEF OwnInv
    <3> QED BY <3>m, <3>3, <3>4, <3>5 DEF OwnInv
  <2>7. CASE p # Daemon
    <3>1. UNCHANGED <<file, unsaved>>
      BY <2>2, <2>7 DEF Flush, NoFlush
    <3>2. /\ proc'[Daemon].owned = proc[Daemon].owned /\ proc'[Daemon].st = proc[Daemon].st
          /\ \A k \in SessionIds' : k \in SessionIds \/ sessions'[k].by # Daemon
      BY <1>1, <2>2, <2>3, <2>4, <2>7 DEF StartedProc, SameOnline
    <3> QED BY <1>1, <2>5, <3>1, <3>2, OwnQuiet
  <2> QED BY <2>6, <2>7
<1>3. CASE Exists(n)
  <2>1. UNCHANGED <<sessions, proc, file, unsaved>>
    BY <1>3 DEF HandleStart, NewSession, NoFlush
  <2> QED BY <1>1, <2>1, OwnIdle DEF SameOnline, SessionIds
<1> QED BY <1>2, <1>3 DEF HandleStart

LEMMA OwnDrives ==
    ASSUME HostInv, HostStep, OwnInv, NEW p \in Procs,
           HandlePrompt(p) \/ DriveEnds(p) \/ HandleInject(p)
    PROVE  OwnInv'
<1>1. /\ UNCHANGED <<sessions, file, unsaved, orphans>> /\ HostShape /\ Daemon \in Procs
      /\ SessionIds' = SessionIds
  BY TerminalsAssumption DEF HandlePrompt, DriveEnds, HandleInject, faults, HostInv, LinkInv, SessionIds
<1>2. \A q \in Procs : SameOnline(q) /\ proc'[q].owned = proc[q].owned
  <2>1. CASE HandlePrompt(p)
    <3>1. PICK v \in Int : v = proc[p].drives + 1
      BY <1>1 DEF HostShape, Process
    <3>2. proc' = [proc EXCEPT ![p].drives = v]
      BY <2>1, <3>1 DEF HandlePrompt
    <3> QED BY <1>1, <3>2, DrivesUpdate
  <2>2. CASE DriveEnds(p)
    <3>1. PICK v \in Int : v = proc[p].drives - 1
      BY <1>1 DEF HostShape, Process
    <3>2. proc' = [proc EXCEPT ![p].drives = v]
      BY <2>2, <3>1 DEF DriveEnds
    <3> QED BY <1>1, <3>2, DrivesUpdate
  <2>3. CASE HandleInject(p)
    BY <2>3 DEF HandleInject, SameOnline
  <2> QED BY <2>1, <2>2, <2>3
<1> QED BY <1>1, <1>2, OwnIdle

(* The backend does nothing on the host. *)
LEMMA OwnBackend ==
    ASSUME HostInv, HostStep, OwnInv, UNCHANGED <<sessions, proc, file, unsaved, orphans>>
    PROVE  OwnInv'
<1>1. SessionIds' = SessionIds
  BY DEF SessionIds
<1> QED BY <1>1, OwnIdle DEF SameOnline

LEMMA NextOwn ==
    ASSUME HostInv, HostStep, OwnInv, Next
    PROVE  OwnInv'
<1>1. CASE Program
  BY <1>1, OwnProgram
<1>2. CASE \E p \in Procs, n \in Names : Polls(p, n) \/ StreamEnds(p, n)
  BY <1>2, OwnPolls, OwnStreamEnds
<1>3. CASE \E r \in Runs : RunStarts(r) \/ RunConnects(r) \/ RunLeaves(r)
  BY <1>3, OwnRunStarts, OwnRunConnects, OwnRunLeaves
<1>4. CASE DaemonStarts \/ DaemonConnects \/ Heartbeat \/ DaemonDies \/ DiesInStart
  BY <1>4, OwnDaemonStarts, OwnDaemonConnects, OwnHeartbeat, OwnDaemonDies
<1>5. CASE DaemonSends
  BY <1>5, OwnBackend DEF DaemonSends, faults
<1>6. CASE \E p \in Procs : Breaks(p) \/ Handles(p) \/ DriveEnds(p)
  BY <1>6, OwnBreaks, OwnHandleKill, OwnHandleStart, OwnDrives DEF Handles
<1>7. CASE \/ \E f \in Refs, text \in Texts : AskInject(f, text)
           \/ \E n \in Launches : AskLaunch(n)
           \/ AskPrompt
           \/ \E f \in Refs : StopSends(f)
  BY <1>7, AsksHost, OwnBackend
<1>8. CASE StopMarks
  BY <1>8, OwnBackend DEF StopMarks, faults
<1>9. CASE \E c \in ConnIds : ReceiveJson(c)
  <2>1. UNCHANGED <<sessions, proc, file, unsaved, orphans>>
    BY <1>9, FrameHeard DEF Heard, RowWork, faults
  <2> QED BY <2>1, OwnBackend
<1> QED BY <1>1, <1>2, <1>3, <1>4, <1>5, <1>6, <1>7, <1>8, <1>9 DEF Next

-----------------------------------------------------------------------------
(* What was typed.  The one who typed a command had made a session of that   *)
(* name; commands come in order, so that it does not get the command again.  *)
TypedSet == [command : Nat, by : Procs, session : Nat]

TypedOk(x) ==
    /\ x.command \in 1 .. Len(commands)
    /\ Made(x.by, commands[x.command].name)
    /\ \A c \in ConnIds : conns[c].proc = x.by =>
          \A i \in 1 .. Len(conns[c].inbox) : x.command < conns[c].inbox[i]

TypedInv ==
    /\ typed \in Seq(TypedSet)
    /\ \A i \in 1 .. Len(typed) : TypedOk(typed[i])
    /\ \A i, j \in 1 .. Len(typed) :
          (typed[i].command = typed[j].command /\ i # j) => typed[i].by # typed[j].by

(* The commands on the way to a process are those of before, or younger.     *)
LEMMA InboxesMove ==
    ASSUME HostInv, HostStep
    PROVE  /\ Len(commands) \in Nat /\ Len(commands') \in Nat /\ Len(commands) <= Len(commands')
           /\ \A i \in 1 .. Len(commands) : commands'[i] = commands[i]
           /\ \A c \in ConnIds' : \A i \in 1 .. Len(conns'[c].inbox) :
                 \/ conns'[c].inbox[i] = Len(commands) + 1
                 \/ /\ c \in ConnIds /\ conns'[c].proc = conns[c].proc
                    /\ \E j \in 1 .. Len(conns[c].inbox) : conns'[c].inbox[i] = conns[c].inbox[j]
<1>1. /\ Len(commands) \in Nat /\ Len(conns) \in Nat /\ \A c \in ConnIds : conns[c] \in ConnSet
      /\ HostShape /\ commands \in Seq(CommandSet)
  BY HostFacts DEF HostInv, LinkInv, HostShape
<1>2. HostShape' /\ Moves /\ \A p \in Procs : OnlineOk(p)
  BY DEF HostStep, HostInv, LinkInv
<1> DEFINE Good(c) == \A i \in 1 .. Len(conns'[c].inbox) :
                 \/ conns'[c].inbox[i] = Len(commands) + 1
                 \/ /\ c \in ConnIds /\ conns'[c].proc = conns[c].proc
                    /\ \E j \in 1 .. Len(conns[c].inbox) : conns'[c].inbox[i] = conns[c].inbox[j]
<1>3. ASSUME NEW c \in ConnIds, SameInbox(c) PROVE Good(c)
  BY <1>3 DEF SameInbox
<1>4. ASSUME NEW c, conns'[c].inbox = <<>> PROVE Good(c)
  BY <1>4
<1> SUFFICES /\ Len(commands') \in Nat /\ Len(commands) <= Len(commands')
             /\ \A i \in 1 .. Len(commands) : commands'[i] = commands[i]
             /\ \A c \in ConnIds' : Good(c)
  BY <1>1
<1>5. CASE commands' = commands
  <2>7. /\ Len(commands') \in Nat /\ Len(commands) <= Len(commands')
        /\ \A i \in 1 .. Len(commands) : commands'[i] = commands[i]
    BY <1>1, <1>5
  <2>1. CASE NobodyMoves
    <3>1. ConnIds' = ConnIds /\ \A c \in ConnIds : SameInbox(c)
      BY <2>1 DEF NobodyMoves
    <3>2. \A c \in ConnIds' : Good(c)
      BY <1>3, <3>1
    <3> QED BY <2>7, <3>2
  <2>2. CASE \E p \in Procs : Changes(p)
    <3>1. ConnIds' = ConnIds /\ \A c \in ConnIds : SameInbox(c)
      BY <2>2 DEF Changes
    <3>2. \A c \in ConnIds' : Good(c)
      BY <1>3, <3>1
    <3> QED BY <2>7, <3>2
  <2>3. ASSUME NEW p \in Procs, Leaves(p) PROVE \A c \in ConnIds' : Good(c)
    <3>1. ConnIds' = ConnIds
      BY <2>3 DEF Leaves
    <3>2. Good(proc[p].conn)
      BY <1>4, <2>3 DEF Leaves
    <3>3. \A c \in ConnIds \ {proc[p].conn} : Good(c)
      BY <1>3, <2>3 DEF Leaves
    <3> HIDE DEF Good
    <3> QED BY <3>1, <3>2, <3>3
  <2>4. ASSUME NEW p \in Procs, Joins(p) PROVE \A c \in ConnIds' : Good(c)
    <3>1. ConnIds' = ConnIds \cup {Len(conns) + 1}
      BY <1>1, <2>4 DEF Joins, ConnIds
    <3>2. Good(Len(conns) + 1)
      BY <1>4, <2>4 DEF Joins
    <3>3. \A c \in ConnIds : Good(c)
      BY <1>3, <2>4 DEF Joins
    <3> QED BY <3>1, <3>2, <3>3
  <2>5. ASSUME NEW p \in Procs, TakesCommand(p) PROVE \A c \in ConnIds' : Good(c)
    <3>1. ConnIds' = ConnIds /\ \A c \in ConnIds \ {proc[p].conn} : SameInbox(c)
      BY <2>5 DEF TakesCommand
    <3>2. \A c \in ConnIds \ {proc[p].conn} : Good(c)
      BY <1>3, <3>1
    <3>3. PICK c \in ConnIds : c = proc[p].conn
      BY <1>2, <2>5 DEF TakesCommand, OnlineOk
    <3>4. PICK box \in Seq(Nat) : box = conns[c].inbox /\ box # <<>>
      BY <1>1, <2>5, <3>3 DEF TakesCommand, ConnSet
    <3>5. /\ Len(Tail(box)) = Len(box) - 1 /\ Len(box) \in Nat \ {0}
          /\ \A i \in 1 .. Len(Tail(box)) : Tail(box)[i] = box[i + 1]
      BY <3>4, HeadTailProperties, EmptySeq, LenProperties
    <3>6. conns'[c].inbox = Tail(box) /\ conns'[c].proc = conns[c].proc
      BY <2>5, <3>3, <3>4 DEF TakesCommand
    <3>7. \A i \in 1 .. Len(Tail(box)) : i + 1 \in 1 .. Len(box)
      BY <3>5
    <3>8. Good(c)
      BY <3>4, <3>5, <3>6, <3>7
    <3> HIDE DEF Good
    <3> QED BY <3>1, <3>2, <3>3, <3>8
  <2>6. ASSUME NEW command \in CommandSet, Sends(command) PROVE FALSE
    <3>1. Len(Append(commands, command)) = Len(commands) + 1
      BY <1>1, AppendProperties
    <3> QED BY <1>1, <1>5, <2>6, <3>1 DEF Sends
  <2> QED BY <1>2, <2>1, <2>2, <2>3, <2>4, <2>5, <2>6, <2>7 DEF Moves
<1>6. ASSUME NEW command \in CommandSet, Sends(command)
      PROVE  /\ Len(commands') \in Nat /\ Len(commands) <= Len(commands')
             /\ \A i \in 1 .. Len(commands) : commands'[i] = commands[i]
             /\ \A c \in ConnIds' : Good(c)
  <2>1. PICK n \in Nat : n = Len(commands) + 1
    BY <1>1
  <2>2. /\ Len(commands') = n /\ \A i \in 1 .. Len(commands) : commands'[i] = commands[i]
    BY <1>1, <1>6, <2>1, AppendProperties DEF Sends
  <2>3. ASSUME NEW c \in ConnIds PROVE Good(c)
    <3>1. CASE conns[c].joined
      <4>1. PICK box \in Seq(Nat) : box = conns[c].inbox
        BY <1>1 DEF ConnSet
      <4>2. conns'[c] = [conns[c] EXCEPT !.inbox = Append(box, n)]
        BY <1>6, <2>1, <3>1, <4>1 DEF Sends
      <4>3. conns'[c].inbox = Append(box, n) /\ conns'[c].proc = conns[c].proc
        BY <1>1, <4>2 DEF ConnSet
      <4>4. /\ Len(Append(box, n)) = Len(box) + 1 /\ Append(box, n)[Len(box) + 1] = n
            /\ \A i \in 1 .. Len(box) : Append(box, n)[i] = box[i]
            /\ Len(box) \in Nat
        BY AppendProperties, LenProperties
      <4>5. ASSUME NEW i \in 1 .. Len(Append(box, n))
            PROVE  Append(box, n)[i] = n \/ (i \in 1 .. Len(box) /\ Append(box, n)[i] = box[i])
        <5>1. i \in 1 .. Len(box) \/ i = Len(box) + 1
          BY <4>4
        <5> QED BY <4>4, <5>1
      <4> QED BY <2>1, <4>1, <4>3, <4>5
    <3>2. CASE ~conns[c].joined
      BY <1>6, <3>2 DEF Sends
    <3> QED BY <3>1, <3>2
  <2>4. ConnIds' = ConnIds
    BY <1>6 DEF Sends
  <2> QED BY <1>1, <2>1, <2>2, <2>3, <2>4
<1>7. commands' = commands \/ \E command \in CommandSet : Sends(command)
  BY <1>2 DEF Moves, NobodyMoves, Changes, Leaves, Joins, TakesCommand
<1> QED BY <1>5, <1>6, <1>7

LEMMA TypedStays ==
    ASSUME HostInv, HostStep, NEW x, TypedOk(x)
    PROVE  TypedOk(x)'
<1>1. SessionsSane /\ SessionsSane' /\ SessionsGrow
  BY DEF HostInv, HostStep
<1>2. /\ Len(commands) \in Nat /\ Len(commands') \in Nat /\ Len(commands) <= Len(commands')
      /\ \A i \in 1 .. Len(commands) : commands'[i] = commands[i]
  BY InboxesMove
<1>3. x.command \in 1 .. Len(commands') /\ commands'[x.command] = commands[x.command]
  BY <1>2 DEF TypedOk
<1>4. PICK n : n = commands[x.command].name
  OBVIOUS
<1>5. Made(x.by, n)'
  BY <1>1, <1>4, MadeStays DEF TypedOk
<1>6. Made(x.by, commands[x.command].name)'
  BY <1>3, <1>4, <1>5
<1>7. ASSUME NEW c \in ConnIds', conns'[c].proc = x.by, NEW i \in 1 .. Len(conns'[c].inbox)
      PROVE  x.command < conns'[c].inbox[i]
  <2>1. CASE conns'[c].inbox[i] = Len(commands) + 1
    BY <1>2, <2>1 DEF TypedOk
  <2>2. CASE /\ c \in ConnIds /\ conns'[c].proc = conns[c].proc
             /\ \E j \in 1 .. Len(conns[c].inbox) : conns'[c].inbox[i] = conns[c].inbox[j]
    BY <1>7, <2>2 DEF TypedOk
  <2> QED BY <2>1, <2>2, InboxesMove
<1> QED BY <1>3, <1>6, <1>7 DEF TypedOk

LEMMA TypedKept ==
    ASSUME HostInv, HostStep, TypedInv, typed' = typed
    PROVE  TypedInv'
<1>1. \A x : TypedOk(x) => TypedOk(x)'
  BY TypedStays
<1>2. \A i \in 1 .. Len(typed) : TypedOk(typed[i])'
  <2> SUFFICES ASSUME NEW i \in 1 .. Len(typed) PROVE TypedOk(typed[i])'
    OBVIOUS
  <2>1. PICK x : x = typed[i]
    OBVIOUS
  <2>2. TypedOk(x)'
    BY <1>1, <2>1 DEF TypedInv
  <2> QED BY <2>1, <2>2
<1> QED BY <1>2 DEF TypedInv

LEMMA InjectTyped ==
    ASSUME HostInv, HostStep, OwnInv, TypedInv, NEW p \in Procs, HandleInject(p)
    PROVE  TypedInv'
<1>1. /\ Receives(p, "inject") /\ Taken(p) /\ commands' = commands /\ sessions' = sessions
      /\ HostShape /\ SessionsSane
  BY DEF HandleInject, HostInv, LinkInv
<1>2. /\ IsUp(p) /\ Online(p) /\ proc[p].conn \in ConnIds /\ Next1(p) \in 1 .. Len(commands)
      /\ Next1(p) = conns[proc[p].conn].inbox[1] /\ conns[proc[p].conn] \in ConnSet
      /\ conns[proc[p].conn].inbox # <<>> /\ 1 \in 1 .. Len(conns[proc[p].conn].inbox)
  BY <1>1, Receiving
<1>3. CASE typed' = typed
  BY <1>3, TypedKept
<1>4. CASE /\ Owns(p, NameIn(p)) /\ Exists(NameIn(p))
           /\ typed' = Append(typed, [command |-> Next1(p), by |-> p, session |-> Current(NameIn(p))])
  <2>1. PICK c \in ConnIds : c = proc[p].conn
    BY <1>2
  <2>2. PICK n \in Nat : n = Next1(p) /\ n \in 1 .. Len(commands) /\ n = conns[c].inbox[1]
    BY <1>1, <1>2, <2>1, HostFacts
  <2>3. PICK k \in Nat : k = Current(NameIn(p))
    BY <1>1, <1>4, CurrentIs, Lengths DEF SessionIds
  <2>4. PICK x : x = [command |-> n, by |-> p, session |-> k]
    OBVIOUS
  <2>5. x \in TypedSet /\ x.command = n /\ x.by = p
    BY <2>4 DEF TypedSet
  <2>6. Made(p, commands[n].name)
    <3>1. commands[n].name = NameIn(p)
      BY <2>2 DEF NameIn
    <3>2. CASE p = Daemon
      BY <1>2, <1>4, <3>1, <3>2 DEF Owns, OwnInv
    <3>3. CASE p # Daemon
      <4>1. p \in Runs /\ RunName[p] = NameIn(p)
        BY <1>4, <3>3, TerminalsAssumption DEF Owns
      <4> QED BY <1>2, <3>1, <4>1 DEF OwnInv, IsUp
    <3> QED BY <3>2, <3>3
  <2>7. PICK m : m = commands[n].name
    OBVIOUS
  <2>8. Made(p, m)'
    BY <1>1, <2>6, <2>7 DEF Made, SessionIds
  <2>9. PICK box \in Seq(Nat) : box = conns[c].inbox /\ box # <<>>
    BY <1>2, <2>1 DEF ConnSet
  <2>10. \A i, j \in 1 .. Len(box) : i < j => box[i] < box[j]
    BY <2>9 DEF HostInv, LinkInv, InboxOk
  <2>11. /\ Len(Tail(box)) = Len(box) - 1 /\ Len(box) \in Nat \ {0}
         /\ \A i \in 1 .. Len(Tail(box)) : Tail(box)[i] = box[i + 1]
    BY <2>9, HeadTailProperties, EmptySeq, LenProperties
  <2>12. \A i \in 1 .. Len(Tail(box)) : n < Tail(box)[i]
    <3> SUFFICES ASSUME NEW i \in 1 .. Len(Tail(box)) PROVE n < Tail(box)[i]
      OBVIOUS
    <3>1. 1 \in 1 .. Len(box) /\ i + 1 \in 1 .. Len(box) /\ 1 < i + 1
      BY <2>11
    <3>2. box[1] < box[i + 1]
      BY <2>10, <3>1
    <3> QED BY <2>2, <2>9, <2>11, <3>2
  <2>13. /\ ConnIds' = ConnIds /\ conns'[c].inbox = Tail(box) /\ conns'[c].proc = conns[c].proc
         /\ \A d \in ConnIds \ {c} : conns'[d].inbox = conns[d].inbox /\ conns'[d].proc = conns[d].proc
    BY <1>1, <1>2, <2>1, <2>9, InboxUpdate DEF HostInv, SameInbox
  <2>14. ASSUME NEW d \in ConnIds', conns'[d].proc = p
         PROVE  \A i \in 1 .. Len(conns'[d].inbox) : n < conns'[d].inbox[i]
    <3>1. CASE d = c
      BY <2>12, <2>13, <3>1
    <3>2. CASE d # c
      <4>1. d \in ConnIds /\ conns[d].proc = p /\ conns'[d].inbox = conns[d].inbox
        BY <2>13, <2>14, <3>2
      <4>2. ~conns[d].joined
        BY <2>1, <3>2, <4>1 DEF HostInv, LinkInv, InboxOk
      <4>3. conns'[d].inbox = <<>>
        BY <4>1, <4>2 DEF HostInv, LinkInv, InboxOk
      <4> QED BY <4>3
    <3> QED BY <3>1, <3>2
  <2>15. TypedOk(x)'
    <3>1. n \in 1 .. Len(commands') /\ Made(p, commands[n].name)'
      BY <1>1, <2>2, <2>7, <2>8
    <3> QED BY <2>5, <2>14, <3>1 DEF TypedOk
  <2>16. ASSUME NEW i \in 1 .. Len(typed), typed[i].by = p PROVE typed[i].command < n
    <3>1. TypedOk(typed[i])
      BY DEF TypedInv
    <3>2. conns[c].proc = p
      BY <1>2, <2>1 DEF HostInv, LinkInv, OnlineOk
    <3> QED BY <1>2, <2>1, <2>2, <2>16, <3>1, <3>2 DEF TypedOk
  <2>17. typed' = Append(typed, x)
    BY <1>4, <2>2, <2>3, <2>4
  <2>18. /\ Len(typed) \in Nat /\ typed' \in Seq(TypedSet) /\ Len(typed') = Len(typed) + 1
         /\ typed'[Len(typed) + 1] = x
         /\ \A i \in 1 .. Len(typed) : typed'[i] = typed[i] /\ typed[i] \in TypedSet
    BY <2>5, <2>17, AppendProperties, LenProperties, ElementOfSeq DEF TypedInv
  <2>19. \A y : (\E i \in 1 .. Len(typed) : y = typed[i]) => TypedOk(y)'
    BY TypedStays DEF TypedInv
  <2>20. \A i \in 1 .. Len(typed') : i \in 1 .. Len(typed) \/ i = Len(typed) + 1
    BY <2>18
  <2>21. \A i \in 1 .. Len(typed') : TypedOk(typed[i])'
    <3> SUFFICES ASSUME NEW i \in 1 .. Len(typed') PROVE TypedOk(typed[i])'
      OBVIOUS
    <3>1. CASE i \in 1 .. Len(typed)
      <4>1. PICK y : y = typed[i]
        OBVIOUS
      <4>2. TypedOk(y)'
        BY <2>19, <3>1, <4>1
      <4>3. typed'[i] = y
        BY <2>18, <3>1, <4>1
      <4> QED BY <4>2, <4>3
    <3>2. CASE i = Len(typed) + 1
      BY <2>15, <2>18, <3>2
    <3> QED BY <2>20, <3>1, <3>2
  <2>22. ASSUME NEW i \in 1 .. Len(typed'), NEW j \in 1 .. Len(typed'),
                typed'[i].command = typed'[j].command, i # j
         PROVE  typed'[i].by # typed'[j].by
    <3>1. CASE i \in 1 .. Len(typed) /\ j \in 1 .. Len(typed)
      BY <2>18, <2>22, <3>1 DEF TypedInv
    <3>2. CASE i \in 1 .. Len(typed) /\ j = Len(typed) + 1
      <4>1. typed[i].command = n /\ typed[i].command \in Nat /\ typed'[j].by = p
        BY <2>5, <2>18, <2>22, <3>2 DEF TypedSet
      <4> QED BY <2>2, <2>16, <2>18, <3>2, <4>1
    <3>3. CASE i = Len(typed) + 1 /\ j \in 1 .. Len(typed)
      <4>1. typed[j].command = n /\ typed[j].command \in Nat /\ typed'[i].by = p
        BY <2>5, <2>18, <2>22, <3>3 DEF TypedSet
      <4> QED BY <2>2, <2>16, <2>18, <3>3, <4>1
    <3> QED BY <2>20, <2>22, <3>1, <3>2, <3>3
  <2> QED BY <2>18, <2>21, <2>22 DEF TypedInv
<1> QED BY <1>3, <1>4 DEF HandleInject

LEMMA NextTyped ==
    ASSUME HostInv, HostStep, OwnInv, TypedInv, Next
    PROVE  TypedInv'
<1>1. CASE \E p \in Procs : HandleInject(p)
  BY <1>1, InjectTyped
<1>2. CASE \E c \in ConnIds : ReceiveJson(c)
  BY <1>2, TypedKept, FrameHeard DEF Heard, RowWork
<1>3. CASE \/ \E f \in Refs, text \in Texts : AskInject(f, text)
           \/ \E n \in Launches : AskLaunch(n)
           \/ AskPrompt
           \/ \E f \in Refs : StopSends(f)
  BY <1>3, AsksHost, TypedKept
<1>4. \/ typed' = typed
      \/ \E p \in Procs : HandleInject(p)
      \/ \E c \in ConnIds : ReceiveJson(c)
      \/ \E f \in Refs, text \in Texts : AskInject(f, text)
      \/ \E n \in Launches : AskLaunch(n)
      \/ AskPrompt
      \/ \E f \in Refs : StopSends(f)
  <2>1. Program => typed' = typed
    BY DEF Program
  <2>2. \A p \in Procs, n \in Names : Polls(p, n) \/ StreamEnds(p, n) => typed' = typed
    BY DEF Polls, StreamEnds
  <2>3. \A r \in Runs : RunStarts(r) \/ RunConnects(r) \/ RunLeaves(r) => typed' = typed
    BY DEF RunStarts, RunConnects, RunLeaves
  <2>4. DaemonStarts \/ DaemonConnects \/ Heartbeat \/ DaemonSends => typed' = typed
    BY DEF DaemonStarts, DaemonConnects, Heartbeat, DaemonSends
  <2>5. DaemonDies \/ DiesInStart \/ StopMarks => typed' = typed
    BY DEF DaemonDies, DiesInStart, StopMarks
  <2>6. \A p \in Procs : Breaks(p) \/ DriveEnds(p) => typed' = typed
    BY DEF Breaks, DriveEnds
  <2>7. \A p \in Procs : HandleKill(p) \/ HandleStart(p) \/ HandlePrompt(p) => typed' = typed
    BY DEF HandleKill, HandleStart, HandlePrompt
  <2> QED BY <2>1, <2>2, <2>3, <2>4, <2>5, <2>6, <2>7 DEF Next, Handles
<1> QED BY <1>1, <1>2, <1>3, <1>4, TypedKept

-----------------------------------------------------------------------------
IInv == HostInv /\ OwnInv /\ TypedInv

LEMMA InitIInv == ASSUME Init PROVE IInv
<1>1. Daemon \in Procs /\ Runs \subseteq Procs
  BY TerminalsAssumption
<1>2. SessionsSane /\ SessionIds = {}
  BY PtySessionsAssumption, EmptySeq DEF Init, SessionsSane, SessionsOk, LiveOnce, SessionIds
<1>3. \A p \in Procs : proc[p] = Off
  BY DEF Init
<1>4. Off \in Process /\ Off.conn = NoConn /\ Off.st = "off" /\ Off.owned = {}
  BY DEF Off, Process, NoConn
<1>5. rows \in [Refs -> RowSet]
  BY DEF Init, RowSet
<1>6. HostShape /\ ConnIds = {}
  BY <1>3, <1>4, <1>5 DEF Init, HostShape, ConnIds
<1>7. \A p \in Procs : ~Online(p) /\ ~IsUp(p)
  BY <1>3, <1>4 DEF Online, IsUp
<1>8. HostInv
  BY <1>2, <1>6, <1>7 DEF HostInv, LinkInv, OnlineOk
<1>9. OwnInv
  <2>1. ~IsUp(Daemon) /\ file = {} /\ proc[Daemon].owned = {}
    BY <1>1, <1>3, <1>4, <1>7 DEF Init
  <2>2. \A r \in Runs : proc[r].st \notin {"made", "up"}
    BY <1>1, <1>3, <1>4
  <2> QED BY <1>2, <2>1, <2>2 DEF OwnInv, Kept
<1>10. TypedInv
  BY DEF Init, TypedInv
<1> QED BY <1>8, <1>9, <1>10 DEF IInv

LEMMA IdleIInv ==
    ASSUME IInv, UNCHANGED vars
    PROVE  IInv'
<1>1. UNCHANGED <<sessions, proc, file, unsaved, conns, rows, commands, outbound, typed,
                orphans>>
  BY DEF vars
<1>2. HostStep
  <2>1. /\ HostShape /\ proc' \in [Procs -> Process] /\ conns' \in Seq(ConnSet) /\ ConnIds' = ConnIds
        /\ outbound' \in Seq(FrameSet) /\ rows' \in [Refs -> RowSet]
        /\ \A p \in Procs : SameOnline(p)
        /\ \A c \in ConnIds : SameInbox(c)
    BY <1>1, IdleHost DEF IInv, HostInv, LinkInv, HostShape
  <2> QED BY <1>1, <2>1, QuietHost DEF IInv
<1>3. HostInv'
  BY <1>2, MovesLinks DEF IInv, HostInv, HostStep
<1>4. OwnInv' /\ TypedInv'
  BY <1>1, <1>2, OwnBackend, TypedKept DEF IInv
<1> QED BY <1>3, <1>4 DEF IInv

LEMMA NextIInv ==
    ASSUME IInv, Next
    PROVE  IInv'
<1>1. HostInv /\ OwnInv /\ TypedInv
  BY DEF IInv
<1>2. HostStep
  BY <1>1, FileNames, NextHost
<1>3. HostInv'
  BY <1>1, <1>2, MovesLinks DEF HostInv, HostStep
<1>4. OwnInv' /\ TypedInv'
  BY <1>1, <1>2, NextOwn, NextTyped
<1> QED BY <1>3, <1>4 DEF IInv

(* The host keeps its books: every process that is online is in the group    *)
(* over the one connection it has, commands wait in the order they were      *)
(* sent, and the registry of the daemon, its file and the sessions agree but *)
(* for what a failed write left out.                                         *)
THEOREM HostKeepsItsBooks == Spec => []IInv
<1>1. Init => IInv
  BY InitIInv
<1>2. IInv /\ [Next]_vars => IInv'
  BY IdleIInv, NextIInv
<1> QED BY <1>1, <1>2, PTL DEF Spec

(* Of two sessions, one name is used twice.                                  *)
LEMMA NameUsedTwice ==
    ASSUME SessionsSane, NEW n, NEW k \in Of(n), NEW j \in Of(n), k # j
    PROVE  Cardinality(Of(n)) > 1
<1>1. IsFiniteSet(Of(n))
  <2>1. Len(sessions) \in Nat /\ 1 \in Int
    BY Lengths
  <2>2. IsFiniteSet(SessionIds)
    BY <2>1, FS_Interval DEF SessionIds
  <2>3. Of(n) \subseteq SessionIds
    BY DEF Of
  <2> QED BY <2>2, <2>3, FS_Subset
<1>2. Cardinality(Of(n)) \in Nat /\ Cardinality(Of(n)) # 0
  BY <1>1, FS_CardinalityType, FS_EmptySet
<1>3. Cardinality(Of(n)) # 1
  BY <1>1, FS_Singleton
<1> QED BY <1>2, <1>3

(* A text is typed once, though every process of the host hears of it and    *)
(* decides by itself: handle_host_command's session.inject asks the registry *)
(* of the daemon, or the one name of the orc run.  Only a name that was used *)
(* for two sessions lets two processes claim it.                             *)
THEOREM SpecTypedOnce == Spec => []TypedOnce
<1>1. IInv => TypedOnce
  <2> SUFFICES ASSUME IInv, NEW i \in DOMAIN typed, NEW j \in DOMAIN typed,
                      typed[i].command = typed[j].command, i # j
               PROVE  Cardinality(Of(commands[typed[i].command].name)) > 1
    BY DEF TypedOnce
  <2>1. SessionsSane /\ TypedInv
    BY DEF IInv, HostInv
  <2>2. i \in 1 .. Len(typed) /\ j \in 1 .. Len(typed)
    BY <2>1, LenProperties DEF TypedInv
  <2>3. PICK n : n = commands[typed[i].command].name
    OBVIOUS
  <2>4. Made(typed[i].by, n) /\ Made(typed[j].by, n) /\ typed[i].by # typed[j].by
    BY <2>1, <2>2, <2>3 DEF TypedInv, TypedOk
  <2>5. PICK k, m \in SessionIds : /\ sessions[k].by = typed[i].by /\ sessions[k].name = n
                                   /\ sessions[m].by = typed[j].by /\ sessions[m].name = n
    BY <2>4 DEF Made
  <2>6. k \in Of(n) /\ m \in Of(n) /\ k # m
    BY <2>4, <2>5 DEF Of
  <2> QED BY <2>1, <2>3, <2>6, NameUsedTwice
<1> QED BY <1>1, HostKeepsItsBooks, PTL

(* The daemon may type into every living session it made, after its restarts *)
(* too: mark_started and the pruning of the registry keep                    *)
(* owned-sessions.json true to what lives.  Lost to it is only a session the *)
(* daemon died in making, or died with while a failed write was not made     *)
(* good.                                                                     *)
THEOREM SpecDaemonKeepsItsSessions == Spec => []DaemonKeepsItsSessions
<1>1. IInv => DaemonKeepsItsSessions
  BY DEF IInv, OwnInv, Kept, Held, DaemonKeepsItsSessions
<1> QED BY <1>1, HostKeepsItsBooks, PTL

-----------------------------------------------------------------------------
(* Frames on their way.  Lane 0 is the queue of the daemon, whose frames go  *)
(* on over the wire of one of its connections; the other lanes are wires.    *)

Before(s, x, y) == \E i, j \in 1 .. Len(s) : i < j /\ s[i] = x /\ s[j] = y

Lanes    == {0} \cup ConnIds
Lane(l)  == IF l = 0 THEN outbound ELSE conns[l].wire
Owner(l) == IF l = 0 THEN Daemon ELSE conns[l].proc
On(l)    == ToSet(Lane(l))

(* x reaches the backend before y does.                                      *)
Ahead(x, y) ==
    \/ \E l \in Lanes : Before(Lane(l), x, y)
    \/ \E c \in ConnIds : conns[c].proc = Daemon /\ x \in On(c) /\ y \in On(0)

-----------------------------------------------------------------------------
(* What the frames say.  A row is named for a run of claude or for its       *)
(* terminal.  What a frame says of sessions was true when it was built.      *)
NameOf(f) == IF f \in ClaudeRuns THEN RunName[f] ELSE f

OwnName(p, n) == Made(p, n) /\ (p \in Runs => n = RunName[p])

FrameOk(p, x) ==
    /\ x.asOf <= Len(sessions)
    /\ x.kind # "reconcile" =>
          x.name \in Names /\ x.ref = RefOf(p, x.name) /\ OwnName(p, x.name)
    /\ x.kind = "output" => x.session \in SessionIds /\ sessions[x.session].name = x.name
    /\ x.kind = "end" =>
          \A k \in SessionIds : sessions[k].alive /\ sessions[k].name = x.name => x.asOf < k
    /\ x.kind = "reconcile" =>
          \A k \in SessionIds : sessions[k].alive /\ sessions[k].name \notin x.live => x.asOf < k

NewsInv ==
    /\ \A l \in Lanes, p \in Procs : Owner(l) = p => \A x \in On(l) : FrameOk(p, x)
    /\ \A p \in Procs, n \in Names : proc[p].stream[n] # NoStream => OwnName(p, n)
    /\ \A c \in ConnIds, p \in Procs : conns[c].proc = p =>
          \A n \in conns[c].known : Made(p, n) /\ rows[RefOf(p, n)].status # "none"
    /\ \A f \in Refs : rows[f].status # "none" => rows[f].name = NameOf(f)

LEMMA NoElems ==
    /\ ToSet(<<>>) = {} /\ \A x, y : ~Before(<<>>, x, y)
    /\ \A z : ToSet(<<z>>) = {z} /\ \A x, y : ~Before(<<z>>, x, y)
<1>1. ToSet(<<>>) = {} /\ \A x, y : ~Before(<<>>, x, y)
  BY DEF ToSet, Before
<1>2. ASSUME NEW z PROVE ToSet(<<z>>) = {z} /\ \A x, y : ~Before(<<z>>, x, y)
  <2>1. Len(<<z>>) = 1 /\ <<z>>[1] = z
    OBVIOUS
  <2> QED BY <2>1 DEF ToSet, Before
<1> QED BY <1>1, <1>2

LEMMA ElemsAppend ==
    ASSUME NEW S, NEW s \in Seq(S), NEW z \in S
    PROVE  /\ \A x : x \in ToSet(Append(s, z)) => x \in ToSet(s) \/ x = z
           /\ \A x, y : Before(Append(s, z), x, y) =>
                 Before(s, x, y) \/ (x \in ToSet(s) /\ y = z)
<1>1. PICK n \in Nat : n = Len(s)
  BY LenProperties
<1>2. PICK t : t = Append(s, z)
  OBVIOUS
<1>3. /\ Len(t) = n + 1 /\ t[n + 1] = z
      /\ \A i \in 1 .. n : t[i] = s[i]
  BY <1>1, <1>2, AppendProperties
<1>4. ASSUME NEW x, x \in ToSet(t) PROVE x \in ToSet(s) \/ x = z
  <2>1. PICK i \in 1 .. n + 1 : t[i] = x
    BY <1>3, <1>4 DEF ToSet
  <2>2. i \in 1 .. n \/ i = n + 1
    BY <2>1
  <2> QED BY <1>1, <1>3, <2>1, <2>2 DEF ToSet
<1>5. ASSUME NEW x, NEW y, Before(t, x, y)
      PROVE  Before(s, x, y) \/ (x \in ToSet(s) /\ y = z)
  <2>1. PICK i, j \in 1 .. n + 1 : i < j /\ t[i] = x /\ t[j] = y
    BY <1>3, <1>5 DEF Before
  <2>2. i \in 1 .. n /\ (j \in 1 .. n \/ j = n + 1)
    BY <2>1
  <2> QED BY <1>1, <1>3, <2>1, <2>2 DEF ToSet, Before
<1> QED BY <1>2, <1>4, <1>5

LEMMA ElemsCut ==
    ASSUME NEW S, NEW s \in Seq(S), NEW n \in 0 .. Len(s)
    PROVE  /\ \A x : x \in ToSet(SubSeq(s, 1, n)) => x \in ToSet(s)
           /\ \A x, y : Before(SubSeq(s, 1, n), x, y) => Before(s, x, y)
<1>1. PICK l \in Nat : l = Len(s)
  BY LenProperties
<1>2. PICK t : t = SubSeq(s, 1, n)
  OBVIOUS
<1>3. n \in 0 .. l /\ 1 \in 1 .. Len(s) + 1
  BY <1>1
<1>4. /\ Len(t) = IF 1 <= n THEN n - 1 + 1 ELSE 0
      /\ \A i \in 1 .. n - 1 + 1 : t[i] = s[1 + i - 1]
  BY <1>2, <1>3, PartOf
<1>5. Len(t) = n /\ \A i \in 1 .. n : t[i] = s[i]
  BY <1>3, <1>4
<1>6. \A x : x \in ToSet(t) => x \in ToSet(s)
  BY <1>1, <1>3, <1>5 DEF ToSet
<1>7. \A x, y : Before(t, x, y) => Before(s, x, y)
  BY <1>1, <1>3, <1>5 DEF Before
<1> QED BY <1>2, <1>6, <1>7

LEMMA ElemsTail ==
    ASSUME NEW S, NEW s \in Seq(S), s # <<>>
    PROVE  /\ Head(s) \in ToSet(s)
           /\ \A x : x \in ToSet(Tail(s)) => x \in ToSet(s) /\ Before(s, Head(s), x)
           /\ \A x, y : Before(Tail(s), x, y) => Before(s, x, y)
<1>1. PICK n \in Nat \ {0} : n = Len(s)
  BY EmptySeq, LenProperties
<1>2. PICK t : t = Tail(s)
  OBVIOUS
<1>3. /\ Len(t) = n - 1 /\ Head(s) = s[1]
      /\ \A i \in 1 .. n - 1 : t[i] = s[i + 1]
  BY <1>1, <1>2, HeadTailProperties
<1>4. Head(s) \in ToSet(s)
  BY <1>1, <1>3 DEF ToSet
<1>5. ASSUME NEW x, x \in ToSet(t) PROVE x \in ToSet(s) /\ Before(s, Head(s), x)
  <2>1. PICK i \in 1 .. n - 1 : t[i] = x
    BY <1>3, <1>5 DEF ToSet
  <2>2. i + 1 \in 1 .. n /\ 1 \in 1 .. n /\ 1 < i + 1 /\ s[i + 1] = x
    BY <1>3, <2>1
  <2> QED BY <1>1, <1>3, <2>2 DEF ToSet, Before
<1>6. ASSUME NEW x, NEW y, Before(t, x, y) PROVE Before(s, x, y)
  <2>1. PICK i, j \in 1 .. n - 1 : i < j /\ t[i] = x /\ t[j] = y
    BY <1>3, <1>6 DEF Before
  <2>2. i + 1 \in 1 .. n /\ j + 1 \in 1 .. n /\ i + 1 < j + 1 /\ s[i + 1] = x /\ s[j + 1] = y
    BY <1>3, <2>1
  <2> QED BY <1>1, <2>2 DEF Before
<1> QED BY <1>2, <1>4, <1>5, <1>6

-----------------------------------------------------------------------------
(* What a step does to the lanes: p puts the frames of N in lanes of its     *)
(* own, a frame of the queue goes on over the wire of lane `to', and what    *)
(* was behind stays behind.                                                  *)
Traffic(p, N, to) ==
    /\ Lanes \subseteq Lanes' /\ recorded' = recorded
    /\ \A l \in Lanes : Owner(l)' = Owner(l)
    /\ \A c \in ConnIds : conns'[c].known = conns[c].known
    /\ \A c \in ConnIds' \ ConnIds : conns'[c].known = {}
    /\ \A l \in Lanes' : \A x : x \in On(l)' =>
          \/ l \in Lanes /\ x \in On(l)
          \/ x \in N /\ Owner(l)' = p
          \/ l = to /\ x \in On(0) /\ Owner(l)' = Daemon
    /\ \A x, y : Ahead(x, y)' =>
          \/ Ahead(x, y)
          \/ y \in N /\ \E l \in Lanes : Owner(l) = p /\ x \in On(l)
          \/ x \in N /\ x.kind = "reconcile"

LEMMA LaneFacts ==
    ASSUME HostShape
    PROVE  /\ \A l \in Lanes : Lane(l) \in Seq(FrameSet) /\ Owner(l) \in Procs
           /\ \A l \in Lanes : \A x \in On(l) : x \in FrameSet
           /\ 0 \notin ConnIds /\ Daemon \in Procs
<1>1. \A c \in ConnIds : conns[c].wire \in Seq(FrameSet) /\ conns[c].proc \in Procs
  BY HostFacts DEF ConnSet
<1>2. 0 \notin ConnIds /\ Daemon \in Procs
  BY TerminalsAssumption, HostFacts DEF ConnIds
<1>3. \A l \in Lanes : Lane(l) \in Seq(FrameSet) /\ Owner(l) \in Procs
  BY <1>1, <1>2 DEF HostShape, Lanes, Lane, Owner
<1>4. \A l \in Lanes : \A x \in On(l) : x \in FrameSet
  <2> SUFFICES ASSUME NEW l \in Lanes, NEW x \in On(l) PROVE x \in FrameSet
    OBVIOUS
  <2>1. PICK s \in Seq(FrameSet) : s = Lane(l)
    BY <1>3
  <2>2. PICK i \in 1 .. Len(s) : x = s[i]
    BY <2>1 DEF On, ToSet
  <2> QED BY <2>2, ElementOfSeq
<1> QED BY <1>2, <1>3, <1>4

(* The connections stay, and lanes of p grow or lanes are cut.               *)
SameLanes ==
    /\ ConnIds' = ConnIds /\ recorded' = recorded
    /\ \A c \in ConnIds : conns'[c].proc = conns[c].proc /\ conns'[c].known = conns[c].known

LEMMA LanesMove ==
    ASSUME HostShape, NEW p, NEW N, SameLanes,
           \A l \in Lanes :
              /\ \A x : x \in On(l)' => x \in On(l) \/ (x \in N /\ Owner(l) = p)
              /\ \A x, y : Before(Lane(l)', x, y) =>
                    Before(Lane(l), x, y) \/ (y \in N /\ x \in On(l) /\ Owner(l) = p),
           \A c \in ConnIds : conns[c].proc = Daemon =>
              \A x : x \in On(c)' => x \in On(c) \/ (x \in N /\ x.kind = "reconcile")
    PROVE  Traffic(p, N, 0)
<1>1. Lanes' = Lanes /\ \A l \in Lanes : Owner(l)' = Owner(l)
  BY LaneFacts DEF SameLanes, Lanes, Owner
<1>2. ASSUME NEW x, NEW y, Ahead(x, y)'
      PROVE  \/ Ahead(x, y)
             \/ y \in N /\ \E l \in Lanes : Owner(l) = p /\ x \in On(l)
             \/ x \in N /\ x.kind = "reconcile"
  <2>1. CASE \E l \in Lanes : Before(Lane(l)', x, y)
    BY <2>1 DEF Ahead
  <2>2. CASE \E c \in ConnIds : conns[c].proc = Daemon /\ x \in On(c)' /\ y \in On(0)'
    <3>1. PICK c \in ConnIds : conns[c].proc = Daemon /\ x \in On(c)' /\ y \in On(0)'
      BY <2>2
    <3>2. 0 \in Lanes /\ Owner(0) = Daemon /\ c \in Lanes /\ Owner(c) = Daemon
      BY <3>1, LaneFacts DEF Lanes, Owner
    <3>3. y \in On(0) \/ (y \in N /\ p = Daemon)
      BY <3>1, <3>2
    <3>4. x \in On(c) \/ (x \in N /\ x.kind = "reconcile")
      BY <3>1
    <3> QED BY <3>1, <3>2, <3>3, <3>4 DEF Ahead
  <2>3. \/ \E l \in Lanes : Before(Lane(l)', x, y)
        \/ \E c \in ConnIds : conns[c].proc = Daemon /\ x \in On(c)' /\ y \in On(0)'
    BY <1>1, <1>2 DEF Ahead, SameLanes
  <2> QED BY <2>1, <2>2, <2>3
<1> QED BY <1>1, <1>2 DEF Traffic, SameLanes

LEMMA LanesIdle ==
    ASSUME HostShape, SameLanes, outbound' = outbound,
           \A c \in ConnIds : conns'[c].wire = conns[c].wire, NEW p
    PROVE  Traffic(p, {}, 0)
<1>1. \A l \in Lanes : Lane(l)' = Lane(l) /\ On(l)' = On(l)
  BY DEF Lanes, Lane, On
<1>2. \A c \in ConnIds : On(c)' = On(c)
  BY <1>1 DEF Lanes
<1> QED BY <1>1, <1>2, LanesMove

(* p says something in a lane of its own.                                    *)
LEMMA LaneSays ==
    ASSUME HostShape, SameLanes, NEW p, NEW l \in Lanes, NEW frame \in FrameSet,
           Owner(l) = p, Lane(l)' = Append(Lane(l), frame),
           \A m \in Lanes \ {l} : Lane(m)' = Lane(m),
           l = 0 \/ p # Daemon \/ frame.kind = "reconcile"
    PROVE  Traffic(p, {frame}, 0)
<1>1. PICK s \in Seq(FrameSet) : s = Lane(l)
  BY LaneFacts
<1>2. PICK t : t = Append(s, frame)
  OBVIOUS
<1>3. /\ \A x : x \in ToSet(t) => x \in ToSet(s) \/ x = frame
      /\ \A x, y : Before(t, x, y) => Before(s, x, y) \/ (x \in ToSet(s) /\ y = frame)
  BY <1>2, ElemsAppend
<1>4. Lane(l)' = t /\ On(l)' = ToSet(t) /\ On(l) = ToSet(s)
  BY <1>1, <1>2 DEF On
<1>5. \A m \in Lanes \ {l} : On(m)' = On(m)
  BY DEF On
<1>6. \A m \in Lanes :
         /\ \A x : x \in On(m)' => x \in On(m) \/ (x \in {frame} /\ Owner(m) = p)
         /\ \A x, y : Before(Lane(m)', x, y) =>
               Before(Lane(m), x, y) \/ (y \in {frame} /\ x \in On(m) /\ Owner(m) = p)
  <2> SUFFICES ASSUME NEW m \in Lanes
               PROVE  /\ \A x : x \in On(m)' => x \in On(m) \/ (x \in {frame} /\ Owner(m) = p)
                      /\ \A x, y : Before(Lane(m)', x, y) =>
                            Before(Lane(m), x, y) \/ (y \in {frame} /\ x \in On(m) /\ Owner(m) = p)
    OBVIOUS
  <2>1. CASE m = l
    BY <1>1, <1>3, <1>4, <2>1
  <2>2. CASE m # l
    BY <1>5, <2>2
  <2> QED BY <2>1, <2>2
<1>7. ASSUME NEW c \in ConnIds, conns[c].proc = Daemon, NEW x, x \in On(c)'
      PROVE  x \in On(c) \/ (x \in {frame} /\ x.kind = "reconcile")
  <2>1. c \in Lanes /\ c # 0 /\ Owner(c) = Daemon
    BY <1>7, LaneFacts DEF Lanes, Owner
  <2>2. CASE c = l
    BY <1>3, <1>4, <1>7, <2>1, <2>2
  <2>3. CASE c # l
    BY <1>5, <1>7, <2>1, <2>3
  <2> QED BY <2>2, <2>3
<1> QED BY <1>6, <1>7, LanesMove

(* Lanes are cut.                                                            *)
LEMMA LanesCut ==
    ASSUME HostShape, SameLanes, NEW p, outbound' = outbound \/ outbound' = <<>>,
           \A c \in ConnIds : \/ conns'[c].wire = conns[c].wire
                              \/ \E n \in 0 .. Len(conns[c].wire) :
                                    conns'[c].wire = SubSeq(conns[c].wire, 1, n)
    PROVE  Traffic(p, {}, 0)
<1>1. ASSUME NEW l \in Lanes
      PROVE  /\ \A x : x \in On(l)' => x \in On(l)
             /\ \A x, y : Before(Lane(l)', x, y) => Before(Lane(l), x, y)
  <2>1. PICK s \in Seq(FrameSet) : s = Lane(l)
    BY LaneFacts
  <2>2. CASE l = 0
    <3>1. CASE outbound' = outbound
      BY <2>2, <3>1 DEF On, Lane
    <3>2. CASE outbound' = <<>>
      BY <2>2, <3>2, NoElems DEF On, Lane
    <3> QED BY <3>1, <3>2
  <2>3. CASE l # 0
    <3>1. l \in ConnIds /\ s = conns[l].wire /\ Lane(l)' = conns'[l].wire
      BY <2>1, <2>3 DEF Lanes, Lane
    <3>2. CASE conns'[l].wire = conns[l].wire
      BY <2>1, <3>1, <3>2 DEF On
    <3>3. CASE \E n \in 0 .. Len(s) : conns'[l].wire = SubSeq(s, 1, n)
      <4>1. PICK n \in 0 .. Len(s) : conns'[l].wire = SubSeq(s, 1, n)
        BY <3>3
      <4>2. /\ \A x : x \in ToSet(SubSeq(s, 1, n)) => x \in ToSet(s)
            /\ \A x, y : Before(SubSeq(s, 1, n), x, y) => Before(s, x, y)
        BY ElemsCut
      <4> QED BY <2>1, <3>1, <4>1, <4>2 DEF On
    <3> QED BY <3>1, <3>2, <3>3
  <2> QED BY <2>2, <2>3
<1>2. \A c \in ConnIds : \A x : x \in On(c)' => x \in On(c)
  BY <1>1 DEF Lanes
<1> QED BY <1>1, <1>2, LanesMove

(* A frame of the queue goes on over the wire of c.                          *)
LEMMA LanePasses ==
    ASSUME HostShape, SameLanes, NEW c \in ConnIds, conns[c].proc = Daemon, outbound # <<>>,
           outbound' = Tail(outbound), conns'[c].wire = Append(conns[c].wire, Head(outbound)),
           \A d \in ConnIds \ {c} : conns'[d].wire = conns[d].wire
    PROVE  Traffic(Daemon, {}, c)
<1>1. PICK out \in Seq(FrameSet) : out = outbound /\ out # <<>>
  BY DEF HostShape
<1>2. PICK h : h = Head(out)
  OBVIOUS
<1>3. h \in FrameSet
  BY <1>1, <1>2, HeadTailProperties
<1>4. PICK s \in Seq(FrameSet) : s = conns[c].wire
  BY HostFacts DEF ConnSet
<1>5. PICK t : t = Append(s, h)
  OBVIOUS
<1>6. PICK rest : rest = Tail(out)
  OBVIOUS
<1>7. /\ h \in ToSet(out)
      /\ \A x : x \in ToSet(rest) => x \in ToSet(out) /\ Before(out, h, x)
      /\ \A x, y : Before(rest, x, y) => Before(out, x, y)
  BY <1>1, <1>2, <1>6, ElemsTail
<1>8. /\ \A x : x \in ToSet(t) => x \in ToSet(s) \/ x = h
      /\ \A x, y : Before(t, x, y) => Before(s, x, y) \/ (x \in ToSet(s) /\ y = h)
  BY <1>3, <1>5, ElemsAppend
<1>9. 0 \notin ConnIds /\ c # 0
  BY LaneFacts
<1>10. /\ Lane(0) = out /\ Lane(c) = s /\ Lane(0)' = rest /\ Lane(c)' = t
       /\ On(0) = ToSet(out) /\ On(c) = ToSet(s) /\ On(0)' = ToSet(rest) /\ On(c)' = ToSet(t)
  BY <1>1, <1>2, <1>4, <1>5, <1>6, <1>9 DEF Lane, On
<1>11. \A d \in ConnIds \ {c} : Lane(d)' = Lane(d) /\ On(d)' = On(d)
  BY <1>9 DEF Lane, On
<1>12. Lanes' = Lanes /\ \A l \in Lanes : Owner(l)' = Owner(l)
  BY LaneFacts DEF SameLanes, Lanes, Owner
<1>13. \A l \in Lanes : l = 0 \/ l = c \/ l \in ConnIds \ {c}
  BY DEF Lanes
<1>14. Owner(c) = Daemon /\ c \in Lanes /\ 0 \in Lanes
  BY <1>9 DEF Owner, Lanes
<1>15. \A l \in Lanes' : \A x : x \in On(l)' =>
          x \in On(l) \/ (l = c /\ x \in On(0) /\ Owner(l)' = Daemon)
  BY <1>7, <1>8, <1>10, <1>11, <1>12, <1>13, <1>14
<1>16. ASSUME NEW x, NEW y, Ahead(x, y)' PROVE Ahead(x, y)
  <2>1. CASE \E l \in Lanes : Before(Lane(l)', x, y)
    <3>1. PICK l \in Lanes : Before(Lane(l)', x, y)
      BY <2>1
    <3>2. CASE l = 0
      BY <1>7, <1>10, <1>14, <3>1, <3>2 DEF Ahead
    <3>3. CASE l = c
      BY <1>7, <1>8, <1>10, <1>14, <3>1, <3>3 DEF Ahead
    <3>4. CASE l \in ConnIds \ {c}
      BY <1>11, <3>1, <3>4 DEF Ahead
    <3> QED BY <1>13, <3>2, <3>3, <3>4
  <2>2. CASE \E d \in ConnIds : conns[d].proc = Daemon /\ x \in On(d)' /\ y \in On(0)'
    <3>1. PICK d \in ConnIds : conns[d].proc = Daemon /\ x \in On(d)' /\ y \in On(0)'
      BY <2>2
    <3>2. y \in On(0) /\ Before(out, h, y)
      BY <1>7, <1>10, <3>1
    <3>3. x \in On(d) \/ x = h
      BY <1>8, <1>10, <1>11, <3>1
    <3> QED BY <1>10, <1>14, <3>1, <3>2, <3>3 DEF Ahead
  <2>3. \/ \E l \in Lanes : Before(Lane(l)', x, y)
        \/ \E d \in ConnIds : conns[d].proc = Daemon /\ x \in On(d)' /\ y \in On(0)'
    BY <1>12, <1>16 DEF Ahead, SameLanes
  <2> QED BY <2>1, <2>2, <2>3
<1> QED BY <1>12, <1>15, <1>16 DEF Traffic, SameLanes

(* p opens a connection with the frames of w on its wire: frames of N, and   *)
(* in the case of the daemon frames of the queue.                            *)
LEMMA LaneOpens ==
    ASSUME HostShape, NEW p \in Procs, NEW w \in Seq(FrameSet), NEW N,
           conns' = Append(conns, NewConn(p, w)), recorded' = recorded,
           \A x : x \in ToSet(w) => x \in N \/ (p = Daemon /\ x \in On(0)),
           \A x, y : Before(w, x, y) => y \in N /\ p = Daemon /\ x \in On(0),
           \A x : x \in ToSet(outbound') => x \in On(0),
           \A x, y : Before(outbound', x, y) => Before(outbound, x, y),
           p = Daemon => \A x : x \in ToSet(w) =>
                 \/ x \in N /\ x.kind = "reconcile"
                 \/ \A y : y \in ToSet(outbound') => Before(outbound, x, y)
    PROVE  Traffic(p, N, Len(conns) + 1)
<1>1. PICK n : n = Len(conns) + 1
  OBVIOUS
<1>2. /\ \A c \in ConnIds : conns'[c] = conns[c]
      /\ conns'[n] = NewConn(p, w)
      /\ ConnIds' = ConnIds \cup {n} /\ n \notin ConnIds
      /\ n \in Nat
  BY <1>1, NewConnection, HostFacts
<1>3. 0 \notin ConnIds /\ n # 0
  BY <1>1, LaneFacts, HostFacts
<1>4. PICK new : new = NewConn(p, w)
  OBVIOUS
<1>5. new.wire = w /\ new.proc = p /\ new.known = {}
  BY <1>4 DEF NewConn
<1>6. conns'[n].wire = w /\ conns'[n].proc = p /\ conns'[n].known = {}
  BY <1>2, <1>4, <1>5
<1>7. \A c \in ConnIds : /\ Lane(c)' = Lane(c) /\ On(c)' = On(c) /\ Owner(c)' = Owner(c)
                         /\ Owner(c) = conns[c].proc
  BY <1>2, <1>3 DEF Lane, On, Owner
<1>8. /\ Lane(n)' = w /\ On(n)' = ToSet(w) /\ Owner(n)' = p
      /\ Lane(0)' = outbound' /\ On(0)' = ToSet(outbound') /\ Owner(0)' = Daemon
      /\ Lane(0) = outbound /\ Owner(0) = Daemon
  BY <1>3, <1>6 DEF Lane, On, Owner
<1>9. /\ Lanes = {0} \cup ConnIds /\ Lanes' = Lanes \cup {n} /\ Lanes \subseteq Lanes'
      /\ \A l \in Lanes' : l = 0 \/ l = n \/ l \in ConnIds
  BY <1>2 DEF Lanes
<1>10. \A l \in Lanes : Owner(l)' = Owner(l)
  BY <1>7, <1>8, <1>9
<1>11. \A l \in Lanes' : \A x : x \in On(l)' =>
          \/ l \in Lanes /\ x \in On(l)
          \/ x \in N /\ Owner(l)' = p
          \/ l = n /\ x \in On(0) /\ Owner(l)' = Daemon
  BY <1>7, <1>8, <1>9
<1>12. ASSUME NEW x, NEW y, Ahead(x, y)'
       PROVE  \/ Ahead(x, y)
              \/ y \in N /\ \E l \in Lanes : Owner(l) = p /\ x \in On(l)
              \/ x \in N /\ x.kind = "reconcile"
  <2>1. CASE \E l \in Lanes' : Before(Lane(l)', x, y)
    <3>1. PICK l \in Lanes' : Before(Lane(l)', x, y)
      BY <2>1
    <3>2. CASE l = 0
      BY <1>8, <1>9, <3>1, <3>2 DEF Ahead
    <3>3. CASE l = n
      BY <1>8, <1>9, <3>1, <3>3
    <3>4. CASE l \in ConnIds
      BY <1>7, <1>9, <3>1, <3>4 DEF Ahead
    <3> QED BY <1>9, <3>2, <3>3, <3>4
  <2>2. CASE \E c \in ConnIds' : conns'[c].proc = Daemon /\ x \in On(c)' /\ y \in On(0)'
    <3>1. PICK c \in ConnIds' : conns'[c].proc = Daemon /\ x \in On(c)' /\ y \in On(0)'
      BY <2>2
    <3>2. y \in On(0)
      BY <1>8, <3>1
    <3>3. CASE c = n
      <4>1. p = Daemon /\ x \in ToSet(w) /\ y \in ToSet(outbound')
        BY <1>6, <1>8, <3>1, <3>3
      <4>2. (x \in N /\ x.kind = "reconcile") \/ Before(Lane(0), x, y)
        BY <1>8, <4>1
      <4> QED BY <1>9, <4>2 DEF Ahead
    <3>4. CASE c \in ConnIds
      BY <1>2, <1>7, <3>1, <3>2, <3>4 DEF Ahead
    <3> QED BY <1>2, <3>1, <3>3, <3>4
  <2> QED BY <1>12, <2>1, <2>2 DEF Ahead
<1>13. /\ \A c \in ConnIds : conns'[c].known = conns[c].known
       /\ \A c \in ConnIds' \ ConnIds : conns'[c].known = {}
  BY <1>2, <1>6
<1> QED BY <1>1, <1>9, <1>10, <1>11, <1>12, <1>13 DEF Traffic

-----------------------------------------------------------------------------
(* The lanes under the actions.  Most carry frames on or lose some, and add  *)
(* a reconcile frame at most.                                                *)
Quieter ==
    \A q \in Procs, n \in Names :
        proc'[q].stream[n] = proc[q].stream[n] \/ proc'[q].stream[n] = NoStream

RowsStay ==
    \A f \in Refs : /\ rows'[f].name = rows[f].name
                    /\ rows'[f].status = "none" <=> rows[f].status = "none"
                    /\ rows'[f].status = "completed" => rows[f].status = "completed"

Carries ==
    /\ \E N \in SUBSET {Reconcile(LiveNames)}, to \in Nat : Traffic(Daemon, N, to)
    /\ Quieter /\ RowsStay

LEMMA NothingMoves ==
    ASSUME HostInv, SameLanes, outbound' = outbound,
           \A c \in ConnIds : conns'[c].wire = conns[c].wire, Quieter, RowsStay
    PROVE  Carries
<1>1. Traffic(Daemon, {}, 0)
  BY LanesIdle DEF HostInv, LinkInv
<1>2. {} \in SUBSET {Reconcile(LiveNames)} /\ 0 \in Nat
  OBVIOUS
<1> QED BY <1>1, <1>2 DEF Carries

LEMMA LinksIdle ==
    ASSUME HostInv, UNCHANGED <<conns, recorded>>
    PROVE  SameLanes /\ \A c \in ConnIds : conns'[c].wire = conns[c].wire
BY DEF SameLanes, ConnIds

LEMMA StreamsQuiet ==
    ASSUME HostInv, NEW p \in Procs, NEW x \in Process, proc' = [proc EXCEPT ![p] = x],
           x.stream = proc[p].stream \/ \A n \in Names : x.stream[n] = NoStream
    PROVE  Quieter
<1>1. \A q \in Procs : proc'[q] = IF q = p THEN x ELSE proc[q]
  BY ProcUpdate DEF HostInv, LinkInv
<1> QED BY <1>1 DEF Quieter

LEMMA ProgramCarries ==
    ASSUME HostInv, Program
    PROVE  Carries
BY LinksIdle, NothingMoves DEF Program, backend, Quieter, RowsStay

LEMMA RunStartsCarries ==
    ASSUME HostInv, NEW r \in Runs, RunStarts(r)
    PROVE  Carries
<1>1. UNCHANGED <<conns, outbound, rows, recorded>> /\ r \in Procs /\ proc[r] \in Process
  BY TerminalsAssumption, HostFacts DEF RunStarts, backend, HostInv, LinkInv
<1>2. PICK st \in {"made", "gone"} : proc' = [proc EXCEPT ![r].st = st]
  BY DEF RunStarts
<1>3. PICK x : x = [proc[r] EXCEPT !.st = st]
  OBVIOUS
<1>4. x \in Process /\ x.stream = proc[r].stream
  BY <1>1, <1>3 DEF Process
<1>5. proc' = [proc EXCEPT ![r] = x]
  BY <1>2, <1>3
<1>6. Quieter
  BY <1>1, <1>4, <1>5, StreamsQuiet
<1> QED BY <1>1, <1>6, LinksIdle, NothingMoves DEF RowsStay

LEMMA DaemonStartsCarries ==
    ASSUME HostInv, DaemonStarts, file \subseteq Names
    PROVE  Carries
<1>1. /\ UNCHANGED <<conns, outbound, rows, recorded>> /\ Daemon \in Procs
      /\ proc[Daemon] \in Process
  BY TerminalsAssumption, HostFacts DEF DaemonStarts, backend, HostInv, LinkInv
<1>2. PICK owned \in {file, Prune(file)} :
          proc' = [proc EXCEPT ![Daemon].st = "up", ![Daemon].owned = owned]
  BY DEF DaemonStarts
<1>3. PICK x : x = [proc[Daemon] EXCEPT !.st = "up", !.owned = owned]
  OBVIOUS
<1>4. owned \subseteq Names
  BY DEF Prune
<1>5. x \in Process /\ x.stream = proc[Daemon].stream
  BY <1>1, <1>3, <1>4 DEF Process
<1>6. proc' = [proc EXCEPT ![Daemon] = x]
  BY <1>2, <1>3
<1>7. Quieter
  BY <1>1, <1>5, <1>6, StreamsQuiet
<1> QED BY <1>1, <1>7, LinksIdle, NothingMoves DEF RowsStay

(* A command is taken, and nothing is said.                                  *)
LEMMA TakenCarries ==
    ASSUME HostInv, NEW p \in Procs, NEW kind, Receives(p, kind), Taken(p), Quieter,
           UNCHANGED <<outbound, rows, recorded>>
    PROVE  Carries
<1>1. /\ LinkInv /\ Online(p) /\ conns[proc[p].conn].inbox # <<>>
      /\ proc[p].conn \in ConnIds
  BY Receiving DEF HostInv
<1>2. /\ ConnIds' = ConnIds
      /\ \A c \in ConnIds \ {proc[p].conn} : SameInbox(c)
      /\ conns'[proc[p].conn].proc = conns[proc[p].conn].proc
      /\ \A d \in ConnIds : conns'[d].known = conns[d].known /\ conns'[d].wire = conns[d].wire
  BY <1>1, InboxUpdate
<1>3. \A c \in ConnIds : conns'[c].proc = conns[c].proc
  BY <1>2 DEF SameInbox
<1> QED BY <1>2, <1>3, NothingMoves DEF SameLanes, RowsStay

LEMMA HandlersCarry ==
    ASSUME HostInv, NEW p \in Procs, HandleInject(p) \/ HandleKill(p) \/ HandlePrompt(p)
    PROVE  Carries
<1>1. HostShape
  BY DEF HostInv, LinkInv
<1>2. CASE HandleInject(p)
  BY <1>2, TakenCarries DEF HandleInject, backend, Quieter
<1>3. CASE HandleKill(p)
  <2>1. PICK owned \in SUBSET Names : owned = proc[p].owned \ {NameIn(p)}
    BY <1>1 DEF HostShape, Process
  <2>2. proc' = [proc EXCEPT ![p].owned = owned]
    BY <1>3, <2>1 DEF HandleKill
  <2>3. Quieter
    BY <1>1, <2>2, OwnedUpdate DEF Quieter
  <2> QED BY <1>3, <2>3, TakenCarries DEF HandleKill, backend
<1>4. CASE HandlePrompt(p)
  <2>1. PICK v \in Int : v = proc[p].drives + 1
    BY <1>1 DEF HostShape, Process
  <2>2. proc' = [proc EXCEPT ![p].drives = v]
    BY <1>4, <2>1 DEF HandlePrompt
  <2>3. Quieter
    BY <1>1, <2>2, DrivesUpdate DEF Quieter
  <2> QED BY <1>4, <2>3, TakenCarries DEF HandlePrompt, backend
<1> QED BY <1>2, <1>3, <1>4

LEMMA DriveEndsCarries ==
    ASSUME HostInv, NEW p \in Procs, DriveEnds(p)
    PROVE  Carries
<1>1. HostShape /\ UNCHANGED <<conns, outbound, rows, recorded>>
  BY DEF DriveEnds, backend, HostInv, LinkInv
<1>2. PICK v \in Int : v = proc[p].drives - 1
  BY <1>1 DEF HostShape, Process
<1>3. proc' = [proc EXCEPT ![p].drives = v]
  BY <1>2 DEF DriveEnds
<1>4. Quieter
  BY <1>1, <1>3, DrivesUpdate DEF Quieter
<1> QED BY <1>1, <1>4, LinksIdle, NothingMoves DEF RowsStay

LEMMA AsksCarry ==
    ASSUME HostInv,
           \/ \E f \in Refs, text \in Texts : AskInject(f, text)
           \/ \E n \in Launches : AskLaunch(n)
           \/ AskPrompt
           \/ \E f \in Refs : StopSends(f)
    PROVE  Carries
<1>1. UNCHANGED <<sessions, proc, outbound, rows, recorded>>
  BY AsksHost
<1>2. PICK command \in CommandSet : Send(command)
  BY AsksHost
<1>3. \A c \in ConnIds : /\ conns'[c].proc = conns[c].proc /\ conns'[c].wire = conns[c].wire
                         /\ conns'[c].known = conns[c].known
  BY <1>1, <1>2, SendHost
<1>4. ConnIds' = ConnIds
  BY <1>1, <1>2, SendHost DEF Sends
<1> QED BY <1>1, <1>3, <1>4, NothingMoves DEF SameLanes, Quieter, RowsStay

LEMMA StopMarksCarries ==
    ASSUME HostInv, StopMarks
    PROVE  Carries
<1>1. UNCHANGED <<proc, conns, outbound, recorded>> /\ rows \in [Refs -> RowSet]
  BY DEF StopMarks, HostInv, LinkInv, HostShape
<1>2. RowsStay
  <2>1. CASE rows' = rows
    BY <2>1 DEF RowsStay
  <2>2. CASE rows[stopping].status = "running" /\ rows' = [rows EXCEPT ![stopping].status = "stopped"]
    BY <1>1, <2>2 DEF RowsStay, RowSet
  <2> QED BY <2>1, <2>2 DEF StopMarks
<1> QED BY <1>1, <1>2, LinksIdle, NothingMoves DEF Quieter

(* A process leaves its connection, or ends without one.                     *)
LEMMA CutCarries ==
    ASSUME HostInv, NEW p \in Procs, NEW n, Online(p) => n \in 0 .. Len(conns[proc[p].conn].wire),
           conns' = IF Online(p) THEN Closed(proc[p].conn, n) ELSE conns,
           outbound' = outbound \/ outbound' = <<>>, UNCHANGED <<rows, recorded>>, Quieter
    PROVE  Carries
<1>1. HostShape
  BY DEF HostInv, LinkInv
<1>2. /\ SameLanes
      /\ \A c \in ConnIds : \/ conns'[c].wire = conns[c].wire
                            \/ \E m \in 0 .. Len(conns[c].wire) :
                                  conns'[c].wire = SubSeq(conns[c].wire, 1, m)
  <2>1. CASE Online(p)
    <3>1. PICK c \in ConnIds : c = proc[p].conn
      BY <2>1 DEF HostInv, LinkInv, OnlineOk
    <3>2. n \in 0 .. Len(conns[c].wire) /\ conns' = Closed(c, n)
      BY <2>1, <3>1
    <3>3. /\ ConnIds' = ConnIds
          /\ \A d \in ConnIds \ {c} : SameInbox(d)
          /\ conns'[c].proc = conns[c].proc
          /\ \A d \in ConnIds : conns'[d].known = conns[d].known
          /\ \A d \in ConnIds : conns'[d].wire = IF d = c THEN SubSeq(conns[c].wire, 1, n)
                                                 ELSE conns[d].wire
      BY <1>1, <3>2, ClosedConn
    <3> QED BY <3>2, <3>3 DEF SameLanes, SameInbox
  <2>2. CASE ~Online(p)
    BY <2>2 DEF SameLanes, ConnIds
  <2> QED BY <2>1, <2>2
<1>3. Traffic(Daemon, {}, 0)
  BY <1>1, <1>2, LanesCut
<1>4. {} \in SUBSET {Reconcile(LiveNames)} /\ 0 \in Nat
  OBVIOUS
<1> QED BY <1>3, <1>4 DEF Carries, RowsStay

LEMMA RunLeavesCarries ==
    ASSUME HostInv, NEW r \in Runs, RunLeaves(r)
    PROVE  Carries
<1>1. HostShape /\ UNCHANGED <<outbound, rows, recorded>> /\ r \in Procs
  BY TerminalsAssumption DEF RunLeaves, backend, HostInv, LinkInv
<1>2. PICK x \in Process : x = [Off EXCEPT !.st = "gone"] /\ \A n \in Names : x.stream[n] = NoStream
  BY OffTyped
<1>3. proc' = [proc EXCEPT ![r] = x]
  BY <1>2 DEF RunLeaves
<1>4. Quieter
  BY <1>1, <1>2, <1>3, StreamsQuiet
<1>5. PICK n : n = Len(conns[proc[r].conn].wire)
  OBVIOUS
<1>6. ASSUME Online(r) PROVE n \in 0 .. Len(conns[proc[r].conn].wire)
  <2>1. conns[proc[r].conn] \in ConnSet
    BY <1>1, <1>6, HostFacts DEF HostInv, LinkInv, OnlineOk
  <2> QED BY <1>5, <2>1, LenProperties DEF ConnSet
<1>7. conns' = IF Online(r) THEN Closed(proc[r].conn, n) ELSE conns
  BY <1>5 DEF RunLeaves
<1> QED BY <1>1, <1>4, <1>6, <1>7, CutCarries

LEMMA BreaksCarries ==
    ASSUME HostInv, NEW p \in Procs, Breaks(p)
    PROVE  Carries
<1>1. UNCHANGED <<outbound, rows, recorded>> /\ Online(p) /\ proc[p] \in Process
  BY HostFacts DEF Breaks, backend, HostInv, LinkInv
<1>2. PICK x : x = [proc[p] EXCEPT !.conn = NoConn]
  OBVIOUS
<1>3. x \in Process /\ x.stream = proc[p].stream
  BY <1>1, <1>2 DEF Process, NoConn
<1>4. proc' = [proc EXCEPT ![p] = x]
  BY <1>2 DEF Breaks
<1>5. Quieter
  BY <1>3, <1>4, StreamsQuiet
<1>6. PICK n \in 0 .. Len(conns[proc[p].conn].wire) : conns' = Closed(proc[p].conn, n)
  BY DEF Breaks
<1> QED BY <1>1, <1>5, <1>6, CutCarries

LEMMA DiesCarries ==
    ASSUME HostInv, NEW n, Online(Daemon) => n \in 0 .. Len(conns[proc[Daemon].conn].wire),
           NEW lost,
           Dies(IF Online(Daemon) THEN Closed(proc[Daemon].conn, n) ELSE conns, lost),
           UNCHANGED <<rows, recorded>>
    PROVE  Carries
<1>1. PICK x \in Process : x = Off /\ \A m \in Names : x.stream[m] = NoStream
  <2>1. [Off EXCEPT !.st = "off"] = Off
    BY OffTyped
  <2> QED BY <2>1, OffTyped
<1>2. proc' = [proc EXCEPT ![Daemon] = x] /\ Daemon \in Procs
  BY <1>1, TerminalsAssumption DEF Dies
<1>3. Quieter
  BY <1>1, <1>2, StreamsQuiet
<1> QED BY <1>2, <1>3, CutCarries DEF Dies

LEMMA DeathsCarry ==
    ASSUME HostInv, DaemonDies \/ DiesInStart
    PROVE  Carries
<1>1. CASE DaemonDies
  <2>1. CASE Online(Daemon)
    BY <1>1, <2>1, DiesCarries DEF DaemonDies, backend
  <2>2. CASE ~Online(Daemon)
    BY <1>1, <2>2, DiesCarries DEF DaemonDies, backend
  <2> QED BY <2>1, <2>2
<1>2. CASE DiesInStart
  <2>1. Daemon \in Procs /\ Receives(Daemon, "start")
    BY <1>2, TerminalsAssumption DEF DiesInStart
  <2>2. Online(Daemon) /\ conns[proc[Daemon].conn] \in ConnSet
    BY <2>1, Receiving
  <2>3. PICK n : n = Len(conns[proc[Daemon].conn].wire)
    OBVIOUS
  <2>4. n \in 0 .. Len(conns[proc[Daemon].conn].wire)
    BY <2>2, <2>3, LenProperties DEF ConnSet
  <2>5. Dies(IF Online(Daemon) THEN Closed(proc[Daemon].conn, n) ELSE conns,
             Unsaved \cup {Len(sessions) + 1})
    BY <1>2, <2>2, <2>3 DEF DiesInStart
  <2> QED BY <1>2, <2>4, <2>5, DiesCarries DEF DiesInStart, backend
<1> QED BY <1>1, <1>2

LEMMA HeartbeatCarries ==
    ASSUME HostInv, Heartbeat
    PROVE  Carries
<1>1. /\ HostShape /\ UNCHANGED <<outbound, rows, recorded>> /\ Daemon \in Procs
      /\ Online(Daemon) /\ proc[Daemon] \in Process
  BY TerminalsAssumption, HostFacts DEF Heartbeat, backend, HostInv, LinkInv
<1>2. PICK c \in ConnIds : c = proc[Daemon].conn /\ conns[c].proc = Daemon
  BY <1>1 DEF HostInv, LinkInv, OnlineOk
<1>3. PICK r \in FrameSet : r = Reconcile(LiveNames)
  BY ReconcileTyped DEF HostInv
<1>4. PICK w : w = <<r>>
  OBVIOUS
<1>5. w \in Seq(FrameSet) /\ w = Append(<<>>, r)
  BY <1>4
<1>6. conns' = [conns EXCEPT ![c].wire = w] /\ conns[c].wire = <<>>
  BY <1>2, <1>3, <1>4 DEF Heartbeat
<1>7. /\ ConnIds' = ConnIds
      /\ \A d \in ConnIds : SameInbox(d) /\ conns'[d].known = conns[d].known
      /\ \A d \in ConnIds : conns'[d].wire = IF d = c THEN w ELSE conns[d].wire
  BY <1>1, <1>5, <1>6, WireUpdate
<1>8. SameLanes
  BY <1>1, <1>7 DEF SameLanes, SameInbox
<1>9. c \in Lanes /\ c # 0 /\ Owner(c) = Daemon /\ Lane(c) = <<>> /\ Lane(c)' = w
  BY <1>1, <1>2, <1>6, <1>7, LaneFacts DEF Lanes, Owner, Lane
<1>10. \A m \in Lanes \ {c} : Lane(m)' = Lane(m)
  BY <1>1, <1>7 DEF Lanes, Lane
<1>11. r.kind = "reconcile"
  BY <1>3 DEF Reconcile
<1>12. Traffic(Daemon, {r}, 0)
  BY <1>1, <1>5, <1>8, <1>9, <1>10, <1>11, LaneSays
<1>13. PICK x : x = [proc[Daemon] EXCEPT !.owned = Prune(proc[Daemon].owned)]
  OBVIOUS
<1>14. x \in Process /\ x.stream = proc[Daemon].stream
  BY <1>1, <1>13 DEF Process, Prune
<1>15. proc' = [proc EXCEPT ![Daemon] = x]
  BY <1>13 DEF Heartbeat
<1>16. Quieter
  BY <1>1, <1>14, <1>15, StreamsQuiet
<1>17. {r} \in SUBSET {Reconcile(LiveNames)} /\ 0 \in Nat
  BY <1>3
<1> QED BY <1>1, <1>12, <1>16, <1>17 DEF Carries, RowsStay

LEMMA DaemonSendsCarries ==
    ASSUME HostInv, DaemonSends
    PROVE  Carries
<1>1. /\ HostShape /\ UNCHANGED <<proc, rows, recorded>> /\ Online(Daemon) /\ outbound # <<>>
      /\ Daemon \in Procs
  BY TerminalsAssumption DEF DaemonSends, backend, HostInv, LinkInv
<1>2. PICK c \in ConnIds : c = proc[Daemon].conn /\ conns[c].proc = Daemon
  BY <1>1 DEF HostInv, LinkInv, OnlineOk
<1>3. Head(outbound) \in FrameSet
  BY <1>1, HeadTailProperties DEF HostShape
<1>4. conns[c].wire \in Seq(FrameSet)
  BY <1>1, HostFacts DEF ConnSet
<1>5. PICK w \in Seq(FrameSet) : w = Append(conns[c].wire, Head(outbound))
  BY <1>3, <1>4, AppendProperties
<1>6. conns' = [conns EXCEPT ![c].wire = w] /\ outbound' = Tail(outbound)
  BY <1>2, <1>5 DEF DaemonSends
<1>7. /\ ConnIds' = ConnIds
      /\ \A d \in ConnIds : SameInbox(d) /\ conns'[d].known = conns[d].known
      /\ \A d \in ConnIds : conns'[d].wire = IF d = c THEN w ELSE conns[d].wire
  BY <1>1, <1>6, WireUpdate
<1>8. SameLanes
  BY <1>1, <1>7 DEF SameLanes, SameInbox
<1>9. Traffic(Daemon, {}, c)
  BY <1>1, <1>2, <1>5, <1>6, <1>7, <1>8, LanePasses
<1>10. {} \in SUBSET {Reconcile(LiveNames)} /\ c \in Nat
  BY <1>1, HostFacts DEF ConnIds
<1> QED BY <1>1, <1>9, <1>10 DEF Carries, Quieter, RowsStay

(* The daemon connects: the event whose send failed goes first.              *)
LEMMA FirstPart ==
    ASSUME NEW S, NEW s \in Seq(S), NEW first \in 0 .. 1, first <= Len(s)
    PROVE  LET sent == SubSeq(s, 1, first)
               rest == SubSeq(s, first + 1, Len(s))
           IN  /\ sent \in Seq(S) /\ rest \in Seq(S)
               /\ \A x : x \in ToSet(sent) => x \in ToSet(s)
               /\ \A x, y : ~Before(sent, x, y)
               /\ \A x : x \in ToSet(rest) => x \in ToSet(s)
               /\ \A x, y : Before(rest, x, y) => Before(s, x, y)
               /\ \A x, y : x \in ToSet(sent) /\ y \in ToSet(rest) => Before(s, x, y)
<1>1. PICK n \in Nat : n = Len(s)
  BY LenProperties
<1>2. PICK sent : sent = SubSeq(s, 1, first)
  OBVIOUS
<1>3. PICK rest : rest = SubSeq(s, first + 1, Len(s))
  OBVIOUS
<1>4. /\ 1 \in 1 .. Len(s) + 1 /\ first \in 0 .. Len(s) /\ first + 1 \in 1 .. Len(s) + 1
      /\ Len(s) \in 0 .. Len(s)
  BY <1>1
<1>5. /\ sent \in Seq(S)
      /\ Len(sent) = IF 1 <= first THEN first - 1 + 1 ELSE 0
      /\ \A i \in 1 .. first - 1 + 1 : sent[i] = s[1 + i - 1]
  BY <1>2, <1>4, PartOf
<1>6. /\ rest \in Seq(S)
      /\ Len(rest) = IF first + 1 <= Len(s) THEN Len(s) - (first + 1) + 1 ELSE 0
      /\ \A i \in 1 .. Len(s) - (first + 1) + 1 : rest[i] = s[first + 1 + i - 1]
  BY <1>3, <1>4, PartOf
<1>7. Len(sent) = first /\ \A i \in 1 .. first : sent[i] = s[i] /\ i = 1
  BY <1>5
<1>8. Len(rest) = n - first /\ \A i \in 1 .. n - first : rest[i] = s[first + i]
  <2>1. Len(rest) = n - first
    BY <1>1, <1>4, <1>6
  <2>2. ASSUME NEW i \in 1 .. n - first PROVE rest[i] = s[first + i]
    <3>1. n - (first + 1) + 1 = n - first /\ first + 1 + i - 1 = first + i
      BY <1>1, <1>4
    <3>2. rest[i] = s[first + 1 + i - 1]
      BY <1>1, <1>6, <3>1
    <3> QED BY <3>1, <3>2
  <2> QED BY <2>1, <2>2
<1>9. ASSUME NEW x \in ToSet(sent) PROVE first = 1 /\ x = s[1] /\ x \in ToSet(s)
  <2>1. PICK i \in 1 .. first : x = sent[i]
    BY <1>7 DEF ToSet
  <2> QED BY <1>1, <1>4, <1>7, <2>1 DEF ToSet
<1>10. \A x, y : ~Before(sent, x, y)
  BY <1>7 DEF Before
<1>11. ASSUME NEW y \in ToSet(rest) PROVE \E j \in first + 1 .. n : y = s[j]
  <2>1. PICK i \in 1 .. n - first : y = rest[i]
    BY <1>8 DEF ToSet
  <2>2. first + i \in first + 1 .. n /\ y = s[first + i]
    BY <1>1, <1>4, <1>8, <2>1
  <2> QED BY <2>2
<1>12. \A y : y \in ToSet(rest) => y \in ToSet(s)
  BY <1>1, <1>4, <1>11 DEF ToSet
<1>13. ASSUME NEW x, NEW y, Before(rest, x, y) PROVE Before(s, x, y)
  <2>1. PICK i, j \in 1 .. n - first : i < j /\ rest[i] = x /\ rest[j] = y
    BY <1>8, <1>13 DEF Before
  <2>2. /\ first + i \in 1 .. n /\ first + j \in 1 .. n /\ first + i < first + j
        /\ s[first + i] = x /\ s[first + j] = y
    BY <1>1, <1>4, <1>8, <2>1
  <2> QED BY <1>1, <2>2 DEF Before
<1>14. ASSUME NEW x \in ToSet(sent), NEW y \in ToSet(rest) PROVE Before(s, x, y)
  <2>1. PICK j \in first + 1 .. n : y = s[j]
    BY <1>11
  <2>2. first = 1 /\ x = s[1]
    BY <1>9
  <2>3. 1 \in 1 .. n /\ j \in 1 .. n /\ 1 < j
    BY <2>1, <2>2
  <2> QED BY <1>1, <2>1, <2>2, <2>3 DEF Before
<1> QED BY <1>2, <1>3, <1>5, <1>6, <1>9, <1>10, <1>12, <1>13, <1>14

LEMMA DaemonConnectsCarries ==
    ASSUME HostInv, DaemonConnects
    PROVE  Carries
<1>1. /\ HostShape /\ UNCHANGED <<rows, recorded>> /\ Daemon \in Procs
      /\ proc[Daemon] \in Process
  BY TerminalsAssumption, HostFacts DEF DaemonConnects, backend, HostInv, LinkInv
<1>2. PICK out \in Seq(FrameSet) : out = outbound
  BY <1>1 DEF HostShape
<1>3. PICK first \in 0 .. 1 :
         /\ first <= Len(outbound)
         /\ outbound' = SubSeq(outbound, first + 1, Len(outbound))
         /\ \/ /\ conns' = Append(conns, NewConn(Daemon,
                              SubSeq(outbound, 1, first) \o <<Reconcile(LiveNames)>>))
               /\ Pruned
            \/ /\ conns' = Append(conns, NewConn(Daemon, SubSeq(outbound, 1, first)))
               /\ proc' = [proc EXCEPT ![Daemon].conn = Len(conns')]
               /\ NoFlush
  BY DEF DaemonConnects
<1>4. PICK sent : sent = SubSeq(out, 1, first)
  OBVIOUS
<1>5. PICK rest : rest = SubSeq(out, first + 1, Len(out))
  OBVIOUS
<1>6. /\ sent \in Seq(FrameSet) /\ rest \in Seq(FrameSet)
      /\ \A x : x \in ToSet(sent) => x \in ToSet(out)
      /\ \A x, y : ~Before(sent, x, y)
      /\ \A x : x \in ToSet(rest) => x \in ToSet(out)
      /\ \A x, y : Before(rest, x, y) => Before(out, x, y)
      /\ \A x, y : x \in ToSet(sent) /\ y \in ToSet(rest) => Before(out, x, y)
  BY <1>2, <1>3, <1>4, <1>5, FirstPart
<1>7. PICK r \in FrameSet : r = Reconcile(LiveNames)
  BY ReconcileTyped DEF HostInv
<1>8. r.kind = "reconcile"
  BY <1>7 DEF Reconcile
<1>9. outbound' = rest /\ outbound = out /\ On(0) = ToSet(out)
  BY <1>2, <1>3, <1>5 DEF On, Lane
<1>10. PICK c \in Nat : c = Len(conns) + 1
  BY <1>1, HostFacts
<1>11. PICK owned \in SUBSET Names : owned = Prune(proc[Daemon].owned)
  BY <1>1 DEF Process, Prune
<1>12. \E w \in Seq(FrameSet) :
          /\ conns' = Append(conns, NewConn(Daemon, w))
          /\ \A x : x \in ToSet(w) => x \in ToSet(sent) \/ x = r
          /\ \A x, y : Before(w, x, y) => x \in ToSet(sent) /\ y = r
          /\ \/ proc' = [proc EXCEPT ![Daemon].conn = Len(conns')]
             \/ proc' = [proc EXCEPT ![Daemon].owned = Prune(@), ![Daemon].conn = Len(conns')]
  <2>1. CASE /\ conns' = Append(conns, NewConn(Daemon, SubSeq(outbound, 1, first) \o <<Reconcile(LiveNames)>>))
             /\ Pruned
    <3>1. PICK w : w = Append(sent, r)
      OBVIOUS
    <3>2. w = sent \o <<r>> /\ w \in Seq(FrameSet)
      BY <1>6, <3>1, AppendProperties, AppendIsConcat
    <3>3. /\ \A x : x \in ToSet(w) => x \in ToSet(sent) \/ x = r
          /\ \A x, y : Before(w, x, y) => x \in ToSet(sent) /\ y = r
      BY <1>6, <3>1, ElemsAppend
    <3>4. conns' = Append(conns, NewConn(Daemon, w))
      BY <1>2, <1>4, <1>7, <2>1, <3>2
    <3>5. proc' = [proc EXCEPT ![Daemon].owned = Prune(@), ![Daemon].conn = Len(conns')]
      BY <2>1 DEF Pruned
    <3> QED BY <3>2, <3>3, <3>4, <3>5
  <2>2. CASE /\ conns' = Append(conns, NewConn(Daemon, SubSeq(outbound, 1, first)))
             /\ proc' = [proc EXCEPT ![Daemon].conn = Len(conns')]
    <3>1. conns' = Append(conns, NewConn(Daemon, sent))
      BY <1>2, <1>4, <2>2
    <3> QED BY <1>6, <2>2, <3>1
  <2> QED BY <1>3, <2>1, <2>2
<1>13. PICK w \in Seq(FrameSet) :
          /\ conns' = Append(conns, NewConn(Daemon, w))
          /\ \A x : x \in ToSet(w) => x \in ToSet(sent) \/ x = r
          /\ \A x, y : Before(w, x, y) => x \in ToSet(sent) /\ y = r
          /\ \/ proc' = [proc EXCEPT ![Daemon].conn = Len(conns')]
             \/ proc' = [proc EXCEPT ![Daemon].owned = Prune(@), ![Daemon].conn = Len(conns')]
  BY <1>12
<1>14. Traffic(Daemon, {r}, Len(conns) + 1)
  <2>1. \A x : x \in ToSet(w) => x \in {r} \/ (Daemon = Daemon /\ x \in On(0))
    BY <1>6, <1>9, <1>13
  <2>2. \A x, y : Before(w, x, y) => y \in {r} /\ Daemon = Daemon /\ x \in On(0)
    BY <1>6, <1>9, <1>13
  <2>3. /\ \A x : x \in ToSet(outbound') => x \in On(0)
        /\ \A x, y : Before(outbound', x, y) => Before(outbound, x, y)
    BY <1>6, <1>9
  <2>4. \A x : x \in ToSet(w) => \/ x \in {r} /\ x.kind = "reconcile"
                                 \/ \A y : y \in ToSet(outbound') => Before(outbound, x, y)
    BY <1>6, <1>8, <1>9, <1>13
  <2> QED BY <1>1, <1>13, <2>1, <2>2, <2>3, <2>4, LaneOpens
<1>15. Len(conns') = c
  BY <1>1, <1>10, <1>13, NewConnection
<1>16. Quieter
  <2>1. CASE proc' = [proc EXCEPT ![Daemon].conn = Len(conns')]
    <3>1. PICK x : x = [proc[Daemon] EXCEPT !.conn = c]
      OBVIOUS
    <3>2. x \in Process /\ x.stream = proc[Daemon].stream
      BY <1>1, <3>1 DEF Process
    <3>3. proc' = [proc EXCEPT ![Daemon] = x]
      BY <1>15, <2>1, <3>1
    <3> QED BY <1>1, <3>2, <3>3, StreamsQuiet
  <2>2. CASE proc' = [proc EXCEPT ![Daemon].owned = Prune(@), ![Daemon].conn = Len(conns')]
    <3>1. PICK x : x = [proc[Daemon] EXCEPT !.owned = owned, !.conn = c]
      OBVIOUS
    <3>2. x \in Process /\ x.stream = proc[Daemon].stream
      BY <1>1, <3>1 DEF Process
    <3>3. proc' = [proc EXCEPT ![Daemon] = x]
      BY <1>11, <1>15, <2>2, <3>1
    <3> QED BY <1>1, <3>2, <3>3, StreamsQuiet
  <2> QED BY <1>13, <2>1, <2>2
<1>17. {r} \in SUBSET {Reconcile(LiveNames)} /\ Len(conns) + 1 \in Nat
  BY <1>7, <1>10
<1> QED BY <1>1, <1>14, <1>16, <1>17 DEF Carries, RowsStay

(* The others say something.                                                 *)
LEMMA TrafficMore ==
    ASSUME NEW p, NEW N, NEW to, Traffic(p, {}, to)
    PROVE  Traffic(p, N, to)
BY DEF Traffic

LEMMA EmitTraffic ==
    ASSUME HostInv, NEW p \in Procs, NEW frame \in FrameSet, Emit(p, frame), recorded' = recorded
    PROVE  Traffic(p, {frame}, 0)
<1>1. /\ HostShape /\ LinkInv /\ ConnIds' = ConnIds
      /\ \A d \in ConnIds : SameInbox(d) /\ conns'[d].known = conns[d].known
      /\ outbound' = IF p = Daemon THEN Append(outbound, frame) ELSE outbound
      /\ \A d \in ConnIds :
            conns'[d].wire = IF p # Daemon /\ Online(p) /\ d = proc[p].conn
                             THEN Append(conns[d].wire, frame) ELSE conns[d].wire
  BY Emitted DEF HostInv, LinkInv
<1>2. SameLanes
  BY <1>1 DEF SameLanes, SameInbox
<1>3. CASE p = Daemon
  <2>1. 0 \in Lanes /\ Owner(0) = p /\ Lane(0)' = Append(Lane(0), frame)
    BY <1>1, <1>3 DEF Lanes, Owner, Lane
  <2>2. \A m \in Lanes \ {0} : Lane(m)' = Lane(m)
    BY <1>1, <1>3 DEF Lanes, Lane
  <2> QED BY <1>1, <1>2, <2>1, <2>2, LaneSays
<1>4. CASE p # Daemon /\ Online(p)
  <2>1. PICK c \in ConnIds : c = proc[p].conn /\ conns[c].proc = p
    BY <1>1, <1>4 DEF LinkInv, OnlineOk
  <2>2. c # 0 /\ c \in Lanes /\ Owner(c) = p /\ Lane(c)' = Append(Lane(c), frame)
    BY <1>1, <1>4, <2>1, LaneFacts DEF Lanes, Owner, Lane
  <2>3. \A m \in Lanes \ {c} : Lane(m)' = Lane(m)
    BY <1>1, <1>4, <2>1, LaneFacts DEF Lanes, Lane
  <2> QED BY <1>1, <1>2, <1>4, <2>2, <2>3, LaneSays
<1>5. CASE p # Daemon /\ ~Online(p)
  <2>1. outbound' = outbound /\ \A c \in ConnIds : conns'[c].wire = conns[c].wire
    BY <1>1, <1>5
  <2> QED BY <1>1, <1>2, <2>1, LanesIdle, TrafficMore
<1> QED BY <1>3, <1>4, <1>5

LEMMA PollsTraffic ==
    ASSUME HostInv, NEW p \in Procs, NEW n \in Names, Polls(p, n)
    PROVE  /\ proc[p].stream[n] \in Nat /\ UNCHANGED <<sessions, rows>>
           /\ \E k \in SessionIds, lines \in Seq(1 .. MaxLines) :
                 /\ sessions[k].name = n
                 /\ lines = NewLines(sessions[k].screen, proc[p].stream[n])
                 /\ Traffic(p, {Frame("output", p, n, lines, k)}, 0)
                 /\ \A q \in Procs, m \in Names :
                       proc'[q].stream[m] = IF q = p /\ m = n THEN Len(sessions[k].screen)
                                            ELSE proc[q].stream[m]
<1>1. /\ HostShape /\ proc[p].stream[n] # NoStream /\ Exists(n)
      /\ UNCHANGED <<sessions, rows, recorded>>
  BY DEF Polls, backend, HostInv, LinkInv
<1>2. PICK k \in SessionIds : k = Current(n) /\ sessions[k].name = n
  BY <1>1, CurrentIs
<1>3. PICK screen \in Seq(1 .. MaxLines) : screen = sessions[k].screen
  BY Lengths DEF HostInv, Session
<1>4. PICK sent \in Nat : sent = proc[p].stream[n]
  BY <1>1 DEF HostShape, Process
<1>5. PICK lines \in Seq(1 .. MaxLines) : lines = NewLines(screen, sent)
  BY NewLinesTyped
<1>6. Len(screen) \in Nat /\ k \in Nat
  BY <1>2, LenProperties, Lengths DEF HostInv, SessionIds
<1>7. PICK frame \in FrameSet : frame = Frame("output", p, n, lines, k)
  BY <1>6, FrameTyped DEF HostInv
<1>8. /\ proc' = [proc EXCEPT ![p].stream[n] = Len(screen)]
      /\ UNCHANGED <<outbound, conns>> \/ Emit(p, frame)
  BY <1>2, <1>3, <1>4, <1>5, <1>7 DEF Polls
<1>9. \A q \in Procs, m \in Names :
          proc'[q].stream[m] = IF q = p /\ m = n THEN Len(screen) ELSE proc[q].stream[m]
  <2>1. PICK v \in {NoStream} \cup Nat : v = Len(screen)
    BY <1>6
  <2>2. proc' = [proc EXCEPT ![p].stream[n] = v]
    BY <1>8, <2>1
  <2>3. PICK s : s = [proc[p].stream EXCEPT ![n] = v]
    OBVIOUS
  <2>4. PICK x : x = [proc[p] EXCEPT !.stream = s]
    OBVIOUS
  <2>5. /\ proc[p] \in Process /\ s \in [Names -> {NoStream} \cup Nat]
        /\ \A m \in Names : s[m] = IF m = n THEN v ELSE proc[p].stream[m]
    BY <1>1, <2>1, <2>3 DEF HostShape, Process
  <2>6. x \in Process /\ x.stream = s
    BY <2>4, <2>5 DEF Process
  <2>7. proc' = [proc EXCEPT ![p] = x]
    BY <2>2, <2>3, <2>4
  <2>8. \A q \in Procs : proc'[q] = IF q = p THEN x ELSE proc[q]
    BY <1>1, <2>6, <2>7, ProcUpdate
  <2> QED BY <2>1, <2>5, <2>6, <2>8
<1>10. Traffic(p, {frame}, 0)
  <2>1. CASE UNCHANGED <<outbound, conns>>
    <3>1. SameLanes /\ outbound' = outbound /\ \A c \in ConnIds : conns'[c].wire = conns[c].wire
      BY <1>1, <2>1, LinksIdle
    <3> QED BY <1>1, <3>1, LanesIdle, TrafficMore
  <2>2. CASE Emit(p, frame)
    BY <1>1, <2>2, EmitTraffic
  <2> QED BY <1>8, <2>1, <2>2
<1> QED BY <1>1, <1>2, <1>3, <1>4, <1>5, <1>7, <1>9, <1>10

LEMMA StreamEndsTraffic ==
    ASSUME HostInv, NEW p \in Procs, NEW n \in Names, StreamEnds(p, n)
    PROVE  /\ proc[p].stream[n] # NoStream /\ ~Exists(n) /\ UNCHANGED <<sessions, rows>> /\ Quieter
           /\ Traffic(p, {Frame("end", p, n, <<>>, 0)}, 0)
<1>1. /\ HostShape /\ UNCHANGED <<sessions, rows, recorded>>
      /\ proc[p].stream[n] # NoStream /\ ~Exists(n)
  BY DEF StreamEnds, backend, HostInv, LinkInv
<1>2. PICK frame \in FrameSet : frame = Frame("end", p, n, <<>>, 0)
  <2>1. <<>> \in Seq(1 .. MaxLines)
    OBVIOUS
  <2> QED BY <2>1, FrameTyped DEF HostInv
<1>3. CASE p = Daemon
  <2>1. Emit(p, frame) /\ proc' = [proc EXCEPT ![p].stream[n] = NoStream]
    BY <1>2, <1>3 DEF StreamEnds
  <2>2. Quieter
    BY <1>1, <2>1, StreamUpdate DEF Quieter
  <2>3. Traffic(p, {frame}, 0)
    BY <1>1, <2>1, EmitTraffic
  <2> QED BY <1>1, <1>2, <2>2, <2>3
<1>4. CASE p # Daemon
  <2>1. PICK x \in Process : x = [Off EXCEPT !.st = "gone"] /\ \A m \in Names : x.stream[m] = NoStream
    BY OffTyped
  <2>2. proc' = [proc EXCEPT ![p] = x] /\ outbound' = outbound
    BY <1>4, <2>1 DEF StreamEnds
  <2>3. Quieter
    BY <2>1, <2>2, StreamsQuiet
  <2>4. CASE Online(p)
    <3>1. PICK c \in ConnIds : c = proc[p].conn /\ conns[c].proc = p
      BY <2>4 DEF HostInv, LinkInv, OnlineOk
    <3>2. conns[c] \in ConnSet /\ conns[c].wire \in Seq(FrameSet)
      BY <1>1, HostFacts DEF ConnSet
    <3>3. PICK w \in Seq(FrameSet) : w = Append(conns[c].wire, frame)
      BY <3>2, AppendProperties
    <3>4. PICK y : y = [conns[c] EXCEPT !.joined = FALSE, !.inbox = <<>>, !.wire = w]
      OBVIOUS
    <3>5. y \in ConnSet /\ y.proc = conns[c].proc /\ y.wire = w /\ y.known = conns[c].known
      <4>1. <<>> \in Seq(Nat)
        OBVIOUS
      <4> QED BY <3>2, <3>4, <4>1 DEF ConnSet
    <3>6. conns' = [conns EXCEPT ![c] = y]
      BY <1>2, <1>4, <2>4, <3>1, <3>3, <3>4 DEF StreamEnds
    <3>7. /\ ConnIds' = ConnIds
          /\ \A d \in ConnIds : conns'[d] = IF d = c THEN y ELSE conns[d]
      BY <1>1, <3>5, <3>6, ConnUpdate
    <3>8. SameLanes
      BY <1>1, <3>5, <3>7 DEF SameLanes
    <3>9. c # 0 /\ c \in Lanes /\ Owner(c) = p /\ Lane(c)' = Append(Lane(c), frame)
      BY <1>1, <3>1, <3>3, <3>5, <3>7, LaneFacts DEF Lanes, Owner, Lane
    <3>10. \A m \in Lanes \ {c} : Lane(m)' = Lane(m)
      BY <2>2, <3>7 DEF Lanes, Lane
    <3>11. Traffic(p, {frame}, 0)
      BY <1>1, <1>4, <3>8, <3>9, <3>10, LaneSays
    <3> QED BY <1>1, <1>2, <2>3, <3>11
  <2>5. CASE ~Online(p)
    <3>1. conns' = conns
      BY <1>4, <2>5 DEF StreamEnds
    <3>2. SameLanes /\ \A c \in ConnIds : conns'[c].wire = conns[c].wire
      BY <1>1, <3>1, LinksIdle
    <3>3. Traffic(p, {frame}, 0)
      BY <1>1, <2>2, <3>2, LanesIdle, TrafficMore
    <3> QED BY <1>1, <1>2, <2>3, <3>3
  <2> QED BY <2>4, <2>5
<1> QED BY <1>3, <1>4

LEMMA RunConnectsTraffic ==
    ASSUME HostInv, NEW r \in Runs, RunConnects(r)
    PROVE  /\ proc[r].st = "made" /\ UNCHANGED <<sessions, rows>> /\ r \in Procs
           /\ RunName[r] \in Names
           /\ Traffic(r, {Frame("start", r, RunName[r], <<>>, 0)}, Len(conns) + 1)
           /\ \A q \in Procs, m \in Names :
                 proc'[q].stream[m] = IF q = r /\ m = RunName[r] THEN 0 ELSE proc[q].stream[m]
<1>1. /\ HostShape /\ UNCHANGED <<sessions, outbound, rows, recorded>> /\ proc[r].st = "made"
      /\ r \in Procs /\ r # Daemon /\ RunName[r] \in Names
  BY TerminalsAssumption DEF RunConnects, backend, HostInv, LinkInv
<1>2. PICK frame \in FrameSet : frame = Frame("start", r, RunName[r], <<>>, 0)
  <2>1. <<>> \in Seq(1 .. MaxLines)
    OBVIOUS
  <2> QED BY <1>1, <2>1, FrameTyped DEF HostInv
<1>3. PICK w : w = <<frame>>
  OBVIOUS
<1>4. w \in Seq(FrameSet) /\ ToSet(w) = {frame} /\ \A x, y : ~Before(w, x, y)
  BY <1>3, NoElems
<1>5. conns' = Append(conns, NewConn(r, w))
  BY <1>2, <1>3 DEF RunConnects
<1>6. Traffic(r, {frame}, Len(conns) + 1)
  <2>1. /\ \A x : x \in ToSet(outbound') => x \in On(0)
        /\ \A x, y : Before(outbound', x, y) => Before(outbound, x, y)
    BY <1>1 DEF On, Lane
  <2> QED BY <1>1, <1>4, <1>5, <2>1, LaneOpens
<1>7. PICK n \in Nat : n = Len(conns) + 1
  BY <1>1, HostFacts
<1>8. PICK s : s = [proc[r].stream EXCEPT ![RunName[r]] = 0]
  OBVIOUS
<1>9. PICK x : x = [proc[r] EXCEPT !.st = "up", !.conn = n, !.stream = s]
  OBVIOUS
<1>10. /\ proc[r] \in Process /\ s \in [Names -> {NoStream} \cup Nat]
       /\ \A m \in Names : s[m] = IF m = RunName[r] THEN 0 ELSE proc[r].stream[m]
  BY <1>1, <1>8 DEF HostShape, Process
<1>11. x \in Process /\ x.stream = s
  BY <1>9, <1>10 DEF Process
<1>12. proc' = [proc EXCEPT ![r] = x]
  BY <1>7, <1>8, <1>9 DEF RunConnects
<1>13. \A q \in Procs : proc'[q] = IF q = r THEN x ELSE proc[q]
  BY <1>1, <1>11, <1>12, ProcUpdate
<1>14. \A q \in Procs, m \in Names :
          proc'[q].stream[m] = IF q = r /\ m = RunName[r] THEN 0 ELSE proc[q].stream[m]
  BY <1>10, <1>11, <1>13
<1> QED BY <1>1, <1>2, <1>6, <1>14

LEMMA HandleStartTraffic ==
    ASSUME HostInv, NEW p \in Procs, HandleStart(p)
    PROVE  \/ Carries
           \/ \E n \in Names :
                 /\ p = Daemon /\ NewSession(Daemon, n) /\ rows' = rows
                 /\ Traffic(Daemon, {Frame("start", Daemon, n, <<>>, 0)}, 0)
                 /\ \A q \in Procs, m \in Names :
                       proc'[q].stream[m] = IF q = Daemon /\ m = n THEN 0 ELSE proc[q].stream[m]
<1>1. Receives(p, "start") /\ Taken(p) /\ UNCHANGED <<rows, recorded>>
  BY DEF HandleStart, backend
<1>2. HostShape /\ NameIn(p) \in Names
  BY <1>1, Receiving
<1> PICK n \in Names : n = NameIn(p)
  BY <1>2
<1>3. CASE NewSession(p, n)
  <2>1. ~Exists(NameIn(p))
    BY <1>3 DEF NewSession
  <2>2. StartedProc(p, n)
    BY <1>2, <2>1, Started DEF HandleStart
  <2>3. CASE p # Daemon
    <3>1. outbound' = outbound
      BY <2>1, <2>3 DEF HandleStart
    <3>2. Quieter
      BY <2>2, <2>3 DEF Quieter, StartedProc
    <3> QED BY <1>1, <3>1, <3>2, TakenCarries
  <2>4. CASE p = Daemon
    <3>1. PICK frame \in FrameSet : frame = Frame("start", Daemon, n, <<>>, 0)
      <4>1. <<>> \in Seq(1 .. MaxLines)
        OBVIOUS
      <4> QED BY <2>4, <4>1, FrameTyped DEF HostInv
    <3>2. outbound' = Append(outbound, frame)
      BY <2>1, <2>4, <3>1 DEF HandleStart
    <3>3. /\ ConnIds' = ConnIds
          /\ \A c \in ConnIds \ {proc[p].conn} : SameInbox(c)
          /\ conns'[proc[p].conn].proc = conns[proc[p].conn].proc
          /\ \A d \in ConnIds : conns'[d].known = conns[d].known /\ conns'[d].wire = conns[d].wire
      BY <1>1, InboxUpdate, Receiving DEF HostInv
    <3>4. \A c \in ConnIds : conns'[c].proc = conns[c].proc
      BY <3>3 DEF SameInbox
    <3>5. SameLanes
      BY <1>1, <3>3, <3>4 DEF SameLanes
    <3>6. 0 \in Lanes /\ Owner(0) = Daemon /\ Lane(0)' = Append(Lane(0), frame)
      BY <3>2 DEF Lanes, Owner, Lane
    <3>7. \A m \in Lanes \ {0} : Lane(m)' = Lane(m)
      BY <3>3 DEF Lanes, Lane
    <3>8. Traffic(Daemon, {frame}, 0)
      BY <1>2, <3>5, <3>6, <3>7, LaneSays
    <3> QED BY <1>1, <1>3, <2>2, <2>4, <3>1, <3>8 DEF StartedProc
  <2> QED BY <2>3, <2>4
<1>4. CASE Exists(n)
  <2>1. UNCHANGED <<proc, outbound>>
    BY <1>4 DEF HandleStart, NewSession
  <2> QED BY <1>1, <2>1, TakenCarries DEF Quieter
<1> QED BY <1>3, <1>4 DEF HandleStart

-----------------------------------------------------------------------------
(* What frames say stays true. *)
LEMMA NewsStays ==
    ASSUME HostInv, HostStep, NEW p \in Procs, NEW x \in FrameSet, FrameOk(p, x)
    PROVE  FrameOk(p, x)'
<1>1. SessionsSane /\ SessionsSane' /\ SessionsGrow
  BY DEF HostInv, HostStep
<1>2. PICK n \in Nat : n = Len(sessions) /\ SessionIds = 1 .. n
  BY <1>1, Lengths DEF SessionIds
<1>3. PICK m \in Nat : m = Len(sessions') /\ SessionIds' = 1 .. m
  BY <1>1, Lengths DEF SessionsSane, SessionsOk, SessionIds
<1>4. n <= m /\ x.asOf \in Nat /\ x.asOf <= n
  BY <1>1, <1>2, <1>3 DEF SessionsGrow, FrameOk, FrameSet
<1>5. \A k \in 1 .. n : /\ sessions'[k].name = sessions[k].name
                        /\ sessions'[k].alive => sessions[k].alive
  BY <1>1, <1>2 DEF SessionsGrow
<1>6. ASSUME NEW name, OwnName(p, name) PROVE OwnName(p, name)'
  BY <1>1, <1>6, MadeStays DEF OwnName
<1>7. x.kind = "output" => x.session \in SessionIds' /\ sessions'[x.session].name = x.name
  BY <1>2, <1>3, <1>4, <1>5 DEF FrameOk
<1>8. \A k \in SessionIds' : k \in 1 .. n \/ x.asOf < k
  BY <1>3, <1>4
<1>9. x.kind = "end" =>
         \A k \in SessionIds' : sessions'[k].alive /\ sessions'[k].name = x.name => x.asOf < k
  BY <1>2, <1>5, <1>8 DEF FrameOk
<1>10. x.kind = "reconcile" =>
         \A k \in SessionIds' : sessions'[k].alive /\ sessions'[k].name \notin x.live => x.asOf < k
  BY <1>2, <1>5, <1>8 DEF FrameOk
<1>11. x.kind # "reconcile" =>
          x.name \in Names /\ x.ref = RefOf(p, x.name) /\ OwnName(p, x.name)'
  <2>1. PICK name : name = x.name
    OBVIOUS
  <2>2. OwnName(p, name) => OwnName(p, name)'
    BY <1>6
  <2> QED BY <2>1, <2>2 DEF FrameOk
<1>12. x.asOf <= Len(sessions')
  BY <1>3, <1>4
<1> QED BY <1>7, <1>9, <1>10, <1>11, <1>12 DEF FrameOk

LEMMA LaneNews ==
    ASSUME HostInv, HostStep, NewsInv, NEW p \in Procs, NEW N, NEW to, Traffic(p, N, to),
           \A x \in N : FrameOk(p, x)'
    PROVE  \A l \in Lanes', q \in Procs : Owner(l)' = q => \A x \in On(l)' : FrameOk(q, x)'
<1> SUFFICES ASSUME NEW l \in Lanes', NEW q \in Procs, Owner(l)' = q, NEW x, x \in On(l)'
             PROVE  FrameOk(q, x)'
  OBVIOUS
<1>1. HostShape
  BY DEF HostInv, LinkInv
<1>2. CASE l \in Lanes /\ x \in On(l)
  <2>1. Owner(l) = q /\ FrameOk(q, x) /\ x \in FrameSet
    BY <1>1, <1>2, LaneFacts DEF Traffic, NewsInv
  <2> QED BY <2>1, NewsStays
<1>3. CASE x \in N /\ Owner(l)' = p
  BY <1>3
<1>4. CASE x \in On(0) /\ Owner(l)' = Daemon
  <2>1. 0 \in Lanes /\ Owner(0) = Daemon /\ q = Daemon
    BY <1>4 DEF Lanes, Owner
  <2>2. FrameOk(q, x) /\ x \in FrameSet
    BY <1>1, <1>4, <2>1, LaneFacts DEF NewsInv
  <2> QED BY <2>2, NewsStays
<1>5. \/ l \in Lanes /\ x \in On(l)
      \/ x \in N /\ Owner(l)' = p
      \/ l = to /\ x \in On(0) /\ Owner(l)' = Daemon
  BY DEF Traffic
<1> QED BY <1>2, <1>3, <1>4, <1>5

StreamsOwn ==
    \A q \in Procs, n \in Names :
        proc'[q].stream[n] # NoStream => proc[q].stream[n] # NoStream \/ OwnName(q, n)'

LEMMA NewsTraffic ==
    ASSUME HostInv, HostStep, NewsInv, NEW p \in Procs, NEW N, NEW to, Traffic(p, N, to),
           \A x \in N : FrameOk(p, x)', RowsStay, StreamsOwn
    PROVE  NewsInv'
<1>1. HostShape /\ SessionsSane /\ SessionsSane' /\ SessionsGrow
  BY DEF HostInv, LinkInv, HostStep
<1>2. \A l \in Lanes', q \in Procs : Owner(l)' = q => \A x \in On(l)' : FrameOk(q, x)'
  BY LaneNews
<1>3. ASSUME NEW q \in Procs, NEW n \in Names, proc'[q].stream[n] # NoStream
      PROVE  OwnName(q, n)'
  <2>1. OwnName(q, n) => OwnName(q, n)'
    BY <1>1, MadeStays DEF OwnName
  <2> QED BY <1>3, <2>1 DEF StreamsOwn, NewsInv
<1>4. ASSUME NEW c \in ConnIds', NEW q \in Procs, conns'[c].proc = q, NEW n \in conns'[c].known
      PROVE  Made(q, n)' /\ rows'[RefOf(q, n)].status # "none"
  <2>1. c \in ConnIds /\ n \in conns[c].known
    BY <1>4 DEF Traffic
  <2>2. c \in Lanes /\ c # 0 /\ Owner(c)' = Owner(c) /\ c # 0
    BY <1>1, <2>1, LaneFacts DEF Traffic, Lanes
  <2>3. conns[c].proc = q
    BY <1>4, <2>2 DEF Owner
  <2>4. Made(q, n) /\ rows[RefOf(q, n)].status # "none"
    BY <2>1, <2>3 DEF NewsInv
  <2>5. RefOf(q, n) \in Refs
    <3>1. conns[c].known \in SUBSET (Names \cup {NoRef})
      BY <1>1, <2>1, HostFacts DEF ConnSet
    <3>2. n \in Names
      <4>1. \A k \in SessionIds : sessions[k].name \in Names
        BY <1>1, Lengths DEF Session
      <4> QED BY <2>4, <4>1 DEF Made
    <3> QED BY <3>2 DEF RefOf, Refs
  <2> QED BY <1>1, <2>4, <2>5, MadeStays DEF RowsStay
<1>5. \A f \in Refs : rows'[f].status # "none" => rows'[f].name = NameOf(f)
  BY DEF RowsStay, NewsInv
<1> QED BY <1>2, <1>3, <1>4, <1>5 DEF NewsInv

LEMMA CarriesNews ==
    ASSUME HostInv, HostStep, NewsInv, Carries
    PROVE  NewsInv'
<1>1. PICK N \in SUBSET {Reconcile(LiveNames)}, to \in Nat : Traffic(Daemon, N, to)
  BY DEF Carries
<1>2. PICK r \in FrameSet : r = Reconcile(LiveNames)
  BY ReconcileTyped DEF HostInv
<1>3. Daemon \in Procs /\ SessionsSane
  BY TerminalsAssumption DEF HostInv
<1>4. r.kind = "reconcile" /\ r.live = LiveNames /\ r.asOf = Len(sessions)
  BY <1>2 DEF Reconcile
<1>5. FrameOk(Daemon, r)
  <2>1. \A k \in SessionIds : sessions[k].alive => sessions[k].name \in LiveNames
    BY DEF LiveNames
  <2>2. Len(sessions) \in Nat
    BY <1>3, Lengths
  <2> QED BY <1>4, <2>1, <2>2 DEF FrameOk
<1>6. FrameOk(Daemon, r)'
  BY <1>3, <1>5, NewsStays
<1>7. \A x \in N : FrameOk(Daemon, x)'
  BY <1>1, <1>2, <1>6
<1>8. RowsStay /\ StreamsOwn
  BY DEF Carries, Quieter, StreamsOwn
<1> QED BY <1>1, <1>3, <1>7, <1>8, NewsTraffic

(* The frames that an action builds. *)
LEMMA NewFrame ==
    ASSUME HostInv, NEW p \in Procs, NEW n \in Names, NEW k \in Nat,
           NEW kind \in {"start", "output", "end"}, NEW lines \in Seq(1 .. MaxLines),
           OwnName(p, n),
           kind = "output" => k \in SessionIds /\ sessions[k].name = n,
           kind = "end" => ~Exists(n)
    PROVE  Frame(kind, p, n, lines, k) \in FrameSet /\ FrameOk(p, Frame(kind, p, n, lines, k))
<1>1. PICK x : x = Frame(kind, p, n, lines, k)
  OBVIOUS
<1>2. x \in FrameSet
  BY <1>1, FrameTyped DEF HostInv
<1>3. /\ x.kind = kind /\ x.ref = RefOf(p, n) /\ x.name = n /\ x.session = k
      /\ x.asOf = Len(sessions)
  BY <1>1 DEF Frame
<1>4. Len(sessions) \in Nat
  BY Lengths DEF HostInv
<1>5. kind = "end" => \A j \in SessionIds : ~(sessions[j].alive /\ sessions[j].name = n)
  BY DEF Exists, LiveNames
<1>6. FrameOk(p, x)
  BY <1>3, <1>4, <1>5 DEF FrameOk
<1> QED BY <1>1, <1>2, <1>6

LEMMA NewFrameStays ==
    ASSUME HostInv, HostStep, NEW p \in Procs, NEW x \in FrameSet, FrameOk(p, x)
    PROVE  \A y \in {x} : FrameOk(p, y)'
<1>1. FrameOk(p, x)'
  BY NewsStays
<1> QED BY <1>1

LEMMA PollsNews ==
    ASSUME HostInv, HostStep, NewsInv, NEW p \in Procs, NEW n \in Names, Polls(p, n)
    PROVE  NewsInv'
<1>1. proc[p].stream[n] \in Nat /\ UNCHANGED <<sessions, rows>>
  BY PollsTraffic
<1>2. PICK k \in SessionIds, lines \in Seq(1 .. MaxLines) :
          /\ sessions[k].name = n
          /\ lines = NewLines(sessions[k].screen, proc[p].stream[n])
          /\ Traffic(p, {Frame("output", p, n, lines, k)}, 0)
          /\ \A q \in Procs, m \in Names :
                proc'[q].stream[m] = IF q = p /\ m = n THEN Len(sessions[k].screen)
                                     ELSE proc[q].stream[m]
  BY PollsTraffic, Zenon
<1>3. PICK x : x = Frame("output", p, n, lines, k)
  OBVIOUS
<1>4. proc[p].stream[n] # NoStream
  BY <1>1 DEF NoStream
<1>5. k \in Nat
  BY DEF SessionIds
<1>6. OwnName(p, n)
  BY <1>4 DEF NewsInv
<1>7. x \in FrameSet /\ FrameOk(p, x)
  BY <1>2, <1>3, <1>5, <1>6, NewFrame
<1>8. \A y \in {x} : FrameOk(p, y)'
  BY <1>7, NewFrameStays
<1>9. RowsStay
  BY <1>1 DEF RowsStay
<1>10. StreamsOwn
  BY <1>2, <1>4 DEF StreamsOwn
<1> QED BY <1>2, <1>3, <1>8, <1>9, <1>10, NewsTraffic

LEMMA StreamEndsNews ==
    ASSUME HostInv, HostStep, NewsInv, NEW p \in Procs, NEW n \in Names, StreamEnds(p, n)
    PROVE  NewsInv'
<1>1. /\ proc[p].stream[n] # NoStream /\ ~Exists(n) /\ UNCHANGED <<sessions, rows>> /\ Quieter
      /\ Traffic(p, {Frame("end", p, n, <<>>, 0)}, 0)
  BY StreamEndsTraffic
<1>2. PICK x : x = Frame("end", p, n, <<>>, 0)
  OBVIOUS
<1>3. OwnName(p, n)
  BY <1>1 DEF NewsInv
<1>4. <<>> \in Seq(1 .. MaxLines)
  OBVIOUS
<1>5. x \in FrameSet /\ FrameOk(p, x)
  BY <1>1, <1>2, <1>3, <1>4, NewFrame
<1>6. \A y \in {x} : FrameOk(p, y)'
  BY <1>5, NewFrameStays
<1>7. RowsStay /\ StreamsOwn
  BY <1>1 DEF RowsStay, Quieter, StreamsOwn
<1> QED BY <1>1, <1>2, <1>6, <1>7, NewsTraffic

LEMMA RunConnectsNews ==
    ASSUME HostInv, OwnInv, HostStep, NewsInv, NEW r \in Runs, RunConnects(r)
    PROVE  NewsInv'
<1>1. /\ proc[r].st = "made" /\ UNCHANGED <<sessions, rows>> /\ r \in Procs
      /\ RunName[r] \in Names
      /\ Traffic(r, {Frame("start", r, RunName[r], <<>>, 0)}, Len(conns) + 1)
      /\ \A q \in Procs, m \in Names :
            proc'[q].stream[m] = IF q = r /\ m = RunName[r] THEN 0 ELSE proc[q].stream[m]
  BY RunConnectsTraffic
<1>2. PICK x : x = Frame("start", r, RunName[r], <<>>, 0)
  OBVIOUS
<1>3. OwnName(r, RunName[r])
  BY <1>1 DEF OwnInv, OwnName
<1>4. <<>> \in Seq(1 .. MaxLines)
  OBVIOUS
<1>5. x \in FrameSet /\ FrameOk(r, x)
  BY <1>1, <1>2, <1>3, <1>4, NewFrame
<1>6. \A y \in {x} : FrameOk(r, y)'
  BY <1>1, <1>5, NewFrameStays
<1>7. OwnName(r, RunName[r])'
  <2>1. PICK n : n = RunName[r]
    OBVIOUS
  <2>2. Made(r, n) => Made(r, n)'
    BY MadeStays DEF HostInv, HostStep
  <2> QED BY <1>3, <2>1, <2>2 DEF OwnName
<1>8. RowsStay /\ StreamsOwn
  BY <1>1, <1>7 DEF RowsStay, StreamsOwn
<1> QED BY <1>1, <1>2, <1>6, <1>8, NewsTraffic

LEMMA HandleStartNews ==
    ASSUME HostInv, HostStep, NewsInv, NEW p \in Procs, HandleStart(p)
    PROVE  NewsInv'
<1>1. CASE Carries
  BY <1>1, CarriesNews
<1>2. ASSUME NEW n \in Names, NewSession(Daemon, n), rows' = rows,
             Traffic(Daemon, {Frame("start", Daemon, n, <<>>, 0)}, 0),
             \A q \in Procs, m \in Names :
                 proc'[q].stream[m] = IF q = Daemon /\ m = n THEN 0 ELSE proc[q].stream[m]
      PROVE  NewsInv'
  <2>1. PICK x : x = Frame("start", Daemon, n, <<>>, 0)
    OBVIOUS
  <2>2. /\ x.kind = "start" /\ x.ref = RefOf(Daemon, n) /\ x.name = n
        /\ x.asOf = Len(sessions)
    BY <2>1 DEF Frame
  <2>3. Daemon \in Procs /\ Daemon \notin Runs
    BY TerminalsAssumption
  <2>4. /\ Len(sessions') = Len(sessions) + 1
        /\ sessions'[Len(sessions) + 1] =
              [name |-> n, by |-> Daemon, alive |-> TRUE, printed |-> 0, screen |-> <<>>]
        /\ SessionIds' = SessionIds \cup {Len(sessions) + 1}
    BY <1>2, <2>3, SessionMade DEF HostInv
  <2>5. OwnName(Daemon, n)'
    BY <2>3, <2>4 DEF OwnName, Made
  <2>6. Len(sessions) \in Nat
    BY Lengths DEF HostInv
  <2>7. FrameOk(Daemon, x)'
    BY <2>2, <2>4, <2>5, <2>6 DEF FrameOk
  <2>8. \A y \in {x} : FrameOk(Daemon, y)'
    BY <2>7
  <2>9. RowsStay /\ StreamsOwn
    BY <1>2, <2>5 DEF RowsStay, StreamsOwn
  <2> QED BY <1>2, <2>1, <2>3, <2>8, <2>9, NewsTraffic
<1> QED BY <1>1, <1>2, HandleStartTraffic

(* The consumer takes the first frame off the wire. *)
LEMMA Hearing ==
    ASSUME HostInv, NEW c \in ConnIds, NEW known, Heard(c, known)
    PROVE  /\ UNCHANGED <<sessions, proc, outbound>> /\ Lanes' = Lanes /\ ConnIds' = ConnIds
           /\ \A l \in Lanes : Owner(l)' = Owner(l)
           /\ \A d \in ConnIds : conns'[d].known = IF d = c THEN known ELSE conns[d].known
           /\ c \in Lanes /\ Arrival(c) \in On(c)
           /\ \A l \in Lanes : \A x : x \in On(l)' => x \in On(l)
           /\ \A x : x \in On(c)' => Before(Lane(c), Arrival(c), x)
           /\ \A x, y : Ahead(x, y)' => Ahead(x, y)
<1>1. /\ HostShape /\ UNCHANGED <<sessions, proc, outbound>>
      /\ conns[c].wire # <<>> /\ Handled(c, known) /\ known \in SUBSET (Names \cup {NoRef})
  BY DEF Heard, RowWork, HostInv, LinkInv
<1>2. /\ ConnIds' = ConnIds /\ \A d \in ConnIds : SameInbox(d)
      /\ \A d \in ConnIds : conns'[d].known = IF d = c THEN known ELSE conns[d].known
      /\ \A d \in ConnIds : conns'[d].wire = IF d = c THEN Tail(conns[c].wire) ELSE conns[d].wire
  BY <1>1, HandledFrame
<1>3. 0 \notin ConnIds /\ c # 0
  BY <1>1, LaneFacts
<1>4. PICK s \in Seq(FrameSet) : s = conns[c].wire /\ s # <<>>
  BY <1>1, HostFacts DEF ConnSet
<1>5. PICK h : h = Head(s)
  OBVIOUS
<1>6. PICK rest : rest = Tail(s)
  OBVIOUS
<1>7. /\ h \in ToSet(s)
      /\ \A x : x \in ToSet(rest) => x \in ToSet(s) /\ Before(s, h, x)
      /\ \A x, y : Before(rest, x, y) => Before(s, x, y)
  BY <1>4, <1>5, <1>6, ElemsTail
<1>8. /\ Lane(c) = s /\ Lane(c)' = rest /\ On(c) = ToSet(s) /\ On(c)' = ToSet(rest)
      /\ Arrival(c) = h
  BY <1>2, <1>3, <1>4, <1>5, <1>6 DEF Lane, On, Arrival
<1>9. \A l \in Lanes : l # c => Lane(l)' = Lane(l) /\ On(l)' = On(l)
  BY <1>1, <1>2, <1>3 DEF Lanes, Lane, On
<1>10. /\ Lanes' = Lanes /\ c \in Lanes /\ 0 \in Lanes
       /\ \A l \in Lanes : Owner(l)' = Owner(l)
  BY <1>2, <1>3 DEF Lanes, Owner, SameInbox
<1>11. \A l \in Lanes : \A x : x \in On(l)' => x \in On(l)
  BY <1>7, <1>8, <1>9
<1>12. \A l \in Lanes : \A x, y : Before(Lane(l)', x, y) => Before(Lane(l), x, y)
  BY <1>7, <1>8, <1>9
<1>13. ASSUME NEW x, NEW y, Ahead(x, y)' PROVE Ahead(x, y)
  <2>1. CASE \E l \in Lanes : Before(Lane(l)', x, y)
    BY <1>12, <2>1 DEF Ahead
  <2>2. CASE \E d \in ConnIds : conns'[d].proc = Daemon /\ x \in On(d)' /\ y \in On(0)'
    <3>1. PICK d \in ConnIds : conns'[d].proc = Daemon /\ x \in On(d)' /\ y \in On(0)'
      BY <2>2
    <3>2. d \in Lanes /\ x \in On(d) /\ y \in On(0) /\ conns[d].proc = Daemon
      BY <1>2, <1>10, <1>11, <3>1 DEF Lanes, SameInbox
    <3> QED BY <3>2 DEF Ahead
  <2>3. \/ \E l \in Lanes' : Before(Lane(l)', x, y)
        \/ \E d \in ConnIds' : conns'[d].proc = Daemon /\ x \in On(d)' /\ y \in On(0)'
    BY <1>13 DEF Ahead
  <2> QED BY <1>2, <1>10, <2>1, <2>2, <2>3
<1>14. \A x : x \in On(c)' => Before(Lane(c), Arrival(c), x)
  BY <1>7, <1>8
<1>15. Arrival(c) \in On(c)
  BY <1>7, <1>8
<1> QED BY <1>1, <1>2, <1>10, <1>11, <1>13, <1>14, <1>15

LEMMA HeardNews ==
    ASSUME HostInv, HostStep, NewsInv, NEW c \in ConnIds, NEW known, Heard(c, known),
           \A f \in Refs : /\ rows'[f].status # "none" => rows'[f].name = NameOf(f)
                           /\ rows[f].status # "none" => rows'[f].status # "none",
           \A n \in known : \/ n \in conns[c].known
                            \/ /\ n \in Names /\ Made(conns[c].proc, n)
                               /\ rows'[RefOf(conns[c].proc, n)].status # "none"
    PROVE  NewsInv'
<1>1. /\ UNCHANGED <<sessions, proc, outbound>> /\ Lanes' = Lanes /\ ConnIds' = ConnIds
      /\ \A l \in Lanes : Owner(l)' = Owner(l)
      /\ \A d \in ConnIds : conns'[d].known = IF d = c THEN known ELSE conns[d].known
      /\ c \in Lanes /\ Arrival(c) \in On(c)
      /\ \A l \in Lanes : \A x : x \in On(l)' => x \in On(l)
  BY Hearing
<1>2. HostShape /\ SessionsSane /\ SessionsSane' /\ SessionsGrow
  BY DEF HostInv, LinkInv, HostStep
<1>3. ASSUME NEW l \in Lanes', NEW q \in Procs, Owner(l)' = q, NEW x, x \in On(l)'
      PROVE  FrameOk(q, x)'
  <2>1. l \in Lanes /\ x \in On(l) /\ Owner(l) = q
    BY <1>1, <1>3
  <2>2. FrameOk(q, x) /\ x \in FrameSet
    BY <1>2, <2>1, LaneFacts DEF NewsInv
  <2> QED BY <2>2, NewsStays
<1>4. ASSUME NEW q \in Procs, NEW n \in Names, proc'[q].stream[n] # NoStream
      PROVE  OwnName(q, n)'
  <2>1. OwnName(q, n) => OwnName(q, n)'
    BY <1>2, MadeStays DEF OwnName
  <2> QED BY <1>1, <1>4, <2>1 DEF NewsInv
<1>5. ASSUME NEW d \in ConnIds', NEW q \in Procs, conns'[d].proc = q, NEW n \in conns'[d].known
      PROVE  Made(q, n)' /\ rows'[RefOf(q, n)].status # "none"
  <2>1. d \in ConnIds /\ d \in Lanes /\ d # 0 /\ Owner(d)' = Owner(d)
    BY <1>1, <1>2, LaneFacts DEF Lanes
  <2>2. conns[d].proc = q
    BY <1>5, <2>1 DEF Owner
  <2>3. CASE n \in conns[d].known
    <3>1. Made(q, n) /\ rows[RefOf(q, n)].status # "none"
      BY <2>1, <2>2, <2>3 DEF NewsInv
    <3>2. n \in Names
      <4>1. \A k \in SessionIds : sessions[k].name \in Names
        BY <1>2, Lengths DEF Session
      <4> QED BY <3>1, <4>1 DEF Made
    <3>3. RefOf(q, n) \in Refs
      BY <3>2 DEF RefOf, Refs
    <3> QED BY <1>2, <3>1, <3>3, MadeStays
  <2>4. CASE d = c /\ n \in Names /\ Made(q, n) /\ rows'[RefOf(q, n)].status # "none"
    BY <1>2, <2>4, MadeStays
  <2> QED BY <1>1, <1>5, <2>1, <2>2, <2>3, <2>4
<1>6. \A f \in Refs : rows'[f].status # "none" => rows'[f].name = NameOf(f)
  OBVIOUS
<1> QED BY <1>3, <1>4, <1>5, <1>6 DEF NewsInv

(* What the arriving frame says is so. *)
LEMMA ArrivalOk ==
    ASSUME HostInv, NewsInv, NEW c \in ConnIds, conns[c].wire # <<>>
    PROVE  conns[c].proc \in Procs /\ Arrival(c) \in FrameSet /\ FrameOk(conns[c].proc, Arrival(c))
<1>1. HostShape
  BY DEF HostInv, LinkInv
<1>2. c # 0 /\ c \in Lanes /\ conns[c] \in ConnSet
  BY <1>1, LaneFacts, HostFacts DEF Lanes
<1>3. PICK s \in Seq(FrameSet) : s = conns[c].wire /\ s # <<>>
  BY <1>1, HostFacts DEF ConnSet
<1>4. PICK h : h = Head(s)
  OBVIOUS
<1>5. h \in ToSet(s) /\ h = Arrival(c) /\ h \in FrameSet
  BY <1>3, <1>4, ElemsTail, HeadTailProperties DEF Arrival
<1>6. PICK p \in Procs : p = conns[c].proc
  BY <1>2 DEF ConnSet
<1>7. On(c) = ToSet(s) /\ Owner(c) = p
  BY <1>2, <1>3, <1>6 DEF On, Lane, Owner
<1> QED BY <1>2, <1>5, <1>6, <1>7 DEF NewsInv

LEMMA HearsNews ==
    ASSUME HostInv, HostStep, NewsInv, NEW c \in ConnIds, ReceiveJson(c)
    PROVE  NewsInv'
<1>1. conns[c].wire # <<>>
  BY DEF ReceiveJson, PtyStart, PtyOutput, PtyEnd, PtyReconcile, Arrives
<1>2. PICK x \in FrameSet : x = Arrival(c)
  BY <1>1, ArrivalOk
<1>3. PICK p \in Procs : p = conns[c].proc
  BY <1>1, ArrivalOk
<1>4. FrameOk(p, x)
  BY <1>1, <1>2, <1>3, ArrivalOk
<1>5. \A f \in Refs : rows[f].status # "none" => rows[f].name = NameOf(f)
  BY DEF NewsInv
<1>6. rows \in [Refs -> RowSet]
  BY DEF HostInv, LinkInv, HostShape
<1>7. CASE PtyStart(c)
  <2>1. Heard(c, conns[c].known \cup {x.name}) /\ x.kind = "start"
    BY <1>2, <1>7, FrameHeard DEF ReceiveJson, PtyStart, Arrives, Arrival
  <2>2. PICK f \in Refs : f = x.ref
    BY <1>4, <2>1 DEF FrameOk, RefOf, Refs
  <2>3. x.name \in Names /\ f = RefOf(p, x.name) /\ OwnName(p, x.name)
    BY <1>4, <2>1, <2>2 DEF FrameOk
  <2>4. NameOf(f) = x.name
    BY <2>3, TerminalsAssumption DEF NameOf, RefOf, OwnName
  <2>5. PICK r : r = [status |-> IF rows[f].status = "none" THEN "running" ELSE rows[f].status,
                      name |-> x.name]
    OBVIOUS
  <2>6. rows' = [rows EXCEPT ![f] = r]
    BY <1>2, <1>7, <2>2, <2>5 DEF PtyStart
  <2>7. r.status # "none" /\ r.name = x.name
    BY <2>5
  <2>8. \A g \in Refs : rows'[g] = IF g = f THEN r ELSE rows[g]
    BY <1>6, <2>6
  <2>9. \A n \in conns[c].known \cup {x.name} :
            \/ n \in conns[c].known
            \/ /\ n \in Names /\ Made(conns[c].proc, n)
               /\ rows'[RefOf(conns[c].proc, n)].status # "none"
    BY <1>3, <2>2, <2>3, <2>7, <2>8 DEF OwnName
  <2>10. \A g \in Refs : /\ rows'[g].status # "none" => rows'[g].name = NameOf(g)
                         /\ rows[g].status # "none" => rows'[g].status # "none"
    BY <1>5, <2>4, <2>7, <2>8
  <2> QED BY <2>1, <2>9, <2>10, HeardNews
<1>8. CASE PtyOutput(c)
  <2>1. Heard(c, conns[c].known) /\ rows' = rows
    BY <1>2, <1>8, FrameHeard DEF ReceiveJson, PtyOutput, Arrives, Arrival
  <2>2. \A f \in Refs : /\ rows'[f].status # "none" => rows'[f].name = NameOf(f)
                        /\ rows[f].status # "none" => rows'[f].status # "none"
    BY <1>5, <2>1
  <2> QED BY <2>1, <2>2, HeardNews
<1>9. ASSUME NEW fs, rows' = WithStatus(fs, "completed")
      PROVE  \A f \in Refs : /\ rows'[f].name = rows[f].name
                             /\ f \in fs => rows'[f].status = "completed"
                             /\ f \notin fs => rows'[f] = rows[f]
  BY <1>6, <1>9 DEF WithStatus, RowSet
<1>10. CASE PtyEnd(c)
  <2>1. Heard(c, conns[c].known \ {x.name}) /\ x.kind = "end"
    BY <1>2, <1>10, FrameHeard DEF ReceiveJson, PtyEnd, Arrives, Arrival
  <2>2. \/ rows' = rows
        \/ rows' = WithStatus({x.ref}, "completed") /\ x.name \in conns[c].known
    BY <1>2, <1>10 DEF PtyEnd
  <2>3. x.name \in conns[c].known => rows[x.ref].status # "none"
    BY <1>3, <1>4, <2>1 DEF FrameOk, NewsInv
  <2>4. \A f \in Refs : /\ rows'[f].status # "none" => rows'[f].name = NameOf(f)
                        /\ rows[f].status # "none" => rows'[f].status # "none"
    BY <1>5, <1>9, <2>2, <2>3
  <2> QED BY <2>1, <2>4, HeardNews
<1>11. CASE PtyReconcile(c)
  <2>1. Heard(c, conns[c].known)
    BY <1>2, <1>11, FrameHeard DEF ReceiveJson, PtyReconcile, Arrives, Arrival
  <2>2. PICK fs : rows' = WithStatus(fs, "completed") /\ \A f \in fs : rows[f].status = "running"
    BY <1>11 DEF PtyReconcile
  <2>3. \A f \in Refs : /\ rows'[f].status # "none" => rows'[f].name = NameOf(f)
                        /\ rows[f].status # "none" => rows'[f].status # "none"
    BY <1>5, <1>9, <2>2
  <2> QED BY <2>1, <2>3, HeardNews
<1> QED BY <1>7, <1>8, <1>10, <1>11 DEF ReceiveJson

LEMMA InitNews == ASSUME Init PROVE NewsInv
<1>1. /\ outbound = <<>> /\ conns = <<>> /\ Len(conns) = 0
      /\ \A p \in Procs : proc[p] = Off
      /\ \A f \in Refs : rows[f].status = "none"
  BY DEF Init
<1>2. Lanes = {0} /\ ConnIds = {} /\ On(0) = {}
  BY <1>1, NoElems DEF Lanes, Lane, On, ConnIds
<1>3. \A n \in Names : Off.stream[n] = NoStream
  BY DEF Off
<1> QED BY <1>1, <1>2, <1>3 DEF NewsInv

LEMMA NextNews ==
    ASSUME IInv, NewsInv, Next
    PROVE  NewsInv'
<1>1. HostInv /\ OwnInv /\ file \subseteq Names
  BY FileNames DEF IInv
<1>2. HostStep
  BY <1>1, NextHost
<1>3. CASE Program
  BY <1>1, <1>2, <1>3, ProgramCarries, CarriesNews
<1>4. CASE \E p \in Procs, n \in Names : Polls(p, n) \/ StreamEnds(p, n)
  BY <1>1, <1>2, <1>4, PollsNews, StreamEndsNews
<1>5. CASE \E r \in Runs : RunStarts(r) \/ RunConnects(r) \/ RunLeaves(r)
  BY <1>1, <1>2, <1>5, RunStartsCarries, RunLeavesCarries, CarriesNews, RunConnectsNews
<1>6. CASE DaemonStarts \/ DaemonConnects \/ Heartbeat \/ DaemonSends \/ DaemonDies \/ DiesInStart
  BY <1>1, <1>2, <1>6, DaemonStartsCarries, DaemonConnectsCarries, HeartbeatCarries,
     DaemonSendsCarries, DeathsCarry, CarriesNews
<1>7. CASE \E p \in Procs : Breaks(p) \/ Handles(p) \/ DriveEnds(p)
  BY <1>1, <1>2, <1>7, BreaksCarries, HandlersCarry, HandleStartNews, DriveEndsCarries,
     CarriesNews DEF Handles
<1>8. CASE \/ \E f \in Refs, text \in Texts : AskInject(f, text)
           \/ \E n \in Launches : AskLaunch(n)
           \/ AskPrompt
           \/ \E f \in Refs : StopSends(f)
  BY <1>1, <1>2, <1>8, AsksCarry, CarriesNews
<1>9. CASE StopMarks
  BY <1>1, <1>2, <1>9, StopMarksCarries, CarriesNews
<1>10. CASE \E c \in ConnIds : ReceiveJson(c)
  BY <1>1, <1>2, <1>10, HearsNews
<1> QED BY <1>3, <1>4, <1>5, <1>6, <1>7, <1>8, <1>9, <1>10 DEF Next

LEMMA IdleNews ==
    ASSUME NewsInv, UNCHANGED vars
    PROVE  NewsInv'
BY DEF vars, NewsInv, Lanes, Lane, Owner, On, ConnIds, FrameOk, SessionIds, OwnName, Made

(* Every frame on its way is old news at worst: it names a session that its  *)
(* sender made, and what it says of the living was so when it was built.     *)
THEOREM FramesAreOldNewsAtWorst == Spec => []NewsInv
<1>1. IInv /\ NewsInv /\ [Next]_vars => NewsInv'
  BY NextNews, IdleNews
<1> QED BY <1>1, InitNews, HostKeepsItsBooks, PTL DEF Spec

(* All but the consumer leave completed rows to it. *)
LEMMA OthersCompleteNothing ==
    ASSUME IInv, Next, ~\E c \in ConnIds : ReceiveJson(c)
    PROVE  RowsStay
<1>1. HostInv /\ file \subseteq Names
  BY FileNames DEF IInv
<1>2. CASE Program
  BY <1>1, <1>2, ProgramCarries DEF Carries
<1>3. CASE \E p \in Procs, n \in Names : Polls(p, n) \/ StreamEnds(p, n)
  BY <1>3 DEF Polls, StreamEnds, backend, RowsStay
<1>4. CASE \E r \in Runs : RunStarts(r) \/ RunConnects(r) \/ RunLeaves(r)
  BY <1>4 DEF RunStarts, RunConnects, RunLeaves, backend, RowsStay
<1>5. CASE DaemonStarts \/ DaemonConnects \/ Heartbeat \/ DaemonSends \/ DaemonDies \/ DiesInStart
  BY <1>1, <1>5, DaemonStartsCarries, DaemonConnectsCarries, HeartbeatCarries,
     DaemonSendsCarries, DeathsCarry DEF Carries
<1>6. CASE \E p \in Procs : Breaks(p) \/ Handles(p) \/ DriveEnds(p)
  <2>1. ASSUME NEW p \in Procs, HandleStart(p) PROVE RowsStay
    BY <2>1 DEF HandleStart, backend, RowsStay
  <2> QED BY <1>1, <1>6, <2>1, BreaksCarries, HandlersCarry, DriveEndsCarries DEF Carries, Handles
<1>7. CASE \/ \E f \in Refs, text \in Texts : AskInject(f, text)
           \/ \E n \in Launches : AskLaunch(n)
           \/ AskPrompt
           \/ \E f \in Refs : StopSends(f)
  BY <1>1, <1>7, AsksCarry DEF Carries
<1>8. CASE StopMarks
  BY <1>1, <1>8, StopMarksCarries DEF Carries
<1> QED BY <1>2, <1>3, <1>4, <1>5, <1>6, <1>7, <1>8 DEF Next

(* A frame that completes a row of a living session is older than it. *)
LEMMA HearsOldNews ==
    ASSUME IInv, NewsInv, NEW c \in ConnIds, ReceiveJson(c), NEW f \in Refs,
           rows[f].status = "running", rows'[f].status = "completed", Exists(rows[f].name)
    PROVE  conns'[c].wire # conns[c].wire /\ Arrival(c).asOf < Current(rows[f].name)
<1>1. HostInv /\ rows \in [Refs -> RowSet] /\ HostShape
  BY DEF IInv, HostInv, LinkInv, HostShape
<1>2. conns[c].wire # <<>>
  BY DEF ReceiveJson, PtyStart, PtyOutput, PtyEnd, PtyReconcile, Arrives
<1>3. PICK x \in FrameSet : x = Arrival(c)
  BY <1>1, <1>2, ArrivalOk
<1>4. PICK p \in Procs : p = conns[c].proc
  BY <1>1, <1>2, ArrivalOk
<1>5. FrameOk(p, x)
  BY <1>1, <1>2, <1>3, <1>4, ArrivalOk
<1>6. PICK n : n = rows[f].name
  OBVIOUS
<1>7. PICK k \in SessionIds : k = Current(n) /\ sessions[k].name = n /\ sessions[k].alive
  BY <1>6, CurrentIs
<1>8. conns'[c].wire # conns[c].wire
  <2>1. PICK known : Heard(c, known)
    BY <1>1, FrameHeard
  <2>2. Handled(c, known) /\ known \in SUBSET (Names \cup {NoRef})
    BY <2>1 DEF Heard
  <2>3. conns'[c].wire = Tail(conns[c].wire)
    BY <1>1, <1>2, <2>2, HandledFrame
  <2>4. PICK s \in Seq(FrameSet) : s = conns[c].wire /\ s # <<>>
    BY <1>1, <1>2, HostFacts DEF ConnSet
  <2>5. Len(Tail(s)) = Len(s) - 1 /\ Len(s) \in Nat
    BY <2>4, HeadTailProperties, LenProperties
  <2>6. Tail(s) # s
    BY <2>5
  <2> QED BY <2>3, <2>4, <2>6
<1>9. CASE PtyStart(c)
  <2>1. rows'[f].status # "completed"
    <3>1. PICK r : r = [status |-> IF rows[x.ref].status = "none" THEN "running"
                                   ELSE rows[x.ref].status,
                        name |-> x.name]
      OBVIOUS
    <3>2. rows' = [rows EXCEPT ![x.ref] = r]
      BY <1>3, <1>9, <3>1 DEF PtyStart
    <3>3. x.ref = f => r.status = "running"
      BY <3>1
    <3> QED BY <1>1, <3>2, <3>3
  <2> QED BY <2>1
<1>10. CASE PtyOutput(c)
  BY <1>10 DEF PtyOutput
<1>11. ASSUME NEW fs, rows' = WithStatus(fs, "completed") PROVE f \in fs
  BY <1>1, <1>11 DEF WithStatus
<1>12. CASE PtyEnd(c)
  <2>1. x.kind = "end"
    BY <1>3, <1>12 DEF PtyEnd, Arrives, Arrival
  <2>2. \/ rows' = rows
        \/ rows' = WithStatus({x.ref}, "completed")
    BY <1>3, <1>12 DEF PtyEnd
  <2>3. f = x.ref
    BY <1>11, <2>2
  <2>4. x.name \in Names /\ f = RefOf(p, x.name) /\ OwnName(p, x.name)
    BY <1>5, <2>1, <2>3 DEF FrameOk
  <2>5. NameOf(f) = x.name
    BY <2>4, TerminalsAssumption DEF NameOf, RefOf, OwnName
  <2>6. n = x.name
    BY <1>6, <2>5 DEF NewsInv
  <2>7. x.asOf < k
    BY <1>5, <1>7, <2>1, <2>6 DEF FrameOk
  <2> QED BY <1>3, <1>6, <1>7, <1>8, <2>7
<1>13. CASE PtyReconcile(c)
  <2>1. x.kind = "reconcile"
    BY <1>3, <1>13 DEF PtyReconcile, Arrives, Arrival
  <2>2. PICK fs : rows' = WithStatus(fs, "completed") /\ \A g \in fs : rows[g].name \notin x.live
    BY <1>3, <1>13 DEF PtyReconcile
  <2>3. n \notin x.live
    BY <1>6, <1>11, <2>2
  <2>4. x.asOf < k
    BY <1>5, <1>7, <2>1, <2>3 DEF FrameOk
  <2> QED BY <1>3, <1>6, <1>7, <1>8, <2>4
<1> QED BY <1>9, <1>10, <1>12, <1>13 DEF ReceiveJson

(* The row of a living session is completed only by a frame that was built   *)
(* before the session was made: handle_pty_end and handle_pty_reconcile act  *)
(* on what the frame says, however long it was under way, and no frame says  *)
(* more than was so when its sender built it.                                *)
THEOREM SpecLiveRowEndsOnOldNews == Spec => LiveRowEndsOnOldNews
<1>1. IInv /\ NewsInv /\ [Next]_vars
        => [\A f \in Refs :
              (/\ rows[f].status = "running" /\ rows'[f].status = "completed"
               /\ Exists(rows[f].name))
                  => \E c \in ConnIds :
                         /\ conns'[c].wire # conns[c].wire
                         /\ Arrival(c).asOf < Current(rows[f].name)]_vars
  <2> SUFFICES ASSUME IInv, NewsInv, Next, NEW f \in Refs,
                      rows[f].status = "running", rows'[f].status = "completed",
                      Exists(rows[f].name)
               PROVE  \E c \in ConnIds : /\ conns'[c].wire # conns[c].wire
                                         /\ Arrival(c).asOf < Current(rows[f].name)
    OBVIOUS
  <2>1. CASE \E c \in ConnIds : ReceiveJson(c)
    BY <2>1, HearsOldNews
  <2>2. CASE ~\E c \in ConnIds : ReceiveJson(c)
    BY <2>2, OthersCompleteNothing DEF RowsStay
  <2> QED BY <2>1, <2>2
<1> QED BY <1>1, FramesAreOldNewsAtWorst, HostKeepsItsBooks, PTL DEF Spec, LiveRowEndsOnOldNews

-----------------------------------------------------------------------------
(* The lines of a terminal whose name was used once, on their way from the   *)
(* screen over the lanes of its maker into the record.                       *)
Rising(s)   == \A i, j \in 1 .. Len(s) : i < j => s[i] < s[j]
Below(s, t) == \A i \in 1 .. Len(s), j \in 1 .. Len(t) : s[i] < t[j]
UpTo(s, n)  == \A i \in 1 .. Len(s) : s[i] <= n

Single(k) == \A j \in SessionIds : sessions[j].name = sessions[k].name => j = k

OutputOf(k, x) == x.kind = "output" /\ x.session = k
StartOf(k, x)  == x.kind = "start" /\ x.name = sessions[k].name

(* What is on its way comes in order, the announcement first of all.         *)
Fits(k, x, y) ==
    /\ OutputOf(k, x) /\ OutputOf(k, y) => Below(x.lines, y.lines)
    /\ StartOf(k, y) => ~OutputOf(k, x) /\ ~StartOf(k, x)

FramesFit(k) == \A l, m \in Lanes : \A x \in On(l), y \in On(m) : Ahead(x, y) => Fits(k, x, y)

(* A terminal is announced once, and at most one connection knows it.        *)
Announced(k, l) == \E x \in On(l) : StartOf(k, x)
Knows(k, c)     == sessions[k].name \in conns[c].known

AnnouncedOnce(k) ==
    /\ \A c, d \in ConnIds : Announced(k, c) /\ Announced(k, d) => c = d
    /\ \A c, d \in ConnIds : Knows(k, c) /\ Knows(k, d) => c = d
    /\ \A l \in Lanes, d \in ConnIds : Announced(k, l) => ~Knows(k, d)

FirstAnnounced(k) == \A l \in Lanes : Announced(k, l) => recorded[k] = <<>>

(* Line n is above all that was recorded or is on its way, as every line is  *)
(* that the screen has yet to send.                                          *)
Over(k, n) ==
    /\ \A j \in 1 .. Len(recorded[k]) : recorded[k][j] < n
    /\ \A l \in Lanes : \A x \in On(l) : OutputOf(k, x) =>
          \A j \in 1 .. Len(x.lines) : x.lines[j] < n

Sent(k) == proc[sessions[k].by].stream[sessions[k].name]

ScreenAbove(k) ==
    Sent(k) # NoStream =>
        \A i \in Sent(k) + 1 .. Len(sessions[k].screen) : Over(k, sessions[k].screen[i])

(* The record grows from below, over the connection that knows the terminal. *)
RecordBelow(k) ==
    /\ Rising(recorded[k])
    /\ \A l \in Lanes : (l = 0 \/ Knows(k, l)) =>
          \A x \in On(l) : OutputOf(k, x) => Below(recorded[k], x.lines)

RecordedOver(k) == recorded[k] # <<>> => \E c \in ConnIds : conns[c].proc = sessions[k].by

LineOk(k) ==
    /\ FramesFit(k) /\ AnnouncedOnce(k) /\ FirstAnnounced(k)
    /\ ScreenAbove(k) /\ RecordBelow(k) /\ RecordedOver(k)

(* Of any terminal, whatever its name was used for.                          *)
PrintedOk(k) ==
    /\ Rising(sessions[k].screen) /\ UpTo(sessions[k].screen, sessions[k].printed)
    /\ UpTo(recorded[k], sessions[k].printed)

OutputOk(x) == Rising(x.lines) /\ UpTo(x.lines, sessions[x.session].printed)

LineInv ==
    /\ recorded \in [1 .. MaxSessions -> Seq(1 .. MaxLines)]
    /\ \A k \in 1 .. MaxSessions : k \notin SessionIds => recorded[k] = <<>>
    /\ \A k \in SessionIds : PrintedOk(k) /\ (Single(k) => LineOk(k))
    /\ \A l \in Lanes : \A x \in On(l) : x.kind = "output" => OutputOk(x)

LEMMA Joined ==
    ASSUME NEW s \in Seq(1 .. MaxLines), NEW t \in Seq(1 .. MaxLines)
    PROVE  /\ s \o t \in Seq(1 .. MaxLines)
           /\ Rising(s) /\ Rising(t) /\ Below(s, t) => Rising(s \o t)
           /\ \A n : UpTo(s, n) /\ UpTo(t, n) => UpTo(s \o t, n)
           /\ \A u : Below(s, u) /\ Below(t, u) => Below(s \o t, u)
           /\ \A n : /\ \A j \in 1 .. Len(s) : s[j] < n
                     /\ \A j \in 1 .. Len(t) : t[j] < n
                     => \A j \in 1 .. Len(s \o t) : (s \o t)[j] < n
<1>1. PICK m \in Nat : m = Len(s)
  BY LenProperties
<1>2. PICK n \in Nat : n = Len(t)
  BY LenProperties
<1>3. PICK c : c = s \o t
  OBVIOUS
<1>4. /\ c \in Seq(1 .. MaxLines) /\ Len(c) = m + n
      /\ \A i \in 1 .. m + n : c[i] = IF i <= m THEN s[i] ELSE t[i - m]
  BY <1>1, <1>2, <1>3, ConcatProperties
<1>5. /\ \A i \in 1 .. m : c[i] = s[i]
      /\ \A i \in 1 .. m + n : i > m => i - m \in 1 .. n /\ c[i] = t[i - m]
  BY <1>4
<1>6. ASSUME Rising(s), Rising(t), Below(s, t) PROVE Rising(c)
  <2> SUFFICES ASSUME NEW i \in 1 .. m + n, NEW j \in 1 .. m + n, i < j PROVE c[i] < c[j]
    BY <1>4 DEF Rising
  <2>1. CASE j <= m
    BY <1>1, <1>5, <1>6, <2>1 DEF Rising
  <2>2. CASE i > m
    <3>1. j > m /\ i - m < j - m
      BY <2>2
    <3> QED BY <1>2, <1>5, <1>6, <2>2, <3>1 DEF Rising
  <2>3. CASE i <= m /\ j > m
    <3>1. i \in 1 .. m /\ j - m \in 1 .. n /\ c[i] = s[i] /\ c[j] = t[j - m]
      BY <1>5, <2>3
    <3> QED BY <1>1, <1>2, <1>6, <3>1 DEF Below
  <2> QED BY <2>1, <2>2, <2>3
<1>7. \A i \in 1 .. m + n : i \in 1 .. m \/ i > m
  OBVIOUS
<1>8. ASSUME NEW b, UpTo(s, b), UpTo(t, b) PROVE UpTo(c, b)
  BY <1>1, <1>2, <1>4, <1>5, <1>7, <1>8 DEF UpTo
<1>9. ASSUME NEW u, Below(s, u), Below(t, u) PROVE Below(c, u)
  BY <1>1, <1>2, <1>4, <1>5, <1>7, <1>9 DEF Below
<1>10. ASSUME NEW b, \A j \in 1 .. m : s[j] < b, \A j \in 1 .. n : t[j] < b
       PROVE  \A j \in 1 .. m + n : c[j] < b
  BY <1>5, <1>7, <1>10
<1> QED BY <1>1, <1>2, <1>3, <1>4, <1>6, <1>8, <1>9, <1>10

-----------------------------------------------------------------------------
(* A screen scrolls: a line of it moves up, or is a new one.                 *)
Rolls(k) ==
    /\ sessions[k].printed \in Nat /\ sessions'[k].printed \in Nat
    /\ sessions[k].printed <= sessions'[k].printed
    /\ Rising(sessions'[k].screen) /\ UpTo(sessions'[k].screen, sessions'[k].printed)
    /\ \A i \in 1 .. Len(sessions'[k].screen) :
          \/ sessions'[k].screen[i] > sessions[k].printed
          \/ \E j \in 1 .. Len(sessions[k].screen) :
                j >= i /\ sessions'[k].screen[i] = sessions[k].screen[j]

LEMMA ScreenFacts ==
    ASSUME SessionsSane, NEW k \in SessionIds
    PROVE  /\ sessions[k].screen \in Seq(1 .. MaxLines) /\ sessions[k].printed \in 0 .. MaxLines
           /\ sessions[k].name \in Names /\ sessions[k].by \in Procs
           /\ Len(sessions[k].screen) \in Nat
           /\ \A i \in 1 .. Len(sessions[k].screen) : sessions[k].screen[i] \in Nat
<1>1. /\ sessions[k].screen \in Seq(1 .. MaxLines) /\ sessions[k].printed \in 0 .. MaxLines
      /\ sessions[k].name \in Names /\ sessions[k].by \in Procs
  BY Lengths DEF Session
<1>2. PICK s \in Seq(1 .. MaxLines) : s = sessions[k].screen
  BY <1>1
<1>3. Len(s) \in Nat /\ \A i \in 1 .. Len(s) : s[i] \in 1 .. MaxLines
  BY LenProperties, ElementOfSeq
<1>4. \A i \in 1 .. MaxLines : i \in Nat
  BY PtySessionsAssumption
<1> QED BY <1>1, <1>2, <1>3, <1>4

LEMMA ScreenStays ==
    ASSUME SessionsSane, NEW k \in SessionIds, PrintedOk(k),
           sessions'[k].screen = sessions[k].screen, sessions'[k].printed = sessions[k].printed
    PROVE  Rolls(k)
<1>1. /\ Len(sessions[k].screen) \in Nat /\ sessions[k].printed \in Nat
      /\ sessions[k].printed <= sessions[k].printed
  BY ScreenFacts, PtySessionsAssumption
<1>2. \A i \in 1 .. Len(sessions[k].screen) : i >= i
  BY <1>1
<1> QED BY <1>1, <1>2 DEF Rolls, PrintedOk

LEMMA Printing ==
    ASSUME SessionsSane, NEW k \in SessionIds, PrintedOk(k), Prints(k)
    PROVE  Rolls(k)
<1>1. PICK s \in Seq(1 .. MaxLines) : s = sessions[k].screen
  BY ScreenFacts
<1>2. PICK b \in 0 .. MaxLines : b = sessions[k].printed
  BY ScreenFacts
<1>3. PICK n \in Nat : n = Len(s)
  BY LenProperties
<1>4. \A i \in 1 .. n : s[i] \in Nat
  BY <1>1, <1>3, ScreenFacts
<1>5. PICK x : x = sessions'[k]
  OBVIOUS
<1>6. PICK long : long = Append(s, b + 1)
  OBVIOUS
<1>7. b \in Nat /\ b < MaxLines /\ MaxLines \in Nat
  BY <1>2, PtySessionsAssumption DEF Prints
<1>8. b + 1 \in 1 .. MaxLines
  BY <1>7
<1>9. x.printed = b + 1 /\ x.screen = IF Len(long) > History THEN Tail(long) ELSE long
  <2>1. PICK scr : scr = IF Len(long) > History THEN Tail(long) ELSE long
    OBVIOUS
  <2>2. PICK y : y = [sessions[k] EXCEPT !.printed = b + 1, !.screen = scr]
    OBVIOUS
  <2>3. sessions' = [sessions EXCEPT ![k] = y]
    BY <1>1, <1>2, <1>6, <2>1, <2>2, Lengths DEF Prints, Session
  <2>4. y.printed = b + 1 /\ y.screen = scr
    BY <2>2, Lengths DEF Session
  <2>5. x = y
    BY <1>5, <2>3, Lengths
  <2> QED BY <2>1, <2>4, <2>5
<1>10. /\ long \in Seq(1 .. MaxLines) /\ long # <<>> /\ Len(long) = n + 1 /\ long[n + 1] = b + 1
       /\ \A i \in 1 .. n : long[i] = s[i]
  BY <1>3, <1>6, <1>8, AppendProperties
<1>11. \A i \in 1 .. n : s[i] <= b
  BY <1>1, <1>2, <1>3 DEF PrintedOk, UpTo
<1>12. \A i, j \in 1 .. n : i < j => s[i] < s[j]
  BY <1>1, <1>3 DEF PrintedOk, Rising
<1>13. \A i \in 1 .. n + 1 : i \in 1 .. n \/ i = n + 1
  OBVIOUS
<1>14. \A i \in 1 .. n + 1 : long[i] \in Nat /\ long[i] <= b + 1
  BY <1>4, <1>7, <1>10, <1>11, <1>13
<1>15. \A i, j \in 1 .. n + 1 : i < j => long[i] < long[j]
  <2> SUFFICES ASSUME NEW i \in 1 .. n + 1, NEW j \in 1 .. n + 1, i < j PROVE long[i] < long[j]
    OBVIOUS
  <2>1. i \in 1 .. n
    OBVIOUS
  <2>2. long[i] = s[i] /\ s[i] <= b /\ s[i] \in Nat
    BY <1>4, <1>10, <1>11, <2>1
  <2>3. CASE j \in 1 .. n
    BY <1>10, <1>12, <2>1, <2>2, <2>3
  <2>4. CASE j = n + 1
    BY <1>7, <1>10, <2>2, <2>4
  <2> QED BY <1>13, <2>3, <2>4
<1>16. CASE x.screen = long
  <2>1. Rising(x.screen) /\ UpTo(x.screen, x.printed)
    BY <1>9, <1>10, <1>14, <1>15, <1>16 DEF Rising, UpTo
  <2>2. \A i \in 1 .. Len(x.screen) :
            x.screen[i] > b \/ \E j \in 1 .. n : j >= i /\ x.screen[i] = s[j]
    BY <1>7, <1>10, <1>13, <1>16
  <2>3. x.printed \in Nat /\ b <= x.printed
    BY <1>7, <1>9
  <2> QED BY <1>1, <1>2, <1>3, <1>5, <1>7, <2>1, <2>2, <2>3 DEF Rolls
<1>17. CASE x.screen = Tail(long)
  <2>1. PICK t : t = Tail(long)
    OBVIOUS
  <2>2. Len(t) = n /\ \A i \in 1 .. n : t[i] = long[i + 1]
    BY <1>3, <1>10, <2>1, HeadTailProperties
  <2>3. \A i \in 1 .. n : i + 1 \in 1 .. n + 1 /\ i + 1 >= i
    OBVIOUS
  <2>4. \A i \in 1 .. n : t[i] <= b + 1
    BY <1>14, <2>2, <2>3
  <2>5. \A i, j \in 1 .. n : i < j => t[i] < t[j]
    BY <1>15, <2>2, <2>3
  <2>6. \A i \in 1 .. n : t[i] > b \/ \E j \in 1 .. n : j >= i /\ t[i] = s[j]
    <3> SUFFICES ASSUME NEW i \in 1 .. n PROVE t[i] > b \/ \E j \in 1 .. n : j >= i /\ t[i] = s[j]
      OBVIOUS
    <3>1. CASE i + 1 = n + 1
      BY <1>7, <1>10, <2>2, <3>1
    <3>2. CASE i + 1 \in 1 .. n
      BY <1>10, <2>2, <2>3, <3>2
    <3> QED BY <1>13, <2>3, <3>1, <3>2
  <2>7. Rising(t) /\ UpTo(t, x.printed)
    BY <1>9, <2>2, <2>4, <2>5 DEF Rising, UpTo
  <2>8. x.printed \in Nat /\ b <= x.printed
    BY <1>7, <1>9
  <2>9. x.screen = t
    BY <1>17, <2>1
  <2>10. /\ Rising(x.screen) /\ UpTo(x.screen, x.printed)
         /\ \A i \in 1 .. Len(x.screen) :
                x.screen[i] > b \/ \E j \in 1 .. n : j >= i /\ x.screen[i] = s[j]
    BY <2>2, <2>6, <2>7, <2>9
  <2> QED BY <1>1, <1>2, <1>3, <1>5, <1>7, <2>8, <2>10 DEF Rolls
<1> QED BY <1>9, <1>16, <1>17

LEMMA Erasing ==
    ASSUME SessionsSane, NEW k \in SessionIds, PrintedOk(k), Erases(k)
    PROVE  Rolls(k)
<1>1. PICK s \in Seq(1 .. MaxLines) : s = sessions[k].screen
  BY ScreenFacts
<1>2. PICK n \in Nat \ {0} : n = Len(s)
  BY <1>1, EmptySeq, LenProperties DEF Erases
<1>3. sessions[k].printed \in Nat /\ sessions[k].printed <= sessions[k].printed
  BY ScreenFacts, PtySessionsAssumption
<1>4. PICK t : t = SubSeq(s, 1, n - 1)
  OBVIOUS
<1>5. 1 \in 1 .. Len(s) + 1 /\ n - 1 \in 0 .. Len(s)
  BY <1>2
<1>6. /\ Len(t) = IF 1 <= n - 1 THEN n - 1 - 1 + 1 ELSE 0
      /\ \A i \in 1 .. n - 1 - 1 + 1 : t[i] = s[1 + i - 1]
  BY <1>4, <1>5, PartOf
<1>7. Len(t) = n - 1 /\ \A i \in 1 .. n - 1 : i \in 1 .. n /\ i >= i /\ t[i] = s[i]
  BY <1>6
<1>8. sessions'[k].screen = t /\ sessions'[k].printed = sessions[k].printed
  <2>1. PICK y : y = [sessions[k] EXCEPT !.screen = t]
    OBVIOUS
  <2>2. sessions' = [sessions EXCEPT ![k] = y]
    BY <1>1, <1>2, <1>4, <2>1 DEF Erases, Front
  <2>3. y.screen = t /\ y.printed = sessions[k].printed
    BY <2>1, Lengths DEF Session
  <2> QED BY <2>2, <2>3, Lengths
<1>9. Rising(s) /\ UpTo(s, sessions[k].printed)
  BY <1>1 DEF PrintedOk
<1>10. Rising(t) /\ UpTo(t, sessions[k].printed)
  BY <1>2, <1>7, <1>9 DEF Rising, UpTo
<1> QED BY <1>1, <1>2, <1>3, <1>7, <1>8, <1>10 DEF Rolls

-----------------------------------------------------------------------------
(* The frames of a terminal are on lanes of its maker. *)
LEMMA MakersOnly ==
    ASSUME HostInv, NewsInv, NEW k \in SessionIds, Single(k)
    PROVE  /\ \A l \in Lanes : \A x \in On(l) :
                 OutputOf(k, x) \/ StartOf(k, x) => Owner(l) = sessions[k].by
           /\ \A c \in ConnIds : Knows(k, c) => conns[c].proc = sessions[k].by
           /\ \A p : Made(p, sessions[k].name) => p = sessions[k].by
<1>1. HostShape /\ SessionsSane
  BY DEF HostInv, LinkInv
<1>2. ASSUME NEW p, Made(p, sessions[k].name) PROVE p = sessions[k].by
  BY <1>2 DEF Made, Single
<1>3. ASSUME NEW l \in Lanes, NEW x \in On(l), OutputOf(k, x) \/ StartOf(k, x)
      PROVE  Owner(l) = sessions[k].by
  <2>1. PICK p \in Procs : p = Owner(l)
    BY <1>1, LaneFacts
  <2>2. FrameOk(p, x)
    BY <2>1 DEF NewsInv
  <2>3. x.name = sessions[k].name /\ x.kind # "reconcile"
    BY <1>3, <2>2 DEF OutputOf, StartOf, FrameOk
  <2>4. Made(p, sessions[k].name)
    BY <2>2, <2>3 DEF FrameOk, OwnName
  <2> QED BY <1>2, <2>1, <2>4
<1>4. ASSUME NEW c \in ConnIds, Knows(k, c) PROVE conns[c].proc = sessions[k].by
  <2>1. PICK p \in Procs : p = conns[c].proc
    BY <1>1, HostFacts DEF ConnSet
  <2>2. Made(p, sessions[k].name)
    BY <1>4, <2>1 DEF NewsInv, Knows
  <2> QED BY <1>2, <2>1, <2>2
<1> QED BY <1>2, <1>3, <1>4

LEMMA AheadOn ==
    ASSUME HostShape, NEW x, NEW y, Ahead(x, y)
    PROVE  \E l, m \in Lanes : x \in On(l) /\ y \in On(m)
<1>1. ASSUME NEW l \in Lanes, Before(Lane(l), x, y) PROVE x \in On(l) /\ y \in On(l)
  <2>1. PICK s \in Seq(FrameSet) : s = Lane(l)
    BY LaneFacts
  <2>2. DOMAIN s = 1 .. Len(s)
    BY <2>1
  <2> QED BY <1>1, <2>1, <2>2 DEF Before, On, ToSet
<1>2. 0 \in Lanes /\ \A c \in ConnIds : c \in Lanes
  BY DEF Lanes
<1> QED BY <1>1, <1>2 DEF Ahead

LEMMA PrintedOver ==
    ASSUME HostInv, LineInv, NEW k \in SessionIds, NEW n \in Nat, n > sessions[k].printed
    PROVE  Over(k, n)
<1>1. HostShape /\ SessionsSane
  BY DEF HostInv, LinkInv
<1>2. PICK b \in Nat : b = sessions[k].printed
  BY <1>1, ScreenFacts, PtySessionsAssumption
<1>3. k \in 1 .. MaxSessions
  BY <1>1, Lengths, PtySessionsAssumption DEF SessionIds, SessionsSane, SessionsOk
<1>4. PICK r \in Seq(1 .. MaxLines) : r = recorded[k]
  BY <1>3 DEF LineInv
<1>5. \A j \in 1 .. Len(r) : r[j] \in Nat
  BY <1>4, ElementOfSeq, PtySessionsAssumption
<1>6. \A j \in 1 .. Len(r) : r[j] <= b
  BY <1>2, <1>4 DEF LineInv, PrintedOk, UpTo
<1>7. \A j \in 1 .. Len(r) : r[j] < n
  BY <1>2, <1>5, <1>6
<1>8. ASSUME NEW l \in Lanes, NEW x \in On(l), OutputOf(k, x), NEW j \in 1 .. Len(x.lines)
      PROVE  x.lines[j] < n
  <2>1. x \in FrameSet
    BY <1>1, LaneFacts
  <2>2. PICK s \in Seq(1 .. MaxLines) : s = x.lines
    BY <2>1 DEF FrameSet
  <2>3. s[j] \in Nat
    BY <1>8, <2>2, ElementOfSeq, PtySessionsAssumption
  <2>4. s[j] <= b
    BY <1>2, <1>8, <2>2 DEF LineInv, OutputOf, OutputOk, UpTo
  <2> QED BY <1>2, <2>2, <2>3, <2>4
<1> QED BY <1>4, <1>7, <1>8 DEF Over

-----------------------------------------------------------------------------
(* A step of the lanes that announces no terminal of one use, and says of it *)
(* only what is new.                                                         *)
LineStep(k, p, N, to) ==
    /\ Traffic(p, N, to)
    /\ sessions'[k].name = sessions[k].name /\ sessions'[k].by = sessions[k].by
    /\ \A y \in N : /\ ~StartOf(k, y)
                    /\ OutputOf(k, y) => \A j \in 1 .. Len(y.lines) : Over(k, y.lines[j])

LEMMA OverFits ==
    ASSUME NEW k, NEW l \in Lanes, NEW x \in On(l), NEW y, ~StartOf(k, y),
           OutputOf(k, y) => \A j \in 1 .. Len(y.lines) : Over(k, y.lines[j])
    PROVE  Fits(k, x, y)
BY DEF Fits, Over, Below

LEMMA FramesStep ==
    ASSUME HostInv, NEW k \in SessionIds, NEW p, NEW N, NEW to, LineStep(k, p, N, to), FramesFit(k)
    PROVE  FramesFit(k)'
<1> SUFFICES ASSUME NEW x, NEW y, Ahead(x, y)'
             PROVE  Fits(k, x, y)'
  BY DEF FramesFit
<1>1. Fits(k, x, y) => Fits(k, x, y)'
  BY DEF LineStep, Fits, OutputOf, StartOf
<1>2. CASE Ahead(x, y)
  <2>1. \E l, m \in Lanes : x \in On(l) /\ y \in On(m)
    BY <1>2, AheadOn DEF HostInv, LinkInv
  <2> QED BY <1>1, <1>2, <2>1 DEF FramesFit
<1>3. CASE y \in N /\ \E l \in Lanes : x \in On(l)
  <2>1. PICK l \in Lanes : x \in On(l)
    BY <1>3
  <2>2. /\ ~StartOf(k, y)
        /\ OutputOf(k, y) => \A j \in 1 .. Len(y.lines) : Over(k, y.lines[j])
    BY <1>3 DEF LineStep
  <2> QED BY <1>1, <2>1, <2>2, OverFits
<1>4. CASE x.kind = "reconcile"
  BY <1>1, <1>4 DEF Fits, OutputOf, StartOf
<1> QED BY <1>2, <1>3, <1>4 DEF LineStep, Traffic

LEMMA AnnouncedStep ==
    ASSUME NEW k, NEW p, NEW N, NEW to, LineStep(k, p, N, to), NEW l \in Lanes', Announced(k, l)'
    PROVE  \/ l \in Lanes /\ Announced(k, l)
           \/ l = to /\ Announced(k, 0) /\ Owner(l)' = Daemon
<1>1. PICK x : x \in On(l)' /\ StartOf(k, x)'
  BY DEF Announced
<1>2. StartOf(k, x)
  BY <1>1 DEF LineStep, StartOf
<1>3. \/ l \in Lanes /\ x \in On(l)
      \/ x \in N
      \/ l = to /\ x \in On(0) /\ Owner(l)' = Daemon
  BY <1>1 DEF LineStep, Traffic
<1> QED BY <1>2, <1>3 DEF Announced, LineStep

LEMMA OnceStep ==
    ASSUME HostInv, NewsInv, NEW k \in SessionIds, Single(k), NEW p, NEW N, NEW to,
           LineStep(k, p, N, to), FramesFit(k), AnnouncedOnce(k)
    PROVE  AnnouncedOnce(k)'
<1>1. HostShape /\ 0 \notin ConnIds /\ Lanes = {0} \cup ConnIds /\ 0 \in Lanes
  BY LaneFacts DEF HostInv, LinkInv, Lanes
<1>2. Lanes \subseteq Lanes' /\ Lanes' = {0} \cup ConnIds'
  BY DEF LineStep, Traffic, Lanes
<1>3. ASSUME NEW c \in ConnIds, Announced(k, 0), Announced(k, c) PROVE FALSE
  <2>1. PICK x \in On(c) : StartOf(k, x)
    BY <1>3 DEF Announced
  <2>2. PICK y \in On(0) : StartOf(k, y)
    BY <1>3 DEF Announced
  <2>3. Owner(c) = sessions[k].by /\ Owner(0) = sessions[k].by
    BY <1>1, <2>1, <2>2, MakersOnly
  <2>4. conns[c].proc = Daemon
    BY <1>1, <2>3 DEF Owner
  <2>5. Ahead(x, y)
    BY <2>1, <2>2, <2>4 DEF Ahead
  <2>6. Fits(k, x, y)
    BY <1>1, <2>1, <2>2, <2>5 DEF FramesFit
  <2> QED BY <2>1, <2>2, <2>6 DEF Fits
<1>4. ASSUME NEW c \in ConnIds', Announced(k, c)'
      PROVE  (c \in ConnIds /\ Announced(k, c)) \/ (c = to /\ Announced(k, 0))
  <2>1. c \in Lanes' /\ c # 0
    BY <1>1, <1>2, HostFacts DEF ConnIds
  <2> QED BY <1>1, <1>4, <2>1, AnnouncedStep
<1>5. ASSUME NEW c \in ConnIds', NEW d \in ConnIds', Announced(k, c)', Announced(k, d)'
      PROVE  c = d
  BY <1>3, <1>4, <1>5 DEF AnnouncedOnce
<1>6. ASSUME NEW c \in ConnIds', Knows(k, c)' PROVE c \in ConnIds /\ Knows(k, c)
  BY <1>6 DEF LineStep, Traffic, Knows
<1>7. ASSUME NEW l \in Lanes', Announced(k, l)' PROVE \E m \in Lanes : Announced(k, m)
  BY <1>1, <1>7, AnnouncedStep
<1>8. \A l \in Lanes', d \in ConnIds' : Announced(k, l)' => ~Knows(k, d)'
  BY <1>6, <1>7 DEF AnnouncedOnce
<1>9. \A c, d \in ConnIds' : Knows(k, c)' /\ Knows(k, d)' => c = d
  BY <1>6 DEF AnnouncedOnce
<1> QED BY <1>5, <1>8, <1>9 DEF AnnouncedOnce

LEMMA FirstStep ==
    ASSUME NEW k, NEW p, NEW N, NEW to, LineStep(k, p, N, to), FirstAnnounced(k)
    PROVE  FirstAnnounced(k)'
<1>1. 0 \in Lanes /\ recorded' = recorded
  BY DEF Lanes, LineStep, Traffic
<1>2. ASSUME NEW l \in Lanes', Announced(k, l)' PROVE \E m \in Lanes : Announced(k, m)
  BY <1>1, <1>2, AnnouncedStep
<1> QED BY <1>1, <1>2 DEF FirstAnnounced

LEMMA OverStep ==
    ASSUME NEW k, NEW p, NEW N, NEW to, LineStep(k, p, N, to), NEW n, Over(k, n),
           \A y \in N : ~OutputOf(k, y)
    PROVE  Over(k, n)'
<1>1. recorded' = recorded /\ 0 \in Lanes
  BY DEF LineStep, Traffic, Lanes
<1>2. ASSUME NEW l \in Lanes', NEW x, x \in On(l)', OutputOf(k, x)
      PROVE  \E m \in Lanes : x \in On(m)
  BY <1>1, <1>2 DEF LineStep, Traffic
<1>3. ASSUME NEW l \in Lanes', NEW x, x \in On(l)', OutputOf(k, x), NEW j \in 1 .. Len(x.lines)
      PROVE  x.lines[j] < n
  BY <1>2, <1>3 DEF Over
<1>4. \A x : OutputOf(k, x)' = OutputOf(k, x)
  BY DEF OutputOf
<1> QED BY <1>1, <1>3, <1>4 DEF Over

LEMMA AboveStep ==
    ASSUME HostInv, LineInv, NEW k \in SessionIds, NEW p, NEW N, NEW to, LineStep(k, p, N, to),
           ScreenAbove(k), Rolls(k), Sent(k) \in {NoStream} \cup Nat, HostInv', k \in SessionIds',
           Sent(k)' # NoStream =>
               \/ Sent(k)' = Sent(k) /\ \A y \in N : ~OutputOf(k, y)
               \/ Sent(k)' = Len(sessions'[k].screen)
    PROVE  ScreenAbove(k)'
<1>1. PICK t \in Seq(1 .. MaxLines) : t = sessions'[k].screen
  <2>1. PICK ss : ss = sessions'
    OBVIOUS
  <2>2. ss \in Seq(Session) /\ k \in 1 .. Len(ss)
    BY <2>1 DEF HostInv, SessionsSane, SessionsOk, SessionIds, Session
  <2>3. ss[k] \in Session
    BY <2>2, ElementOfSeq
  <2> QED BY <2>1, <2>3 DEF Session
<1>2. Len(t) \in Nat /\ \A i \in 1 .. Len(t) : t[i] \in Nat
  BY LenProperties, ElementOfSeq, PtySessionsAssumption
<1>3. Len(sessions[k].screen) \in Nat
  BY ScreenFacts DEF HostInv
<1>4. CASE Sent(k)' = Len(t)
  <2>1. \A i \in Sent(k)' + 1 .. Len(t) : FALSE
    BY <1>2, <1>4
  <2> QED BY <1>1, <2>1 DEF ScreenAbove
<1>5. CASE Sent(k)' # NoStream /\ Sent(k)' = Sent(k) /\ \A y \in N : ~OutputOf(k, y)
  <2>1. PICK s \in Nat : s = Sent(k)
    BY <1>5
  <2>2. ASSUME NEW n \in Nat, NEW i \in s + 1 .. Len(t), n = t[i]
        PROVE  Over(k, n)'
    <3>1. i \in 1 .. Len(t) /\ i >= s + 1 /\ i \in Nat
      BY <1>2
    <3>2. ASSUME n > sessions[k].printed PROVE Over(k, n)
      BY <3>2, PrintedOver
    <3>3. ASSUME \E j \in 1 .. Len(sessions[k].screen) : j >= i /\ n = sessions[k].screen[j]
          PROVE  Over(k, n)
      <4>1. PICK j \in 1 .. Len(sessions[k].screen) : j >= i /\ n = sessions[k].screen[j]
        BY <3>3
      <4>2. j \in s + 1 .. Len(sessions[k].screen)
        BY <1>3, <3>1, <4>1
      <4> QED BY <1>5, <2>1, <4>1, <4>2 DEF ScreenAbove
    <3>4. \/ n > sessions[k].printed
          \/ \E j \in 1 .. Len(sessions[k].screen) : j >= i /\ n = sessions[k].screen[j]
      BY <1>1, <2>2, <3>1 DEF Rolls
    <3>5. Over(k, n)
      BY <3>2, <3>3, <3>4
    <3> QED BY <1>5, <3>5, OverStep
  <2>3. \A i \in s + 1 .. Len(t) : i \in 1 .. Len(t)
    BY <1>2
  <2>4. Sent(k)' = s /\ \A i \in s + 1 .. Len(t) : t[i] \in Nat
    BY <1>2, <1>5, <2>1, <2>3
  <2>5. ASSUME NEW i \in s + 1 .. Len(t), NEW n, n = t[i] PROVE Over(k, n)'
    BY <2>2, <2>4, <2>5
  <2> QED BY <1>1, <2>4, <2>5 DEF ScreenAbove
<1> QED BY <1>1, <1>4, <1>5 DEF ScreenAbove

LEMMA RecordStep ==
    ASSUME HostInv, NEW k, NEW p, NEW N, NEW to, LineStep(k, p, N, to), RecordBelow(k)
    PROVE  RecordBelow(k)'
<1>1. recorded' = recorded /\ 0 \in Lanes /\ Lanes = {0} \cup ConnIds /\ Lanes' = {0} \cup ConnIds'
  BY DEF LineStep, Traffic, Lanes
<1>2. ASSUME NEW c \in ConnIds', Knows(k, c)' PROVE c \in ConnIds /\ Knows(k, c)
  BY <1>2 DEF LineStep, Traffic, Knows
<1>3. ASSUME NEW l \in Lanes', l = 0 \/ Knows(k, l)', NEW x, x \in On(l)', OutputOf(k, x)
      PROVE  Below(recorded[k], x.lines)
  <2>1. \/ x \in On(l)
        \/ x \in N
        \/ x \in On(0)
    BY <1>3 DEF LineStep, Traffic
  <2>2. CASE x \in On(l)
    BY <1>1, <1>2, <1>3, <2>2 DEF RecordBelow
  <2>3. CASE x \in N
    <3>1. \A j \in 1 .. Len(x.lines) : Over(k, x.lines[j])
      BY <1>3, <2>3 DEF LineStep
    <3> QED BY <3>1 DEF Over, Below
  <2>4. CASE x \in On(0)
    BY <1>1, <1>3, <2>4 DEF RecordBelow
  <2> QED BY <2>1, <2>2, <2>3, <2>4
<1>4. \A x : OutputOf(k, x)' = OutputOf(k, x)
  BY DEF OutputOf
<1> QED BY <1>1, <1>3, <1>4 DEF RecordBelow

LEMMA RecordedOverStep ==
    ASSUME HostInv, HostInv', NEW k, NEW p, NEW N, NEW to, LineStep(k, p, N, to), RecordedOver(k)
    PROVE  RecordedOver(k)'
<1>1. SUFFICES ASSUME recorded[k] # <<>>
               PROVE  \E c \in ConnIds' : conns'[c].proc = sessions[k].by
  BY DEF RecordedOver, LineStep, Traffic
<1>2. PICK c \in ConnIds : conns[c].proc = sessions[k].by
  BY <1>1 DEF RecordedOver
<1>3. c # 0 /\ c \in Lanes /\ Lanes \subseteq Lanes' /\ Owner(c)' = Owner(c)
  BY LaneFacts DEF HostInv, LinkInv, LineStep, Traffic, Lanes
<1>4. c \in ConnIds'
  BY <1>3 DEF Lanes
<1>5. conns'[c].proc = conns[c].proc
  BY <1>3 DEF Owner
<1> QED BY <1>2, <1>4, <1>5

LEMMA LineStays ==
    ASSUME HostInv, HostInv', NewsInv, LineInv, NEW k \in SessionIds, k \in SessionIds', Single(k),
           NEW p, NEW N, NEW to, LineStep(k, p, N, to), Rolls(k),
           Sent(k)' # NoStream =>
               \/ Sent(k)' = Sent(k) /\ \A y \in N : ~OutputOf(k, y)
               \/ Sent(k)' = Len(sessions'[k].screen)
    PROVE  LineOk(k)'
<1>1. LineOk(k)
  BY DEF LineInv
<1>2. Sent(k) \in {NoStream} \cup Nat
  <2>1. sessions[k].by \in Procs /\ sessions[k].name \in Names
    BY ScreenFacts DEF HostInv
  <2>2. proc[sessions[k].by] \in Process
    BY <2>1, HostFacts DEF HostInv, LinkInv
  <2> QED BY <2>1, <2>2 DEF Process, Sent
<1>3. FramesFit(k)' /\ AnnouncedOnce(k)'
  BY <1>1, FramesStep, OnceStep DEF LineOk
<1>4. FirstAnnounced(k)' /\ RecordBelow(k)' /\ RecordedOver(k)'
  BY <1>1, FirstStep, RecordStep, RecordedOverStep DEF LineOk
<1>5. ScreenAbove(k)'
  BY <1>1, <1>2, AboveStep DEF LineOk
<1> QED BY <1>3, <1>4, <1>5 DEF LineOk

-----------------------------------------------------------------------------
(* A new terminal, which the lanes do not mention yet. *)
LEMMA NewLine ==
    ASSUME HostInv, HostStep, HostInv', NewsInv, LineInv, NEW k \in SessionIds', k \notin SessionIds,
           Single(k)', sessions'[k].screen = <<>>, NEW p, NEW N, NEW to, Traffic(p, N, to),
           \A y \in N : y.kind # "output",
           \/ \A y \in N : y.kind # "start"
           \/ \A c \in ConnIds' : c \in ConnIds /\ \A x : x \in On(c)' => x \in On(c)
    PROVE  LineOk(k)'
<1>1. HostShape /\ SessionsSane /\ SessionsGrow
  BY DEF HostInv, LinkInv, HostStep
<1>2. PICK m \in Nat : m = Len(sessions')
  BY Lengths, LenProperties DEF HostInv, SessionsSane, SessionsOk
<1>3. k \in 1 .. MaxSessions /\ SessionIds \subseteq SessionIds'
  <2>1. m <= MaxSessions
    BY <1>2 DEF HostInv, SessionsSane, SessionsOk
  <2>2. Len(sessions) \in Nat /\ Len(sessions) <= m
    BY <1>1, <1>2, Lengths DEF SessionsGrow
  <2> QED BY <1>2, <2>1, <2>2, PtySessionsAssumption DEF SessionIds
<1>4. recorded'[k] = <<>>
  BY <1>3 DEF LineInv, Traffic
<1>5. ASSUME NEW q, Made(q, sessions'[k].name) PROVE FALSE
  <2>1. PICK j \in SessionIds : sessions[j].name = sessions'[k].name
    BY <1>5 DEF Made
  <2>2. j \in SessionIds' /\ sessions'[j].name = sessions'[k].name
    BY <1>1, <1>3, <2>1 DEF SessionsGrow
  <2>3. j = k
    BY <2>2 DEF Single
  <2> QED BY <2>3
<1>6. ASSUME NEW l \in Lanes, NEW x \in On(l) PROVE ~OutputOf(k, x) /\ ~StartOf(k, x)'
  <2>1. PICK q \in Procs : q = Owner(l)
    BY <1>1, LaneFacts
  <2>2. FrameOk(q, x)
    BY <2>1 DEF NewsInv
  <2>3. ~OutputOf(k, x)
    BY <2>2 DEF OutputOf, FrameOk
  <2>4. StartOf(k, x)' => Made(q, sessions'[k].name)
    BY <2>2 DEF StartOf, FrameOk, OwnName
  <2> QED BY <1>5, <2>3, <2>4
<1>7. 0 \in Lanes /\ Lanes = {0} \cup ConnIds /\ Lanes' = {0} \cup ConnIds' /\ 0 \notin ConnIds
  BY <1>1, LaneFacts DEF Lanes
<1>8. \A l \in Lanes' : \A x : x \in On(l)' => ~OutputOf(k, x)
  <2>1. \A y \in N : ~OutputOf(k, y)
    BY DEF OutputOf
  <2> QED BY <1>6, <1>7, <2>1 DEF Traffic
<1>9. \A c \in ConnIds' : ~Announced(k, c)'
  <2> SUFFICES ASSUME NEW c \in ConnIds', NEW x, x \in On(c)', StartOf(k, x)' PROVE FALSE
    BY DEF Announced
  <2>1. CASE \A y \in N : y.kind # "start"
    <3>1. x \notin N
      BY <2>1 DEF StartOf
    <3>2. \E l \in Lanes : x \in On(l)
      BY <1>7, <3>1 DEF Traffic
    <3> QED BY <1>6, <3>2
  <2>2. CASE c \in ConnIds /\ x \in On(c)
    BY <1>6, <1>7, <2>2
  <2> QED BY <2>1, <2>2
<1>10. \A c \in ConnIds' : ~Knows(k, c)'
  <2> SUFFICES ASSUME NEW c \in ConnIds', sessions'[k].name \in conns'[c].known PROVE FALSE
    BY DEF Knows
  <2>1. c \in ConnIds /\ sessions'[k].name \in conns[c].known
    BY DEF Traffic
  <2>2. PICK q \in Procs : q = conns[c].proc
    BY <1>1, <2>1, HostFacts DEF ConnSet
  <2>3. Made(q, sessions'[k].name)
    BY <2>1, <2>2 DEF NewsInv
  <2> QED BY <1>5, <2>3
<1>11. ASSUME NEW x, NEW y, Ahead(x, y)' PROVE Fits(k, x, y)'
  <2>1. CASE \E l \in Lanes : x \in On(l)
    BY <1>6, <2>1 DEF Fits, OutputOf
  <2>2. CASE Ahead(x, y)
    BY <1>1, <2>1, <2>2, AheadOn
  <2>3. CASE x.kind = "reconcile"
    BY <2>3 DEF Fits, OutputOf, StartOf
  <2> QED BY <1>11, <2>1, <2>2, <2>3 DEF Traffic
<1>12. FramesFit(k)'
  BY <1>11 DEF FramesFit
<1>13. AnnouncedOnce(k)'
  BY <1>9, <1>10 DEF AnnouncedOnce
<1>14. FirstAnnounced(k)' /\ RecordedOver(k)'
  BY <1>4 DEF FirstAnnounced, RecordedOver
<1>15. RecordBelow(k)'
  BY <1>4, <1>8 DEF RecordBelow, Rising, OutputOf
<1>16. ScreenAbove(k)'
  <2>1. PICK ss : ss = sessions'
    OBVIOUS
  <2>2. ss \in Seq(Session) /\ k \in 1 .. Len(ss)
    BY <2>1 DEF HostInv, SessionsSane, SessionsOk, SessionIds, Session
  <2>3. ss[k] \in Session
    BY <2>2, ElementOfSeq
  <2>4. ss[k].by \in Procs /\ ss[k].name \in Names
    BY <2>3 DEF Session
  <2>5. proc' \in [Procs -> Process]
    BY DEF HostInv, LinkInv, HostShape
  <2>6. Sent(k)' \in {NoStream} \cup Nat
    BY <2>1, <2>4, <2>5 DEF Sent, Process
  <2>7. Sent(k)' # NoStream => \A i \in Sent(k)' + 1 .. 0 : FALSE
    BY <2>6
  <2> QED BY <2>7 DEF ScreenAbove
<1> QED BY <1>12, <1>13, <1>14, <1>15, <1>16 DEF LineOk

-----------------------------------------------------------------------------
(* An orc run announces its terminal, over the one connection it makes. *)
LEMMA AnnouncesLine ==
    ASSUME HostInv, HostInv', NewsInv, LineInv, NEW r \in Runs, RunConnects(r), NEW k \in SessionIds,
           Single(k), sessions[k].by = r
    PROVE  LineOk(k)'
<1>1. /\ proc[r].st = "made" /\ sessions' = sessions /\ r \in Procs
      /\ RunName[r] \in Names
      /\ Traffic(r, {Frame("start", r, RunName[r], <<>>, 0)}, Len(conns) + 1)
      /\ \A q \in Procs, m \in Names :
            proc'[q].stream[m] = IF q = r /\ m = RunName[r] THEN 0 ELSE proc[q].stream[m]
  BY RunConnectsTraffic
<1>2. HostShape /\ SessionsSane /\ LineOk(k) /\ r # Daemon
  BY TerminalsAssumption DEF HostInv, LinkInv, LineInv
<1>3. PICK x : x = Frame("start", r, RunName[r], <<>>, 0)
  OBVIOUS
<1>4. x.kind = "start"
  BY <1>3 DEF Frame
<1>5. PICK n : n = Len(conns) + 1
  OBVIOUS
<1>6. Traffic(r, {x}, n)
  BY <1>1, <1>3, <1>5
<1>7. ConnIds' = ConnIds \cup {n}
  <2>1. PICK s \in Seq(ConnSet) : s = conns
    BY <1>2 DEF HostShape
  <2>2. PICK new : conns' = Append(s, new)
    BY <2>1 DEF RunConnects
  <2>3. Len(conns') = Len(s) + 1 /\ Len(s) \in Nat
    BY <2>1, <2>2
  <2> QED BY <1>5, <2>1, <2>3 DEF ConnIds
<1>8. \A c \in ConnIds : conns[c].proc # r
  BY <1>1 DEF HostInv, LinkInv, RunConn
<1>9. 0 \notin ConnIds /\ Lanes = {0} \cup ConnIds /\ Lanes' = {0} \cup ConnIds'
  BY <1>2, LaneFacts DEF Lanes
<1>10. \A l \in Lanes : Owner(l) # r
  BY <1>2, <1>8, <1>9 DEF Owner
<1>11. \A l \in Lanes : \A y \in On(l) : ~OutputOf(k, y) /\ ~StartOf(k, y)
  BY <1>10, MakersOnly
<1>12. \A c \in ConnIds : ~Knows(k, c)
  BY <1>8, MakersOnly
<1>13. recorded'[k] = <<>>
  BY <1>2, <1>6, <1>8 DEF LineOk, RecordedOver, Traffic
<1>14. ASSUME NEW l \in Lanes', NEW y, y \in On(l)' PROVE ~OutputOf(k, y) /\ (StartOf(k, y) => l = n)
  <2>1. CASE \E m \in Lanes : y \in On(m)
    BY <1>11, <2>1
  <2>2. CASE y = x /\ Owner(l)' = r
    <3>1. ~OutputOf(k, y)
      BY <1>4, <2>2 DEF OutputOf
    <3>2. l \notin Lanes
      BY <1>6, <1>10, <2>2 DEF Traffic
    <3> QED BY <1>7, <1>9, <3>1, <3>2
  <2> QED BY <1>6, <1>9, <1>14, <2>1, <2>2 DEF Traffic
<1>15. \A y : OutputOf(k, y)' = OutputOf(k, y) /\ StartOf(k, y)' = StartOf(k, y)
  BY <1>1 DEF OutputOf, StartOf
<1>16. ASSUME NEW y, NEW z, Ahead(y, z)' PROVE Fits(k, y, z)'
  <2>1. CASE \E l \in Lanes : y \in On(l)
    BY <1>11, <1>15, <2>1 DEF Fits
  <2>2. CASE Ahead(y, z)
    BY <1>2, <2>1, <2>2, AheadOn
  <2>3. CASE y \in {x} /\ y.kind = "reconcile"
    BY <1>4, <2>3
  <2> QED BY <1>6, <1>16, <2>1, <2>2, <2>3 DEF Traffic
<1>17. FramesFit(k)'
  BY <1>16 DEF FramesFit
<1>18. \A c \in ConnIds' : ~Knows(k, c)'
  BY <1>1, <1>6, <1>12 DEF Knows, Traffic
<1>19. \A l \in Lanes' : Announced(k, l)' => l = n
  BY <1>14, <1>15 DEF Announced
<1>20. AnnouncedOnce(k)'
  BY <1>9, <1>18, <1>19 DEF AnnouncedOnce
<1>21. FirstAnnounced(k)' /\ RecordedOver(k)'
  BY <1>13 DEF FirstAnnounced, RecordedOver
<1>22. RecordBelow(k)'
  BY <1>13, <1>14, <1>15 DEF RecordBelow, Rising
<1>23. ScreenAbove(k)'
  <2>1. \A i : Over(k, i)'
    BY <1>13, <1>14, <1>15 DEF Over
  <2> QED BY <2>1 DEF ScreenAbove
<1> QED BY <1>17, <1>20, <1>21, <1>22, <1>23 DEF LineOk

-----------------------------------------------------------------------------
(* What the consumer does to the lines of a terminal of one use: its record  *)
(* grows by what the connection that knows it was sent.                      *)
HearStep(k, c, x) ==
    /\ sessions' = sessions /\ proc' = proc /\ Lanes' = Lanes /\ ConnIds' = ConnIds
    /\ \A l \in Lanes : Owner(l)' = Owner(l)
    /\ c \in Lanes /\ x \in On(c)
    /\ \A l \in Lanes : \A y : y \in On(l)' => y \in On(l)
    /\ \A y : y \in On(c)' => Ahead(x, y)
    /\ \A y, z : Ahead(y, z)' => Ahead(y, z)
    /\ \A d \in ConnIds : Knows(k, d)' => Knows(k, d) \/ (d = c /\ StartOf(k, x))
    /\ \/ recorded'[k] = recorded[k]
       \/ OutputOf(k, x) /\ Knows(k, c) /\ recorded'[k] = recorded[k] \o x.lines

LEMMA HearFrames ==
    ASSUME HostInv, NEW k, NEW c \in ConnIds, NEW x, HearStep(k, c, x), FramesFit(k)
    PROVE  FramesFit(k)'
<1> SUFFICES ASSUME NEW y, NEW z, Ahead(y, z)' PROVE Fits(k, y, z)'
  BY DEF FramesFit
<1>1. Ahead(y, z)
  BY DEF HearStep
<1>2. Fits(k, y, z)
  BY <1>1, AheadOn DEF HostInv, LinkInv, FramesFit
<1> QED BY <1>2 DEF HearStep, Fits, OutputOf, StartOf

LEMMA HearAnnounced ==
    ASSUME NEW k, NEW c, NEW x, HearStep(k, c, x), NEW l \in Lanes, Announced(k, l)'
    PROVE  Announced(k, l) /\ \E y : y \in On(l)' /\ y \in On(l) /\ StartOf(k, y)
BY DEF HearStep, Announced, StartOf

LEMMA HearOnce ==
    ASSUME HostInv, NewsInv, NEW k \in SessionIds, Single(k), NEW c \in ConnIds, NEW x,
           HearStep(k, c, x), FramesFit(k), AnnouncedOnce(k)
    PROVE  AnnouncedOnce(k)'
<1>1. /\ Lanes' = Lanes /\ ConnIds' = ConnIds /\ 0 \notin ConnIds /\ Lanes = {0} \cup ConnIds
      /\ x \in On(c) /\ HostShape /\ c \in Lanes
  BY LaneFacts DEF HearStep, HostInv, LinkInv, Lanes
<1>2. \A d, e \in ConnIds : Announced(k, d)' /\ Announced(k, e)' => d = e
  BY <1>1, HearAnnounced DEF AnnouncedOnce
<1>3. StartOf(k, x) => Announced(k, c)
  BY <1>1 DEF Announced
<1>4. ASSUME NEW d \in ConnIds, NEW e \in ConnIds, Knows(k, d)', Knows(k, e)' PROVE d = e
  BY <1>1, <1>3, <1>4 DEF AnnouncedOnce, HearStep
<1>5. ASSUME StartOf(k, x), NEW l \in Lanes, Announced(k, l)' PROVE FALSE
  <2>1. PICK y : y \in On(l)' /\ y \in On(l) /\ StartOf(k, y)
    BY <1>5, HearAnnounced
  <2>2. Announced(k, l) /\ Announced(k, c)
    BY <1>3, <1>5, <2>1 DEF Announced
  <2>3. Ahead(x, y)
    <3>1. CASE l = c
      BY <2>1, <3>1 DEF HearStep
    <3>2. CASE l = 0
      <4>1. Owner(c) = sessions[k].by /\ Owner(0) = sessions[k].by
        BY <1>1, <1>5, <2>1, <3>2, MakersOnly
      <4>2. conns[c].proc = Daemon
        BY <1>1, <4>1 DEF Owner
      <4> QED BY <1>1, <2>1, <3>2, <4>2 DEF Ahead
    <3>3. CASE l \in ConnIds
      BY <2>2, <3>1, <3>3 DEF AnnouncedOnce
    <3> QED BY <1>1, <3>1, <3>2, <3>3
  <2>4. Fits(k, x, y)
    BY <1>1, <2>1, <2>3 DEF FramesFit
  <2> QED BY <1>5, <2>1, <2>4 DEF Fits
<1>6. ASSUME NEW l \in Lanes, NEW d \in ConnIds, Announced(k, l)', Knows(k, d)' PROVE FALSE
  <2>1. Knows(k, d)
    BY <1>5, <1>6 DEF HearStep
  <2>2. Announced(k, l)
    BY <1>6, HearAnnounced
  <2> QED BY <2>1, <2>2 DEF AnnouncedOnce
<1> QED BY <1>1, <1>2, <1>4, <1>6 DEF AnnouncedOnce

LEMMA HearFirst ==
    ASSUME NEW k, NEW c \in ConnIds, NEW x, HearStep(k, c, x), AnnouncedOnce(k), FirstAnnounced(k)
    PROVE  FirstAnnounced(k)'
<1> SUFFICES ASSUME NEW l \in Lanes, Announced(k, l)' PROVE recorded'[k] = <<>>
  BY DEF FirstAnnounced, HearStep
<1>1. Announced(k, l) /\ recorded[k] = <<>>
  BY HearAnnounced DEF FirstAnnounced
<1>2. ~Knows(k, c)
  BY <1>1 DEF AnnouncedOnce
<1> QED BY <1>1, <1>2 DEF HearStep

(* The sequences at hand. *)
LEMMA HeardLines ==
    ASSUME HostInv, LineInv, NEW k \in SessionIds, NEW l \in Lanes, NEW x \in On(l)
    PROVE  recorded[k] \in Seq(1 .. MaxLines) /\ x.lines \in Seq(1 .. MaxLines)
<1>1. HostShape /\ SessionsSane
  BY DEF HostInv, LinkInv
<1>2. k \in 1 .. MaxSessions
  BY <1>1, Lengths, PtySessionsAssumption DEF SessionIds, SessionsSane, SessionsOk
<1>3. x \in FrameSet
  BY <1>1, LaneFacts
<1> QED BY <1>2, <1>3 DEF LineInv, FrameSet

LEMMA HearAbove ==
    ASSUME HostInv, LineInv, NEW k \in SessionIds, NEW c \in ConnIds, NEW x, HearStep(k, c, x),
           ScreenAbove(k)
    PROVE  ScreenAbove(k)'
<1>1. c \in Lanes /\ x \in On(c)
  BY DEF HearStep
<1>2. PICK r \in Seq(1 .. MaxLines) : r = recorded[k]
  BY <1>1, HeardLines
<1>3. PICK s \in Seq(1 .. MaxLines) : s = x.lines
  BY <1>1, HeardLines
<1>4. ASSUME NEW n, Over(k, n) PROVE Over(k, n)'
  <2>1. \A j \in 1 .. Len(recorded'[k]) : recorded'[k][j] < n
    <3>1. CASE recorded'[k] = recorded[k]
      BY <1>4, <3>1 DEF Over
    <3>2. CASE OutputOf(k, x) /\ recorded'[k] = r \o s
      <4>1. /\ \A j \in 1 .. Len(r) : r[j] < n
            /\ \A j \in 1 .. Len(s) : s[j] < n
        BY <1>1, <1>2, <1>3, <1>4, <3>2 DEF Over
      <4>2. \A j \in 1 .. Len(r \o s) : (r \o s)[j] < n
        BY <4>1, Joined
      <4> QED BY <3>2, <4>2
    <3> QED BY <1>2, <1>3, <3>1, <3>2 DEF HearStep
  <2>2. \A l \in Lanes' : \A y \in On(l)' : OutputOf(k, y)' =>
            \A j \in 1 .. Len(y.lines) : y.lines[j] < n
    BY <1>4 DEF Over, HearStep, OutputOf
  <2> QED BY <2>1, <2>2 DEF Over
<1>5. Sent(k)' = Sent(k) /\ sessions'[k].screen = sessions[k].screen
  BY DEF HearStep, Sent
<1> QED BY <1>4, <1>5 DEF ScreenAbove

LEMMA HearRecord ==
    ASSUME HostInv, NewsInv, LineInv, NEW k \in SessionIds, Single(k), NEW c \in ConnIds, NEW x,
           HearStep(k, c, x), FramesFit(k), AnnouncedOnce(k), FirstAnnounced(k), RecordBelow(k)
    PROVE  RecordBelow(k)'
<1>1. /\ Lanes' = Lanes /\ ConnIds' = ConnIds /\ 0 \notin ConnIds /\ Lanes = {0} \cup ConnIds
      /\ x \in On(c) /\ c \in Lanes
  BY LaneFacts DEF HearStep, HostInv, LinkInv, Lanes
<1>2. PICK r \in Seq(1 .. MaxLines) : r = recorded[k]
  BY <1>1, HeardLines
<1>3. PICK s \in Seq(1 .. MaxLines) : s = x.lines
  BY <1>1, HeardLines
<1>4. \A y : OutputOf(k, y)' = OutputOf(k, y)
  BY DEF OutputOf
<1>5. CASE recorded'[k] = recorded[k]
  <2>1. ASSUME NEW l \in Lanes, l = 0 \/ Knows(k, l)', NEW y, y \in On(l)', OutputOf(k, y)
        PROVE  Below(recorded[k], y.lines)
    <3>1. y \in On(l)
      BY <2>1 DEF HearStep
    <3>2. CASE l = 0 \/ Knows(k, l)
      BY <2>1, <3>1, <3>2 DEF RecordBelow
    <3>3. CASE StartOf(k, x)
      <4>1. recorded[k] = <<>>
        BY <1>1, <3>3 DEF Announced, FirstAnnounced
      <4> QED BY <4>1 DEF Below
    <3> QED BY <1>1, <2>1, <3>2, <3>3 DEF HearStep
  <2> QED BY <1>1, <1>4, <1>5, <2>1 DEF RecordBelow
<1>6. CASE OutputOf(k, x) /\ Knows(k, c) /\ recorded'[k] = r \o s
  <2>1. Rising(r) /\ Below(r, s)
    BY <1>1, <1>2, <1>3, <1>6 DEF RecordBelow
  <2>2. Rising(s)
    BY <1>1, <1>3, <1>6 DEF LineInv, OutputOf, OutputOk
  <2>3. Rising(r \o s)
    BY <2>1, <2>2, Joined
  <2>4. ASSUME NEW l \in Lanes, l = 0 \/ Knows(k, l)', NEW y, y \in On(l)', OutputOf(k, y)
        PROVE  Below(r \o s, y.lines)
    <3>1. y \in On(l) /\ (l = 0 \/ Knows(k, l))
      <4>1. ~StartOf(k, x)
        BY <1>6 DEF OutputOf, StartOf
      <4> QED BY <1>1, <2>4, <4>1 DEF HearStep
    <3>2. Below(r, y.lines)
      BY <1>2, <2>4, <3>1 DEF RecordBelow
    <3>3. Ahead(x, y)
      <4>1. CASE l = c
        BY <2>4, <4>1 DEF HearStep
      <4>2. CASE l = 0
        <5>1. Owner(c) = sessions[k].by /\ Owner(0) = sessions[k].by
          BY <1>1, <1>6, <2>4, <3>1, <4>2, MakersOnly
        <5>2. conns[c].proc = Daemon
          BY <1>1, <5>1 DEF Owner
        <5> QED BY <1>1, <3>1, <4>2, <5>2 DEF Ahead
      <4>3. CASE l # 0
        BY <1>1, <1>6, <3>1, <4>1, <4>3 DEF AnnouncedOnce
      <4> QED BY <4>2, <4>3
    <3>4. Fits(k, x, y)
      BY <1>1, <3>1, <3>3 DEF FramesFit
    <3>5. Below(s, y.lines)
      BY <1>3, <1>6, <2>4, <3>4 DEF Fits
    <3> QED BY <3>2, <3>5, Joined
  <2> QED BY <1>1, <1>4, <1>6, <2>3, <2>4 DEF RecordBelow
<1> QED BY <1>2, <1>3, <1>5, <1>6 DEF HearStep

LEMMA HearRecordedOver ==
    ASSUME HostInv, NewsInv, NEW k \in SessionIds, Single(k), NEW c \in ConnIds, NEW x,
           HearStep(k, c, x), RecordedOver(k)
    PROVE  RecordedOver(k)'
<1>1. 0 \notin ConnIds /\ \A d \in ConnIds : d \in Lanes
  BY LaneFacts DEF HostInv, LinkInv, Lanes
<1>2. \A d \in ConnIds : conns'[d].proc = conns[d].proc
  BY <1>1 DEF HearStep, Owner
<1>3. CASE recorded'[k] = recorded[k]
  BY <1>2, <1>3 DEF RecordedOver, HearStep
<1>4. CASE Knows(k, c)
  <2>1. conns[c].proc = sessions[k].by
    BY <1>4, MakersOnly
  <2> QED BY <1>2, <2>1 DEF RecordedOver, HearStep
<1> QED BY <1>3, <1>4 DEF HearStep

LEMMA HearLine ==
    ASSUME HostInv, NewsInv, LineInv, NEW k \in SessionIds, Single(k), NEW c \in ConnIds, NEW x,
           HearStep(k, c, x)
    PROVE  LineOk(k)'
<1>1. LineOk(k)
  BY DEF LineInv
<1>2. FramesFit(k)' /\ AnnouncedOnce(k)' /\ FirstAnnounced(k)'
  BY <1>1, HearFrames, HearOnce, HearFirst DEF LineOk
<1>3. ScreenAbove(k)' /\ RecordBelow(k)' /\ RecordedOver(k)'
  BY <1>1, HearAbove, HearRecord, HearRecordedOver DEF LineOk
<1> QED BY <1>2, <1>3 DEF LineOk

-----------------------------------------------------------------------------
(* The screens under the actions. *)
ScreensRoll ==
    /\ \A k \in SessionIds : Rolls(k)
    /\ \A k \in SessionIds' \ SessionIds : sessions'[k].screen = <<>>

LEMMA SameScreens ==
    ASSUME HostInv, LineInv, SessionIds' = SessionIds,
           \A k \in SessionIds : /\ sessions'[k].screen = sessions[k].screen
                                 /\ sessions'[k].printed = sessions[k].printed
    PROVE  ScreensRoll
BY ScreenStays DEF ScreensRoll, HostInv, LineInv

LEMMA IdleScreens ==
    ASSUME HostInv, LineInv, sessions' = sessions
    PROVE  ScreensRoll
BY SameScreens DEF SessionIds

LEMMA NewScreen ==
    ASSUME HostInv, LineInv, NEW p \in Procs, NEW n \in Names, NewSession(p, n)
    PROVE  ScreensRoll
<1>1. /\ \A k \in SessionIds : sessions'[k] = sessions[k]
      /\ sessions'[Len(sessions) + 1] =
            [name |-> n, by |-> p, alive |-> TRUE, printed |-> 0, screen |-> <<>>]
      /\ SessionIds' = SessionIds \cup {Len(sessions) + 1}
  BY SessionMade DEF HostInv
<1>2. \A k \in SessionIds : Rolls(k)
  BY <1>1, ScreenStays DEF HostInv, LineInv
<1>3. sessions'[Len(sessions) + 1].screen = <<>>
  BY <1>1
<1> QED BY <1>1, <1>2, <1>3 DEF ScreensRoll

LEMMA ProgramScreens ==
    ASSUME HostInv, LineInv, Program
    PROVE  ScreensRoll
<1>1. PICK k \in SessionIds : Prints(k) \/ Erases(k) \/ Exits(k)
  BY DEF Program
<1>2. SessionIds' = SessionIds /\ \A j \in SessionIds \ {k} : sessions'[j] = sessions[j]
  BY <1>1, ProgramRuns DEF HostInv
<1>3. \A j \in SessionIds \ {k} : Rolls(j)
  BY <1>2, ScreenStays DEF HostInv, LineInv
<1>4. Rolls(k)
  <2>1. SessionsSane /\ PrintedOk(k)
    BY DEF HostInv, LineInv
  <2>2. CASE Exits(k)
    <3>1. PICK x : x = [sessions[k] EXCEPT !.alive = FALSE]
      OBVIOUS
    <3>2. sessions' = [sessions EXCEPT ![k] = x]
      BY <2>2, <3>1 DEF Exits
    <3>3. x.screen = sessions[k].screen /\ x.printed = sessions[k].printed
      BY <2>1, <3>1, Lengths DEF Session
    <3>4. sessions'[k] = x
      BY <2>1, <3>2, Lengths
    <3> QED BY <2>1, <3>3, <3>4, ScreenStays
  <2> QED BY <1>1, <2>1, <2>2, Printing, Erasing
<1> QED BY <1>2, <1>3, <1>4 DEF ScreensRoll

LEMMA NextScreens ==
    ASSUME HostInv, LineInv, Next
    PROVE  ScreensRoll
<1>1. CASE Program
  BY <1>1, ProgramScreens
<1>2. CASE \E p \in Procs, n \in Names : Polls(p, n) \/ StreamEnds(p, n)
  BY <1>2, IdleScreens DEF Polls, StreamEnds
<1>3. CASE \E r \in Runs : RunStarts(r) \/ RunConnects(r) \/ RunLeaves(r)
  <2>1. PICK r \in Runs : RunStarts(r) \/ RunConnects(r) \/ RunLeaves(r)
    BY <1>3
  <2>2. r \in Procs /\ RunName[r] \in Names
    BY TerminalsAssumption
  <2>3. NewSession(r, RunName[r]) \/ sessions' = sessions
    BY <2>1 DEF RunStarts, RunConnects, RunLeaves
  <2> QED BY <2>2, <2>3, NewScreen, IdleScreens
<1>4. CASE DaemonStarts \/ DaemonConnects \/ Heartbeat \/ DaemonSends \/ DaemonDies
  <2>1. sessions' = sessions
    BY <1>4 DEF DaemonStarts, DaemonConnects, Heartbeat, DaemonSends, DaemonDies
  <2> QED BY <2>1, IdleScreens
<1>5. CASE DiesInStart
  <2>1. Daemon \in Procs /\ Receives(Daemon, "start") /\ NewSession(Daemon, NameIn(Daemon))
    BY <1>5, TerminalsAssumption DEF DiesInStart
  <2>2. NameIn(Daemon) \in Names
    BY <2>1, Receiving
  <2> QED BY <2>1, <2>2, NewScreen
<1>6. CASE \E p \in Procs : Breaks(p) \/ Handles(p) \/ DriveEnds(p)
  <2>1. PICK p \in Procs : Breaks(p) \/ Handles(p) \/ DriveEnds(p)
    BY <1>6
  <2>2. \/ sessions' = sessions
        \/ HandleKill(p)
        \/ HandleStart(p)
    BY <2>1 DEF Breaks, Handles, HandleInject, HandlePrompt, DriveEnds
  <2>3. CASE HandleKill(p)
    <3>1. sessions' = Killed(NameIn(p))
      BY <2>3 DEF HandleKill
    <3>2. /\ SessionIds' = SessionIds
          /\ \A k \in SessionIds : /\ sessions'[k].printed = sessions[k].printed
                                   /\ sessions'[k].screen = sessions[k].screen
      BY <3>1, SessionKilled DEF HostInv
    <3> QED BY <3>2, SameScreens
  <2>4. CASE HandleStart(p)
    <3>1. Receives(p, "start") /\ (NewSession(p, NameIn(p)) \/ sessions' = sessions)
      BY <2>4 DEF HandleStart
    <3>2. NameIn(p) \in Names
      BY <3>1, Receiving
    <3> QED BY <3>1, <3>2, NewScreen, IdleScreens
  <2> QED BY <2>2, <2>3, <2>4, IdleScreens
<1>7. CASE \/ \E f \in Refs, text \in Texts : AskInject(f, text)
           \/ \E n \in Launches : AskLaunch(n)
           \/ AskPrompt
           \/ \E f \in Refs : StopSends(f)
  <2>1. sessions' = sessions
    BY <1>7 DEF AskInject, AskLaunch, AskPrompt, StopSends
  <2> QED BY <2>1, IdleScreens
<1>8. CASE StopMarks
  BY <1>8, IdleScreens DEF StopMarks
<1>9. CASE \E c \in ConnIds : ReceiveJson(c)
  <2>1. sessions' = sessions
    BY <1>9, FrameHeard DEF Heard, RowWork
  <2> QED BY <2>1, IdleScreens
<1> QED BY <1>1, <1>2, <1>3, <1>4, <1>5, <1>6, <1>7, <1>8, <1>9 DEF Next

-----------------------------------------------------------------------------
(* All of what is said of lines, in a step of the lanes. *)
LEMMA SingleWas ==
    ASSUME HostInv, HostStep, NEW k \in SessionIds
    PROVE  /\ k \in SessionIds' /\ (Single(k)' => Single(k))
           /\ sessions'[k].name = sessions[k].name /\ sessions'[k].by = sessions[k].by
<1>1. SessionsSane /\ SessionsGrow
  BY DEF HostInv, HostStep
<1>2. PICK n \in Nat : n = Len(sessions) /\ SessionIds = 1 .. n
  BY <1>1, Lengths DEF SessionIds
<1>3. PICK m \in Nat : m = Len(sessions')
  BY LenProperties DEF HostStep, SessionsSane, SessionsOk
<1>4. n <= m
  BY <1>1, <1>2, <1>3 DEF SessionsGrow
<1>5. SessionIds \subseteq SessionIds'
  BY <1>2, <1>3, <1>4 DEF SessionIds
<1>6. \A j \in SessionIds : sessions'[j].name = sessions[j].name
  BY <1>1 DEF SessionsGrow
<1>7. Single(k)' => Single(k)
  BY <1>5, <1>6 DEF Single
<1> QED BY <1>1, <1>5, <1>7 DEF SessionsGrow

LEMMA TrafficLines ==
    ASSUME HostInv, HostStep, HostInv', NewsInv, LineInv, ScreensRoll,
           NEW p \in Procs, NEW N, NEW to, Traffic(p, N, to),
           \A y \in N : y.kind = "output" =>
               Rising(y.lines) /\ UpTo(y.lines, sessions'[y.session].printed),
           \A k \in SessionIds' : Single(k)' => LineOk(k)'
    PROVE  LineInv'
<1>1. HostShape /\ SessionsSane /\ recorded' = recorded
  BY DEF HostInv, LinkInv, Traffic
<1>2. ASSUME NEW k \in SessionIds, NEW s \in Seq(1 .. MaxLines), UpTo(s, sessions[k].printed)
      PROVE  UpTo(s, sessions'[k].printed)
  <2>1. PICK a \in Nat, b \in Nat : a = sessions[k].printed /\ b = sessions'[k].printed /\ a <= b
    BY DEF ScreensRoll, Rolls
  <2>2. \A i \in 1 .. Len(s) : s[i] \in Nat
    BY ElementOfSeq, PtySessionsAssumption
  <2>3. \A i \in 1 .. Len(s) : s[i] <= a
    BY <1>2, <2>1 DEF UpTo
  <2>4. \A i \in 1 .. Len(s) : s[i] <= b
    BY <2>1, <2>2, <2>3
  <2> QED BY <2>1, <2>4 DEF UpTo
<1>3. PICK m \in Nat : m = Len(sessions') /\ SessionIds' = 1 .. m /\ m <= MaxSessions
  BY LenProperties DEF HostInv, SessionsSane, SessionsOk, SessionIds
<1>4. SessionIds \subseteq SessionIds' /\ SessionIds' \subseteq 1 .. MaxSessions
  BY <1>3, SingleWas, PtySessionsAssumption
<1>5. \A k \in 1 .. MaxSessions : recorded[k] \in Seq(1 .. MaxLines)
  BY DEF LineInv
<1>6. ASSUME NEW k \in SessionIds' PROVE PrintedOk(k)'
  <2>1. CASE k \in SessionIds
    <3>1. Rolls(k)
      BY <2>1 DEF ScreensRoll
    <3>2. UpTo(recorded[k], sessions[k].printed) /\ recorded[k] \in Seq(1 .. MaxLines)
      BY <1>4, <1>5, <2>1 DEF LineInv, PrintedOk
    <3>3. UpTo(recorded[k], sessions'[k].printed)
      BY <1>2, <2>1, <3>2
    <3> QED BY <1>1, <3>1, <3>3 DEF PrintedOk, Rolls
  <2>2. CASE k \notin SessionIds
    <3>1. sessions'[k].screen = <<>> /\ recorded'[k] = <<>>
      BY <1>1, <1>4, <2>2 DEF ScreensRoll, LineInv
    <3> QED BY <3>1 DEF PrintedOk, Rising, UpTo
  <2> QED BY <2>1, <2>2
<1>7. ASSUME NEW l \in Lanes, NEW x \in On(l), x.kind = "output"
      PROVE  Rising(x.lines) /\ UpTo(x.lines, sessions'[x.session].printed)
  <2>1. PICK q \in Procs : q = Owner(l)
    BY <1>1, LaneFacts
  <2>2. FrameOk(q, x)
    BY <2>1 DEF NewsInv
  <2>3. x \in FrameSet /\ x.session \in SessionIds
    BY <1>1, <1>7, <2>2, LaneFacts DEF FrameOk
  <2>4. PICK s \in Seq(1 .. MaxLines) : s = x.lines
    BY <2>3 DEF FrameSet
  <2>5. Rising(s) /\ UpTo(s, sessions[x.session].printed)
    BY <1>7, <2>4 DEF LineInv, OutputOk
  <2> QED BY <1>2, <2>3, <2>4, <2>5
<1>8. ASSUME NEW l \in Lanes', NEW x, x \in On(l)', x.kind = "output"
      PROVE  OutputOk(x)'
  <2>1. CASE x \in N
    BY <1>8, <2>1 DEF OutputOk
  <2>2. CASE \E h \in Lanes : x \in On(h)
    BY <1>7, <1>8, <2>2 DEF OutputOk
  <2>3. 0 \in Lanes
    BY DEF Lanes
  <2> QED BY <1>8, <2>1, <2>2, <2>3 DEF Traffic
<1>9. \A k \in 1 .. MaxSessions : k \notin SessionIds' => recorded'[k] = <<>>
  BY <1>1, <1>4 DEF LineInv
<1>10. recorded' \in [1 .. MaxSessions -> Seq(1 .. MaxLines)]
  BY <1>1 DEF LineInv
<1> QED BY <1>6, <1>8, <1>9, <1>10 DEF LineInv

(* Steps that send no line and announce nothing. *)
LEMMA QuietLines ==
    ASSUME HostInv, HostStep, HostInv', NewsInv, LineInv, ScreensRoll,
           NEW p \in Procs, NEW N, NEW to, Traffic(p, N, to), Quieter,
           \A y \in N : y.kind \in {"end", "reconcile"}
    PROVE  LineInv'
<1>1. ASSUME NEW k \in SessionIds, Single(k)' PROVE LineOk(k)'
  <2>1. /\ k \in SessionIds' /\ Single(k)
        /\ sessions'[k].name = sessions[k].name /\ sessions'[k].by = sessions[k].by
    BY <1>1, SingleWas
  <2>2. LineStep(k, p, N, to) /\ \A y \in N : ~OutputOf(k, y)
    BY <2>1 DEF LineStep, StartOf, OutputOf
  <2>3. sessions[k].by \in Procs /\ sessions[k].name \in Names
    BY ScreenFacts DEF HostInv
  <2>4. Sent(k)' # NoStream => Sent(k)' = Sent(k)
    BY <2>1, <2>3 DEF Sent, Quieter
  <2>5. Rolls(k)
    BY DEF ScreensRoll
  <2> QED BY <2>1, <2>2, <2>4, <2>5, LineStays
<1>2. ASSUME NEW k \in SessionIds', k \notin SessionIds, Single(k)' PROVE LineOk(k)'
  <2>1. sessions'[k].screen = <<>>
    BY <1>2 DEF ScreensRoll
  <2>2. \A y \in N : y.kind # "output" /\ y.kind # "start"
    OBVIOUS
  <2> QED BY <1>2, <2>1, <2>2, NewLine
<1>3. \A y \in N : y.kind # "output"
  OBVIOUS
<1> QED BY <1>1, <1>2, <1>3, TrafficLines

LEMMA CarriesLines ==
    ASSUME HostInv, HostStep, HostInv', NewsInv, LineInv, ScreensRoll, Carries
    PROVE  LineInv'
<1>1. PICK N \in SUBSET {Reconcile(LiveNames)}, to \in Nat : Traffic(Daemon, N, to)
  BY DEF Carries
<1>2. Reconcile(LiveNames).kind = "reconcile"
  BY DEF Reconcile
<1>3. \A y \in N : y.kind \in {"end", "reconcile"}
  BY <1>1, <1>2
<1>4. Daemon \in Procs /\ Quieter
  BY TerminalsAssumption DEF Carries
<1> QED BY <1>1, <1>3, <1>4, QuietLines

LEMMA StreamEndsLines ==
    ASSUME HostInv, HostStep, HostInv', NewsInv, LineInv, ScreensRoll,
           NEW p \in Procs, NEW n \in Names, StreamEnds(p, n)
    PROVE  LineInv'
<1>1. Traffic(p, {Frame("end", p, n, <<>>, 0)}, 0) /\ Quieter
  BY StreamEndsTraffic
<1>2. PICK x : x = Frame("end", p, n, <<>>, 0)
  OBVIOUS
<1>3. \A y \in {x} : y.kind \in {"end", "reconcile"}
  BY <1>2 DEF Frame
<1>4. Traffic(p, {x}, 0)
  BY <1>1, <1>2
<1> QED BY <1>1, <1>3, <1>4, QuietLines

(* What a capture shows beyond the lines already sent. *)
LEMMA NewLinesAre ==
    ASSUME NEW screen \in Seq(1 .. MaxLines), NEW sent \in Nat
    PROVE  /\ Len(NewLines(screen, sent)) \in Nat
           /\ \A j \in 1 .. Len(NewLines(screen, sent)) :
                 /\ sent + j \in sent + 1 .. Len(screen) /\ sent + j \in 1 .. Len(screen)
                 /\ NewLines(screen, sent)[j] = screen[sent + j]
<1>1. PICK n \in Nat : n = Len(screen)
  BY LenProperties
<1>2. PICK t : t = SubSeq(screen, sent + 1, n)
  OBVIOUS
<1>3. CASE sent <= n
  <2>1. sent + 1 \in 1 .. Len(screen) + 1 /\ n \in 0 .. Len(screen)
    BY <1>1, <1>3
  <2>2. /\ Len(t) = IF sent + 1 <= n THEN n - (sent + 1) + 1 ELSE 0
        /\ \A i \in 1 .. n - (sent + 1) + 1 : t[i] = screen[sent + 1 + i - 1]
    BY <1>2, <2>1, PartOf
  <2>3. Len(t) = n - sent /\ n - sent \in Nat
    BY <1>3, <2>2
  <2>4. \A j \in 1 .. n - sent : /\ j \in 1 .. n - (sent + 1) + 1
                                 /\ sent + 1 + j - 1 = sent + j
                                 /\ sent + j \in sent + 1 .. n /\ sent + j \in 1 .. n
    OBVIOUS
  <2> QED BY <1>1, <1>2, <2>2, <2>3, <2>4 DEF NewLines
<1>4. CASE sent > n
  <2>1. t = <<>>
    BY <1>1, <1>2, <1>4, SubSeqEmpty
  <2> QED BY <1>1, <1>2, <2>1 DEF NewLines
<1> QED BY <1>3, <1>4

LEMMA PollsLines ==
    ASSUME HostInv, HostStep, HostInv', NewsInv, LineInv, ScreensRoll,
           NEW p \in Procs, NEW n \in Names, Polls(p, n)
    PROVE  LineInv'
<1>1. proc[p].stream[n] \in Nat /\ UNCHANGED <<sessions, rows>>
  BY PollsTraffic
<1>2. PICK m \in SessionIds, lines \in Seq(1 .. MaxLines) :
          /\ sessions[m].name = n
          /\ lines = NewLines(sessions[m].screen, proc[p].stream[n])
          /\ Traffic(p, {Frame("output", p, n, lines, m)}, 0)
          /\ \A q \in Procs, mm \in Names :
                proc'[q].stream[mm] = IF q = p /\ mm = n THEN Len(sessions[m].screen)
                                      ELSE proc[q].stream[mm]
  BY PollsTraffic, Zenon
<1>3. PICK sent \in Nat : sent = proc[p].stream[n]
  BY <1>1
<1>4. PICK s \in Seq(1 .. MaxLines) : s = sessions[m].screen
  BY ScreenFacts DEF HostInv
<1>5. PICK len \in Nat : len = Len(lines)
  BY LenProperties
<1>6. \A j \in 1 .. len : /\ sent + j \in sent + 1 .. Len(s) /\ sent + j \in 1 .. Len(s)
                          /\ lines[j] = s[sent + j]
  <2>1. lines = NewLines(s, sent)
    BY <1>2, <1>3, <1>4
  <2>2. \A j \in 1 .. Len(NewLines(s, sent)) :
            /\ sent + j \in sent + 1 .. Len(s) /\ sent + j \in 1 .. Len(s)
            /\ NewLines(s, sent)[j] = s[sent + j]
    BY NewLinesAre
  <2> QED BY <1>5, <2>1, <2>2
<1>7. PICK x : x = Frame("output", p, n, lines, m)
  OBVIOUS
<1>8. x.kind = "output" /\ x.lines = lines /\ x.session = m
  BY <1>7 DEF Frame
<1>9. Rising(lines) /\ UpTo(lines, sessions[m].printed)
  <2>1. Rising(s) /\ UpTo(s, sessions[m].printed)
    BY <1>4 DEF LineInv, PrintedOk
  <2>2. ASSUME NEW i \in 1 .. len, NEW j \in 1 .. len, i < j PROVE lines[i] < lines[j]
    <3>1. sent + i < sent + j
      BY <2>2
    <3> QED BY <1>6, <2>1, <3>1 DEF Rising
  <2>3. \A i \in 1 .. len : lines[i] <= sessions[m].printed
    BY <1>6, <2>1 DEF UpTo
  <2> QED BY <1>5, <2>2, <2>3 DEF Rising, UpTo
<1>10. Traffic(p, {x}, 0)
  BY <1>2, <1>7
<1>11. OwnName(p, n)
  <2>1. proc[p].stream[n] # NoStream
    BY <1>1 DEF NoStream
  <2> QED BY <2>1 DEF NewsInv
<1>12. ASSUME NEW k \in SessionIds, Single(k) PROVE LineOk(k)'
  <2>1. /\ sessions'[k].name = sessions[k].name /\ sessions'[k].by = sessions[k].by
        /\ k \in SessionIds' /\ sessions'[k].screen = sessions[k].screen
    BY <1>1 DEF SessionIds
  <2>2. sessions[k].by \in Procs /\ sessions[k].name \in Names
    BY ScreenFacts DEF HostInv
  <2>3. sessions[k].name = n => k = m /\ sessions[k].by = p
    BY <1>2, <1>11, <1>12, MakersOnly DEF OwnName, Single
  <2>4. k = m => \A j \in 1 .. len : Over(k, lines[j])
    <3>1. k = m => Sent(k) = sent
      BY <1>2, <1>3, <2>3 DEF Sent
    <3>2. sent # NoStream
      BY DEF NoStream
    <3>3. k = m => \A i \in sent + 1 .. Len(s) : Over(k, s[i])
      BY <1>4, <1>12, <3>1, <3>2 DEF LineInv, LineOk, ScreenAbove
    <3> QED BY <1>6, <3>3
  <2>5. LineStep(k, p, {x}, 0)
    BY <1>5, <1>8, <1>10, <2>1, <2>4 DEF LineStep, StartOf, OutputOf
  <2>6. \/ Sent(k)' = Sent(k) /\ \A y \in {x} : ~OutputOf(k, y)
        \/ Sent(k)' = Len(sessions'[k].screen)
    <3>1. CASE k = m
      BY <1>2, <2>1, <2>2, <2>3, <3>1 DEF Sent
    <3>2. CASE k # m
      BY <1>2, <1>8, <2>1, <2>2, <2>3, <3>2 DEF Sent, OutputOf
    <3> QED BY <3>1, <3>2
  <2>7. Rolls(k)
    BY DEF ScreensRoll
  <2> QED BY <1>12, <2>1, <2>5, <2>6, <2>7, LineStays
<1>13. \A y \in {x} : y.kind = "output" =>
           Rising(y.lines) /\ UpTo(y.lines, sessions'[y.session].printed)
  BY <1>1, <1>8, <1>9
<1>14. \A k \in SessionIds' : Single(k)' => LineOk(k)'
  <2>1. SessionIds' = SessionIds
    BY <1>1 DEF SessionIds
  <2> QED BY <1>12, <2>1, SingleWas
<1> QED BY <1>10, <1>13, <1>14, TrafficLines

LEMMA RunConnectsLines ==
    ASSUME HostInv, HostStep, HostInv', OwnInv, NewsInv, LineInv, ScreensRoll,
           NEW r \in Runs, RunConnects(r)
    PROVE  LineInv'
<1>1. /\ proc[r].st = "made" /\ UNCHANGED <<sessions, rows>> /\ r \in Procs
      /\ RunName[r] \in Names
      /\ Traffic(r, {Frame("start", r, RunName[r], <<>>, 0)}, Len(conns) + 1)
      /\ \A q \in Procs, m \in Names :
            proc'[q].stream[m] = IF q = r /\ m = RunName[r] THEN 0 ELSE proc[q].stream[m]
  BY RunConnectsTraffic
<1>2. PICK x : x = Frame("start", r, RunName[r], <<>>, 0)
  OBVIOUS
<1>3. x.kind = "start" /\ x.name = RunName[r]
  BY <1>2 DEF Frame
<1>4. PICK to : to = Len(conns) + 1
  OBVIOUS
<1>5. Traffic(r, {x}, to)
  BY <1>1, <1>2, <1>4
<1>6. ASSUME NEW k \in SessionIds, Single(k) PROVE LineOk(k)'
  <2>1. CASE sessions[k].by = r
    BY <1>6, <2>1, AnnouncesLine
  <2>2. CASE sessions[k].by # r
    <3>1. /\ sessions'[k].name = sessions[k].name /\ sessions'[k].by = sessions[k].by
          /\ k \in SessionIds'
      BY <1>1 DEF SessionIds
    <3>2. sessions[k].by \in Procs /\ sessions[k].name \in Names
      BY ScreenFacts DEF HostInv
    <3>3. sessions[k].name # RunName[r]
      BY <1>1, <1>6, <2>2, MakersOnly DEF OwnInv
    <3>4. LineStep(k, r, {x}, to) /\ \A y \in {x} : ~OutputOf(k, y)
      BY <1>3, <1>5, <3>1, <3>3 DEF LineStep, StartOf, OutputOf
    <3>5. Sent(k)' = Sent(k)
      BY <1>1, <2>2, <3>1, <3>2 DEF Sent
    <3>6. Rolls(k)
      BY DEF ScreensRoll
    <3> QED BY <1>6, <3>1, <3>4, <3>5, <3>6, LineStays
  <2> QED BY <2>1, <2>2
<1>7. \A k \in SessionIds' : Single(k)' => LineOk(k)'
  <2>1. SessionIds' = SessionIds
    BY <1>1 DEF SessionIds
  <2> QED BY <1>6, <2>1, SingleWas
<1>8. \A y \in {x} : y.kind # "output"
  BY <1>3
<1> QED BY <1>1, <1>5, <1>7, <1>8, TrafficLines

LEMMA HandleStartLines ==
    ASSUME HostInv, HostStep, HostInv', NewsInv, LineInv, ScreensRoll,
           NEW p \in Procs, HandleStart(p)
    PROVE  LineInv'
<1>1. CASE Carries
  BY <1>1, CarriesLines
<1>2. ASSUME NEW n \in Names, NewSession(Daemon, n),
             Traffic(Daemon, {Frame("start", Daemon, n, <<>>, 0)}, 0),
             \A q \in Procs, m \in Names :
                 proc'[q].stream[m] = IF q = Daemon /\ m = n THEN 0 ELSE proc[q].stream[m]
      PROVE  LineInv'
  <2>1. PICK x : x = Frame("start", Daemon, n, <<>>, 0)
    OBVIOUS
  <2>2. x.kind = "start" /\ x.name = n
    BY <2>1 DEF Frame
  <2>3. Daemon \in Procs
    BY TerminalsAssumption
  <2>4. Traffic(Daemon, {x}, 0) /\ \A y \in {x} : y.kind # "output"
    BY <1>2, <2>1, <2>2
  <2>5. PICK new \in SessionIds' \ SessionIds : sessions'[new].name = n
    <3>1. /\ SessionIds' = SessionIds \cup {Len(sessions) + 1} /\ Len(sessions) + 1 \notin SessionIds
          /\ sessions'[Len(sessions) + 1] =
                [name |-> n, by |-> Daemon, alive |-> TRUE, printed |-> 0, screen |-> <<>>]
      BY <1>2, <2>3, SessionMade DEF HostInv
    <3> QED BY <3>1
  <2>6. ASSUME NEW k \in SessionIds, Single(k)' PROVE LineOk(k)'
    <3>1. /\ k \in SessionIds' /\ Single(k)
          /\ sessions'[k].name = sessions[k].name /\ sessions'[k].by = sessions[k].by
      BY <2>6, SingleWas
    <3>2. sessions[k].name # n
      BY <2>5, <2>6, <3>1 DEF Single
    <3>3. LineStep(k, Daemon, {x}, 0) /\ \A y \in {x} : ~OutputOf(k, y)
      BY <2>2, <2>4, <3>1, <3>2 DEF LineStep, StartOf, OutputOf
    <3>4. sessions[k].by \in Procs /\ sessions[k].name \in Names
      BY ScreenFacts DEF HostInv
    <3>5. Sent(k)' = Sent(k)
      BY <1>2, <3>1, <3>2, <3>4 DEF Sent
    <3>6. Rolls(k)
      BY DEF ScreensRoll
    <3> QED BY <3>1, <3>3, <3>5, <3>6, LineStays
  <2>7. \A c \in ConnIds' : c \in ConnIds /\ \A y : y \in On(c)' => y \in On(c)
    <3>1. Receives(p, "start") /\ Taken(p)
      BY DEF HandleStart
    <3>2. ConnIds' = ConnIds /\ \A c \in ConnIds : conns'[c].wire = conns[c].wire
      BY <3>1, Receiving, InboxUpdate DEF HostInv
    <3>3. 0 \notin ConnIds
      BY LaneFacts DEF HostInv, LinkInv
    <3> QED BY <3>2, <3>3 DEF On, Lane
  <2>8. ASSUME NEW k \in SessionIds', k \notin SessionIds, Single(k)' PROVE LineOk(k)'
    <3>1. sessions'[k].screen = <<>>
      BY <2>8 DEF ScreensRoll
    <3> QED BY <2>4, <2>7, <2>8, <3>1, NewLine
  <2> QED BY <2>3, <2>4, <2>6, <2>8, TrafficLines
<1> QED BY <1>1, <1>2, HandleStartTraffic

LEMMA HearsLines ==
    ASSUME HostInv, HostStep, HostInv', NewsInv, LineInv, NEW c \in ConnIds, ReceiveJson(c)
    PROVE  LineInv'
<1>1. PICK known :
          /\ Heard(c, known)
          /\ \/ Arrival(c).kind = "start" /\ known = conns[c].known \cup {Arrival(c).name}
             \/ known \subseteq conns[c].known
          /\ \/ recorded' = recorded
             \/ /\ Arrival(c).kind = "output" /\ Arrival(c).name \in conns[c].known
                /\ recorded' = [recorded EXCEPT ![Arrival(c).session] = @ \o Arrival(c).lines]
  <2>1. conns[c].known \ {Arrival(c).name} \subseteq conns[c].known
    OBVIOUS
  <2> QED BY <2>1, FrameHeard
<1>2. PICK x : x = Arrival(c)
  OBVIOUS
<1>3. /\ UNCHANGED <<sessions, proc, outbound>> /\ Lanes' = Lanes /\ ConnIds' = ConnIds
      /\ \A l \in Lanes : Owner(l)' = Owner(l)
      /\ \A d \in ConnIds : conns'[d].known = IF d = c THEN known ELSE conns[d].known
      /\ c \in Lanes /\ x \in On(c)
      /\ \A l \in Lanes : \A y : y \in On(l)' => y \in On(l)
      /\ \A y : y \in On(c)' => Before(Lane(c), x, y)
      /\ \A y, z : Ahead(y, z)' => Ahead(y, z)
  BY <1>1, <1>2, Hearing
<1>4. HostShape /\ SessionsSane /\ conns[c].wire # <<>>
  BY <1>1 DEF HostInv, LinkInv, Heard
<1>5. x \in FrameSet /\ FrameOk(conns[c].proc, x)
  BY <1>2, <1>4, ArrivalOk
<1>6. PICK i : i = x.session
  OBVIOUS
<1>7. x.kind = "output" => i \in SessionIds /\ sessions[i].name = x.name
  BY <1>5, <1>6 DEF FrameOk
<1>8. SessionIds \subseteq 1 .. MaxSessions /\ SessionIds' = SessionIds
  BY <1>3, <1>4, Lengths, PtySessionsAssumption DEF SessionIds, SessionsSane, SessionsOk
<1>9. recorded \in [1 .. MaxSessions -> Seq(1 .. MaxLines)]
  BY DEF LineInv
<1>10. PICK s \in Seq(1 .. MaxLines) : s = x.lines
  BY <1>5 DEF FrameSet
<1>11. \/ recorded' = recorded
       \/ /\ x.kind = "output" /\ x.name \in conns[c].known
          /\ recorded' = [recorded EXCEPT ![i] = recorded[i] \o s]
  BY <1>1, <1>2, <1>6, <1>10
<1>12. /\ recorded' \in [1 .. MaxSessions -> Seq(1 .. MaxLines)]
       /\ \A k \in 1 .. MaxSessions :
             \/ recorded'[k] = recorded[k]
             \/ /\ OutputOf(k, x) /\ sessions[k].name \in conns[c].known
                /\ recorded'[k] = recorded[k] \o s
  <2>1. CASE recorded' = recorded
    BY <1>9, <2>1
  <2>2. CASE /\ x.kind = "output" /\ x.name \in conns[c].known
             /\ recorded' = [recorded EXCEPT ![i] = recorded[i] \o s]
    <3>1. i \in 1 .. MaxSessions
      BY <1>7, <1>8, <2>2
    <3>2. PICK r \in Seq(1 .. MaxLines) : r = recorded[i]
      BY <1>9, <3>1
    <3>3. r \o s \in Seq(1 .. MaxLines)
      BY Joined
    <3>4. recorded' = [recorded EXCEPT ![i] = r \o s]
      BY <2>2, <3>2
    <3>5. \A k \in 1 .. MaxSessions : recorded'[k] = IF k = i THEN r \o s ELSE recorded[k]
      BY <1>9, <3>4
    <3>6. recorded' \in [1 .. MaxSessions -> Seq(1 .. MaxLines)]
      BY <1>9, <3>1, <3>3, <3>4
    <3>7. OutputOf(i, x) /\ sessions[i].name \in conns[c].known
      BY <1>6, <1>7, <2>2 DEF OutputOf
    <3> QED BY <3>2, <3>5, <3>6, <3>7
  <2> QED BY <1>11, <2>1, <2>2
<1>13. ASSUME NEW k \in SessionIds PROVE HearStep(k, c, x)
  <2>1. \A y : y \in On(c)' => Ahead(x, y)
    BY <1>3 DEF Ahead
  <2>2. \A d \in ConnIds : Knows(k, d)' => Knows(k, d) \/ (d = c /\ StartOf(k, x))
    BY <1>1, <1>2, <1>3 DEF Knows, StartOf
  <2>3. \/ recorded'[k] = recorded[k]
        \/ OutputOf(k, x) /\ Knows(k, c) /\ recorded'[k] = recorded[k] \o x.lines
    BY <1>8, <1>10, <1>12 DEF Knows
  <2> QED BY <1>3, <2>1, <2>2, <2>3 DEF HearStep
<1>14. ASSUME NEW k \in SessionIds', Single(k)' PROVE LineOk(k)'
  <2>1. k \in SessionIds /\ Single(k)
    BY <1>3, <1>8, <1>14 DEF Single
  <2> QED BY <1>13, <2>1, HearLine
<1>15. ASSUME NEW k \in SessionIds' PROVE PrintedOk(k)'
  <2>1. k \in SessionIds /\ k \in 1 .. MaxSessions
    BY <1>8
  <2>2. PICK r \in Seq(1 .. MaxLines) : r = recorded[k]
    BY <1>9, <2>1
  <2>3. PICK b : b = sessions[k].printed
    OBVIOUS
  <2>4. UpTo(r, b) /\ Rising(sessions[k].screen) /\ UpTo(sessions[k].screen, b)
    BY <2>1, <2>2, <2>3 DEF LineInv, PrintedOk
  <2>5. OutputOf(k, x) => UpTo(s, b)
    BY <1>3, <1>10, <2>3 DEF LineInv, OutputOf, OutputOk
  <2>6. UpTo(r, b) /\ UpTo(s, b) => UpTo(r \o s, b)
    BY Joined
  <2>7. UpTo(recorded'[k], b)
    BY <1>12, <2>1, <2>2, <2>4, <2>5, <2>6
  <2> QED BY <1>3, <2>3, <2>4, <2>7 DEF PrintedOk
<1>16. ASSUME NEW l \in Lanes', NEW y, y \in On(l)', y.kind = "output" PROVE OutputOk(y)'
  <2>1. OutputOk(y)
    BY <1>3, <1>16 DEF LineInv
  <2> QED BY <1>3, <2>1 DEF OutputOk
<1>17. \A k \in 1 .. MaxSessions : k \notin SessionIds' => recorded'[k] = <<>>
  <2> SUFFICES ASSUME NEW k \in 1 .. MaxSessions, k \notin SessionIds PROVE recorded'[k] = <<>>
    BY <1>8
  <2>1. recorded[k] = <<>>
    BY DEF LineInv
  <2>2. ~OutputOf(k, x)
    BY <1>6, <1>7 DEF OutputOf
  <2> QED BY <1>12, <2>1, <2>2
<1> QED BY <1>12, <1>14, <1>15, <1>16, <1>17 DEF LineInv

LEMMA InitLines == ASSUME Init PROVE LineInv
<1>1. SessionIds = {}
  BY EmptySeq DEF Init, SessionIds
<1>2. Lanes = {0} /\ On(0) = {}
  BY EmptySeq DEF Init, Lanes, Lane, On, ConnIds, ToSet
<1>3. recorded \in [1 .. MaxSessions -> Seq(1 .. MaxLines)] /\ \A k \in 1 .. MaxSessions : recorded[k] = <<>>
  BY DEF Init
<1> QED BY <1>1, <1>2, <1>3 DEF LineInv

LEMMA NextLines ==
    ASSUME IInv, NewsInv, LineInv, Next
    PROVE  LineInv'
<1>1. HostInv /\ OwnInv /\ file \subseteq Names
  BY FileNames DEF IInv
<1>2. HostStep /\ ScreensRoll
  BY <1>1, NextHost, NextScreens
<1>3. HostInv'
  BY <1>1, <1>2, MovesLinks DEF HostInv, HostStep
<1>4. CASE Program
  BY <1>1, <1>2, <1>3, <1>4, ProgramCarries, CarriesLines
<1>5. CASE \E p \in Procs, n \in Names : Polls(p, n) \/ StreamEnds(p, n)
  BY <1>1, <1>2, <1>3, <1>5, PollsLines, StreamEndsLines
<1>6. CASE \E r \in Runs : RunStarts(r) \/ RunConnects(r) \/ RunLeaves(r)
  BY <1>1, <1>2, <1>3, <1>6, RunStartsCarries, RunLeavesCarries, CarriesLines, RunConnectsLines
<1>7. CASE DaemonStarts \/ DaemonConnects \/ Heartbeat \/ DaemonSends \/ DaemonDies \/ DiesInStart
  BY <1>1, <1>2, <1>3, <1>7, DaemonStartsCarries, DaemonConnectsCarries, HeartbeatCarries,
     DaemonSendsCarries, DeathsCarry, CarriesLines
<1>8. CASE \E p \in Procs : Breaks(p) \/ Handles(p) \/ DriveEnds(p)
  BY <1>1, <1>2, <1>3, <1>8, BreaksCarries, HandlersCarry, HandleStartLines, DriveEndsCarries,
     CarriesLines DEF Handles
<1>9. CASE \/ \E f \in Refs, text \in Texts : AskInject(f, text)
           \/ \E n \in Launches : AskLaunch(n)
           \/ AskPrompt
           \/ \E f \in Refs : StopSends(f)
  BY <1>1, <1>2, <1>3, <1>9, AsksCarry, CarriesLines
<1>10. CASE StopMarks
  BY <1>1, <1>2, <1>3, <1>10, StopMarksCarries, CarriesLines
<1>11. CASE \E c \in ConnIds : ReceiveJson(c)
  BY <1>1, <1>2, <1>3, <1>11, HearsLines
<1> QED BY <1>4, <1>5, <1>6, <1>7, <1>8, <1>9, <1>10, <1>11 DEF Next

LEMMA IdleLines ==
    ASSUME LineInv, UNCHANGED vars
    PROVE  LineInv'
<1>1. UNCHANGED <<sessions, proc, conns, outbound, recorded>>
  BY DEF vars
<1>2. Lanes' = Lanes /\ ConnIds' = ConnIds /\ SessionIds' = SessionIds
  BY <1>1 DEF Lanes, ConnIds, SessionIds
<1>3. \A l : On(l)' = On(l) /\ Lane(l)' = Lane(l)
  BY <1>1 DEF On, Lane
<1>4. \A x, y : Ahead(x, y)' = Ahead(x, y)
  BY <1>1, <1>2, <1>3 DEF Ahead
<1>5. \A k \in SessionIds : PrintedOk(k)' = PrintedOk(k) /\ Single(k)' = Single(k)
  BY <1>1, <1>2 DEF PrintedOk, Single
<1>6. ASSUME NEW k \in SessionIds, LineOk(k) PROVE LineOk(k)'
  <2>1. /\ \A x : OutputOf(k, x)' = OutputOf(k, x) /\ StartOf(k, x)' = StartOf(k, x)
        /\ \A l : Announced(k, l)' = Announced(k, l) /\ Knows(k, l)' = Knows(k, l)
    BY <1>1, <1>3 DEF OutputOf, StartOf, Announced, Knows
  <2>2. FramesFit(k)'
    BY <1>2, <1>3, <1>4, <1>6, <2>1 DEF LineOk, FramesFit, Fits
  <2>3. AnnouncedOnce(k)' /\ FirstAnnounced(k)' /\ RecordBelow(k)' /\ RecordedOver(k)'
    BY <1>1, <1>2, <1>3, <1>6, <2>1 DEF LineOk, AnnouncedOnce, FirstAnnounced, RecordBelow, RecordedOver
  <2>4. \A n : Over(k, n)' = Over(k, n)
    BY <1>1, <1>2, <1>3, <2>1 DEF Over
  <2>5. ScreenAbove(k)'
    BY <1>1, <1>6, <2>4 DEF LineOk, ScreenAbove, Sent
  <2> QED BY <2>2, <2>3, <2>5 DEF LineOk
<1>7. \A x : OutputOk(x)' = OutputOk(x)
  BY <1>1 DEF OutputOk
<1> QED BY <1>1, <1>2, <1>3, <1>5, <1>6, <1>7 DEF LineInv

(* The lines of a terminal of one use are in order wherever they are: on the *)
(* screen, in the queue of the daemon, on the wire and in the record.        *)
THEOREM LinesStayInOrder == Spec => []LineInv
<1>1. IInv /\ NewsInv /\ LineInv /\ [Next]_vars => LineInv'
  BY NextLines, IdleLines
<1> QED BY <1>1, InitLines, FramesAreOldNewsAtWorst, HostKeepsItsBooks, PTL DEF Spec

(* A line of a terminal is recorded at most once, and in order, as long as   *)
(* its name was used once: however the screen scrolls between two captures   *)
(* of stream_pty_output, whatever connections break and however often the    *)
(* daemon dies with its queue, handle_pty_output appends only what is above  *)
(* all that it recorded before.                                              *)
THEOREM SpecLinesOnceInOrder == Spec => []LinesOnceInOrder
<1>1. IInv /\ LineInv => LinesOnceInOrder
  <2> SUFFICES ASSUME IInv, LineInv, NEW k \in SessionIds,
                      Cardinality(Of(sessions[k].name)) = 1,
                      NEW i \in DOMAIN recorded[k], NEW j \in DOMAIN recorded[k], i < j
               PROVE  recorded[k][i] < recorded[k][j]
    BY DEF LinesOnceInOrder
  <2>1. SessionsSane
    BY DEF IInv, HostInv
  <2>2. ASSUME NEW m \in SessionIds, sessions[m].name = sessions[k].name PROVE m = k
    <3>1. m \in Of(sessions[k].name) /\ k \in Of(sessions[k].name)
      BY <2>2 DEF Of
    <3>2. m # k => Cardinality(Of(sessions[k].name)) > 1
      BY <2>1, <3>1, NameUsedTwice
    <3> QED BY <3>2
  <2>3. Single(k)
    BY <2>2 DEF Single
  <2>4. k \in 1 .. MaxSessions
    BY <2>1, Lengths, PtySessionsAssumption DEF SessionIds, SessionsSane, SessionsOk
  <2>5. DOMAIN recorded[k] = 1 .. Len(recorded[k])
    BY <2>4 DEF LineInv
  <2> QED BY <2>3, <2>5 DEF LineInv, LineOk, RecordBelow, Rising
<1> QED BY <1>1, LinesStayInOrder, HostKeepsItsBooks, PTL
=============================================================================
