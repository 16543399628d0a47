--------------------------- MODULE TranscriptTail ---------------------------
(***************************************************************************)
(* Mirroring a Claude session's transcript file to chat: TranscriptTail of *)
(* host-agent/agent_host/transcript_tail.py, the tail.start and tail.stop  *)
(* commands of wsclient.py, and the bracket headless.prompt puts around a  *)
(* drive.  A tail polls the file and posts the user and assistant turns    *)
(* appended to it; a drive streams its own assistant turns to chat, so the *)
(* tail it found is suppressed until it ends.                              *)
(*                                                                         *)
(* The file only grows, a whole line at a time but visible in two parts:   *)
(* parts 2n-1 and 2n are line n, the second ends with the newline.  The    *)
(* file is thus its length in parts.  A drive has written its lines when   *)
(* it ends (claude -p exits).  The session has one file, whatever cwd a    *)
(* tail.start names (transcript_paths.py falls back to a glob).            *)
(***************************************************************************)
EXTENDS SequencesExt, Selection, Integers

CONSTANTS
    MaxLines,     \* bound: lines written
    MaxDrives,    \* bound: drives of the session
    MaxTails,     \* bound: tails started
    Roles         \* roles written: skipped is a meta line, a tool result, ...

ASSUME TailAssumption ==
    /\ MaxLines \in Nat /\ MaxDrives \in Nat /\ MaxTails \in Nat
    /\ Roles \subseteq {"user", "assistant", "skipped"}

Lines  == 1 .. MaxLines
Drives == 1 .. MaxDrives
Tails  == 1 .. MaxTails
Editor == 0
NoTail == 0

VARIABLES
    written,      \* length of the file, in parts
    line,         \* who wrote each line (a drive or the editor) and its role
    tails,        \* the TranscriptTail objects, in order of creation
    current,      \* _transcript_tails[claude_session_id], or NoTail
    drive,        \* the drive under way, or 0; the session's lock admits one
    held,         \* the tail that drive found, or NoTail
    drives,       \* drives begun so far
    succeeded,    \* drives that ended with success
    blind,        \* history: drives whose tail could not keep their echo out
    posted        \* history: the lines posted, with the tail that posted them

fileVars  == <<written, line>>
driveVars == <<drive, held, drives, succeeded, blind>>
tailVars  == <<fileVars, tails, current, driveVars, posted>>

Exists == written > 0

(* Mutant: a tail begins at the top of the file. *)
NewTailFromTop ==
    [found |-> Exists, offset |-> 0, rest |-> <<>>, since |-> written,
     suppress |-> FALSE, buffer |-> <<>>, epoch |-> 0,
     pc |-> "sleep", seen |-> 0, size |-> 0, from |-> 0]

(* A tail just created: at the end of a file it can find, else at 0. *)
NewTail ==
    [found |-> Exists, offset |-> written, rest |-> <<>>, since |-> written,
     suppress |-> FALSE, buffer |-> <<>>, epoch |-> 0,
     pc |-> "sleep", seen |-> 0, size |-> 0, from |-> 0]

TailType ==
    [found : BOOLEAN, offset : 0 .. 2 * MaxLines, rest : Seq(1 .. 2 * MaxLines),
     since : 0 .. 2 * MaxLines, suppress : BOOLEAN, buffer : Seq(Lines),
     epoch : 0 .. MaxDrives, pc : {"sleep", "find", "stat", "resume", "read"},
     seen : 0 .. MaxDrives, size : 0 .. 2 * MaxLines, from : 0 .. 2 * MaxLines]

(* Beyond the types: a read under way asks for something, and only a tail  *)
(* that a drive holds keeps anything back.                                 *)
TailTypeOK ==
    /\ written \in 0 .. 2 * MaxLines
    /\ line \in Seq([by : Drives \cup {Editor}, role : Roles])
    /\ Len(line) = (written + 1) \div 2
    /\ tails \in Seq(TailType) /\ Len(tails) <= MaxTails
    /\ current \in Tails \cup {NoTail}
    /\ drive \in Drives \cup {0} /\ drives \in 0 .. MaxDrives
    /\ held \in Tails \cup {NoTail}
    /\ succeeded \subseteq Drives /\ blind \subseteq Drives
    /\ posted \in Seq([tail : Tails, line : Lines])
    /\ \A g \in DOMAIN tails :
          /\ tails[g].pc = "read" => tails[g].from < tails[g].size
          /\ tails[g].buffer # <<>> => tails[g].suppress
          /\ tails[g].suppress => drive # 0 /\ held = g

TailInit ==
    /\ written = 0 /\ line = <<>>
    /\ tails = <<>> /\ current = NoTail
    /\ drive = 0 /\ held = NoTail /\ drives = 0
    /\ succeeded = {} /\ blind = {}
    /\ posted = <<>>

-----------------------------------------------------------------------------
(* The transcript. *)

Open == written % 2 = 1

(* The editor, or the driven process, begins a line ... *)
WriteFirst(by, role) ==
    /\ ~Open
    /\ Len(line) < MaxLines
    /\ by = Editor \/ by = drive
    /\ line' = Append(line, [by |-> by, role |-> role])
    /\ written' = written + 1
    /\ UNCHANGED <<tails, current, driveVars, posted>>

(* ... and ends it. *)
WriteSecond ==
    /\ Open
    /\ written' = written + 1
    /\ UNCHANGED <<line, tails, current, driveVars, posted>>

-----------------------------------------------------------------------------
(* The host commands. *)

(* tail.start: a tail of this session with the same cwd is kept (no step); *)
(* one with another cwd is replaced.                                       *)
TailStart ==
    /\ Len(tails) < MaxTails
    /\ tails' = Append(tails, NewTail)
    /\ current' = Len(tails) + 1
    /\ blind' = IF drive = 0 THEN blind ELSE blind \cup {drive}
    /\ UNCHANGED <<fileVars, drive, held, drives, succeeded, posted>>

(* tail.stop *)
TailStop ==
    /\ current # NoTail
    /\ current' = NoTail
    /\ UNCHANGED <<fileVars, tails, driveVars, posted>>

-----------------------------------------------------------------------------
(* Drives. *)

(* headless.prompt, once it has the session's lock: drive_started. *)
DriveStart ==
    /\ drive = 0 /\ drives < MaxDrives
    /\ drive' = drives + 1 /\ drives' = drives + 1
    /\ held' = current
    /\ tails' = IF current = NoTail THEN tails
                ELSE [tails EXCEPT ![current].suppress = TRUE]
    /\ UNCHANGED <<fileVars, current, succeeded, blind, posted>>

(* Handing lines to emit, in order. *)
Post(g, ns) == posted' = posted \o [i \in DOMAIN ns |-> [tail |-> g, line |-> ns[i]]]

IsUser(n) == line[n].role = "user"
UserLines == {n \in DOMAIN line : IsUser(n)}

(* The drive's process has exited, its last line written. *)
Ended == drive # 0 /\ ~(Open /\ Last(line).by = drive)

(* Mutant: user turns are taken for echoes too. *)
DriveOkForgetting ==
    /\ Ended
    /\ IF held = NoTail THEN UNCHANGED tails
       ELSE tails' = [tails EXCEPT ![held] =
                [tails[held] EXCEPT
                    !.buffer = <<>>, !.suppress = FALSE, !.epoch = @ + 1,
                    !.offset = IF tails[held].found THEN written ELSE @]]
    /\ succeeded' = succeeded \cup {drive}
    /\ blind' = IF held # NoTail /\ ~tails[held].found THEN blind \cup {drive} ELSE blind
    /\ drive' = 0 /\ held' = NoTail
    /\ UNCHANGED <<posted, fileVars, current, drives>>

(* drive_finished(success=True): what the tail held back is the drive's    *)
(* echo, except user turns; the offset moves to the end of a file already  *)
(* found; the unfinished line in `rest' stays.                             *)
DriveOk ==
    /\ Ended
    /\ IF held = NoTail THEN UNCHANGED <<tails, posted>>
       ELSE /\ tails' = [tails EXCEPT ![held] =
                   [tails[held] EXCEPT
                       !.buffer = <<>>, !.suppress = FALSE, !.epoch = @ + 1,
                       !.offset = IF tails[held].found THEN written ELSE @]]
            /\ Post(held, Selected(tails[held].buffer, UserLines))
    /\ succeeded' = succeeded \cup {drive}
    /\ blind' = IF held # NoTail /\ ~tails[held].found THEN blind \cup {drive} ELSE blind
    /\ drive' = 0 /\ held' = NoTail
    /\ UNCHANGED <<fileVars, current, drives>>

(* drive_finished(success=False): all that was held back is posted. *)
DriveFail ==
    /\ Ended
    /\ IF held = NoTail THEN UNCHANGED <<tails, posted>>
       ELSE /\ tails' = [tails EXCEPT ![held] =
                   [@ EXCEPT !.buffer = <<>>, !.suppress = FALSE]]
            /\ Post(held, tails[held].buffer)
    /\ drive' = 0 /\ held' = NoTail
    /\ UNCHANGED <<fileVars, current, drives, succeeded, blind>>

-----------------------------------------------------------------------------
(* A poll.  The event loop and its executor take turns; a tail that was    *)
(* stopped or replaced is cancelled, but a read that has just come back    *)
(* may still be processed.                                                 *)

Poll(g, from, to) ==
    /\ g = current /\ tails[g].pc = from
    /\ tails' = [tails EXCEPT ![g] = to]
    /\ UNCHANGED <<fileVars, current, driveVars, posted>>

(* A tail between two polls; what a poll noted is gone with it. *)
Asleep(t) == [t EXCEPT !.pc = "sleep", !.seen = 0, !.size = 0, !.from = 0]

(* The poll interval is over.  The epoch is noted once the file is known. *)
Tick(g) ==
    Poll(g, "sleep",
         IF tails[g].found THEN [tails[g] EXCEPT !.pc = "stat", !.seen = tails[g].epoch]
                           ELSE [tails[g] EXCEPT !.pc = "find"])

(* The file was looked for. *)
Find(g) ==
    Poll(g, "find",
         IF Exists
         THEN [tails[g] EXCEPT !.found = TRUE, !.pc = "stat", !.seen = tails[g].epoch]
         ELSE Asleep(tails[g]))

(* The executor takes the size ... *)
StatSize(g) ==
    Poll(g, "stat", [tails[g] EXCEPT !.size = written, !.pc = "resume"])

(* Mutant: a poll that finds nothing new is the last one. *)
ResumeOnce(g) ==
    /\ tails[g].size > tails[g].offset
    /\ Poll(g, "resume", [tails[g] EXCEPT !.pc = "read", !.from = tails[g].offset])

(* ... and the loop asks for what is new. *)
Resume(g) ==
    Poll(g, "resume",
         IF tails[g].size <= tails[g].offset THEN Asleep(tails[g])
         ELSE [tails[g] EXCEPT !.pc = "read", !.from = tails[g].offset])

(* Parts from + 1 .. size of the file. *)
ReadRange(from, size) == [i \in 1 .. size - from |-> from + i]

(* Up to the last newline a buffer is split into lines ... *)
EndsLine(part) == part % 2 = 0
LastEnd(buf)   == Max({0} \cup {i \in DOMAIN buf : EndsLine(buf[i])})

Rest(buf) == SubSeq(buf, LastEnd(buf) + 1, Len(buf))

(* ... and only a line that is exactly its two parts is JSON. *)
Parses(buf, i) ==
    /\ EndsLine(buf[i])
    /\ i > 1 /\ buf[i - 1] = buf[i] - 1
    /\ i > 2 => EndsLine(buf[i - 2])

(* The turns among them: lines whose role is not skipped. *)
TurnsIn(buf) ==
    LET ends == Ascending({i \in DOMAIN buf : Parses(buf, i)
                                             /\ line[buf[i] \div 2].role # "skipped"})
    IN  [k \in DOMAIN ends |-> buf[ends[k]] \div 2]

(* Mutant: the epoch is not looked at. *)
ProcessReadAnyEpoch(g) ==
    LET t    == tails[g]
        buf  == t.rest \o ReadRange(t.from, t.size)
        kept == [Asleep(t) EXCEPT !.offset = t.size, !.rest = Rest(buf)]
    IN  /\ t.pc = "read"
        /\ IF t.suppress
           THEN /\ tails' = [tails EXCEPT ![g] =
                               [kept EXCEPT !.buffer = @ \o TurnsIn(buf)]]
                /\ UNCHANGED posted
           ELSE /\ tails' = [tails EXCEPT ![g] = kept]
                /\ Post(g, TurnsIn(buf))
        /\ UNCHANGED <<fileVars, current, driveVars>>

(* The data came back.  If a drive succeeded meanwhile it is thrown away.  *)
ProcessRead(g) ==
    LET t    == tails[g]
        buf  == t.rest \o ReadRange(t.from, t.size)
        kept == [Asleep(t) EXCEPT !.offset = t.size, !.rest = Rest(buf)]
    IN  /\ t.pc = "read"
        /\ IF t.seen # t.epoch
           THEN /\ tails' = [tails EXCEPT ![g] = Asleep(t)]
                /\ UNCHANGED posted
           ELSE IF t.suppress
           THEN /\ tails' = [tails EXCEPT ![g] =
                               [kept EXCEPT !.buffer = @ \o TurnsIn(buf)]]
                /\ UNCHANGED posted
           ELSE /\ tails' = [tails EXCEPT ![g] = kept]
                /\ Post(g, TurnsIn(buf))
        /\ UNCHANGED <<fileVars, current, driveVars>>

PollStep(g) == Tick(g) \/ Find(g) \/ StatSize(g) \/ Resume(g) \/ ProcessRead(g)

TailNext ==
    \/ \E by \in {Editor, drive}, role \in Roles : WriteFirst(by, role)
    \/ WriteSecond
    \/ TailStart \/ TailStop
    \/ DriveStart \/ DriveOk \/ DriveFail
    \/ \E g \in DOMAIN tails : PollStep(g)

TailSpec == TailInit /\ [][TailNext]_tailVars

(* The poll loop catches every exception and goes on; a drive ends, by its *)
(* timeout at the latest; a line begun is ended.                           *)
TailFairness ==
    /\ WF_tailVars(WriteSecond)
    /\ WF_tailVars(DriveOk \/ DriveFail)
    /\ \A g \in Tails : WF_tailVars(g \in DOMAIN tails /\ g = current /\ PollStep(g))

TailFairSpec == TailSpec /\ TailFairness

-----------------------------------------------------------------------------
(* Properties. *)

Posted(n)   == \E i \in DOMAIN posted : posted[i].line = n
Complete(n) == 2 * n <= written
IsTurn(n)   == line[n].role # "skipped"

(* Line n was written while tail g watched. *)
Watched(g, n) == Complete(n) /\ 2 * n - 1 > tails[g].since

(* No assistant turn of a successful drive, which the drive has streamed   *)
(* itself, is posted by the tail too, if the tail the drive found at its   *)
(* start was the session's until it ended and had found the file.          *)
NoEcho ==
    \A i \in DOMAIN posted :
        LET n == posted[i].line
        IN  (line[n].role = "assistant" /\ line[n].by \in succeeded)
                => line[n].by \in blind

(* Whatever drives and polls interleave, no line is posted twice, a tail   *)
(* posts in file order, and nothing it posts is older than its start.      *)
OnceInOrder ==
    \A i, j \in DOMAIN posted :
        /\ 2 * posted[i].line > tails[posted[i].tail].since
        /\ i # j => posted[i].line # posted[j].line
        /\ (i < j /\ posted[i].tail = posted[j].tail)
              => posted[i].line < posted[j].line

(* A user turn the tail held back is posted when the drive ends, however   *)
(* it ends.                                                                *)
HeldUserTurnsReplayed ==
    [][\A g \in DOMAIN tails :
          (tails[g].suppress /\ ~tails'[g].suppress) =>
              \A n \in ToSet(tails[g].buffer) : IsUser(n) => Posted(n)']_tailVars

(* A turn written while a tail watches is posted in the end, unless a drive *)
(* succeeds or the tail goes: failed drives, half-written lines and slow    *)
(* reads lose nothing.                                                      *)
TurnArrives ==
    \A n \in Lines : \A g \in Tails :
        (current = g /\ Watched(g, n) /\ IsTurn(n))
            ~> (Posted(n) \/ succeeded # {} \/ current # g)
=============================================================================
