----------------------------- MODULE HostSender -----------------------------
(***************************************************************************)
(* The daemon's outbound path: run_sender of host-agent/agent_host/        *)
(* wsclient.py and the OfflineQueue of agent_host/queue.py.  Events wait   *)
(* in an in-memory queue; a sender coroutine takes one at a time and sends *)
(* it on the WebSocket; an event whose send fails is appended to a file,   *)
(* which the next connection drains before it starts a sender of its own.  *)
(*                                                                         *)
(* When one of the four gathered coroutines raises, run_sender leaves the  *)
(* connection, but gather does not cancel the others.  The receiver dies   *)
(* with its socket; a sender that was waiting for an event lives on and,   *)
(* `ws' being a variable of the enclosing function, uses the next socket.  *)
(*                                                                         *)
(* An event counts as sent when ws.send took it.                           *)
(***************************************************************************)
EXTENDS SequencesExt, Selection, Integers

CONSTANTS
    MaxEvents,    \* bound: events produced
    MaxConnects,  \* bound: connections opened; the last one never fails
    MaxCrashes,   \* bound: times the daemon dies
    Oversized     \* events longer than MAX_EVENT_BYTES

Events  == 1 .. MaxEvents
Conns   == 1 .. MaxConnects
None    == 0
Torn    == -1     \* a record cut short, without its newline
Garbled == -2     \* a complete line that is not JSON

ASSUME HostSenderAssumption ==
    /\ MaxEvents \in Nat /\ MaxConnects \in Nat /\ MaxCrashes \in Nat
    /\ Oversized \subseteq Events

VARIABLES
    produced,     \* events produced so far; event n is the n-th
    incoming,     \* _incoming: the in-memory queue
    file,         \* the lines of the queue file
    sent,         \* history: every event ws.send took, in order
    phase,        \* "down", "drain" or "run": where run_sender's loop is
    conn,         \* connections opened so far
    link,         \* whether the current socket works
    batch,        \* the drain's events still to send
    sender,       \* the sender coroutine each connection started
    crashes,      \* times the daemon died
    haunted       \* history: a connection opened while an older sender lived

senderVars == <<produced, incoming, file, sent, phase, conn, link, batch, sender,
          crashes, haunted>>

NoSender   == [pc |-> "none", event |-> None]
IdleSender == [pc |-> "idle", event |-> None]
DeadSender == [pc |-> "dead", event |-> None]

SenderTypeOK ==
    /\ produced \in 0 .. MaxEvents
    /\ incoming \in Seq(Events)
    /\ file \in Seq(Events \cup {Torn, Garbled})
    /\ sent \in Seq(Events)
    /\ phase \in {"down", "drain", "run"}
    /\ conn \in 0 .. MaxConnects
    /\ link \in BOOLEAN
    /\ batch \in Seq(Events)
    /\ sender \in [Conns -> [pc : {"none", "idle", "sending", "dead"},
                             event : Events \cup {None}]]
    /\ crashes \in 0 .. MaxCrashes
    /\ haunted \in BOOLEAN

SenderInit ==
    /\ produced = 0
    /\ incoming = <<>> /\ file = <<>> /\ sent = <<>> /\ batch = <<>>
    /\ phase = "down" /\ conn = 0 /\ link = FALSE
    /\ sender = [c \in Conns |-> NoSender]
    /\ crashes = 0
    /\ haunted = FALSE

-----------------------------------------------------------------------------
(* The queue file. *)

(* _read_all skips what is not JSON. *)
ReadAll(lines) == Selected(lines, Events)

(* Mutant: the new event goes in front. *)
EnqueueFirst(lines, e) == <<e>> \o lines

(* enqueue appends; after a torn record the new line completes it, and     *)
(* neither parses.                                                         *)
Enqueue(lines, e) ==
    IF lines # <<>> /\ Last(lines) = Torn
    THEN Append(Front(lines), Garbled)
    ELSE Append(lines, e)

-----------------------------------------------------------------------------
(* Producing, connecting, draining. *)

(* An event for the backend: a stream frame, a tail event, an ack. *)
Produce ==
    /\ produced < MaxEvents
    /\ produced' = produced + 1
    /\ incoming' = Append(incoming, produced + 1)
    /\ UNCHANGED <<file, sent, phase, conn, link, batch, sender, crashes, haunted>>

Alive(c) == sender[c].pc \in {"idle", "sending"}

(* The drain, if there was one, is over: the gather starts a sender. *)
StartGather(c) ==
    /\ phase' = "run"
    /\ sender' = [sender EXCEPT ![c] = IdleSender]

(* Mutant: only the daemon's first connection looks at the file. *)
ConnectDrainingOnce ==
    /\ phase = "down" /\ conn < MaxConnects
    /\ \A c \in Conns : sender[c].pc # "sending"
    /\ conn' = conn + 1
    /\ link' = TRUE
    /\ haunted' = (haunted \/ \E c \in Conns : Alive(c))
    /\ StartGather(conn + 1)
    /\ UNCHANGED <<produced, incoming, file, sent, batch, crashes>>

(* The next pass of the loop, with a freshly signed URL.  Closing the old  *)
(* socket ended every send that was under way on it.  Oversized events are *)
(* left out of the batch; with nothing to send the drain has no await.     *)
Connect ==
    LET events == ReadAll(file)
        toSend == Selected(events, Events \ Oversized)
    IN  /\ phase = "down"
        /\ conn < MaxConnects
        /\ \A c \in Conns : sender[c].pc # "sending"
        /\ conn' = conn + 1
        /\ link' = TRUE
        /\ haunted' = (haunted \/ \E c \in Conns : Alive(c))
        /\ batch' = toSend
        /\ IF toSend = <<>>
           THEN /\ StartGather(conn + 1)
                /\ file' = IF events = <<>> THEN file ELSE <<>>
           ELSE /\ phase' = "drain"
                /\ UNCHANGED <<file, sender>>
        /\ UNCHANGED <<produced, incoming, sent, crashes>>

DrainSend ==
    /\ phase = "drain" /\ link
    /\ batch # <<>>
    /\ sent' = Append(sent, Head(batch))
    /\ batch' = Tail(batch)
    /\ UNCHANGED <<produced, incoming, file, phase, conn, link, sender, crashes, haunted>>

(* Mutant: the file is left as it was. *)
DrainFailKeeping ==
    /\ phase = "drain" /\ ~link
    /\ batch # <<>>
    /\ batch' = <<>>
    /\ StartGather(conn)
    /\ UNCHANGED <<file, produced, incoming, sent, conn, link, crashes, haunted>>

(* A send fails: the failed event and all after it are what the file holds *)
(* from now on.  The gather starts even so, and ends at its first recv.    *)
DrainFail ==
    /\ phase = "drain" /\ ~link
    /\ batch # <<>>
    /\ file' = batch
    /\ batch' = <<>>
    /\ StartGather(conn)
    /\ UNCHANGED <<produced, incoming, sent, conn, link, crashes, haunted>>

(* Everything was sent: the file is unlinked. *)
DrainEnd ==
    /\ phase = "drain"
    /\ batch = <<>>
    /\ file' = <<>>
    /\ StartGather(conn)
    /\ UNCHANGED <<produced, incoming, sent, conn, link, batch, crashes, haunted>>

-----------------------------------------------------------------------------
(* The sender coroutines, of this connection or left over from an earlier. *)

SenderTake(c) ==
    /\ sender[c].pc = "idle"
    /\ incoming # <<>>
    /\ sender' = [sender EXCEPT ![c] = [pc |-> "sending", event |-> Head(incoming)]]
    /\ incoming' = Tail(incoming)
    /\ UNCHANGED <<produced, file, sent, phase, conn, link, batch, crashes, haunted>>

SendOk(c) ==
    /\ sender[c].pc = "sending"
    /\ phase # "down" /\ link
    /\ sent' = Append(sent, sender[c].event)
    /\ sender' = [sender EXCEPT ![c] = IdleSender]
    /\ UNCHANGED <<produced, incoming, file, phase, conn, link, batch, crashes, haunted>>

(* What the gather sees when the coroutine of connection c raises. *)
Raise(c) ==
    IF c = conn /\ phase = "run"
    THEN phase' = "down" /\ link' = FALSE
    ELSE UNCHANGED <<phase, link>>

(* The event goes to the file and the coroutine raises; only an exception  *)
(* of the current gather's own ends the connection.                        *)
SendFail(c) ==
    /\ sender[c].pc = "sending"
    /\ phase = "down" \/ ~link
    /\ file' = Enqueue(file, sender[c].event)
    /\ sender' = [sender EXCEPT ![c] = DeadSender]
    /\ Raise(c)
    /\ UNCHANGED <<produced, incoming, sent, conn, batch, crashes, haunted>>

-----------------------------------------------------------------------------
(* Failures. *)

(* The socket stops working; sends fail from here on. *)
LinkDrop ==
    /\ phase # "down" /\ link
    /\ conn < MaxConnects
    /\ link' = FALSE
    /\ UNCHANGED <<produced, incoming, file, sent, phase, conn, batch, sender, crashes, haunted>>

(* The receiver, heartbeat or watchdog raises; the sender is not told. *)
Teardown ==
    /\ phase = "run"
    /\ conn < MaxConnects
    /\ phase' = "down"
    /\ link' = FALSE
    /\ UNCHANGED <<produced, incoming, file, sent, conn, batch, sender, crashes, haunted>>

(* The daemon dies and is started again: only the file survives, with the  *)
(* record being appended, if any, possibly cut short.                      *)
Crash ==
    /\ crashes < MaxCrashes
    /\ conn < MaxConnects
    /\ crashes' = crashes + 1
    /\ \/ UNCHANGED file
       \/ /\ \E c \in Conns : sender[c].pc = "sending" /\ (phase = "down" \/ ~link)
          /\ file' = Append(file, Torn)
    /\ incoming' = <<>> /\ batch' = <<>>
    /\ phase' = "down" /\ link' = FALSE
    /\ sender' = [c \in Conns |-> NoSender]
    /\ UNCHANGED <<produced, sent, conn, haunted>>

SenderStep(c) == SenderTake(c) \/ SendOk(c) \/ SendFail(c)

SenderNext ==
    \/ Produce \/ Connect \/ DrainSend \/ DrainFail \/ DrainEnd
    \/ \E c \in Conns : SenderStep(c)
    \/ LinkDrop \/ Teardown \/ Crash

SenderSpec == SenderInit /\ [][SenderNext]_senderVars

(* run_sender's loop goes on, a coroutine that can run does, and a dead    *)
(* socket is noticed by the receiver.                                      *)
SenderFairness ==
    /\ WF_senderVars(Connect) /\ WF_senderVars(DrainSend \/ DrainFail \/ DrainEnd)
    /\ \A c \in Conns : WF_senderVars(SenderStep(c))
    /\ WF_senderVars(Teardown /\ ~link)

SenderFairSpec == SenderSpec /\ SenderFairness

-----------------------------------------------------------------------------
(* Properties. *)

InHand(e)   == \E c \in Conns : sender[c].pc = "sending" /\ sender[c].event = e
OnDisk(e)   == e \in ToSet(file)
Sent(e)     == e \in ToSet(sent)
Safe(e)     == e \in ToSet(incoming) \/ InHand(e) \/ OnDisk(e) \/ Sent(e)
Accepted    == (1 .. produced) \ Oversized

(* While every connection starts with no sender left over, no sequence of  *)
(* drops and reconnects loses an event, and the backend gets the events in *)
(* the order they were produced.                                           *)
AloneKeepsAll ==
    (~haunted /\ crashes = 0) =>
        /\ \A e \in Accepted : Safe(e)
        /\ \A i, j \in DOMAIN sent : i < j => sent[i] < sent[j]

(* However many senders are left over, an event goes out twice only when a *)
(* crash interrupted the drain that had already sent it.                   *)
SentOnce ==
    \A e \in Events : Cardinality({i \in DOMAIN sent : sent[i] = e}) <= 1 + crashes

(* An event on disk does not stay there: once connections stop failing it  *)
(* is sent, or a left-over sender's interference or a crash had its way.   *)
DiskDrains ==
    \A e \in Events \ Oversized :
        OnDisk(e) ~> (Sent(e) \/ haunted \/ crashes > 0)

(* Short of a crash no accepted event is lost on reconnect.  It does not    *)
(* hold (README 8), and no run checks it.                                    *)
NothingLost == crashes = 0 => \A e \in Accepted : Safe(e)
=============================================================================
