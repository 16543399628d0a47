----------------------------- MODULE StartSession -----------------------------
(* start_session of backend/apps/connectors/service.py: an agent asks for    *)
(* its session to be dispatched to the operator's chat.  Requests run in     *)
(* processes of their own; those that name one Claude session are ordered by *)
(* a Postgres advisory lock, taken twice: around the search for the session's *)
(* Thread, and around the creation of its forum topic.                       *)
(*                                                                           *)
(* One host is enrolled, the platform is Telegram and no thread reaches a    *)
(* terminal status.                                                          *)
EXTENDS ThreadRows

CONSTANTS
    Callers,        \* requests to start a session
    SessionOf,      \* the Claude session id a request names, or NoSession
    ConnectorOf,    \* the connector it comes from
    NoSession

VARIABLES
    caller,         \* progress of each request
    lock,           \* the advisory locks: the holder, or "free"
    bound           \* ConnectorInstance rows: the connector's thread, or None

startVars == <<caller, lock, bound>>

Connectors == {ConnectorOf[s] : s \in Callers}

Named(s) == SessionOf[s] # NoSession

(* bound_id: the named session, or a new id nobody else has. *)
BoundId(s) == IF Named(s) THEN SessionOf[s] ELSE s

StartInit ==
    /\ caller = [s \in Callers |->
                    [pc |-> "find", row |-> None, md |-> FreshMetadata(FALSE)]]
    /\ lock = [i \in Sessions |-> "free"]
    /\ bound = [c \in Connectors |-> None]

Step(s, c) == caller' = [caller EXCEPT ![s] = c]
At(s, pc)  == caller[s].pc = pc

Lock(s)   == IF Named(s)
             THEN /\ lock[SessionOf[s]] = "free"
                  /\ lock' = [lock EXCEPT ![SessionOf[s]] = s]
             ELSE UNCHANGED lock
Unlock(s) == lock' = [i \in Sessions |-> IF lock[i] = s THEN "free" ELSE lock[i]]

-----------------------------------------------------------------------------
(* The Thread. *)

(* _find_existing_session_thread: the newest row bound to the session. *)
Existing(session) ==
    LET found == {r \in RowIds : rows[r].session = session}
    IN  IF found = {} THEN None ELSE CHOOSE r \in found : \A q \in found : q <= r

(* As if the search took no lock. *)
FindThreadUnlocked(s) ==
    /\ At(s, "find")
    /\ LET r == IF Named(s) THEN Existing(SessionOf[s]) ELSE None
       IN  Step(s, [pc |-> "write", row |-> r,
                    md |-> IF r = None THEN FreshMetadata(Named(s)) ELSE rows[r].md])
    /\ UNCHANGED <<rowVars, lock, bound>>

(* The row is searched under the lock. *)
FindThread(s) ==
    /\ At(s, "find")
    /\ Lock(s)
    /\ LET r == IF Named(s) THEN Existing(SessionOf[s]) ELSE None
       IN  Step(s, [pc |-> "write", row |-> r,
                    md |-> IF r = None THEN FreshMetadata(Named(s)) ELSE rows[r].md])
    /\ UNCHANGED <<rowVars, bound>>

(* The row is created, or its metadata saved as they were read; the          *)
(* transaction ends.                                                         *)
WriteThread(s) ==
    /\ At(s, "write")
    /\ LET c == caller[s]
           r == IF c.row = None THEN Len(rows) + 1 ELSE c.row
       IN  /\ rows' = IF c.row = None
                      THEN Append(rows, NewRow(BoundId(s), "blank", Named(s)))
                      ELSE Saved(r, c.md)
           /\ Step(s, [pc |-> "bind", row |-> r,
                       md |-> FreshMetadata(Named(s))])
    /\ Unlock(s)
    /\ UNCHANGED <<topics, trouble, bound>>

-----------------------------------------------------------------------------
(* The connector is bound to the thread. *)

BindConnector(s) ==
    /\ At(s, "bind")
    /\ IF bound[ConnectorOf[s]] = None
       THEN Step(s, [caller[s] EXCEPT !.pc = "insert"]) /\ UNCHANGED bound
       ELSE /\ bound' = [bound EXCEPT ![ConnectorOf[s]] = caller[s].row]
            /\ Step(s, [caller[s] EXCEPT !.pc = "topic"])
    /\ UNCHANGED <<rowVars, lock>>

(* connector_id is unique: the second insert fails, and the request with it. *)
InsertConnector(s) ==
    /\ At(s, "insert")
    /\ IF bound[ConnectorOf[s]] = None
       THEN /\ bound' = [bound EXCEPT ![ConnectorOf[s]] = caller[s].row]
            /\ Step(s, [caller[s] EXCEPT !.pc = "topic"])
       ELSE Step(s, [caller[s] EXCEPT !.pc = "failed"]) /\ UNCHANGED bound
    /\ UNCHANGED <<rowVars, lock>>

-----------------------------------------------------------------------------
(* The topic. *)

(* What the request knows of the row once it holds the lock; as it was when   *)
(* the row was written, if it did not read again.                            *)
ReadAgainStale(s) == caller[s].md
ReadAgain(s) == IF Named(s) THEN rows[caller[s].row].md ELSE caller[s].md

(* _ensure_session_topic_once: with a named session the metadata are read    *)
(* again once the lock is held.                                              *)
CheckTopic(s) ==
    /\ At(s, "topic")
    /\ Named(s) => lock[SessionOf[s]] = "free"
    /\ LET c  == caller[s]
           md == ReadAgain(s)
       IN  IF md.topic # None
           THEN Step(s, [c EXCEPT !.pc = "done"]) /\ UNCHANGED lock
           ELSE Step(s, [pc |-> "create", row |-> c.row, md |-> md]) /\ Lock(s)
    /\ UNCHANGED <<rowVars, bound>>

(* _ensure_session_topic: the topic is created and the metadata are saved; a *)
(* failure leaves the session without a topic.                               *)
CreateTopic(s) ==
    /\ At(s, "create")
    /\ \E ok \in BOOLEAN :
           /\ ApiCall(ok)
           /\ topics' = IF ok THEN WithTopic(caller[s].row) ELSE topics
           /\ rows' = IF ok THEN Saved(caller[s].row,
                                       [caller[s].md EXCEPT !.topic = NewTopicId])
                      ELSE rows
    /\ Step(s, [pc |-> "done", row |-> caller[s].row, md |-> FreshMetadata(Named(s))])
    /\ Unlock(s)
    /\ UNCHANGED bound

(* The process that serves the request ends.  Its transaction is undone and  *)
(* its lock released; a topic already created stays in the forum.            *)
Abort(s) ==
    /\ caller[s].pc \notin {"find", "done", "failed"}
    /\ GoesWrong("stop")
    /\ topics' \in {topics} \cup
                   (IF At(s, "create") THEN {WithTopic(caller[s].row)} ELSE {})
    /\ Step(s, [caller[s] EXCEPT !.pc = "failed"])
    /\ Unlock(s)
    /\ UNCHANGED <<rows, bound>>

CallerStep(s) ==
    \/ FindThread(s) \/ WriteThread(s)
    \/ BindConnector(s) \/ InsertConnector(s)
    \/ CheckTopic(s) \/ CreateTopic(s)

StartNext == \E s \in Callers : CallerStep(s) \/ Abort(s)

(* The request holds a copy of the row's metadata that it may write back. *)
Holds(s, r) ==
    /\ caller[s].row = r
    /\ \/ At(s, "write") \/ At(s, "create")
       \/ ~Named(s) /\ caller[s].pc \in {"bind", "insert", "topic"}

StartTypeOK ==
    /\ \A s \in Callers :
           /\ caller[s].pc \in {"find", "write", "bind", "insert", "topic",
                                "create", "done", "failed"}
           /\ caller[s].row \in RowIds \cup {None}
    /\ lock \in [Sessions -> Callers \cup {"free"}]
    /\ bound \in [Connectors -> RowIds \cup {None}]
=============================================================================
