----------------------------- MODULE TopicDelivery -----------------------------
(* From a host's frame to the session's forum topic: the consumer of the     *)
(* host's WebSocket (backend/apps/hostlink/consumers.py) records each turn   *)
(* and queues it, and one drainer task per connection posts it               *)
(* (backend/apps/observe/delivery.py, mode "progress").                      *)
(*                                                                           *)
(* Every frame reads a Thread object of its own.  The queue carries that     *)
(* object, so the drainer works on the metadata as they were when the frame  *)
(* came in, and saves them as a whole.                                       *)
(*                                                                           *)
(* An API call and the save of its outcome are one step; the body of a       *)
(* message is the sequence of frames it shows.                               *)
EXTENDS ThreadRows, FiniteSets

CONSTANTS
    Keys,           \* source_event_keys of transcript lines
    NoKey,
    QueueMax,       \* _DELIVERY_QUEUE_MAX
    MaxFrames,      \* bound: frames received
    MaxConns        \* bound: connections of the host

ASSUME TopicDeliveryAssumption == QueueMax \in Nat \ {0}

VARIABLES
    frames,         \* the frames received, in order
    obj,            \* metadata of the Thread object each frame read
    conn,           \* the connections, in order
    recorded,       \* Message rows with a source_event_key: <<row, key>>
    dedup,          \* observe:deliver:... cache entries: <<row, key>>
    msgs,           \* the messages in the forum, in order
    fate            \* what became of each frame's delivery

deliveryVars == <<frames, obj, conn, recorded, dedup, msgs, fate>>

Stop == 0           \* _DRAINER_STOP

FrameIds == 1..Len(frames)
ConnIds  == 1..Len(conn)
MsgIds   == 1..Len(msgs)

(* "ready" is session.headless_start, "reply" session.headless_reply, "user" *)
(* and "assistant" are the two roles of session.turn.                        *)
Key(f) == <<frames[f].row, frames[f].key>>

(* up: the socket; rx: the frame in the receive loop and where its handler   *)
(* stands; drain: the frame the drainer works on and where it stands.        *)
NewConn ==
    [up |-> "up", rx |-> [f |-> None, at |-> "idle"], queue |-> <<>>,
     drain |-> [f |-> None, at |-> "get", retried |-> FALSE]]

DeliveryInit ==
    /\ frames = <<>> /\ obj = <<>> /\ conn = <<>>
    /\ recorded = {} /\ dedup = {}
    /\ msgs = <<>> /\ fate = <<>>

Conn(c, new) == conn' = [conn EXCEPT ![c] = new]

(* put_nowait, and the oldest entry makes room in a full queue. *)
Put(q, x)  == Append(IF Len(q) < QueueMax THEN q ELSE Tail(q), x)
Evicted(q) == IF Len(q) < QueueMax THEN {} ELSE {Head(q)}
Fates(fs, how) == [f \in DOMAIN fate |-> IF f \in fs THEN how ELSE fate[f]]

-----------------------------------------------------------------------------
(* The receive loop. *)

(* A daemon connects; its last connection may not have noticed yet. *)
Connect ==
    /\ Len(conn) < MaxConns
    /\ conn' = Append(conn, NewConn)
    /\ UNCHANGED <<rowVars, frames, obj, recorded, dedup, msgs, fate>>

(* session.headless_reply or session.turn: the Thread is read. *)
Receive(c) ==
    /\ c = Len(conn) /\ conn[c].up = "up" /\ conn[c].rx.f = None
    /\ Len(frames) < MaxFrames
    /\ \E r \in RowIds, kind \in {"reply", "user", "assistant"},
          key \in Keys \cup {NoKey}, reset \in BOOLEAN :
           /\ kind = "reply" <=> key = NoKey
           /\ reset => kind = "reply"
           /\ frames' = Append(frames, [kind |-> kind, row |-> r, key |-> key,
                                        reset |-> reset, conn |-> c])
           /\ obj' = Append(obj, rows[r].md)
    /\ fate' = Append(fate, "coming")
    /\ Conn(c, [conn[c] EXCEPT !.rx = [f |-> Len(frames) + 1, at |-> "record"]])
    /\ UNCHANGED <<rowVars, recorded, dedup, msgs>>

(* session.headless_start: get_or_create by external_session_ref, and an     *)
(* intro is queued. *)
Ready(c) ==
    /\ c = Len(conn) /\ conn[c].up = "up" /\ conn[c].rx.f = None
    /\ Len(frames) < MaxFrames
    /\ \E s \in Sessions :
           LET mine == {r \in RowIds : rows[r].ref = s}
               r    == IF mine = {} THEN Len(rows) + 1 ELSE CHOOSE q \in mine : TRUE
           IN  /\ rows' = IF mine = {} THEN Append(rows, NewRow(s, s, FALSE)) ELSE rows
               /\ frames' = Append(frames, [kind |-> "ready", row |-> r, key |-> NoKey,
                                            reset |-> FALSE, conn |-> c])
               /\ obj' = Append(obj, rows'[r].md)
    /\ fate' = Append(Fates(Evicted(conn[c].queue), "dropped"), "queued")
    /\ Conn(c, [conn[c] EXCEPT !.queue = Put(@, Len(frames) + 1)])
    /\ UNCHANGED <<topics, trouble, recorded, dedup, msgs>>

(* record_turn returns None for such a turn; first, as if nobody looked.     *)
RepeatedUnseen(f) == FALSE
Repeated(f) == frames[f].key # NoKey /\ Key(f) \in recorded

(* record_turn: a source_event_key is recorded once; a repeated turn goes no *)
(* further.  Otherwise _deliver_to_telegram queues the turn.                 *)
Record(c) ==
    /\ conn[c].rx.at = "record"
    /\ LET f == conn[c].rx.f
           idle == [f |-> None, at |-> "idle"]
       IN  IF Repeated(f)
           THEN /\ Conn(c, [conn[c] EXCEPT !.rx = idle])
                /\ fate' = Fates({f}, "repeated")
                /\ UNCHANGED recorded
           ELSE /\ Conn(c, [conn[c] EXCEPT
                        !.rx = IF frames[f].kind = "reply"
                               THEN [f |-> f, at |-> "mark"] ELSE idle,
                        !.queue = Put(@, f)])
                /\ fate' = [Fates(Evicted(conn[c].queue), "dropped")
                                EXCEPT ![f] = "queued"]
                /\ recorded' = IF frames[f].key = NoKey THEN recorded
                               ELSE recorded \cup {Key(f)}
    /\ UNCHANGED <<rowVars, frames, obj, dedup, msgs>>

(* _mark_started: the object's metadata and claude_session_started replace   *)
(* the row's metadata; the object itself stays as it was.                    *)
MarkStarted(c) ==
    /\ conn[c].rx.at = "mark"
    /\ LET f == conn[c].rx.f
       IN  rows' = Saved(frames[f].row, [obj[f] EXCEPT !.started = TRUE])
    /\ Conn(c, [conn[c] EXCEPT !.rx = [f |-> None, at |-> "idle"]])
    /\ UNCHANGED <<topics, trouble, frames, obj, recorded, dedup, msgs, fate>>

-----------------------------------------------------------------------------
(* The drainer. *)

InDrain(c, at) == conn[c].drain.at = at

GoOn(c, at) == Conn(c, [conn[c] EXCEPT !.drain.at = at])

(* task_done: the drainer never lets an exception out. *)
Finish(c, f, how) ==
    /\ Conn(c, [conn[c] EXCEPT
            !.queue = IF conn[c].drain.f = f THEN @ ELSE Tail(@),
            !.drain = [f |-> None, at |-> "get", retried |-> FALSE]])
    /\ fate' = [fate EXCEPT ![f] = how]

(* The object's metadata after a change, and the row they are saved to. *)
Save(f, md) ==
    /\ obj' = [obj EXCEPT ![f] = md]
    /\ rows' = Saved(frames[f].row, md)

(* _find_conflicting_topic_owner: another row of the session has a topic. *)
Conflict(r) ==
    \E q \in RowIds \ {r} :
        rows[q].session = rows[r].session /\ rows[q].md.topic # None

(* The cache entry of a turn with a uuid, cached as far as seen says, is set *)
(* before anything is sent; then the topic is looked up.                     *)
Begin(c, f, topic, seen, retried) ==
    LET go(at) ==
            /\ Conn(c, [conn[c] EXCEPT
                    !.queue = IF retried THEN @ ELSE Tail(@),
                    !.drain = [f |-> f, at |-> at, retried |-> retried]])
            /\ UNCHANGED fate
    IN  IF frames[f].key # NoKey /\ Key(f) \in seen
        THEN Finish(c, f, "skipped") /\ dedup' = seen
        ELSE /\ dedup' = IF frames[f].key = NoKey THEN seen ELSE seen \cup {Key(f)}
             /\ IF topic # None THEN go("post")
                ELSE IF Conflict(frames[f].row) THEN Finish(c, f, "skipped")
                     ELSE go("create")

(* The next item is begun; the sentinel ends the task. *)
Take(c) ==
    /\ InDrain(c, "get") /\ conn[c].queue # <<>>
    /\ LET x == Head(conn[c].queue)
       IN  IF x = Stop
           THEN /\ Conn(c, [conn[c] EXCEPT !.queue = Tail(@), !.drain.at = "off"])
                /\ UNCHANGED <<dedup, fate>>
           ELSE Begin(c, x, obj[x].topic, dedup, FALSE)
    /\ UNCHANGED <<rowVars, frames, obj, recorded, msgs>>

(* The topic is created and saved, then introduced. *)
MakeTopic(c) ==
    /\ InDrain(c, "create")
    /\ LET f == conn[c].drain.f
       IN  \E created, introduced \in BOOLEAN :
               /\ introduced => created
               /\ ApiCall(introduced)
               /\ IF created
                  THEN /\ topics' = WithTopic(frames[f].row)
                       /\ Save(f, [obj[f] EXCEPT !.topic = NewTopicId])
                  ELSE UNCHANGED <<topics, rows, obj>>
               /\ IF introduced THEN GoOn(c, "post") /\ UNCHANGED fate
                  ELSE Finish(c, f, "failed")
    /\ UNCHANGED <<frames, recorded, dedup, msgs>>

Message(topic, text) == [topic |-> topic, text |-> text]
NoDigest(md) == [md EXCEPT !.msg = None, !.text = <<>>]

(* _cache_delete before the second try, and what becomes of a retry that     *)
(* skips it.                                                                 *)
ForgetKeeping(f) == dedup
Forget(f) == dedup \ {Key(f)}

(* A user turn ends the digest and is posted for itself.  A topic that is    *)
(* gone is cleared (its digest text is not), and the turn tried once more.   *)
PostUser(c) ==
    /\ InDrain(c, "post")
    /\ frames[conn[c].drain.f].kind = "user"
    /\ LET f  == conn[c].drain.f
           md == NoDigest(obj[f])
       IN  \/ /\ Live(md.topic)
              /\ Save(f, md)
              /\ msgs' = Append(msgs, Message(md.topic, <<f>>))
              /\ Finish(c, f, "posted")
              /\ UNCHANGED <<trouble, dedup>>
           \/ /\ GoesWrong("api")
              /\ Save(f, md)
              /\ Finish(c, f, "failed")
              /\ UNCHANGED <<msgs, dedup>>
           \/ /\ ~Live(md.topic) /\ ~conn[c].drain.retried
              /\ Save(f, [md EXCEPT !.topic = None])
              /\ Begin(c, f, None, Forget(f), TRUE)
              /\ UNCHANGED <<trouble, msgs>>
           \/ /\ ~Live(md.topic) /\ conn[c].drain.retried
              /\ Save(f, md)
              /\ Finish(c, f, "failed")
              /\ UNCHANGED <<trouble, msgs, dedup>>
    /\ UNCHANGED <<topics, frames, recorded>>

DigestRunning(f) == obj[f]          \* as if reset were not looked at

(* The digest a step is added to: none after reset. *)
Digest(f) == IF frames[f].reset THEN NoDigest(obj[f]) ELSE obj[f]

(* A step of the assistant: the digest grows by it.  The message is edited   *)
(* in place; without a message, or if the edit fails, a new one is sent; a   *)
(* failure of that is swallowed.                                             *)
PostStep(c) ==
    /\ InDrain(c, "post")
    /\ frames[conn[c].drain.f].kind # "user"
    /\ LET f    == conn[c].drain.f
           md   == Digest(f)
           text == Append(md.text, f)
           there == md.msg # None /\ Live(msgs[md.msg].topic)
       IN  \E edited, sent \in BOOLEAN :
               /\ edited => there
               /\ sent => ~edited /\ Live(md.topic)
               /\ ApiCall((there => edited) /\ (edited \/ (Live(md.topic) => sent)))
               /\ IF edited
                  THEN /\ msgs' = [msgs EXCEPT ![md.msg].text = text]
                       /\ Save(f, [md EXCEPT !.text = text])
                  ELSE IF sent
                  THEN /\ msgs' = Append(msgs, Message(md.topic, text))
                       /\ Save(f, [md EXCEPT !.msg = Len(msgs) + 1, !.text = text])
                  ELSE /\ UNCHANGED msgs
                       /\ IF frames[f].reset THEN Save(f, md) ELSE UNCHANGED <<obj, rows>>
               /\ Finish(c, f, IF edited \/ sent THEN "posted" ELSE "failed")
    /\ UNCHANGED <<topics, frames, recorded, dedup>>

-----------------------------------------------------------------------------
(* The end of a connection. *)

(* As if disconnect cancelled the drainer at once. *)
DisconnectCancelling(c) ==
    /\ conn[c].up = "up" /\ conn[c].rx.f = None
    /\ Conn(c, [conn[c] EXCEPT !.up = "closing", !.drain.at = "off"])
    /\ UNCHANGED <<rowVars, frames, obj, recorded, dedup, msgs, fate>>

(* disconnect: the sentinel is queued behind what is pending. *)
Disconnect(c) ==
    /\ conn[c].up = "up" /\ conn[c].rx.f = None
    /\ fate' = Fates(Evicted(conn[c].queue), "dropped")
    /\ Conn(c, [conn[c] EXCEPT !.up = "closing", !.queue = Put(@, Stop)])
    /\ UNCHANGED <<rowVars, frames, obj, recorded, dedup, msgs>>

Closed(c) ==
    /\ conn[c].up = "closing" /\ InDrain(c, "off")
    /\ Conn(c, [conn[c] EXCEPT !.up = "closed"])
    /\ UNCHANGED <<rowVars, frames, obj, recorded, dedup, msgs, fate>>

InHand(c) ==
    {f \in FrameIds : fate[f] \in {"coming", "queued"} /\ frames[f].conn = c}

Ended(c) ==
    /\ Conn(c, [NewConn EXCEPT !.up = "closed", !.drain.at = "off"])
    /\ fate' = Fates(InHand(c), "lost")

(* The drainer is cancelled when it has not finished in ten seconds, and a   *)
(* connection dies with its process. *)
Cancel(c) ==
    /\ conn[c].up \in {"up", "closing"}
    /\ GoesWrong("stop")
    /\ Ended(c)
    /\ UNCHANGED <<rows, topics, frames, obj, recorded, dedup, msgs>>

(* The cache entry of a turn lives for 30 s. *)
DedupExpires(k) ==
    /\ k \in dedup
    /\ dedup' = dedup \ {k}
    /\ UNCHANGED <<rowVars, frames, obj, conn, recorded, msgs, fate>>

DrainStep(c) ==
    \/ Take(c) \/ MakeTopic(c) \/ PostUser(c) \/ PostStep(c)

DeliveryNext ==
    \/ Connect
    \/ \E c \in ConnIds :
           \/ Receive(c) \/ Ready(c) \/ Record(c) \/ MarkStarted(c)
           \/ DrainStep(c)
           \/ Disconnect(c) \/ Closed(c) \/ Cancel(c)
    \/ \E k \in dedup : DedupExpires(k)

DeliveryTypeOK ==
    /\ Len(obj) = Len(frames) /\ Len(fate) = Len(frames)
    /\ \A f \in FrameIds :
           /\ frames[f].row \in RowIds
           /\ frames[f].conn \in ConnIds
           /\ obj[f].topic \in TopicIds \cup {None}
           /\ obj[f].msg \in MsgIds \cup {None}
           /\ fate[f] \in {"coming", "queued", "repeated", "dropped", "skipped",
                           "posted", "failed", "lost"}
    /\ \A c \in ConnIds :
           /\ conn[c].up \in {"up", "closing", "closed"}
           /\ conn[c].rx.at \in {"idle", "record", "mark"}
           /\ conn[c].drain.at \in {"get", "create", "post", "off"}
           /\ Len(conn[c].queue) <= QueueMax
    /\ \A m \in MsgIds : msgs[m].topic \in TopicIds
=============================================================================
