----------------------------- MODULE SessionTopics -----------------------------
(* Dispatched sessions and their forum topics: start_session and the topic   *)
(* delivery at work on the same Thread rows.                                 *)
EXTENDS StartSession, TopicDelivery

CONSTANT MaxArrivals    \* bound: requests, connections and frames in all

(* A session id is neither the id of an unnamed request nor a blank ref. *)
ASSUME IdsDiffer ==
    /\ SessionOf \in [Callers -> Sessions \cup {NoSession}]
    /\ NoSession \notin Sessions
    /\ Callers \cap Sessions = {} /\ "free" \notin Callers
    /\ "blank" \notin Sessions

VARIABLE rushed     \* history: rows of which two copies were held at once

vars == <<rowVars, startVars, deliveryVars, rushed>>

-----------------------------------------------------------------------------
(* A frame works on its copy of the row until its delivery and its mark are  *)
(* done.                                                                     *)
Active(r) ==
    {f \in FrameIds :
        /\ frames[f].row = r
        /\ \/ fate[f] \in {"coming", "queued"}
           \/ \E c \in ConnIds : conn[c].rx.f = f}

Rushed(r) ==
    \/ Cardinality(Active(r)) > 1
    \/ Active(r) # {} /\ \E s \in Callers : Holds(s, r)

RushedNow == {r \in RowIds : Rushed(r)}

Arrivals ==
    Len(frames) + Len(conn) + Cardinality({s \in Callers : ~At(s, "find")})

Init ==
    /\ RowsInit /\ StartInit /\ DeliveryInit
    /\ rushed = {}

Next ==
    /\ \/ StartNext /\ UNCHANGED deliveryVars
       \/ DeliveryNext /\ UNCHANGED startVars
       \/ \E t \in TopicIds : TopicDeleted(t) /\ UNCHANGED <<startVars, deliveryVars>>
    /\ Arrivals' <= MaxArrivals
    /\ rushed' = rushed \cup RushedNow'

Spec == Init /\ [][Next]_vars

-----------------------------------------------------------------------------
(* Properties. *)

TypeOK ==
    /\ StartTypeOK
    /\ DeliveryTypeOK
    /\ Total <= MaxTrouble
    /\ rushed \subseteq RowIds
    /\ \A r \in RowIds : /\ rows[r].md.topic \in TopicIds \cup {None}
                         /\ rows[r].md.msg \in MsgIds \cup {None}

(* However many requests name a session at once, start_session makes one     *)
(* Thread for it.                                                            *)
OneThreadPerSession ==
    \A q, r \in RowIds :
        (/\ rows[q].session = rows[r].session /\ rows[q].session \in Sessions
         /\ rows[q].ref = "blank" /\ rows[r].ref = "blank")
            => q = r

(* What makes it so: a request that writes or creates holds its session's    *)
(* lock, and one that is to insert a row still has nothing to find.          *)
HoldsLock ==
    \A s \in Callers :
        (Named(s) /\ caller[s].pc \in {"write", "create"}) => lock[SessionOf[s]] = s

NothingToFind ==
    \A s \in Callers :
        (Named(s) /\ At(s, "write") /\ caller[s].row = None)
            => \A r \in RowIds : ~(rows[r].session = SessionOf[s] /\ rows[r].ref = "blank")

(* A session has one topic, whoever needs it first, as long as nothing went  *)
(* wrong and no two copies of its row were held at once.  Requests may be    *)
(* concurrent: the lock and the second read are for them.                    *)
OneTopicPerThread ==
    Calm => \A r \in RowIds \ rushed :
                Cardinality({t \in TopicIds : topics[t].row = r}) <= 1

(* The messages that show a frame. *)
Showing(f) ==
    {m \in MsgIds : \E i \in DOMAIN msgs[m].text : msgs[m].text[i] = f}

Posted == {f \in FrameIds : fate[f] = "posted"}

(* A frame that was posted as a message, or at the head of one, of its own.  *)
Starts(h) == frames[h].reset \/ frames[h].kind = "user"

(* Frame g continues the digest of frame f: of the row's frames that were    *)
(* posted none begins another.                                               *)
Continues(f, g) ==
    /\ frames[f].kind # "user"
    /\ \A h \in Posted \cap (f + 1..g) : frames[h].row = frames[f].row => ~Starts(h)

OneMessagePerDrive(rs, fs) ==
    \A f, g \in Posted \cap fs :
        (f < g /\ frames[f].row = frames[g].row /\ frames[f].row \in rs)
            => \E m, n \in MsgIds :
                   /\ Showing(f) = {m} /\ Showing(g) = {n}
                   /\ msgs[m].topic = msgs[n].topic
                   /\ m <= n
                   /\ m = n <=> Continues(f, g)

(* A drive's steps make up one message, edited as they come, and a reset or  *)
(* a user turn begins another, as long as each frame of the row is done with *)
(* before the next one reads it.                                             *)
PacedDriveIsOneMessage == Calm => OneMessagePerDrive(RowIds \ rushed, FrameIds)

(* A transcript line is shown once, though daemons send lines again over new *)
(* connections and the delivery is repeated when a topic is gone.            *)
LinePostedOnce ==
    \A f, g \in Posted :
        (f # g /\ frames[f].key # NoKey) => Key(f) # Key(g)

(* A user turn whose delivery was tried is shown, in spite of a topic that   *)
(* was deleted: only a failing Telegram, another topic of its session or     *)
(* another delivery of the same line keeps it away.                          *)
UserTurnShown ==
    \A f \in FrameIds :
        (frames[f].kind = "user" /\ fate[f] \in {"failed", "skipped"})
            => \/ trouble["api"] > 0 \/ trouble["gone"] > 1
               \/ \E t \in TopicIds :
                      /\ topics[t].row # frames[f].row
                      /\ rows[topics[t].row].session = rows[frames[f].row].session
               \/ \E g \in FrameIds \ {f} : Key(g) = Key(f)

(* A connection that was closed in order leaves nothing in its queue. *)
ClosedIsDrained ==
    \A f \in FrameIds :
        conn[frames[f].conn].up = "closed" => fate[f] \notin {"coming", "queued"}
=============================================================================
