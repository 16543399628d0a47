------------------------------ MODULE ThreadRows ------------------------------
(* What the host link, the topic delivery and start_session share: the       *)
(* Thread rows with their metadata (backend/apps/threads/models.py), and the *)
(* operator's Telegram forum.                                                *)
(*                                                                           *)
(* A row's metadata is one JSON field.  Every writer saves the whole field,  *)
(* from a Thread object it read earlier; that is what makes the rows         *)
(* interesting.                                                              *)
EXTENDS Integers, Sequences

CONSTANTS
    Sessions,       \* Claude session ids that agents and daemons know
    MaxTrouble      \* bound: how much goes wrong in a behaviour

VARIABLES
    rows,           \* the Thread rows, by id
    topics,         \* the forum topics ever created, by id
    trouble         \* what went wrong so far, by kind

rowVars == <<rows, topics, trouble>>

None == 0

(* telegram_topic_id, telegram_digest_message_id, telegram_digest_text (as   *)
(* the frames shown) and claude_session_started.                             *)
FreshMetadata(started) ==
    [topic |-> None, msg |-> None, text |-> <<>>, started |-> started]

(* ref is external_session_ref: set by a registration, blank for the rows    *)
(* that start_session makes.                                                 *)
NewRow(session, ref, started) ==
    [session |-> session, ref |-> ref, md |-> FreshMetadata(started)]

RowIds   == 1..Len(rows)
TopicIds == 1..Len(topics)

Live(t)         == t \in TopicIds /\ topics[t].live
WithTopic(r)    == Append(topics, [row |-> r, live |-> TRUE])
NewTopicId      == Len(topics) + 1
Saved(r, md)    == [rows EXCEPT ![r].md = md]

(* "api": a Telegram call fails; "gone": the operator deletes a topic;       *)
(* "stop": a process or a task is ended before its time.                     *)
TroubleKinds == {"api", "gone", "stop"}

Total == trouble["api"] + trouble["gone"] + trouble["stop"]
Calm  == Total = 0

GoesWrong(kind) ==
    /\ Total < MaxTrouble
    /\ trouble' = [trouble EXCEPT ![kind] = @ + 1]

(* The answer of one Telegram call. *)
ApiCall(ok) == IF ok THEN UNCHANGED trouble ELSE GoesWrong("api")

RowsInit ==
    /\ rows = <<>>
    /\ topics = <<>>
    /\ trouble = [k \in TroubleKinds |-> 0]

(* The operator deletes a topic in his chat. *)
TopicDeleted(t) ==
    /\ Live(t)
    /\ GoesWrong("gone")
    /\ topics' = [topics EXCEPT ![t].live = FALSE]
    /\ UNCHANGED rows
=============================================================================
