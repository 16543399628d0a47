------------------------- MODULE SessionTopics_proofs -------------------------
(***************************************************************************)
(* start_session and the delivery of turns, for any number of requests,    *)
(* sessions, connections and frames and whatever goes wrong.               *)
(*                                                                         *)
(* One thread per session (IInv) is the argument of the advisory lock.     *)
(* Between the search and the insert a request holds its session's lock    *)
(* (HoldsLock), so nobody else inserts a row of that session, and what the *)
(* search did not find is still not there (NothingToFind).  All other      *)
(* writers of the rows change metadata only, or add a row that is not      *)
(* blank (Evolves).                                                        *)
(*                                                                         *)
(* A closed connection is drained and each line is posted once (LinkInv):  *)
(* where a frame is, and which keys were recorded for it.  What is in the  *)
(* forum and what the rows know of it is TopicInv; the user's turn that is *)
(* shown with its reply is UserInv, and one topic for each thread nobody   *)
(* rushed is CalmInv.                                                      *)
(*                                                                         *)
(* A drive's message: what messages and copies show of a row are posted    *)
(* frames of it (TextInv), the frame at work on a row nobody rushed is its *)
(* last (TurnInv), and such a row names the message that is being edited   *)
(* (DigestInv).                                                            *)
(***************************************************************************)
EXTENDS SessionTopics, SequenceTheorems, FiniteSetTheorems, WellFoundedInduction,
        TLAPS

-----------------------------------------------------------------------------
(* A nonempty set of positions of a sequence has a last one. *)
LEMMA LastPosition ==
    ASSUME NEW n \in Nat, NEW S \in SUBSET (1 .. n), S # {}
    PROVE  \E i \in S : \A j \in S : j <= i
<1> DEFINE T == {n - i : i \in S}
<1>1. T \subseteq Nat /\ T # {}
  <2>1. \A i \in S : n - i \in Nat
    OBVIOUS
  <2> QED BY <2>1
<1>2. \E x \in T : \A y \in T : ~ (<<y, x>> \in OpToRel(<, Nat))
  BY <1>1, NatLessThanWellFounded, WFMin, Zenon
<1>3. PICK x \in T : \A y \in T : ~ (y < x)
  BY <1>1, <1>2 DEF OpToRel
<1>4. PICK i \in S : x = n - i
  OBVIOUS
<1>5. \A j \in S : j <= i
  BY <1>3, <1>4
<1> QED BY <1>5

-----------------------------------------------------------------------------
(* Only the parts of a row that the argument is about are typed. *)
Row(D) == [session : Sessions \cup Callers, ref : Sessions \cup {"blank"}, md : D]

RowsShape   == \E D : rows \in Seq(Row(D))
(* The stages of a request. *)
Pcs == {"find", "write", "bind", "insert", "topic", "create", "done", "failed"}

CallerShape == \E D : caller \in [Callers -> [pc : Pcs, row : D, md : D]]
LockShape   == lock \in [Sessions -> Callers \cup {"free"}]

Shape == RowsShape /\ CallerShape /\ LockShape

IInv == Shape /\ HoldsLock /\ NothingToFind /\ OneThreadPerSession

(* Rows stay what they are, and a new one is not blank. *)
Evolves ==
    /\ RowsShape'
    /\ Len(rows) <= Len(rows')
    /\ \A r \in RowIds : /\ rows'[r].session = rows[r].session
                         /\ rows'[r].ref = rows[r].ref
    /\ \A r \in RowIds' \ RowIds : rows'[r].ref # "blank"

-----------------------------------------------------------------------------
(* Saving metadata changes nothing else. *)
LEMMA SavedEvolves ==
    ASSUME RowsShape, NEW r, NEW md, rows' = Saved(r, md)
    PROVE  Evolves
<1>1. PICK D : rows \in Seq(Row(D))
  BY DEF RowsShape
<1> DEFINE E == D \cup {md}
<1>2. rows \in Seq(Row(E))
  <2>1. Row(D) \subseteq Row(E)
    BY DEF Row
  <2> QED BY <1>1, <2>1, SeqMonotonic
<1>3. CASE r \in 1 .. Len(rows)
  <2> DEFINE e == [rows[r] EXCEPT !.md = md]
  <2>1. rows[r] \in Row(E)
    BY <1>2, <1>3, ElementOfSeq
  <2>2. e \in Row(E) /\ e.session = rows[r].session /\ e.ref = rows[r].ref
    BY <2>1 DEF Row
  <2>3. rows' = [rows EXCEPT ![r] = e]
    BY DEF Saved
  <2> HIDE DEF e
  <2>4. /\ rows' \in Seq(Row(E)) /\ Len(rows') = Len(rows)
        /\ \A j \in 1 .. Len(rows) : rows'[j] = IF j = r THEN e ELSE rows[j]
    BY <1>2, <1>3, <2>2, <2>3, ExceptSeq
  <2> QED BY <1>1, <2>2, <2>4 DEF Evolves, RowsShape, RowIds
<1>4. CASE r \notin 1 .. Len(rows)
  <2>1. rows' = rows
    BY <1>1, <1>4, LenProperties DEF Saved
  <2> QED BY <2>1 DEF Evolves, RowsShape, RowIds
<1> QED BY <1>3, <1>4

(* So does leaving the rows alone. *)
LEMMA SameEvolves ==
    ASSUME RowsShape, rows' = rows
    PROVE  Evolves
BY DEF Evolves, RowsShape, RowIds

(* A registration adds a row that is not blank. *)
LEMMA AppendEvolves ==
    ASSUME RowsShape, NEW s \in Sessions, NEW started, IdsDiffer,
           rows' = Append(rows, NewRow(s, s, started))
    PROVE  Evolves
<1>1. PICK D : rows \in Seq(Row(D))
  BY DEF RowsShape
<1> DEFINE E == D \cup {FreshMetadata(started)}
<1>2. rows \in Seq(Row(E)) /\ NewRow(s, s, started) \in Row(E)
  <2>1. Row(D) \subseteq Row(E)
    BY DEF Row
  <2>2. rows \in Seq(Row(E))
    BY <1>1, <2>1, SeqMonotonic
  <2> QED BY <2>2 DEF Row, NewRow
<1>3. /\ rows' \in Seq(Row(E)) /\ Len(rows) \in Nat /\ Len(rows') = Len(rows) + 1
      /\ \A i \in 1 .. Len(rows) : rows'[i] = rows[i]
      /\ rows'[Len(rows) + 1] = NewRow(s, s, started)
  BY <1>2
<1>4. NewRow(s, s, started).ref # "blank"
  BY DEF NewRow, IdsDiffer
<1> QED BY <1>3, <1>4 DEF Evolves, RowsShape, RowIds

-----------------------------------------------------------------------------
(* A step that leaves the requests alone and lets the rows evolve. *)
LEMMA EvolvesKeeps ==
    ASSUME IInv, Evolves, UNCHANGED startVars
    PROVE  IInv'
<1>1. Len(rows) \in Nat /\ Len(rows') \in Nat
  BY DEF IInv, Shape, RowsShape, Evolves
<1>2. CallerShape' /\ LockShape' /\ HoldsLock'
  BY DEF IInv, Shape, CallerShape, LockShape, HoldsLock, Named, startVars
<1>3. \A r \in RowIds' : rows'[r].ref = "blank" =>
          /\ r \in RowIds /\ rows[r].ref = "blank"
          /\ rows'[r].session = rows[r].session
  BY <1>1 DEF Evolves, RowIds
<1>4. NothingToFind'
  BY <1>3 DEF IInv, NothingToFind, Named, At, startVars
<1>5. OneThreadPerSession'
  BY <1>3 DEF IInv, OneThreadPerSession
<1> QED BY <1>2, <1>4, <1>5 DEF IInv, Shape, Evolves

(* No delivery step touches more than metadata, or adds a blank row. *)
LEMMA DeliveryEvolves ==
    ASSUME RowsShape, IdsDiffer, DeliveryNext
    PROVE  Evolves
<1> USE IdsDiffer
<1>1. CASE Connect
  BY <1>1, SameEvolves DEF Connect, rowVars
<1>2. ASSUME NEW k \in dedup, DedupExpires(k) PROVE Evolves
  BY <1>2, SameEvolves DEF DedupExpires, rowVars
<1>3. ASSUME NEW c \in ConnIds, Receive(c) PROVE Evolves
  BY <1>3, SameEvolves DEF Receive, rowVars
<1>4. ASSUME NEW c \in ConnIds, Ready(c) PROVE Evolves
  <2>1. PICK s \in Sessions :
            LET mine == {r \in RowIds : rows[r].ref = s}
            IN  rows' = IF mine = {} THEN Append(rows, NewRow(s, s, FALSE)) ELSE rows
    BY <1>4 DEF Ready
  <2> QED BY <2>1, AppendEvolves, SameEvolves
<1>5. ASSUME NEW c \in ConnIds, Record(c) PROVE Evolves
  BY <1>5, SameEvolves DEF Record, rowVars
<1>6. ASSUME NEW c \in ConnIds, MarkStarted(c) PROVE Evolves
  BY <1>6, SavedEvolves DEF MarkStarted
<1>7. ASSUME NEW c \in ConnIds, DrainStep(c) PROVE Evolves
  <2>1. CASE Take(c)
    BY <2>1, SameEvolves DEF Take, rowVars
  <2>2. CASE MakeTopic(c)
    BY <2>2, SameEvolves, SavedEvolves DEF MakeTopic, Save
  <2>3. CASE PostUser(c)
    BY <2>3, SavedEvolves DEF PostUser, Save
  <2>4. CASE PostStep(c)
    BY <2>4, SameEvolves, SavedEvolves DEF PostStep, Save
  <2> QED BY <1>7, <2>1, <2>2, <2>3, <2>4 DEF DrainStep
<1>8. ASSUME NEW c \in ConnIds, Disconnect(c) \/ Closed(c) \/ Cancel(c) PROVE Evolves
  BY <1>8, SameEvolves DEF Disconnect, Closed, Cancel, rowVars
<1> QED BY <1>1, <1>2, <1>3, <1>4, <1>5, <1>6, <1>7, <1>8 DEF DeliveryNext

-----------------------------------------------------------------------------
(* The request s goes on to p, knowing the row x with the metadata m. *)
Goes(s, p, x, m) == caller' = [caller EXCEPT ![s] = [pc |-> p, row |-> x, md |-> m]]

(* Whatever a request knows, it is a request. *)
LEMMA GoesShape ==
    ASSUME CallerShape, NEW s \in Callers, NEW p \in Pcs, NEW x, NEW m, Goes(s, p, x, m)
    PROVE  /\ CallerShape'
           /\ caller'[s] = [pc |-> p, row |-> x, md |-> m]
           /\ \A t \in Callers \ {s} : caller'[t] = caller[t]
<1>1. PICK D : caller \in [Callers -> [pc : Pcs, row : D, md : D]]
  BY DEF CallerShape
<1> DEFINE E == D \cup {x, m}
<1>2. caller' \in [Callers -> [pc : Pcs, row : E, md : E]]
  BY <1>1 DEF Goes
<1> QED BY <1>1, <1>2 DEF CallerShape, Goes

(* A change of the program counter alone is such a step. *)
LEMMA PcGoes ==
    ASSUME CallerShape, NEW s \in Callers, NEW p, Step(s, [caller[s] EXCEPT !.pc = p])
    PROVE  Goes(s, p, caller[s].row, caller[s].md)
<1>1. PICK D : caller \in [Callers -> [pc : Pcs, row : D, md : D]]
  BY DEF CallerShape
<1>2. [caller[s] EXCEPT !.pc = p]
          = [pc |-> p, row |-> caller[s].row, md |-> caller[s].md]
  BY <1>1
<1> QED BY <1>2 DEF Goes, Step

(* A step into a state without a lock, that at most gives up its own. *)
LEMMA QuietStep ==
    ASSUME IInv, IdsDiffer, Evolves,
           NEW s \in Callers, NEW p \in Pcs \ {"write", "create"}, NEW x, NEW m,
           Goes(s, p, x, m), Unlock(s) \/ UNCHANGED lock
    PROVE  IInv'
<1>1. /\ CallerShape'
      /\ caller'[s] = [pc |-> p, row |-> x, md |-> m]
      /\ \A t \in Callers \ {s} : caller'[t] = caller[t]
  BY GoesShape DEF IInv, Shape
<1>2. Len(rows) \in Nat /\ Len(rows') \in Nat
  BY DEF IInv, Shape, RowsShape, Evolves
<1>3. LockShape'
  BY DEF IInv, Shape, LockShape, Unlock
<1>4. HoldsLock'
  <2> SUFFICES ASSUME NEW t \in Callers, Named(t), caller'[t].pc \in {"write", "create"}
               PROVE  lock'[SessionOf[t]] = t
    BY DEF HoldsLock, Named
  <2>1. t # s /\ caller'[t] = caller[t]
    BY <1>1
  <2>2. lock[SessionOf[t]] = t /\ SessionOf[t] \in Sessions
    BY <2>1 DEF IInv, HoldsLock, Named, IdsDiffer
  <2> QED BY <2>1, <2>2 DEF Unlock
<1>5. \A r \in RowIds' : rows'[r].ref = "blank" =>
          /\ r \in RowIds /\ rows[r].ref = "blank"
          /\ rows'[r].session = rows[r].session
  BY <1>2 DEF Evolves, RowIds
<1>6. NothingToFind'
  <2> SUFFICES ASSUME NEW t \in Callers, Named(t), caller'[t].pc = "write",
                      caller'[t].row = None
               PROVE  \A r \in RowIds' :
                          ~(rows'[r].session = SessionOf[t] /\ rows'[r].ref = "blank")
    BY DEF NothingToFind, Named, At
  <2>1. caller'[t] = caller[t]
    BY <1>1
  <2> QED BY <1>5, <2>1 DEF IInv, NothingToFind, At
<1>7. OneThreadPerSession'
  BY <1>5 DEF IInv, OneThreadPerSession
<1> QED BY <1>1, <1>3, <1>4, <1>6, <1>7 DEF IInv, Shape, Evolves

(* A step that takes the session's lock and is right about what it found. *)
LEMMA LockedStep ==
    ASSUME IInv, IdsDiffer, rows' = rows,
           NEW s \in Callers, NEW p \in {"write", "create"}, NEW x, NEW m,
           Goes(s, p, x, m), Lock(s),
           (Named(s) /\ p = "write" /\ x = None) =>
               \A r \in RowIds : rows[r].session # SessionOf[s]
    PROVE  IInv'
<1>0. p \in Pcs
  BY DEF Pcs
<1>1. /\ CallerShape'
      /\ caller'[s] = [pc |-> p, row |-> x, md |-> m]
      /\ \A t \in Callers \ {s} : caller'[t] = caller[t]
  BY <1>0, GoesShape DEF IInv, Shape
<1>2. LockShape'
  BY DEF IInv, Shape, LockShape, Lock
<1>3. ASSUME NEW t \in Callers, Named(t), caller'[t].pc \in {"write", "create"}
      PROVE  lock'[SessionOf[t]] = t
  <2>1. SessionOf[t] \in Sessions
    BY <1>3 DEF Named, IdsDiffer
  <2>2. CASE t = s
    BY <1>3, <2>1, <2>2 DEF IInv, Shape, LockShape, Lock
  <2>3. CASE t # s
    <3>1. lock[SessionOf[t]] = t /\ t # "free"
      BY <1>1, <1>3, <2>3 DEF IInv, HoldsLock, IdsDiffer
    <3> QED BY <2>1, <2>3, <3>1 DEF IInv, Shape, LockShape, Lock
  <2> QED BY <2>2, <2>3
<1>4. HoldsLock'
  BY <1>3 DEF HoldsLock, Named
<1>5. NothingToFind'
  <2> SUFFICES ASSUME NEW t \in Callers, Named(t), caller'[t].pc = "write",
                      caller'[t].row = None
               PROVE  \A r \in RowIds :
                          ~(rows[r].session = SessionOf[t] /\ rows[r].ref = "blank")
    BY DEF NothingToFind, Named, At, RowIds
  <2>1. CASE t = s
    BY <1>1, <2>1
  <2>2. CASE t # s
    BY <1>1, <2>2 DEF IInv, NothingToFind, At
  <2> QED BY <2>1, <2>2
<1>6. OneThreadPerSession' /\ RowsShape'
  BY DEF IInv, Shape, OneThreadPerSession, RowsShape, RowIds
<1> QED BY <1>1, <1>2, <1>4, <1>5, <1>6 DEF IInv, Shape

(* The insert: its request holds the lock of its session and saw no row. *)
LEMMA InsertStep ==
    ASSUME IInv, IdsDiffer, NEW s \in Callers, At(s, "write"), caller[s].row = None,
           NEW x, NEW m, Goes(s, "bind", x, m), Unlock(s),
           NEW started, rows' = Append(rows, NewRow(BoundId(s), "blank", started))
    PROVE  IInv'
<1> DEFINE new == NewRow(BoundId(s), "blank", started)
<1>1. /\ CallerShape'
      /\ caller'[s] = [pc |-> "bind", row |-> x, md |-> m]
      /\ \A t \in Callers \ {s} : caller'[t] = caller[t]
  BY GoesShape DEF IInv, Shape, Pcs
<1>2. new.ref = "blank" /\ new.session = BoundId(s)
  BY DEF NewRow
<1>3. PICK D : rows \in Seq(Row(D))
  BY DEF IInv, Shape, RowsShape
<1>4. /\ RowsShape' /\ Len(rows) \in Nat /\ Len(rows') = Len(rows) + 1
      /\ rows'[Len(rows) + 1] = new
      /\ \A r \in RowIds : rows'[r] = rows[r]
  <2> DEFINE E == D \cup {FreshMetadata(started)}
  <2>1. Row(D) \subseteq Row(E)
    BY DEF Row
  <2>2. rows \in Seq(Row(E))
    BY <1>3, <2>1, SeqMonotonic
  <2>3. new \in Row(E)
    BY DEF NewRow, Row, BoundId, Named, IdsDiffer
  <2> HIDE DEF new
  <2>4. rows' \in Seq(Row(E)) /\ Len(rows') = Len(rows) + 1
    BY <2>2, <2>3 DEF new
  <2> QED BY <2>2, <2>3, <2>4 DEF RowsShape, RowIds, new
<1> HIDE DEF new
<1>5. RowIds' = RowIds \cup {Len(rows) + 1}
  BY <1>4 DEF RowIds
<1>6. LockShape'
  BY DEF IInv, Shape, LockShape, Unlock
<1>7. HoldsLock'
  <2> SUFFICES ASSUME NEW t \in Callers, Named(t), caller'[t].pc \in {"write", "create"}
               PROVE  lock'[SessionOf[t]] = t
    BY DEF HoldsLock, Named
  <2>1. t # s /\ caller'[t] = caller[t]
    BY <1>1
  <2>2. lock[SessionOf[t]] = t /\ SessionOf[t] \in Sessions
    BY <2>1 DEF IInv, HoldsLock, Named, IdsDiffer
  <2> QED BY <2>1, <2>2 DEF Unlock
<1>8. NothingToFind'
  <2> SUFFICES ASSUME NEW t \in Callers, Named(t), caller'[t].pc = "write",
                      caller'[t].row = None, NEW r \in RowIds',
                      rows'[r].session = SessionOf[t], rows'[r].ref = "blank"
               PROVE  FALSE
    BY DEF NothingToFind, Named, At
  <2>1. t # s /\ At(t, "write") /\ caller[t].row = None
    BY <1>1 DEF At
  <2>2. r = Len(rows) + 1
    BY <1>4, <1>5, <2>1 DEF IInv, NothingToFind
  <2>3. BoundId(s) = SessionOf[t] /\ SessionOf[t] \in Sessions
    BY <1>2, <1>4, <2>2 DEF Named, IdsDiffer
  <2>4. Named(s) /\ SessionOf[s] = SessionOf[t]
    BY <2>3 DEF BoundId, IdsDiffer
  <2> QED BY <2>1, <2>4 DEF IInv, HoldsLock, At
<1>9. \A r \in RowIds :
          ~(/\ rows[r].session = BoundId(s) /\ BoundId(s) \in Sessions
            /\ rows[r].ref = "blank")
  <2>1. BoundId(s) \in Sessions => Named(s) /\ BoundId(s) = SessionOf[s]
    BY DEF BoundId, IdsDiffer
  <2> QED BY <2>1 DEF IInv, NothingToFind
<1>10. OneThreadPerSession'
  <2> SUFFICES ASSUME NEW q \in RowIds', NEW r \in RowIds',
                      rows'[q].session = rows'[r].session, rows'[q].session \in Sessions,
                      rows'[q].ref = "blank", rows'[r].ref = "blank"
               PROVE  q = r
    BY DEF OneThreadPerSession
  <2>1. CASE q \in RowIds /\ r \in RowIds
    BY <1>4, <2>1 DEF IInv, OneThreadPerSession
  <2>2. CASE q = Len(rows) + 1 /\ r \in RowIds
    BY <1>2, <1>4, <1>9, <2>2
  <2>3. CASE r = Len(rows) + 1 /\ q \in RowIds
    BY <1>2, <1>4, <1>9, <2>3
  <2> QED BY <1>5, <2>1, <2>2, <2>3
<1> QED BY <1>1, <1>4, <1>6, <1>7, <1>8, <1>10 DEF IInv, Shape

(* What the search returns: None only if the session has no row. *)
LEMMA ExistingFinds ==
    ASSUME RowsShape, NEW session, Existing(session) = None
    PROVE  \A r \in RowIds : rows[r].session # session
<1> DEFINE found == {r \in RowIds : rows[r].session = session}
<1>1. SUFFICES ASSUME found # {} PROVE FALSE
  OBVIOUS
<1>2. Len(rows) \in Nat
  BY DEF RowsShape
<1>3. \E r \in found : \A q \in found : q <= r
  BY <1>1, <1>2, LastPosition DEF RowIds
<1>4. Existing(session) \in found
  BY <1>1, <1>3 DEF Existing
<1> QED BY <1>2, <1>4 DEF RowIds, None

-----------------------------------------------------------------------------
(* Every step of start_session keeps the invariant. *)
LEMMA StartKeeps ==
    ASSUME IInv, IdsDiffer, StartNext
    PROVE  IInv'
<1> USE IdsDiffer
<1>0. PICK s \in Callers : CallerStep(s) \/ Abort(s)
  BY DEF StartNext
<1>a. RowsShape /\ CallerShape
  BY DEF IInv, Shape
<1>1. CASE FindThread(s)
  <2> DEFINE r == IF Named(s) THEN Existing(SessionOf[s]) ELSE None
             md == IF r = None THEN FreshMetadata(Named(s)) ELSE rows[r].md
  <2>1. Goes(s, "write", r, md) /\ Lock(s) /\ rows' = rows
    BY <1>1 DEF FindThread, Goes, Step, rowVars
  <2>2. Named(s) /\ r = None => \A q \in RowIds : rows[q].session # SessionOf[s]
    BY <1>a, ExistingFinds
  <2> QED BY <2>1, <2>2, LockedStep
<1>2. CASE WriteThread(s)
  <2> DEFINE c == caller[s]
             r == IF c.row = None THEN Len(rows) + 1 ELSE c.row
  <2>1. Goes(s, "bind", r, FreshMetadata(Named(s))) /\ Unlock(s) /\ At(s, "write")
    BY <1>2 DEF WriteThread, Goes, Step
  <2>2. CASE c.row = None
    <3>1. rows' = Append(rows, NewRow(BoundId(s), "blank", Named(s)))
      BY <1>2, <2>2 DEF WriteThread
    <3> QED BY <2>1, <2>2, <3>1, InsertStep
  <2>3. CASE c.row # None
    <3>1. rows' = Saved(r, c.md)
      BY <1>2, <2>3 DEF WriteThread
    <3>2. Evolves
      BY <1>a, <3>1, SavedEvolves
    <3> QED BY <2>1, <3>2, QuietStep DEF Pcs
  <2> QED BY <2>2, <2>3
<1>3. CASE BindConnector(s)
  <2>1. Evolves /\ lock' = lock
    BY <1>3, <1>a, SameEvolves DEF BindConnector, rowVars
  <2>2. PICK p \in {"insert", "topic"} : Step(s, [caller[s] EXCEPT !.pc = p])
    BY <1>3 DEF BindConnector
  <2>3. Goes(s, p, caller[s].row, caller[s].md) /\ p \in Pcs \ {"write", "create"}
    BY <1>a, <2>2, PcGoes DEF Pcs
  <2> QED BY <2>1, <2>3, QuietStep DEF Pcs
<1>4. CASE InsertConnector(s)
  <2>1. Evolves /\ lock' = lock
    BY <1>4, <1>a, SameEvolves DEF InsertConnector, rowVars
  <2>2. PICK p \in {"failed", "topic"} : Step(s, [caller[s] EXCEPT !.pc = p])
    BY <1>4 DEF InsertConnector
  <2>3. Goes(s, p, caller[s].row, caller[s].md) /\ p \in Pcs \ {"write", "create"}
    BY <1>a, <2>2, PcGoes DEF Pcs
  <2> QED BY <2>1, <2>3, QuietStep DEF Pcs
<1>5. CASE CheckTopic(s)
  <2> DEFINE md == ReadAgain(s)
  <2>1. Evolves /\ rows' = rows
    BY <1>5, <1>a, SameEvolves DEF CheckTopic, rowVars
  <2>2. CASE md.topic # None
    <3>1. Step(s, [caller[s] EXCEPT !.pc = "done"]) /\ lock' = lock
      BY <1>5, <2>2 DEF CheckTopic
    <3>2. Goes(s, "done", caller[s].row, caller[s].md)
      BY <1>a, <3>1, PcGoes
    <3> QED BY <2>1, <3>1, <3>2, QuietStep DEF Pcs
  <2>3. CASE md.topic = None
    <3>1. Goes(s, "create", caller[s].row, md) /\ Lock(s)
      BY <1>5, <2>3 DEF CheckTopic, Step, Goes
    <3> QED BY <2>1, <3>1, LockedStep
  <2> QED BY <2>2, <2>3
<1>6. CASE CreateTopic(s)
  <2>1. Evolves /\ Unlock(s)
    BY <1>6, <1>a, SameEvolves, SavedEvolves DEF CreateTopic
  <2>2. Goes(s, "done", caller[s].row, FreshMetadata(Named(s)))
    BY <1>6 DEF CreateTopic, Step, Goes
  <2> QED BY <2>1, <2>2, QuietStep DEF Pcs
<1>7. CASE Abort(s)
  <2>1. Evolves /\ Unlock(s) /\ Step(s, [caller[s] EXCEPT !.pc = "failed"])
    BY <1>7, <1>a, SameEvolves DEF Abort
  <2>2. Goes(s, "failed", caller[s].row, caller[s].md)
    BY <1>a, <2>1, PcGoes
  <2> QED BY <2>1, <2>2, QuietStep DEF Pcs
<1> QED BY <1>0, <1>1, <1>2, <1>3, <1>4, <1>5, <1>6, <1>7 DEF CallerStep

(* The invariant holds at the start. *)
LEMMA InitIInv ==
    ASSUME Init, IdsDiffer
    PROVE  IInv
<1>1. rows = <<>> /\ Len(rows) = 0 /\ RowIds = {}
  BY DEF Init, RowsInit, RowIds
<1>2. RowsShape
  <2>1. rows \in Seq(Row({}))
    BY <1>1
  <2> QED BY <2>1 DEF RowsShape
<1>3. \A s \in Callers : caller[s].pc = "find"
  BY DEF Init, StartInit
<1>4. CallerShape
  <2>1. caller \in [Callers -> [pc : Pcs, row : {None, FreshMetadata(FALSE)},
                                md : {None, FreshMetadata(FALSE)}]]
    BY DEF Init, StartInit, Pcs
  <2> QED BY <2>1 DEF CallerShape
<1>5. LockShape
  BY DEF Init, StartInit, LockShape
<1>6. HoldsLock /\ NothingToFind /\ OneThreadPerSession
  BY <1>1, <1>3 DEF HoldsLock, NothingToFind, At, OneThreadPerSession
<1> QED BY <1>2, <1>4, <1>5, <1>6 DEF IInv, Shape

(* Every step of the composition keeps it. *)
LEMMA NextIInv ==
    ASSUME IInv, IdsDiffer, [Next]_vars
    PROVE  IInv'
<1>a. RowsShape
  BY DEF IInv, Shape
<1>1. CASE StartNext
  BY <1>1, StartKeeps
<1>2. CASE DeliveryNext /\ UNCHANGED startVars
  BY <1>2, <1>a, DeliveryEvolves, EvolvesKeeps
<1>3. ASSUME NEW t \in TopicIds, TopicDeleted(t), UNCHANGED startVars PROVE IInv'
  BY <1>3, <1>a, SameEvolves, EvolvesKeeps DEF TopicDeleted
<1>4. CASE UNCHANGED vars
  BY <1>4, <1>a, SameEvolves, EvolvesKeeps DEF vars, rowVars
<1> QED BY <1>1, <1>2, <1>3, <1>4 DEF Next

(* The invariant holds throughout. *)
LEMMA SpecIInv == Spec => []IInv
<1>1. Init => IInv
  BY InitIInv, IdsDiffer
<1>2. IInv /\ [Next]_vars => IInv'
  BY NextIInv, IdsDiffer
<1> QED BY <1>1, <1>2, PTL DEF Spec

(* However many requests name a session at once, start_session makes one     *)
(* Thread for it: the search and the insert in start_session hold the        *)
(* session's advisory lock, and a lock of which the holder died is free only *)
(* once its transaction is undone.                                           *)
THEOREM SpecOneThreadPerSession == Spec => []OneThreadPerSession
<1>1. IInv => OneThreadPerSession
  BY DEF IInv
<1> QED BY <1>1, SpecIInv, PTL

-----------------------------------------------------------------------------
(* The host link.  A frame is in one place at a time: in the hands of its    *)
(* connection's receive loop, in its queue, with its drainer, or done with;  *)
(* and the sentinel is the last thing a queue holds.                         *)

FrameSet == [kind : {"ready", "reply", "user", "assistant"}, row : Nat,
             key : Keys \cup {NoKey}, reset : BOOLEAN, conn : Nat]
ConnSet  == [up : {"up", "closing", "closed"},
             rx : [f : Nat, at : {"idle", "record", "mark"}],
             queue : Seq(Nat),
             drain : [f : Nat, at : {"get", "create", "post", "off"}, retried : BOOLEAN]]

(* What becomes of a frame, and what of one that was not repeated.           *)
Taken    == {"queued", "dropped", "skipped", "posted", "failed"}
FateSet  == Taken \cup {"coming", "repeated", "lost"}

LinkShape ==
    /\ frames \in Seq(FrameSet) /\ conn \in Seq(ConnSet) /\ fate \in Seq(FateSet)
    /\ Len(fate) = Len(frames)

RxOk(c) ==
    LET x == conn[c].rx
    IN  /\ x.at = "idle" <=> x.f = None
        /\ x.at # "idle" => x.f \in FrameIds /\ frames[x.f].conn = c
        /\ x.at = "record" => fate[x.f] = "coming"

QueueOk(c) ==
    LET q == conn[c].queue
    IN  /\ \A i \in 1 .. Len(q) : q[i] # Stop =>
              q[i] \in FrameIds /\ frames[q[i]].conn = c /\ fate[q[i]] = "queued"
        /\ \A i, j \in 1 .. Len(q) : q[i] = q[j] => i = j

DrainOk(c) ==
    LET d == conn[c].drain
        q == conn[c].queue
    IN  /\ d.at \in {"get", "off"} <=> d.f = None
        /\ d.f # None => /\ d.f \in FrameIds /\ frames[d.f].conn = c
                         /\ fate[d.f] = "queued"
                         /\ \A i \in 1 .. Len(q) : q[i] # d.f

EndOk(c) ==
    LET x == conn[c]
        q == conn[c].queue
    IN  /\ x.up = "up" => x.drain.at # "off" /\ \A i \in 1 .. Len(q) : q[i] # Stop
        /\ x.up # "up" => x.rx.f = None
        /\ x.up = "closing" /\ x.drain.at # "off" => q # <<>> /\ q[Len(q)] = Stop
        /\ x.drain.at = "off" => q = <<>>
        /\ x.up = "closed" => x.drain.at = "off"

ConnOk(c) == RxOk(c) /\ QueueOk(c) /\ DrainOk(c) /\ EndOk(c)

(* A frame that is not done with is where its fate says. *)
Placed(f) ==
    LET c == frames[f].conn
    IN  /\ c \in ConnIds
        /\ fate[f] = "coming" => conn[c].rx.f = f /\ conn[c].rx.at = "record"
        /\ fate[f] = "queued" =>
              \/ conn[c].drain.f = f
              \/ \E i \in 1 .. Len(conn[c].queue) : conn[c].queue[i] = f

(* record_turn let each line of a row through once. *)
LineTaken(f) == frames[f].key # NoKey /\ fate[f] \in Taken

TakenOnce ==
    /\ \A f \in FrameIds : LineTaken(f) => Key(f) \in recorded
    /\ \A f, g \in FrameIds : (LineTaken(f) /\ LineTaken(g) /\ f # g) => Key(f) # Key(g)

LinkInv ==
    /\ LinkShape
    /\ \A c \in ConnIds : ConnOk(c)
    /\ \A f \in FrameIds : Placed(f)
    /\ TakenOnce

-----------------------------------------------------------------------------
(* What put_nowait does with a queue. *)
LEMMA PutQueue ==
    ASSUME NEW q \in Seq(Nat), NEW x \in Nat, NEW k \in {0, 1},
           k = IF Len(q) < QueueMax THEN 0 ELSE 1
    PROVE  /\ Put(q, x) \in Seq(Nat) /\ Len(q) \in Nat /\ Len(q) >= k
           /\ Len(Put(q, x)) = Len(q) + 1 - k
           /\ \A i \in 1 .. Len(q) - k : Put(q, x)[i] = q[i + k]
           /\ Put(q, x)[Len(q) + 1 - k] = x
           /\ Evicted(q) = IF k = 0 THEN {} ELSE {q[1]}
<1>1. Len(q) \in Nat
  OBVIOUS
<1>2. CASE k = 0
  <2>1. Len(q) < QueueMax
    BY <1>2
  <2>2. Put(q, x) = Append(q, x) /\ Evicted(q) = {}
    BY <2>1 DEF Put, Evicted
  <2> QED BY <1>1, <1>2, <2>2
<1>3. CASE k = 1
  <2>1. ~(Len(q) < QueueMax) /\ Len(q) >= 1
    BY <1>1, <1>3, TopicDeliveryAssumption
  <2>2. Put(q, x) = Append(Tail(q), x) /\ Evicted(q) = {Head(q)}
    BY <2>1 DEF Put, Evicted
  <2>3. /\ Tail(q) \in Seq(Nat) /\ Len(Tail(q)) = Len(q) - 1 /\ Head(q) = q[1]
        /\ \A i \in 1 .. Len(q) - 1 : Tail(q)[i] = q[i + 1]
    BY <2>1
  <2>4. /\ Append(Tail(q), x) \in Seq(Nat) /\ Len(Append(Tail(q), x)) = Len(q)
        /\ Append(Tail(q), x)[Len(q)] = x
        /\ \A i \in 1 .. Len(q) - 1 : Append(Tail(q), x)[i] = Tail(q)[i]
    BY <1>1, <2>3
  <2> QED BY <1>1, <1>3, <2>1, <2>2, <2>3, <2>4
<1> QED BY <1>2, <1>3

(* The queue without its head. *)
LEMMA TailQueue ==
    ASSUME NEW q \in Seq(Nat), q # <<>>
    PROVE  /\ Tail(q) \in Seq(Nat) /\ Len(q) \in Nat \ {0} /\ Len(Tail(q)) = Len(q) - 1
           /\ Head(q) = q[1] /\ Head(q) \in Nat
           /\ \A i \in 1 .. Len(q) - 1 : Tail(q)[i] = q[i + 1]
OBVIOUS

(* What becomes of frames. *)
LEMMA FatesShape ==
    ASSUME LinkShape, NEW fs, NEW how \in FateSet
    PROVE  /\ Fates(fs, how) \in Seq(FateSet) /\ Len(Fates(fs, how)) = Len(fate)
           /\ \A f \in FrameIds : Fates(fs, how)[f] = IF f \in fs THEN how ELSE fate[f]
<1> DEFINE new == Fates(fs, how)
<1>1. Len(fate) \in Nat /\ DOMAIN fate = 1 .. Len(fate) /\ Len(fate) = Len(frames)
      /\ \A i \in 1 .. Len(fate) : fate[i] \in FateSet
  BY DEF LinkShape
<1>2. new = [f \in 1 .. Len(fate) |-> IF f \in fs THEN how ELSE fate[f]]
  BY <1>1 DEF Fates
<1>3. new \in [1 .. Len(fate) -> FateSet]
  BY <1>1, <1>2
<1>4. new \in Seq(FateSet) /\ Len(new) = Len(fate)
  BY <1>1, <1>3, SeqDef
<1> QED BY <1>1, <1>2, <1>4 DEF FrameIds

(* Only connection c and its frames take part in a step.                     *)
LEMMA LocalStep ==
    ASSUME LinkInv, NEW c \in ConnIds, NEW x \in ConnSet, conn' = [conn EXCEPT ![c] = x],
           LinkShape', Len(frames) <= Len(frames'),
           \A f \in FrameIds : /\ frames'[f] = frames[f]
                               /\ frames[f].conn # c => fate'[f] = fate[f],
           \A f \in FrameIds' \ FrameIds : frames'[f].conn = c,
           ConnOk(c)', \A f \in FrameIds' : frames'[f].conn = c => Placed(f)',
           TakenOnce'
    PROVE  LinkInv'
<1>1. ConnIds' = ConnIds /\ \A d \in ConnIds : conn'[d] = IF d = c THEN x ELSE conn[d]
  BY DEF LinkInv, LinkShape, ConnIds
<1>2. FrameIds \subseteq FrameIds'
  BY DEF LinkInv, LinkShape, FrameIds
<1>3. ASSUME NEW d \in ConnIds, d # c PROVE ConnOk(d)'
  <2>1. conn'[d] = conn[d] /\ ConnOk(d)
    BY <1>1, <1>3 DEF LinkInv
  <2>2. \A f \in FrameIds : frames[f].conn = d =>
            f \in FrameIds' /\ frames'[f] = frames[f] /\ fate'[f] = fate[f]
    BY <1>2, <1>3
  <2>3. RxOk(d)'
    BY <2>1, <2>2 DEF ConnOk, RxOk
  <2>4. QueueOk(d)'
    BY <2>1, <2>2 DEF ConnOk, QueueOk
  <2>5. DrainOk(d)'
    BY <2>1, <2>2 DEF ConnOk, DrainOk
  <2>6. EndOk(d)'
    BY <2>1 DEF ConnOk, EndOk
  <2> QED BY <2>3, <2>4, <2>5, <2>6 DEF ConnOk
<1>4. ASSUME NEW f \in FrameIds', frames'[f].conn # c PROVE Placed(f)'
  <2>1. f \in FrameIds /\ frames'[f] = frames[f] /\ fate'[f] = fate[f] /\ Placed(f)
    BY <1>4 DEF LinkInv
  <2>2. frames[f].conn \in ConnIds /\ conn'[frames[f].conn] = conn[frames[f].conn]
    BY <1>1, <1>4, <2>1 DEF Placed
  <2> QED BY <1>1, <2>1, <2>2 DEF Placed
<1> QED BY <1>1, <1>3, <1>4 DEF LinkInv

(* A line that was let through stays so, and no other is let through. *)
LEMMA TakenKept ==
    ASSUME LinkShape, LinkShape', TakenOnce, recorded' = recorded,
           Len(frames) <= Len(frames'),
           \A f \in FrameIds : /\ frames'[f] = frames[f]
                               /\ fate'[f] \in Taken => fate[f] \in Taken,
           \A f \in FrameIds' \ FrameIds : ~LineTaken(f)'
    PROVE  TakenOnce'
<1>1. \A f \in FrameIds' : LineTaken(f)' => /\ f \in FrameIds /\ LineTaken(f)
                                            /\ Key(f)' = Key(f)
  BY DEF LineTaken, Key
<1>2. ASSUME NEW f \in FrameIds', LineTaken(f)' PROVE Key(f)' \in recorded'
  BY <1>1, <1>2 DEF TakenOnce
<1>3. ASSUME NEW f \in FrameIds', NEW g \in FrameIds', LineTaken(f)', LineTaken(g)', f # g
      PROVE  Key(f)' # Key(g)'
  BY <1>1, <1>3 DEF TakenOnce
<1> QED BY <1>2, <1>3 DEF TakenOnce

-----------------------------------------------------------------------------
(* The steps of a connection, one by one. *)
LEMMA LinkSame ==
    ASSUME LinkInv, UNCHANGED <<frames, conn, fate, recorded>>
    PROVE  LinkInv'
<1>1. LinkShape' /\ ConnIds' = ConnIds /\ FrameIds' = FrameIds
  BY DEF LinkInv, LinkShape, ConnIds, FrameIds
<1>2. \A c \in ConnIds : ConnOk(c)'
  BY <1>1 DEF LinkInv, ConnOk, RxOk, QueueOk, DrainOk, EndOk
<1>3. \A f \in FrameIds : Placed(f)'
  BY <1>1 DEF LinkInv, Placed
<1>4. TakenOnce'
  BY <1>1 DEF LinkInv, TakenOnce, LineTaken, Key
<1> QED BY <1>1, <1>2, <1>3, <1>4 DEF LinkInv

LEMMA LinkConnect ==
    ASSUME LinkInv, Connect
    PROVE  LinkInv'
<1>1. UNCHANGED <<frames, fate, recorded>> /\ conn' = Append(conn, NewConn)
  BY DEF Connect
<1>2. NewConn \in ConnSet
  BY DEF NewConn, ConnSet, None
<1>3. PICK x : x = NewConn
  OBVIOUS
<1>4. /\ x.up = "up" /\ x.rx.at = "idle" /\ x.rx.f = None /\ x.queue = <<>>
      /\ x.drain.f = None /\ x.drain.at = "get"
  BY <1>3 DEF NewConn
<1>5. /\ conn' \in Seq(ConnSet) /\ Len(conn) \in Nat /\ Len(conn') = Len(conn) + 1
      /\ conn'[Len(conn) + 1] = x /\ \A d \in ConnIds : conn'[d] = conn[d]
  BY <1>1, <1>2, <1>3 DEF LinkInv, LinkShape, ConnIds
<1>6. LinkShape' /\ FrameIds' = FrameIds /\ ConnIds' = ConnIds \cup {Len(conn) + 1}
  BY <1>1, <1>5 DEF LinkInv, LinkShape, ConnIds, FrameIds
<1>7. ASSUME NEW d \in ConnIds' PROVE ConnOk(d)'
  <2>1. CASE d \in ConnIds
    <3>1. conn'[d] = conn[d] /\ ConnOk(d)
      BY <1>5, <2>1 DEF LinkInv
    <3> QED BY <1>1, <1>6, <3>1 DEF ConnOk, RxOk, QueueOk, DrainOk, EndOk
  <2>2. CASE d = Len(conn) + 1
    <3>1. conn'[d] = x
      BY <1>5, <2>2
    <3>2. Len(<<>>) = 0
      OBVIOUS
    <3> QED BY <1>4, <3>1, <3>2 DEF ConnOk, RxOk, QueueOk, DrainOk, EndOk
  <2> QED BY <1>6, <2>1, <2>2
<1>8. ASSUME NEW f \in FrameIds PROVE Placed(f)'
  <2>1. Placed(f) /\ conn'[frames[f].conn] = conn[frames[f].conn]
    BY <1>5 DEF LinkInv, Placed
  <2> QED BY <1>1, <1>6, <2>1 DEF Placed
<1>9. TakenOnce'
  BY <1>1, <1>6 DEF LinkInv, TakenOnce, LineTaken, Key
<1> QED BY <1>6, <1>7, <1>8, <1>9 DEF LinkInv

(* A connection's parts. *)
LEMMA ConnParts ==
    ASSUME LinkInv, NEW c \in ConnIds
    PROVE  /\ conn[c] \in ConnSet /\ ConnOk(c)
           /\ conn[c].queue \in Seq(Nat) /\ Len(conn[c].queue) \in Nat
           /\ conn[c].rx.f \in Nat /\ conn[c].drain.f \in Nat
           /\ Len(frames) \in Nat /\ Len(fate) = Len(frames)
           /\ FrameIds = 1 .. Len(frames)
<1>1. conn[c] \in ConnSet /\ Len(frames) \in Nat
  BY DEF LinkInv, LinkShape, ConnIds
<1> QED BY <1>1 DEF LinkInv, LinkShape, ConnSet, FrameIds

LEMMA LinkReceive ==
    ASSUME IInv, LinkInv, NEW c \in ConnIds, Receive(c)
    PROVE  LinkInv'
<1> DEFINE f == Len(frames) + 1
<1>0. /\ conn[c] \in ConnSet /\ ConnOk(c)
      /\ conn[c].queue \in Seq(Nat) /\ Len(conn[c].queue) \in Nat
      /\ conn[c].rx.f \in Nat /\ conn[c].drain.f \in Nat
      /\ Len(frames) \in Nat /\ Len(fate) = Len(frames)
      /\ FrameIds = 1 .. Len(frames)
  BY ConnParts
<1>1. PICK e \in FrameSet : e.conn = c /\ frames' = Append(frames, e)
  <2>1. PICK r \in RowIds, kind \in {"reply", "user", "assistant"},
             key \in Keys \cup {NoKey}, reset \in BOOLEAN :
            frames' = Append(frames, [kind |-> kind, row |-> r, key |-> key,
                                      reset |-> reset, conn |-> c])
    BY DEF Receive
  <2>2. PICK e : e = [kind |-> kind, row |-> r, key |-> key,
                      reset |-> reset, conn |-> c]
    OBVIOUS
  <2>3. r \in Nat /\ c \in Nat
    BY DEF IInv, Shape, RowsShape, RowIds, ConnIds, LinkInv, LinkShape
  <2>4. e \in FrameSet /\ e.conn = c
    BY <2>2, <2>3 DEF FrameSet
  <2> QED BY <2>1, <2>2, <2>4
<1>2. PICK x : x = [conn[c] EXCEPT !.rx = [f |-> f, at |-> "record"]]
  OBVIOUS
<1>3. /\ fate' = Append(fate, "coming") /\ conn' = [conn EXCEPT ![c] = x]
      /\ recorded' = recorded /\ conn[c].up = "up" /\ conn[c].rx.f = None
  BY <1>2 DEF Receive, Conn
<1>4. /\ x \in ConnSet /\ x.up = "up" /\ x.queue = conn[c].queue
      /\ x.drain = conn[c].drain /\ x.rx.f = f /\ x.rx.at = "record"
  <2>1. PICK y : y = [f |-> f, at |-> "record"]
    OBVIOUS
  <2>2. /\ y \in [f : Nat, at : {"idle", "record", "mark"}]
        /\ y.f = f /\ y.at = "record"
    BY <1>0, <2>1
  <2>3. x = [conn[c] EXCEPT !.rx = y]
    BY <1>2, <2>1
  <2> HIDE DEF f
  <2> QED BY <1>0, <1>3, <2>2, <2>3 DEF ConnSet
<1>5. /\ frames' \in Seq(FrameSet) /\ Len(frames') = f /\ frames'[f] = e
      /\ fate' \in Seq(FateSet) /\ Len(fate') = f /\ fate'[f] = "coming"
      /\ \A g \in FrameIds : frames'[g] = frames[g] /\ fate'[g] = fate[g]
  BY <1>0, <1>1, <1>3 DEF LinkInv, LinkShape, FateSet
<1>6. /\ conn' \in Seq(ConnSet) /\ Len(conn') = Len(conn) /\ conn'[c] = x
      /\ f \in Nat \ {0} /\ f \notin FrameIds
  BY <1>0, <1>3, <1>4 DEF LinkInv, LinkShape, ConnIds
<1> HIDE DEF f
<1>7. LinkShape' /\ FrameIds' = FrameIds \cup {f} /\ ConnIds' = ConnIds
  BY <1>0, <1>5, <1>6 DEF LinkShape, FrameIds, ConnIds, f
<1>8. ConnOk(c)'
  <2>1. RxOk(c)'
    BY <1>1, <1>4, <1>5, <1>6, <1>7 DEF RxOk, None
  <2>2. QueueOk(c)'
    <3>1. conn'[c].queue = conn[c].queue /\ QueueOk(c)
      BY <1>0, <1>4, <1>6 DEF ConnOk
    <3> QED BY <1>5, <1>7, <3>1 DEF QueueOk
  <2>3. DrainOk(c)'
    BY <1>0, <1>4, <1>5, <1>6, <1>7 DEF ConnOk, DrainOk
  <2>4. EndOk(c)'
    BY <1>0, <1>3, <1>4, <1>6 DEF ConnOk, EndOk
  <2> QED BY <2>1, <2>2, <2>3, <2>4 DEF ConnOk
<1>9. ASSUME NEW g \in FrameIds', frames'[g].conn = c PROVE Placed(g)'
  <2>1. CASE g = f
    BY <1>1, <1>4, <1>5, <1>6, <1>7, <2>1 DEF Placed
  <2>2. CASE g \in FrameIds
    <3>1. Placed(g) /\ frames[g].conn = c /\ fate'[g] = fate[g]
      BY <1>5, <1>9, <2>2 DEF LinkInv
    <3>2. fate[g] # "coming"
      <4>1. g # None
        BY <1>0, <2>2 DEF None
      <4> QED BY <1>3, <3>1, <4>1 DEF Placed
    <3> QED BY <1>4, <1>5, <1>6, <1>7, <1>9, <3>1, <3>2 DEF Placed
  <2> QED BY <1>7, <2>1, <2>2
<1>10. TakenOnce'
  <2>1. \A g \in FrameIds' \ FrameIds : ~LineTaken(g)'
    BY <1>5, <1>7 DEF LineTaken, Taken
  <2>2. Len(frames) <= Len(frames')
    BY <1>0, <1>5 DEF f
  <2> QED BY <1>3, <1>5, <1>7, <2>1, <2>2, TakenKept DEF LinkInv
<1>11. Len(frames) <= Len(frames') /\ \A g \in FrameIds' \ FrameIds : frames'[g].conn = c
  BY <1>0, <1>1, <1>5, <1>7 DEF f
<1> QED BY <1>3, <1>4, <1>5, <1>7, <1>8, <1>9, <1>10, <1>11, LocalStep

(* What is evicted from the queue of a connection that is up. *)
LEMMA EvictedOk ==
    ASSUME LinkInv, NEW c \in ConnIds, conn[c].up = "up", NEW g \in Evicted(conn[c].queue)
    PROVE  g \in FrameIds /\ frames[g].conn = c /\ fate[g] = "queued"
<1>0. conn[c].queue \in Seq(Nat) /\ ConnOk(c)
  BY ConnParts
<1>1. PICK k \in {0, 1} : k = IF Len(conn[c].queue) < QueueMax THEN 0 ELSE 1
  OBVIOUS
<1>2. /\ Len(conn[c].queue) \in Nat /\ Len(conn[c].queue) >= k
      /\ Evicted(conn[c].queue) = IF k = 0 THEN {} ELSE {conn[c].queue[1]}
  BY <1>0, <1>1, PutQueue
<1>3. k = 1 /\ g = conn[c].queue[1] /\ 1 \in 1 .. Len(conn[c].queue)
  BY <1>2
<1> QED BY <1>0, <1>3 DEF ConnOk, QueueOk, EndOk

(* Something is put into the queue of a connection that is up: a frame that  *)
(* was neither there nor with the drainer, or the sentinel.                  *)
LEMMA PutOk ==
    ASSUME LinkInv, NEW c \in ConnIds, conn[c].up = "up", NEW f \in Nat,
           conn'[c].queue = Put(conn[c].queue, f), conn'[c].drain = conn[c].drain,
           \A i \in 1 .. Len(conn[c].queue) : conn[c].queue[i] # f,
           f # Stop => /\ f \in FrameIds' /\ frames'[f].conn = c /\ fate'[f] = "queued"
                       /\ f # conn[c].drain.f,
           \A g \in FrameIds : /\ g \in FrameIds' /\ frames'[g].conn = frames[g].conn
                               /\ g # f => fate'[g] = IF g \in Evicted(conn[c].queue)
                                                      THEN "dropped" ELSE fate[g]
    PROVE  /\ QueueOk(c)' /\ DrainOk(c)'
           /\ LET p == conn'[c].queue
              IN  /\ p \in Seq(Nat) /\ Len(p) \in Nat \ {0} /\ p[Len(p)] = f
                  /\ \A i \in 1 .. Len(p) - 1 : p[i] # Stop
           /\ \A g \in FrameIds : (frames[g].conn = c /\ g # f /\ fate'[g] = "queued") =>
                  \/ conn'[c].drain.f = g
                  \/ \E i \in 1 .. Len(conn'[c].queue) : conn'[c].queue[i] = g
<1> DEFINE k == IF Len(conn[c].queue) < QueueMax THEN 0 ELSE 1
<1>0. /\ ConnOk(c) /\ conn[c].queue \in Seq(Nat) /\ FrameIds = 1 .. Len(frames)
      /\ conn[c].drain.f \in Nat /\ Len(frames) \in Nat
  BY ConnParts
<1>1. PICK q : q = conn[c].queue
  OBVIOUS
<1>2. PICK p : p = Put(q, f)
  OBVIOUS
<1>3. PICK n \in {0, 1} : n = k
  OBVIOUS
<1>4. /\ p \in Seq(Nat) /\ Len(q) \in Nat /\ Len(q) >= n /\ Len(p) = Len(q) + 1 - n
      /\ \A i \in 1 .. Len(q) - n : p[i] = q[i + n]
      /\ p[Len(q) + 1 - n] = f
      /\ Evicted(q) = IF n = 0 THEN {} ELSE {q[1]}
  <2>1. n = IF Len(q) < QueueMax THEN 0 ELSE 1
    BY <1>1, <1>3
  <2>2. q \in Seq(Nat)
    BY <1>0, <1>1
  <2> HIDE DEF k
  <2>3. /\ Put(q, f) \in Seq(Nat) /\ Len(q) \in Nat /\ Len(q) >= n
        /\ Len(Put(q, f)) = Len(q) + 1 - n
        /\ \A i \in 1 .. Len(q) - n : Put(q, f)[i] = q[i + n]
        /\ Put(q, f)[Len(q) + 1 - n] = f
        /\ Evicted(q) = IF n = 0 THEN {} ELSE {q[1]}
    BY <2>1, <2>2, PutQueue, ZenonT(60)
  <2> QED BY <1>2, <2>3
<1> HIDE DEF k
<1>5. /\ \A i \in 1 .. Len(q) : q[i] # Stop /\ q[i] # f
      /\ \A i \in 1 .. Len(q) :
            q[i] \in FrameIds /\ frames[q[i]].conn = c /\ fate[q[i]] = "queued"
      /\ \A i, j \in 1 .. Len(q) : q[i] = q[j] => i = j
  BY <1>0, <1>1 DEF ConnOk, EndOk, QueueOk
<1>6. Len(p) \in Nat \ {0} /\ Len(p) - 1 = Len(q) - n
  BY <1>4
<1>7. ASSUME NEW i \in 1 .. Len(p) - 1
      PROVE  /\ i + n \in 1 .. Len(q) /\ p[i] = q[i + n] /\ p[i] # f /\ p[i] # Stop
             /\ p[i] \notin Evicted(q)
  <2>1. i + n \in 1 .. Len(q) /\ p[i] = q[i + n]
    BY <1>4, <1>6, <1>7, SMTT(30)
  <2>2. p[i] # f /\ p[i] # Stop
    BY <1>5, <2>1
  <2>3. p[i] \notin Evicted(q)
    <3>1. CASE n = 0
      BY <1>4, <3>1
    <3>2. CASE n = 1
      <4>1. 1 \in 1 .. Len(q) /\ i + n # 1
        BY <1>4, <3>2, <1>7
      <4> QED BY <1>4, <1>5, <2>1, <3>2, <4>1
    <3> QED BY <3>1, <3>2
  <2> QED BY <2>1, <2>2, <2>3
<1>8. conn'[c].queue = p /\ p[Len(p)] = f
  BY <1>1, <1>2, <1>4, <1>6
<1>9. QueueOk(c)'
  <2>1. ASSUME NEW i \in 1 .. Len(p), p[i] # Stop
        PROVE  p[i] \in FrameIds' /\ frames'[p[i]].conn = c /\ fate'[p[i]] = "queued"
    <3>1. CASE i = Len(p)
      BY <1>8, <2>1, <3>1
    <3>2. CASE i # Len(p)
      <4>1. i \in 1 .. Len(p) - 1
        BY <1>6, <3>2
      <4>2. /\ p[i] \in FrameIds /\ frames[p[i]].conn = c /\ fate[p[i]] = "queued"
            /\ p[i] # f /\ p[i] \notin Evicted(q)
        BY <1>5, <1>7, <4>1
      <4> QED BY <1>1, <4>2
    <3> QED BY <3>1, <3>2
  <2>2. ASSUME NEW i \in 1 .. Len(p), NEW j \in 1 .. Len(p), p[i] = p[j]
        PROVE  i = j
    <3>1. CASE i = Len(p) \/ j = Len(p)
      <4>1. \A l \in 1 .. Len(p) : l # Len(p) => p[l] # f
        <5> SUFFICES ASSUME NEW l \in 1 .. Len(p), l # Len(p) PROVE p[l] # f
          OBVIOUS
        <5>1. l \in 1 .. Len(p) - 1
          BY <1>6
        <5> QED BY <1>7, <5>1
      <4> QED BY <1>8, <2>2, <3>1, <4>1
    <3>2. CASE i # Len(p) /\ j # Len(p)
      <4>1. i \in 1 .. Len(p) - 1 /\ j \in 1 .. Len(p) - 1
        BY <1>6, <3>2
      <4>2. /\ i + n \in 1 .. Len(q) /\ j + n \in 1 .. Len(q)
            /\ q[i + n] = q[j + n]
        BY <1>7, <2>2, <4>1
      <4>3. i + n = j + n
        BY <1>5, <4>2
      <4> QED BY <4>1, <4>3
    <3> QED BY <3>1, <3>2
  <2> QED BY <1>8, <2>1, <2>2 DEF QueueOk
<1>10. DrainOk(c)'
  <2>1. PICK d : d = conn[c].drain
    OBVIOUS
  <2>2. /\ d.at \in {"get", "off"} <=> d.f = None
        /\ d.f # None => /\ d.f \in FrameIds /\ frames[d.f].conn = c
                         /\ fate[d.f] = "queued"
                         /\ \A i \in 1 .. Len(q) : q[i] # d.f
    BY <1>0, <1>1, <2>1 DEF ConnOk, DrainOk
  <2>3. ASSUME d.f # None PROVE \A i \in 1 .. Len(p) : p[i] # d.f
    <3> SUFFICES ASSUME NEW i \in 1 .. Len(p) PROVE p[i] # d.f
      OBVIOUS
    <3>1. CASE i = Len(p)
      BY <1>8, <2>1, <2>3, <3>1 DEF None, Stop
    <3>2. CASE i # Len(p)
      <4>1. i \in 1 .. Len(p) - 1
        BY <1>6, <3>2
      <4> QED BY <1>7, <2>2, <2>3, <4>1
    <3> QED BY <3>1, <3>2
  <2>4. ASSUME d.f # None
        PROVE  d.f \in FrameIds' /\ frames'[d.f].conn = c /\ fate'[d.f] = "queued"
    <3>1. d.f # f
      BY <2>1, <2>4 DEF None, Stop
    <3>2. d.f \notin Evicted(q)
      <4>1. CASE n = 0
        BY <1>4, <4>1
      <4>2. CASE n = 1
        <5>1. 1 \in 1 .. Len(q)
          BY <1>4, <4>2
        <5> QED BY <1>4, <2>2, <2>4, <4>2, <5>1
      <4> QED BY <4>1, <4>2
    <3> QED BY <1>1, <2>2, <2>4, <3>1, <3>2
  <2> QED BY <1>8, <2>1, <2>2, <2>3, <2>4 DEF DrainOk
<1>11. ASSUME NEW g \in FrameIds, frames[g].conn = c, g # f, fate'[g] = "queued"
       PROVE  \/ conn'[c].drain.f = g
              \/ \E i \in 1 .. Len(p) : p[i] = g
  <2>1. g \notin Evicted(q) /\ fate[g] = "queued" /\ Placed(g)
    BY <1>1, <1>11 DEF LinkInv
  <2>2. CASE conn[c].drain.f = g
    BY <2>2
  <2>3. ASSUME NEW j \in 1 .. Len(q), q[j] = g PROVE \E i \in 1 .. Len(p) : p[i] = g
    <3>1. j - n \in 1 .. Len(p) - 1
      <4>1. CASE n = 0
        BY <1>4, <1>6, <4>1
      <4>2. CASE n = 1
        <5>1. j # 1
          BY <1>4, <2>1, <2>3, <4>2
        <5> QED BY <1>4, <1>6, <4>2, <5>1
      <4> QED BY <4>1, <4>2
    <3>2. p[j - n] = q[j - n + n] /\ j - n + n = j
      BY <1>4, <1>6, <3>1, SMTT(30)
    <3> QED BY <1>6, <2>3, <3>1, <3>2
  <2> QED BY <1>1, <1>11, <2>1, <2>2, <2>3 DEF Placed
<1> QED BY <1>4, <1>6, <1>7, <1>8, <1>9, <1>10, <1>11

(* Frames and recorded lines stay; some frames of the connection change     *)
(* their fate.                                                              *)
LEMMA FateStep ==
    ASSUME LinkInv, NEW c \in ConnIds, NEW x \in ConnSet, conn' = [conn EXCEPT ![c] = x],
           UNCHANGED <<frames, recorded>>,
           fate' \in Seq(FateSet), Len(fate') = Len(fate),
           \A g \in FrameIds : \/ fate'[g] = fate[g]
                               \/ /\ frames[g].conn = c
                                  /\ fate'[g] \in Taken => fate[g] \in Taken,
           ConnOk(c)', \A g \in FrameIds : frames[g].conn = c => Placed(g)'
    PROVE  LinkInv'
<1>1. LinkShape' /\ FrameIds' = FrameIds /\ Len(frames) <= Len(frames')
  BY DEF LinkInv, LinkShape, ConnIds, FrameIds
<1>2. TakenOnce'
  BY <1>1, TakenKept DEF LinkInv
<1> QED BY <1>1, <1>2, LocalStep

LEMMA LinkReady ==
    ASSUME IInv, IdsDiffer, LinkInv, NEW c \in ConnIds, Ready(c)
    PROVE  LinkInv'
<1> DEFINE f == Len(frames) + 1
<1>0. /\ conn[c] \in ConnSet /\ ConnOk(c)
      /\ conn[c].queue \in Seq(Nat) /\ Len(conn[c].queue) \in Nat
      /\ conn[c].rx.f \in Nat /\ conn[c].drain.f \in Nat
      /\ Len(frames) \in Nat /\ Len(fate) = Len(frames)
      /\ FrameIds = 1 .. Len(frames)
  BY ConnParts
<1>1. PICK e \in FrameSet : e.conn = c /\ e.key = NoKey /\ frames' = Append(frames, e)
  <2>0. Len(rows) \in Nat /\ c \in Nat
    BY DEF IInv, Shape, RowsShape, ConnIds, LinkInv, LinkShape
  <2>1. PICK s \in Sessions :
            LET mine == {r \in RowIds : rows[r].ref = s}
                r    == IF mine = {} THEN Len(rows) + 1 ELSE CHOOSE q \in mine : TRUE
            IN  frames' = Append(frames, [kind |-> "ready", row |-> r, key |-> NoKey,
                                          reset |-> FALSE, conn |-> c])
    BY DEF Ready
  <2> DEFINE mine == {r \in RowIds : rows[r].ref = s}
  <2>2. PICK r : r = IF mine = {} THEN Len(rows) + 1 ELSE CHOOSE q \in mine : TRUE
    OBVIOUS
  <2>3. r \in Nat
    BY <2>0, <2>2 DEF RowIds
  <2>4. PICK e : e = [kind |-> "ready", row |-> r, key |-> NoKey,
                      reset |-> FALSE, conn |-> c]
    OBVIOUS
  <2>5. e \in FrameSet /\ e.conn = c /\ e.key = NoKey
    BY <2>0, <2>3, <2>4 DEF FrameSet
  <2>6. frames' = Append(frames, e)
    BY <2>1, <2>2, <2>4
  <2> QED BY <2>5, <2>6
<1>2. PICK x : x = [conn[c] EXCEPT !.queue = Put(conn[c].queue, f)]
  OBVIOUS
<1>3. /\ fate' = Append(Fates(Evicted(conn[c].queue), "dropped"), "queued")
      /\ conn' = [conn EXCEPT ![c] = x]
      /\ recorded' = recorded /\ conn[c].up = "up" /\ conn[c].rx.f = None
  BY <1>2 DEF Ready, Conn
<1>4. /\ x \in ConnSet /\ x.up = "up" /\ x.queue = Put(conn[c].queue, f)
      /\ x.drain = conn[c].drain /\ x.rx = conn[c].rx
  <2>1. PICK p : p = Put(conn[c].queue, f)
    OBVIOUS
  <2>2. p \in Seq(Nat)
    <3>1. PICK k \in {0, 1} : k = IF Len(conn[c].queue) < QueueMax THEN 0 ELSE 1
      OBVIOUS
    <3> QED BY <1>0, <2>1, <3>1, PutQueue
  <2>3. x = [conn[c] EXCEPT !.queue = p]
    BY <1>2, <2>1
  <2> QED BY <1>0, <1>3, <2>1, <2>2, <2>3 DEF ConnSet
<1>5. /\ frames' \in Seq(FrameSet) /\ Len(frames') = f /\ frames'[f] = e
      /\ fate' \in Seq(FateSet) /\ Len(fate') = f /\ fate'[f] = "queued"
      /\ \A g \in FrameIds : /\ frames'[g] = frames[g]
                             /\ fate'[g] = IF g \in Evicted(conn[c].queue)
                                           THEN "dropped" ELSE fate[g]
  <2>1. PICK t : t = Fates(Evicted(conn[c].queue), "dropped")
    OBVIOUS
  <2>2. /\ t \in Seq(FateSet) /\ Len(t) = Len(frames)
        /\ \A g \in FrameIds : t[g] = IF g \in Evicted(conn[c].queue)
                                      THEN "dropped" ELSE fate[g]
    BY <1>0, <2>1, FatesShape DEF LinkInv, FateSet, Taken
  <2>3. fate' = Append(t, "queued") /\ "queued" \in FateSet
    BY <1>3, <2>1 DEF FateSet, Taken
  <2>4. /\ fate' \in Seq(FateSet) /\ Len(fate') = f /\ fate'[f] = "queued"
        /\ \A g \in FrameIds : fate'[g] = t[g]
    BY <1>0, <2>2, <2>3
  <2>5. /\ frames' \in Seq(FrameSet) /\ Len(frames') = f /\ frames'[f] = e
        /\ \A g \in FrameIds : frames'[g] = frames[g]
    BY <1>0, <1>1 DEF LinkInv, LinkShape
  <2> QED BY <2>2, <2>4, <2>5
<1>6. /\ conn' \in Seq(ConnSet) /\ Len(conn') = Len(conn) /\ conn'[c] = x
      /\ f \in Nat \ {0} /\ f \notin FrameIds
  BY <1>0, <1>3, <1>4 DEF LinkInv, LinkShape, ConnIds
<1>a. Len(frames) <= f
  BY <1>0
<1> HIDE DEF f
<1>7. LinkShape' /\ FrameIds' = FrameIds \cup {f} /\ ConnIds' = ConnIds
  BY <1>0, <1>5, <1>6 DEF LinkShape, FrameIds, ConnIds, f
<1>8. /\ QueueOk(c)' /\ DrainOk(c)'
      /\ LET p == conn'[c].queue
         IN  /\ p \in Seq(Nat) /\ Len(p) \in Nat \ {0} /\ p[Len(p)] = f
             /\ \A i \in 1 .. Len(p) - 1 : p[i] # Stop
      /\ \A g \in FrameIds : (frames[g].conn = c /\ g # f /\ fate'[g] = "queued") =>
             \/ conn'[c].drain.f = g
             \/ \E i \in 1 .. Len(conn'[c].queue) : conn'[c].queue[i] = g
  <2>1. \A i \in 1 .. Len(conn[c].queue) : conn[c].queue[i] # f
    BY <1>0, <1>6 DEF ConnOk, QueueOk, Stop
  <2>2. conn[c].drain.f # f
    BY <1>0, <1>6 DEF ConnOk, DrainOk, None
  <2>3. /\ conn[c].up = "up" /\ f \in Nat /\ conn'[c].queue = Put(conn[c].queue, f)
        /\ conn'[c].drain = conn[c].drain
    BY <1>3, <1>4, <1>6
  <2>4. f # Stop => /\ f \in FrameIds' /\ frames'[f].conn = c /\ fate'[f] = "queued"
                    /\ f # conn[c].drain.f
    BY <1>1, <1>5, <1>7, <2>2
  <2>5. \A g \in FrameIds :
            /\ g \in FrameIds' /\ frames'[g].conn = frames[g].conn
            /\ g # f => fate'[g] = IF g \in Evicted(conn[c].queue) THEN "dropped" ELSE fate[g]
    BY <1>5, <1>7
  <2> QED BY <2>1, <2>3, <2>4, <2>5, PutOk, Zenon
<1>9. ConnOk(c)'
  <2>1. RxOk(c)'
    BY <1>0, <1>3, <1>4, <1>6 DEF ConnOk, RxOk
  <2>2. conn'[c].queue # <<>>
    BY <1>8, EmptySeq
  <2>3. \A i \in 1 .. Len(conn'[c].queue) : conn'[c].queue[i] # Stop
    <3> SUFFICES ASSUME NEW i \in 1 .. Len(conn'[c].queue) PROVE conn'[c].queue[i] # Stop
      OBVIOUS
    <3>1. CASE i = Len(conn'[c].queue)
      BY <1>6, <1>8, <3>1 DEF Stop
    <3>2. CASE i # Len(conn'[c].queue)
      <4>1. i \in 1 .. Len(conn'[c].queue) - 1
        BY <1>8, <3>2
      <4> QED BY <1>8, <4>1
    <3> QED BY <3>1, <3>2
  <2>4. EndOk(c)'
    BY <1>0, <1>3, <1>4, <1>6, <2>2, <2>3 DEF ConnOk, EndOk
  <2> QED BY <1>8, <2>1, <2>4 DEF ConnOk
<1>10. ASSUME NEW g \in FrameIds', frames'[g].conn = c PROVE Placed(g)'
  <2>1. CASE g = f
    <3>1. Len(conn'[c].queue) \in 1 .. Len(conn'[c].queue)
      BY <1>8
    <3> QED BY <1>1, <1>5, <1>7, <1>8, <2>1, <3>1 DEF Placed
  <2>2. CASE g \in FrameIds
    <3>1. Placed(g) /\ frames[g].conn = c /\ g # f
      BY <1>5, <1>6, <1>10, <2>2 DEF LinkInv
    <3>2. fate'[g] = "coming" => fate[g] = "coming"
      BY <1>5, <2>2
    <3>3. conn'[c].rx = conn[c].rx
      BY <1>4, <1>6
    <3> QED BY <1>5, <1>7, <1>8, <1>10, <2>2, <3>1, <3>2, <3>3 DEF Placed
  <2> QED BY <1>7, <2>1, <2>2
<1>11. TakenOnce'
  <2>1. \A g \in FrameIds' \ FrameIds : ~LineTaken(g)'
    BY <1>1, <1>5, <1>7 DEF LineTaken
  <2>2. \A g \in Evicted(conn[c].queue) : fate[g] \in Taken
    BY <1>3, EvictedOk DEF Taken
  <2>3. \A g \in FrameIds : fate'[g] \in Taken => fate[g] \in Taken
    BY <1>5, <2>2
  <2> QED BY <1>3, <1>5, <1>7, <1>a, <2>1, <2>3, TakenKept DEF LinkInv
<1>12. Len(frames) <= Len(frames') /\ \A g \in FrameIds' \ FrameIds : frames'[g].conn = c
  BY <1>1, <1>5, <1>7, <1>a
<1>13. \A g \in FrameIds : frames[g].conn # c => fate'[g] = fate[g]
  <2>1. \A g \in Evicted(conn[c].queue) : frames[g].conn = c
    BY <1>3, EvictedOk
  <2> QED BY <1>5, <2>1
<1> QED BY <1>3, <1>4, <1>5, <1>7, <1>9, <1>10, <1>11, <1>12, <1>13, LocalStep

(* record_turn: a repeated line goes no further; another is put into the     *)
(* queue, and is recorded if it has a key.                                   *)
LEMMA LinkRecord ==
    ASSUME LinkInv, NEW c \in ConnIds, Record(c)
    PROVE  LinkInv'
<1>0. /\ conn[c] \in ConnSet /\ ConnOk(c)
      /\ conn[c].queue \in Seq(Nat) /\ Len(conn[c].queue) \in Nat
      /\ conn[c].rx.f \in Nat /\ conn[c].drain.f \in Nat
      /\ Len(frames) \in Nat /\ Len(fate) = Len(frames)
      /\ FrameIds = 1 .. Len(frames)
  BY ConnParts
<1>1. PICK f : f = conn[c].rx.f
  OBVIOUS
<1>2. /\ f \in FrameIds /\ frames[f].conn = c /\ fate[f] = "coming" /\ f # None
      /\ f \in Nat \ {0} /\ conn[c].rx.at = "record" /\ conn[c].up = "up"
  <2>1. conn[c].rx.at = "record" /\ RxOk(c) /\ EndOk(c)
    BY <1>0 DEF Record, ConnOk
  <2>2. f \in FrameIds /\ frames[f].conn = c /\ fate[f] = "coming" /\ f # None
    BY <1>1, <2>1 DEF RxOk
  <2>3. conn[c].up = "up"
    BY <1>0, <1>1, <2>1, <2>2 DEF EndOk, ConnSet
  <2> QED BY <1>0, <2>1, <2>2, <2>3 DEF None
<1>3. frames' = frames /\ FrameIds' = FrameIds
  BY DEF Record, FrameIds
<1>4. CASE Repeated(f)
  <2>1. PICK y : y = [f |-> None, at |-> "idle"]
    OBVIOUS
  <2>2. y \in [f : Nat, at : {"idle", "record", "mark"}] /\ y.f = None /\ y.at = "idle"
    BY <2>1 DEF None
  <2>3. PICK x : x = [conn[c] EXCEPT !.rx = y]
    OBVIOUS
  <2>4. /\ x \in ConnSet /\ x.up = "up" /\ x.queue = conn[c].queue
        /\ x.drain = conn[c].drain /\ x.rx.f = None /\ x.rx.at = "idle"
    BY <1>0, <1>2, <2>2, <2>3 DEF ConnSet
  <2>5. conn' = [conn EXCEPT ![c] = x] /\ fate' = Fates({f}, "repeated") /\ recorded' = recorded
    BY <1>1, <1>4, <2>1, <2>3 DEF Record, Conn
  <2>6. /\ fate' \in Seq(FateSet) /\ Len(fate') = Len(fate)
        /\ \A g \in FrameIds : fate'[g] = IF g = f THEN "repeated" ELSE fate[g]
    BY <2>5, FatesShape DEF LinkInv, FateSet
  <2>7. conn'[c] = x /\ ConnIds' = ConnIds
    BY <2>4, <2>5 DEF LinkInv, LinkShape, ConnIds
  <2>8. ConnOk(c)'
    <3>1. RxOk(c)'
      BY <2>4, <2>7 DEF RxOk
    <3>2. QueueOk(c)'
      <4>1. conn'[c].queue = conn[c].queue /\ QueueOk(c)
        BY <1>0, <2>4, <2>7 DEF ConnOk
      <4>2. \A g \in FrameIds : fate[g] = "queued" => fate'[g] = "queued"
        BY <1>2, <2>6
      <4> QED BY <1>3, <4>1, <4>2 DEF QueueOk
    <3>3. DrainOk(c)'
      <4>1. /\ conn'[c].queue = conn[c].queue /\ conn'[c].drain = conn[c].drain
            /\ DrainOk(c)
        BY <1>0, <2>4, <2>7 DEF ConnOk
      <4> QED BY <1>2, <1>3, <2>6, <4>1 DEF DrainOk
    <3>4. EndOk(c)'
      BY <1>0, <1>2, <2>4, <2>7 DEF ConnOk, EndOk
    <3> QED BY <3>1, <3>2, <3>3, <3>4 DEF ConnOk
  <2>9. ASSUME NEW g \in FrameIds, frames[g].conn = c PROVE Placed(g)'
    <3>1. Placed(g)
      BY DEF LinkInv
    <3>2. g # f => fate'[g] = fate[g] /\ fate[g] # "coming"
      BY <1>1, <2>6, <2>9, <3>1 DEF Placed
    <3>3. g = f => fate'[g] = "repeated"
      BY <2>6
    <3> QED BY <1>3, <2>4, <2>7, <2>9, <3>1, <3>2, <3>3 DEF Placed
  <2>10. \A g \in FrameIds : \/ fate'[g] = fate[g]
                             \/ /\ frames[g].conn = c
                                /\ fate'[g] \in Taken => fate[g] \in Taken
    BY <1>2, <2>6 DEF Taken
  <2> QED BY <1>3, <2>4, <2>5, <2>6, <2>8, <2>9, <2>10, FateStep
<1>5. CASE ~Repeated(f)
  <2>1. PICK y \in [f : Nat, at : {"idle", "record", "mark"}] :
            /\ y = IF frames[f].kind = "reply" THEN [f |-> f, at |-> "mark"]
                   ELSE [f |-> None, at |-> "idle"]
            /\ y.at = "idle" <=> y.f = None
            /\ y.at # "idle" => y.f = f
            /\ y.at # "record"
    <3>1. PICK y : y = IF frames[f].kind = "reply" THEN [f |-> f, at |-> "mark"]
                       ELSE [f |-> None, at |-> "idle"]
      OBVIOUS
    <3>2. /\ y \in [f : Nat, at : {"idle", "record", "mark"}] /\ y.at # "record"
          /\ y.at = "idle" <=> y.f = None
          /\ y.at # "idle" => y.f = f
      <4>1. CASE frames[f].kind = "reply"
        <5>1. y \in [f : Nat, at : {"idle", "record", "mark"}] /\ y.at = "mark" /\ y.f = f
          BY <1>2, <3>1, <4>1
        <5> QED BY <1>2, <5>1
      <4>2. CASE frames[f].kind # "reply"
        <5>1. y \in [f : Nat, at : {"idle", "record", "mark"}] /\ y.at = "idle" /\ y.f = None
          BY <3>1, <4>2 DEF None
        <5> QED BY <5>1
      <4> QED BY <4>1, <4>2
    <3> QED BY <3>1, <3>2
  <2>2. PICK p : p = Put(conn[c].queue, f)
    OBVIOUS
  <2>3. p \in Seq(Nat)
    <3>1. PICK k \in {0, 1} : k = IF Len(conn[c].queue) < QueueMax THEN 0 ELSE 1
      OBVIOUS
    <3> QED BY <1>0, <1>2, <2>2, <3>1, PutQueue
  <2>4. PICK x : x = [conn[c] EXCEPT !.rx = y, !.queue = p]
    OBVIOUS
  <2>5. /\ x \in ConnSet /\ x.up = "up" /\ x.queue = p
        /\ x.drain = conn[c].drain /\ x.rx = y
    BY <1>0, <1>2, <2>1, <2>3, <2>4 DEF ConnSet
  <2>6. /\ conn' = [conn EXCEPT ![c] = x]
        /\ fate' = [Fates(Evicted(conn[c].queue), "dropped") EXCEPT ![f] = "queued"]
        /\ recorded' = IF frames[f].key = NoKey THEN recorded ELSE recorded \cup {Key(f)}
    BY <1>1, <1>5, <2>1, <2>2, <2>4 DEF Record, Conn
  <2>7. /\ fate' \in Seq(FateSet) /\ Len(fate') = Len(fate) /\ fate'[f] = "queued"
        /\ \A g \in FrameIds \ {f} :
               fate'[g] = IF g \in Evicted(conn[c].queue) THEN "dropped" ELSE fate[g]
    <3>1. PICK t : t = Fates(Evicted(conn[c].queue), "dropped")
      OBVIOUS
    <3>2. /\ t \in Seq(FateSet) /\ Len(t) = Len(fate)
          /\ \A g \in FrameIds : t[g] = IF g \in Evicted(conn[c].queue)
                                        THEN "dropped" ELSE fate[g]
      BY <3>1, FatesShape DEF LinkInv, FateSet, Taken
    <3>3. f \in 1 .. Len(t) /\ "queued" \in FateSet /\ fate' = [t EXCEPT ![f] = "queued"]
      BY <1>0, <1>2, <2>6, <3>1, <3>2 DEF FateSet, Taken
    <3>4. /\ fate' \in Seq(FateSet) /\ Len(fate') = Len(t)
          /\ \A g \in 1 .. Len(t) : fate'[g] = IF g = f THEN "queued" ELSE t[g]
      BY <3>2, <3>3, ExceptSeq
    <3> QED BY <1>0, <3>2, <3>3, <3>4
  <2>8. /\ conn' \in Seq(ConnSet) /\ conn'[c] = x /\ ConnIds' = ConnIds
    BY <2>5, <2>6 DEF LinkInv, LinkShape, ConnIds
  <2>9. LinkShape' /\ Len(frames) <= Len(frames')
    BY <1>0, <1>3, <2>7, <2>8 DEF LinkInv, LinkShape
  <2>10. /\ QueueOk(c)' /\ DrainOk(c)'
         /\ LET r == conn'[c].queue
            IN  /\ r \in Seq(Nat) /\ Len(r) \in Nat \ {0} /\ r[Len(r)] = f
                /\ \A i \in 1 .. Len(r) - 1 : r[i] # Stop
         /\ \A g \in FrameIds : (frames[g].conn = c /\ g # f /\ fate'[g] = "queued") =>
                \/ conn'[c].drain.f = g
                \/ \E i \in 1 .. Len(conn'[c].queue) : conn'[c].queue[i] = g
    <3>1. \A i \in 1 .. Len(conn[c].queue) : conn[c].queue[i] # f
      BY <1>0, <1>2 DEF ConnOk, QueueOk, Stop
    <3>2. conn[c].drain.f # f
      BY <1>0, <1>2 DEF ConnOk, DrainOk, None
    <3>3. /\ conn[c].up = "up" /\ f \in Nat /\ conn'[c].queue = Put(conn[c].queue, f)
          /\ conn'[c].drain = conn[c].drain
      BY <1>2, <2>2, <2>5, <2>8
    <3>4. f # Stop => /\ f \in FrameIds' /\ frames'[f].conn = c /\ fate'[f] = "queued"
                      /\ f # conn[c].drain.f
      BY <1>2, <1>3, <2>7, <3>2
    <3>5. \A g \in FrameIds :
              /\ g \in FrameIds' /\ frames'[g].conn = frames[g].conn
              /\ g # f => fate'[g] = IF g \in Evicted(conn[c].queue) THEN "dropped" ELSE fate[g]
      BY <1>3, <2>7
    <3> QED BY <3>1, <3>3, <3>4, <3>5, PutOk, Zenon
  <2>11. ConnOk(c)'
    <3>1. RxOk(c)'
      BY <1>2, <1>3, <2>1, <2>5, <2>8 DEF RxOk
    <3>2. conn'[c].queue # <<>>
      BY <2>10, EmptySeq
    <3>3. \A i \in 1 .. Len(conn'[c].queue) : conn'[c].queue[i] # Stop
      <4> SUFFICES ASSUME NEW i \in 1 .. Len(conn'[c].queue) PROVE conn'[c].queue[i] # Stop
        OBVIOUS
      <4>1. CASE i = Len(conn'[c].queue)
        BY <1>2, <2>10, <4>1 DEF Stop
      <4>2. CASE i # Len(conn'[c].queue)
        <5>1. i \in 1 .. Len(conn'[c].queue) - 1
          BY <2>10, <4>2
        <5> QED BY <2>10, <5>1
      <4> QED BY <4>1, <4>2
    <3>4. EndOk(c)'
      BY <1>0, <1>2, <2>5, <2>8, <3>2, <3>3 DEF ConnOk, EndOk
    <3> QED BY <2>10, <3>1, <3>4 DEF ConnOk
  <2>12. ASSUME NEW g \in FrameIds, frames[g].conn = c PROVE Placed(g)'
    <3>1. Placed(g)
      BY DEF LinkInv
    <3>2. CASE g = f
      <4>1. Len(conn'[c].queue) \in 1 .. Len(conn'[c].queue)
        BY <2>10
      <4> QED BY <1>2, <1>3, <2>7, <2>8, <2>10, <3>2, <4>1 DEF Placed
    <3>3. CASE g # f
      <4>1. fate'[g] # "coming"
        BY <1>1, <2>7, <2>12, <3>1, <3>3 DEF Placed
      <4> QED BY <1>3, <2>8, <2>10, <2>12, <3>3, <4>1 DEF Placed
    <3> QED BY <3>2, <3>3
  <2>13. TakenOnce'
    <3>1. \A g \in FrameIds \ {f} : LineTaken(g)' => LineTaken(g) /\ Key(g)' = Key(g)
      <4> SUFFICES ASSUME NEW g \in FrameIds \ {f}, LineTaken(g)'
                   PROVE  LineTaken(g) /\ Key(g)' = Key(g)
        OBVIOUS
      <4>1. fate[g] \in Taken
        BY <1>2, <2>7, EvictedOk DEF LineTaken, Taken
      <4> QED BY <1>3, <4>1 DEF LineTaken, Key
    <3>2. LineTaken(f)' => Key(f) \in recorded' /\ Key(f) \notin recorded
      BY <1>3, <1>5, <2>6 DEF LineTaken, Repeated
    <3>3. Key(f)' = Key(f) /\ recorded \subseteq recorded'
      BY <1>3, <2>6 DEF Key
    <3>4. \A g \in FrameIds' : LineTaken(g)' => Key(g)' \in recorded'
      BY <1>3, <3>1, <3>2, <3>3 DEF LinkInv, TakenOnce
    <3>5. ASSUME NEW g \in FrameIds', NEW h \in FrameIds', LineTaken(g)', LineTaken(h)', g # h
          PROVE  Key(g)' # Key(h)'
      <4>1. CASE g # f /\ h # f
        BY <1>3, <3>1, <3>5, <4>1 DEF LinkInv, TakenOnce
      <4>2. CASE g = f
        BY <1>3, <3>1, <3>2, <3>3, <3>5, <4>2 DEF LinkInv, TakenOnce
      <4>3. CASE h = f
        BY <1>3, <3>1, <3>2, <3>3, <3>5, <4>3 DEF LinkInv, TakenOnce
      <4> QED BY <4>1, <4>2, <4>3
    <3> QED BY <3>4, <3>5 DEF TakenOnce
  <2>14. \A g \in FrameIds : frames[g].conn # c => fate'[g] = fate[g]
    BY <1>2, <2>7, EvictedOk
  <2> QED BY <1>3, <2>5, <2>6, <2>9, <2>11, <2>12, <2>13, <2>14, LocalStep
<1> QED BY <1>4, <1>5

LEMMA LinkMark ==
    ASSUME LinkInv, NEW c \in ConnIds, MarkStarted(c)
    PROVE  LinkInv'
<1>0. conn[c] \in ConnSet /\ ConnOk(c)
  BY ConnParts
<1>1. PICK y : y = [f |-> None, at |-> "idle"]
  OBVIOUS
<1>2. y \in [f : Nat, at : {"idle", "record", "mark"}] /\ y.f = None /\ y.at = "idle"
  BY <1>1 DEF None
<1>3. PICK x : x = [conn[c] EXCEPT !.rx = y]
  OBVIOUS
<1>4. /\ x \in ConnSet /\ x.up = conn[c].up /\ x.queue = conn[c].queue
      /\ x.drain = conn[c].drain /\ x.rx.f = None /\ x.rx.at = "idle"
  BY <1>0, <1>2, <1>3 DEF ConnSet
<1>5. /\ conn' = [conn EXCEPT ![c] = x] /\ UNCHANGED <<frames, fate, recorded>>
      /\ conn[c].rx.at = "mark"
  BY <1>1, <1>3 DEF MarkStarted, Conn
<1>6. conn'[c] = x /\ ConnIds' = ConnIds /\ FrameIds' = FrameIds
  BY <1>4, <1>5 DEF LinkInv, LinkShape, ConnIds, FrameIds
<1>7. ConnOk(c)'
  <2>1. RxOk(c)'
    BY <1>4, <1>6 DEF RxOk
  <2>2. QueueOk(c)' /\ DrainOk(c)'
    BY <1>0, <1>4, <1>5, <1>6 DEF ConnOk, QueueOk, DrainOk
  <2>3. EndOk(c)'
    BY <1>0, <1>4, <1>6 DEF ConnOk, EndOk
  <2> QED BY <2>1, <2>2, <2>3 DEF ConnOk
<1>8. ASSUME NEW g \in FrameIds, frames[g].conn = c PROVE Placed(g)'
  <2>1. Placed(g)
    BY DEF LinkInv
  <2>2. fate[g] # "coming"
    BY <1>5, <1>8, <2>1 DEF Placed
  <2> QED BY <1>4, <1>5, <1>6, <1>8, <2>1, <2>2 DEF Placed
<1>9. fate' \in Seq(FateSet)
  BY <1>5 DEF LinkInv, LinkShape
<1> QED BY <1>4, <1>5, <1>7, <1>8, <1>9, FateStep

(* Where the drainer stands. *)
DrainSet == [f : Nat, at : {"get", "create", "post", "off"}, retried : BOOLEAN]

(* The drainer goes on with the frame it has. *)
LEMMA DrainMoves ==
    ASSUME LinkInv, NEW c \in ConnIds, conn[c].drain.at \in {"create", "post"},
           NEW d \in DrainSet, d.f = conn[c].drain.f, d.at \in {"create", "post"},
           conn' = [conn EXCEPT ![c] = [conn[c] EXCEPT !.drain = d]],
           UNCHANGED <<frames, fate, recorded>>
    PROVE  LinkInv'
<1>0. conn[c] \in ConnSet /\ ConnOk(c)
  BY ConnParts
<1>1. PICK x : x = [conn[c] EXCEPT !.drain = d]
  OBVIOUS
<1>2. /\ x \in ConnSet /\ x.up = conn[c].up /\ x.queue = conn[c].queue
      /\ x.drain = d /\ x.rx = conn[c].rx
  BY <1>0, <1>1 DEF ConnSet, DrainSet
<1>3. conn' = [conn EXCEPT ![c] = x]
  BY <1>1
<1>4. conn'[c] = x /\ ConnIds' = ConnIds /\ FrameIds' = FrameIds
  BY <1>2, <1>3 DEF LinkInv, LinkShape, ConnIds, FrameIds
<1>5. ConnOk(c)'
  <2>1. RxOk(c)' /\ QueueOk(c)'
    BY <1>0, <1>2, <1>4 DEF ConnOk, RxOk, QueueOk
  <2>2. DrainOk(c)'
    BY <1>0, <1>2, <1>4 DEF ConnOk, DrainOk
  <2>3. EndOk(c)'
    BY <1>0, <1>2, <1>4 DEF ConnOk, EndOk
  <2> QED BY <2>1, <2>2, <2>3 DEF ConnOk
<1>6. \A g \in FrameIds : frames[g].conn = c => Placed(g)'
  <2> SUFFICES ASSUME NEW g \in FrameIds, frames[g].conn = c PROVE Placed(g)'
    OBVIOUS
  <2>1. Placed(g)
    BY DEF LinkInv
  <2> QED BY <1>2, <1>4, <2>1 DEF Placed
<1>7. fate' \in Seq(FateSet)
  BY DEF LinkInv, LinkShape
<1> QED BY <1>2, <1>3, <1>5, <1>6, <1>7, FateStep

(* The drainer is done with the frame it has. *)
LEMMA DrainFinishes ==
    ASSUME LinkInv, NEW c \in ConnIds, conn[c].drain.at \in {"create", "post"},
           NEW how \in {"posted", "failed", "skipped"},
           Finish(c, conn[c].drain.f, how), UNCHANGED <<frames, recorded>>
    PROVE  LinkInv'
<1>0. conn[c] \in ConnSet /\ ConnOk(c) /\ FrameIds = 1 .. Len(frames) /\ Len(fate) = Len(frames)
  BY ConnParts
<1>1. PICK f : f = conn[c].drain.f
  OBVIOUS
<1>2. f \in FrameIds /\ frames[f].conn = c /\ fate[f] = "queued"
      /\ \A i \in 1 .. Len(conn[c].queue) : conn[c].queue[i] # f
  BY <1>0, <1>1 DEF ConnOk, DrainOk
<1>3. PICK d : d = [f |-> None, at |-> "get", retried |-> FALSE]
  OBVIOUS
<1>4. d \in DrainSet /\ d.f = None /\ d.at = "get"
  BY <1>3 DEF DrainSet, None
<1>5. PICK x : x = [conn[c] EXCEPT !.queue = conn[c].queue, !.drain = d]
  OBVIOUS
<1>6. /\ x \in ConnSet /\ x.up = conn[c].up /\ x.queue = conn[c].queue
      /\ x.drain = d /\ x.rx = conn[c].rx
  BY <1>0, <1>4, <1>5 DEF ConnSet, DrainSet
<1>7. conn' = [conn EXCEPT ![c] = x] /\ fate' = [fate EXCEPT ![f] = how]
  BY <1>1, <1>3, <1>5 DEF Finish, Conn
<1>8. /\ conn'[c] = x /\ ConnIds' = ConnIds /\ FrameIds' = FrameIds
  BY <1>6, <1>7 DEF LinkInv, LinkShape, ConnIds, FrameIds
<1>9. /\ fate' \in Seq(FateSet) /\ Len(fate') = Len(fate)
      /\ \A g \in FrameIds : fate'[g] = IF g = f THEN how ELSE fate[g]
  <2>1. f \in 1 .. Len(fate) /\ how \in FateSet /\ fate \in Seq(FateSet)
    BY <1>0, <1>2 DEF FateSet, Taken, LinkInv, LinkShape
  <2> QED BY <1>0, <1>7, <2>1, ExceptSeq
<1>10. ConnOk(c)'
  <2>1. RxOk(c)'
    <3>1. conn[c].rx.at = "record" => conn[c].rx.f # f
      BY <1>0, <1>2 DEF ConnOk, RxOk
    <3>2. conn'[c].rx = conn[c].rx /\ RxOk(c)
      BY <1>0, <1>6, <1>8 DEF ConnOk
    <3> QED BY <1>8, <1>9, <3>1, <3>2 DEF RxOk
  <2>2. QueueOk(c)'
    <3>1. conn'[c].queue = conn[c].queue /\ QueueOk(c)
      BY <1>0, <1>6, <1>8 DEF ConnOk
    <3>2. \A g \in FrameIds : fate[g] = "queued" /\ g # f => fate'[g] = "queued"
      BY <1>9
    <3>3. frames' = frames /\ \A i \in 1 .. Len(conn[c].queue) : conn[c].queue[i] # f
      BY <1>2
    <3> QED BY <1>8, <3>1, <3>2, <3>3 DEF QueueOk
  <2>3. DrainOk(c)'
    BY <1>4, <1>6, <1>8 DEF DrainOk
  <2>4. EndOk(c)'
    <3>1. conn[c].drain.at # "off" /\ d.at # "off" /\ EndOk(c)
      BY <1>0, <1>4 DEF ConnOk
    <3> QED BY <1>6, <1>8, <3>1 DEF EndOk
  <2> QED BY <2>1, <2>2, <2>3, <2>4 DEF ConnOk
<1>11. \A g \in FrameIds : frames[g].conn = c => Placed(g)'
  <2> SUFFICES ASSUME NEW g \in FrameIds, frames[g].conn = c PROVE Placed(g)'
    OBVIOUS
  <2>1. Placed(g)
    BY DEF LinkInv
  <2>2. CASE g = f
    BY <1>8, <1>9, <2>1, <2>2 DEF Placed
  <2>3. CASE g # f
    BY <1>1, <1>6, <1>8, <1>9, <2>1, <2>3 DEF Placed
  <2> QED BY <2>2, <2>3
<1>12. \A g \in FrameIds : \/ fate'[g] = fate[g]
                           \/ /\ frames[g].conn = c
                              /\ fate'[g] \in Taken => fate[g] \in Taken
  BY <1>2, <1>9 DEF Taken
<1> QED BY <1>6, <1>7, <1>9, <1>10, <1>11, <1>12, FateStep

(* What Begin does to the connection. *)
LEMMA BeginEffect ==
    ASSUME NEW c \in ConnIds, NEW f, NEW topic, NEW seen, NEW retried \in BOOLEAN,
           Begin(c, f, topic, seen, retried)
    PROVE  \/ Finish(c, f, "skipped")
           \/ /\ \E at \in {"create", "post"} :
                    conn' = [conn EXCEPT ![c] =
                        [conn[c] EXCEPT !.queue = IF retried THEN conn[c].queue
                                                  ELSE Tail(conn[c].queue),
                                        !.drain = [f |-> f, at |-> at, retried |-> retried]]]
              /\ UNCHANGED fate
<1>1. CASE frames[f].key # NoKey /\ Key(f) \in seen
  BY <1>1 DEF Begin
<1>2. CASE ~(frames[f].key # NoKey /\ Key(f) \in seen)
  <2>1. CASE topic # None
    BY <1>2, <2>1 DEF Begin, Conn
  <2>2. CASE topic = None /\ Conflict(frames[f].row)
    BY <1>2, <2>2 DEF Begin, Conn
  <2>3. CASE topic = None /\ ~Conflict(frames[f].row)
    BY <1>2, <2>3 DEF Begin, Conn
  <2> QED BY <2>1, <2>2, <2>3
<1> QED BY <1>1, <1>2

(* The drainer takes the next item: it begins it, is done with it at once,   *)
(* or, if it is the sentinel, ends with an empty queue.                      *)
LEMMA LinkTake ==
    ASSUME LinkInv, NEW c \in ConnIds, Take(c)
    PROVE  LinkInv'
<1>0. /\ conn[c] \in ConnSet /\ ConnOk(c) /\ FrameIds = 1 .. Len(frames)
      /\ Len(fate) = Len(frames) /\ conn[c].queue \in Seq(Nat) /\ Len(frames) \in Nat
  BY ConnParts
<1>1. PICK q : q = conn[c].queue
  OBVIOUS
<1>2. PICK h : h = Head(q)
  OBVIOUS
<1>3. PICK t : t = Tail(q)
  OBVIOUS
<1>4. /\ t \in Seq(Nat) /\ Len(q) \in Nat \ {0} /\ Len(t) = Len(q) - 1 /\ h = q[1] /\ h \in Nat
      /\ \A i \in 1 .. Len(t) : t[i] = q[i + 1] /\ i + 1 \in 1 .. Len(q)
  <2>1. q \in Seq(Nat) /\ q # <<>>
    BY <1>0, <1>1 DEF Take
  <2>2. /\ t \in Seq(Nat) /\ Len(q) \in Nat \ {0} /\ Len(t) = Len(q) - 1
        /\ h = q[1] /\ h \in Nat
        /\ \A i \in 1 .. Len(q) - 1 : t[i] = q[i + 1]
    BY <1>2, <1>3, <2>1, TailQueue
  <2> QED BY <2>2
<1>5. /\ conn[c].drain.at = "get" /\ conn[c].drain.f = None /\ 1 \in 1 .. Len(q)
      /\ UNCHANGED <<frames, recorded>>
  BY <1>0, <1>4 DEF Take, InDrain, ConnOk, DrainOk
<1>6. \A i \in 1 .. Len(t) : t[i] # h
  <2> SUFFICES ASSUME NEW i \in 1 .. Len(t), t[i] = h PROVE FALSE
    OBVIOUS
  <2>1. q[i + 1] = q[1] /\ i + 1 \in 1 .. Len(q)
    BY <1>4
  <2>2. i + 1 = 1
    BY <1>0, <1>1, <1>5, <2>1 DEF ConnOk, QueueOk
  <2> QED BY <1>4, <2>2
<1>7. ASSUME NEW d \in DrainSet, d.f \in {None, h},
             d.at \in {"get", "off"} <=> d.f = None,
             conn' = [conn EXCEPT ![c] = [conn[c] EXCEPT !.queue = t, !.drain = d]],
             fate' \in Seq(FateSet), Len(fate') = Len(fate),
             \A g \in FrameIds : g # h => fate'[g] = fate[g],
             h # Stop => fate'[h] = (IF d.f = None THEN "skipped" ELSE "queued"),
             h = Stop => d.at = "off" /\ d.f = None,
             h # Stop => d.at # "off"
      PROVE  LinkInv'
  <2>1. PICK x : x = [conn[c] EXCEPT !.queue = t, !.drain = d]
    OBVIOUS
  <2>2. /\ x \in ConnSet /\ x.up = conn[c].up /\ x.queue = t
        /\ x.drain = d /\ x.rx = conn[c].rx
    BY <1>0, <1>4, <2>1 DEF ConnSet, DrainSet
  <2>3. conn' = [conn EXCEPT ![c] = x]
    BY <1>7, <2>1
  <2>4. conn'[c] = x /\ ConnIds' = ConnIds /\ FrameIds' = FrameIds
    BY <1>5, <2>2, <2>3 DEF LinkInv, LinkShape, ConnIds, FrameIds
  <2>5. h # Stop => h \in FrameIds /\ frames[h].conn = c /\ fate[h] = "queued"
    BY <1>0, <1>1, <1>4, <1>5 DEF ConnOk, QueueOk
  <2>6. RxOk(c)'
    <3>1. conn[c].rx.at = "record" => conn[c].rx.f \in FrameIds /\ conn[c].rx.f # h
      BY <1>0, <2>5 DEF ConnOk, RxOk, Stop
    <3>2. conn'[c].rx = conn[c].rx /\ RxOk(c)
      BY <1>0, <2>2, <2>4 DEF ConnOk
    <3> QED BY <1>5, <1>7, <2>4, <3>1, <3>2 DEF RxOk
  <2>7. QueueOk(c)'
    <3>1. \A i \in 1 .. Len(t) : t[i] # Stop =>
              t[i] \in FrameIds /\ frames[t[i]].conn = c /\ fate[t[i]] = "queued"
      <4> SUFFICES ASSUME NEW i \in 1 .. Len(t), t[i] # Stop
                   PROVE  t[i] \in FrameIds /\ frames[t[i]].conn = c /\ fate[t[i]] = "queued"
        OBVIOUS
      <4>1. t[i] = q[i + 1] /\ i + 1 \in 1 .. Len(q)
        BY <1>4
      <4> QED BY <1>0, <1>1, <4>1 DEF ConnOk, QueueOk
    <3>2. ASSUME NEW i \in 1 .. Len(t), NEW j \in 1 .. Len(t), t[i] = t[j] PROVE i = j
      <4>1. i + 1 = j + 1
        <5>1. i + 1 \in 1 .. Len(q) /\ j + 1 \in 1 .. Len(q) /\ q[i + 1] = q[j + 1]
          BY <1>4, <3>2
        <5>2. QueueOk(c) /\ q = conn[c].queue
          BY <1>0, <1>1 DEF ConnOk
        <5> QED BY <5>1, <5>2 DEF QueueOk
      <4> QED BY <1>4, <4>1
    <3>3. conn'[c].queue = t
      BY <2>2, <2>4
    <3> QED BY <1>5, <1>6, <1>7, <2>4, <3>1, <3>2, <3>3 DEF QueueOk
  <2>8. DrainOk(c)'
    <3>1. d.f # None => h # Stop /\ d.f = h
      BY <1>7
    <3>2. conn'[c].queue = t /\ conn'[c].drain = d
      BY <2>2, <2>4
    <3> QED BY <1>5, <1>6, <1>7, <2>4, <2>5, <3>1, <3>2 DEF DrainOk
  <2>9. EndOk(c)'
    <3>1. /\ EndOk(c) /\ conn'[c].queue = t /\ conn'[c].drain = d
          /\ conn'[c].up = conn[c].up /\ conn'[c].rx = conn[c].rx
      BY <1>0, <2>2, <2>4 DEF ConnOk
    <3>2. CASE h = Stop
      <4>1. conn[c].up \in {"closing"}
        <5>1. conn[c].up # "up" /\ conn[c].up # "closed"
          BY <1>1, <1>4, <1>5, <3>1, <3>2 DEF EndOk
        <5> QED BY <1>0, <5>1 DEF ConnSet
      <4>2. q[Len(q)] = Stop /\ Len(q) \in 1 .. Len(q)
        BY <1>1, <1>4, <1>5, <3>1, <4>1 DEF EndOk
      <4>3. Len(q) = 1
        BY <1>0, <1>1, <1>4, <1>5, <3>2, <4>2 DEF ConnOk, QueueOk
      <4>4. t = <<>>
        BY <1>4, <4>3
      <4> QED BY <1>7, <3>1, <3>2, <4>1, <4>4 DEF EndOk
    <3>3. CASE h # Stop
      <4>1. conn[c].up = "up" => \A i \in 1 .. Len(t) : t[i] # Stop
        BY <1>1, <1>4, <3>1 DEF EndOk
      <4>2. conn[c].up = "closing" => t # <<>> /\ t[Len(t)] = Stop
        <5> SUFFICES ASSUME conn[c].up = "closing" PROVE t # <<>> /\ t[Len(t)] = Stop
          OBVIOUS
        <5>1. q[Len(q)] = Stop
          BY <1>1, <1>5, <3>1 DEF EndOk
        <5>2. Len(q) # 1 /\ Len(t) \in 1 .. Len(t) /\ Len(t) + 1 = Len(q)
          BY <1>4, <3>3, <5>1
        <5>3. t[Len(t)] = Stop
          BY <1>4, <5>1, <5>2
        <5>4. t # <<>>
          BY <5>2
        <5> QED BY <5>3, <5>4
      <4>3. conn[c].up # "closed"
        BY <1>5, <3>1 DEF EndOk
      <4> QED BY <1>7, <3>1, <3>3, <4>1, <4>2, <4>3 DEF EndOk
    <3> QED BY <3>2, <3>3
  <2>10. ASSUME NEW g \in FrameIds, frames[g].conn = c PROVE Placed(g)'
    <3>1. Placed(g) /\ g # None /\ g # Stop
      BY <1>0 DEF LinkInv, None, Stop
    <3>2. CASE g = h
      <4>1. fate'[g] = "queued" => d.f = g
        BY <1>7, <3>1, <3>2
      <4>2. fate'[g] # "coming"
        BY <1>7, <3>1, <3>2
      <4> QED BY <1>5, <2>2, <2>4, <2>10, <3>1, <4>1, <4>2 DEF Placed
    <3>3. CASE g # h
      <4>1. fate'[g] = fate[g]
        BY <1>7, <3>3
      <4>2. fate[g] = "queued" => \E i \in 1 .. Len(t) : t[i] = g
        <5> SUFFICES ASSUME fate[g] = "queued" PROVE \E i \in 1 .. Len(t) : t[i] = g
          OBVIOUS
        <5>1. PICK i \in 1 .. Len(q) : q[i] = g
          BY <1>1, <1>5, <2>10, <3>1 DEF Placed
        <5>2. i - 1 \in 1 .. Len(t) /\ i - 1 + 1 = i
          BY <1>4, <3>3, <5>1
        <5>3. t[i - 1] = q[i - 1 + 1]
          BY <1>4, <5>2
        <5> QED BY <5>1, <5>2, <5>3
      <4> QED BY <1>5, <2>2, <2>4, <2>10, <3>1, <4>1, <4>2 DEF Placed
    <3> QED BY <3>2, <3>3
  <2>11. \A g \in FrameIds : \/ fate'[g] = fate[g]
                             \/ /\ frames[g].conn = c
                                /\ fate'[g] \in Taken => fate[g] \in Taken
    <3> SUFFICES ASSUME NEW g \in FrameIds, g = h
                 PROVE  frames[g].conn = c /\ fate[g] \in Taken
      BY <1>7
    <3>1. g # Stop
      BY <1>0 DEF Stop
    <3> QED BY <2>5, <3>1 DEF Taken
  <2> QED BY <1>5, <1>7, <2>2, <2>3, <2>6, <2>7, <2>8, <2>9, <2>10, <2>11, FateStep DEF ConnOk
<1>8. CASE h = Stop
  <2>1. PICK d : d = [conn[c].drain EXCEPT !.at = "off"]
    OBVIOUS
  <2>2. d \in DrainSet /\ d.f = None /\ d.at = "off"
    BY <1>0, <1>5, <2>1 DEF DrainSet, ConnSet
  <2>3. conn' = [conn EXCEPT ![c] = [conn[c] EXCEPT !.queue = t, !.drain = d]] /\ fate' = fate
    <3>1. conn' = [conn EXCEPT ![c] = [conn[c] EXCEPT !.queue = Tail(conn[c].queue),
                                                      !.drain.at = "off"]] /\ fate' = fate
      BY <1>1, <1>2, <1>8 DEF Take, Conn
    <3> QED BY <1>0, <1>1, <1>3, <2>1, <3>1 DEF ConnSet
  <2>4. fate' \in Seq(FateSet)
    BY <2>3 DEF LinkInv, LinkShape
  <2> QED BY <1>7, <1>8, <2>2, <2>3, <2>4
<1>9. CASE h # Stop
  <2>0. h \in FrameIds /\ fate[h] = "queued" /\ h # None
    BY <1>0, <1>1, <1>4, <1>5, <1>9 DEF ConnOk, QueueOk, None, Stop
  <2>1. Begin(c, h, obj[h].topic, dedup, FALSE)
    BY <1>1, <1>2, <1>9 DEF Take
  <2>2. CASE Finish(c, h, "skipped")
    <3>1. PICK d : d = [f |-> None, at |-> "get", retried |-> FALSE]
      OBVIOUS
    <3>2. d \in DrainSet /\ d.f = None /\ d.at = "get"
      BY <3>1 DEF DrainSet, None
    <3>3. /\ conn' = [conn EXCEPT ![c] = [conn[c] EXCEPT !.queue = t, !.drain = d]]
          /\ fate' = [fate EXCEPT ![h] = "skipped"]
      BY <1>1, <1>3, <1>5, <2>0, <2>2, <3>1 DEF Finish, Conn
    <3>4. /\ fate' \in Seq(FateSet) /\ Len(fate') = Len(fate)
          /\ \A g \in FrameIds : fate'[g] = IF g = h THEN "skipped" ELSE fate[g]
      <4>1. h \in 1 .. Len(fate) /\ "skipped" \in FateSet /\ fate \in Seq(FateSet)
        BY <1>0, <2>0 DEF FateSet, Taken, LinkInv, LinkShape
      <4> QED BY <1>0, <3>3, <4>1, ExceptSeq
    <3> QED BY <1>7, <1>9, <2>0, <3>2, <3>3, <3>4
  <2>3. CASE ~Finish(c, h, "skipped")
    <3>0. /\ \E at \in {"create", "post"} :
                conn' = [conn EXCEPT ![c] =
                    [conn[c] EXCEPT !.queue = IF FALSE THEN conn[c].queue
                                              ELSE Tail(conn[c].queue),
                                    !.drain = [f |-> h, at |-> at, retried |-> FALSE]]]
          /\ UNCHANGED fate
      <4>1. FALSE \in BOOLEAN
        OBVIOUS
      <4> QED BY <2>1, <2>3, <4>1, BeginEffect, Zenon
    <3>1. PICK at \in {"create", "post"} :
              conn' = [conn EXCEPT ![c] =
                  [conn[c] EXCEPT !.queue = Tail(conn[c].queue),
                                  !.drain = [f |-> h, at |-> at, retried |-> FALSE]]]
      BY <3>0
    <3>2. UNCHANGED fate
      BY <3>0
    <3>3. PICK d : d = [f |-> h, at |-> at, retried |-> FALSE]
      OBVIOUS
    <3>4. d \in DrainSet /\ d.f = h /\ d.at \in {"create", "post"}
      BY <1>4, <3>3 DEF DrainSet
    <3>5. conn' = [conn EXCEPT ![c] = [conn[c] EXCEPT !.queue = t, !.drain = d]]
      BY <1>1, <1>3, <3>1, <3>3
    <3>6. fate' \in Seq(FateSet)
      BY <3>2 DEF LinkInv, LinkShape
    <3> QED BY <1>7, <1>9, <2>0, <3>2, <3>4, <3>5, <3>6
  <2> QED BY <2>2, <2>3
<1> QED BY <1>8, <1>9

LEMMA LinkMakeTopic ==
    ASSUME LinkInv, NEW c \in ConnIds, MakeTopic(c)
    PROVE  LinkInv'
<1>0. conn[c] \in ConnSet /\ conn[c].drain.at = "create" /\ UNCHANGED <<frames, recorded>>
  BY ConnParts DEF MakeTopic, InDrain
<1>1. CASE GoOn(c, "post") /\ UNCHANGED fate
  <2>1. PICK d : d = [conn[c].drain EXCEPT !.at = "post"]
    OBVIOUS
  <2>2. d \in DrainSet /\ d.f = conn[c].drain.f /\ d.at = "post"
    BY <1>0, <2>1 DEF DrainSet, ConnSet
  <2>3. conn' = [conn EXCEPT ![c] = [conn[c] EXCEPT !.drain = d]]
    BY <1>0, <1>1, <2>1 DEF GoOn, Conn, ConnSet
  <2> QED BY <1>0, <1>1, <2>2, <2>3, DrainMoves
<1>2. CASE Finish(c, conn[c].drain.f, "failed")
  BY <1>0, <1>2, DrainFinishes
<1> QED BY <1>1, <1>2 DEF MakeTopic

LEMMA LinkPostUser ==
    ASSUME LinkInv, NEW c \in ConnIds, PostUser(c)
    PROVE  LinkInv'
<1>0. conn[c] \in ConnSet /\ conn[c].drain.at = "post" /\ UNCHANGED <<frames, recorded>>
  BY ConnParts DEF PostUser, InDrain
<1>1. PICK f : f = conn[c].drain.f
  OBVIOUS
<1>2. \/ Finish(c, f, "posted") \/ Finish(c, f, "failed")
      \/ Begin(c, f, None, Forget(f), TRUE)
  BY <1>1 DEF PostUser
<1>3. CASE Finish(c, f, "posted") \/ Finish(c, f, "failed") \/ Finish(c, f, "skipped")
  BY <1>0, <1>1, <1>3, DrainFinishes
<1>4. CASE Begin(c, f, None, Forget(f), TRUE) /\ ~Finish(c, f, "skipped")
  <2>0. /\ \E at \in {"create", "post"} :
              conn' = [conn EXCEPT ![c] =
                  [conn[c] EXCEPT !.queue = IF TRUE THEN conn[c].queue
                                            ELSE Tail(conn[c].queue),
                                  !.drain = [f |-> f, at |-> at, retried |-> TRUE]]]
        /\ UNCHANGED fate
    <3>1. TRUE \in BOOLEAN
      OBVIOUS
    <3> QED BY <1>4, <3>1, BeginEffect, Zenon
  <2>1. PICK at \in {"create", "post"} :
            conn' = [conn EXCEPT ![c] =
                [conn[c] EXCEPT !.queue = conn[c].queue,
                                !.drain = [f |-> f, at |-> at, retried |-> TRUE]]]
    BY <2>0
  <2>2. PICK d : d = [f |-> f, at |-> at, retried |-> TRUE]
    OBVIOUS
  <2>3. d \in DrainSet /\ d.f = conn[c].drain.f /\ d.at \in {"create", "post"}
    BY <1>0, <1>1, <2>2 DEF DrainSet, ConnSet
  <2>4. [conn[c] EXCEPT !.queue = conn[c].queue, !.drain = d] = [conn[c] EXCEPT !.drain = d]
    BY <1>0 DEF ConnSet
  <2>5. conn' = [conn EXCEPT ![c] = [conn[c] EXCEPT !.drain = d]]
    BY <2>1, <2>2, <2>4
  <2> QED BY <1>0, <2>0, <2>3, <2>5, DrainMoves
<1> QED BY <1>2, <1>3, <1>4

LEMMA LinkPostStep ==
    ASSUME LinkInv, NEW c \in ConnIds, PostStep(c)
    PROVE  LinkInv'
<1>1. conn[c].drain.at = "post" /\ UNCHANGED <<frames, recorded>>
  BY DEF PostStep, InDrain
<1>2. Finish(c, conn[c].drain.f, "posted") \/ Finish(c, conn[c].drain.f, "failed")
  BY DEF PostStep
<1> QED BY <1>1, <1>2, DrainFinishes

LEMMA LinkDisconnect ==
    ASSUME LinkInv, NEW c \in ConnIds, Disconnect(c)
    PROVE  LinkInv'
<1>0. /\ conn[c] \in ConnSet /\ ConnOk(c) /\ FrameIds = 1 .. Len(frames)
      /\ Len(fate) = Len(frames) /\ conn[c].queue \in Seq(Nat) /\ Len(frames) \in Nat
  BY ConnParts
<1>1. PICK p : p = Put(conn[c].queue, Stop)
  OBVIOUS
<1>2. p \in Seq(Nat) /\ Stop \in Nat
  <2>1. PICK k \in {0, 1} : k = IF Len(conn[c].queue) < QueueMax THEN 0 ELSE 1
    OBVIOUS
  <2> QED BY <1>0, <1>1, <2>1, PutQueue DEF Stop
<1>3. PICK x : x = [conn[c] EXCEPT !.up = "closing", !.queue = p]
  OBVIOUS
<1>4. /\ x \in ConnSet /\ x.up = "closing" /\ x.queue = p
      /\ x.drain = conn[c].drain /\ x.rx = conn[c].rx
  BY <1>0, <1>2, <1>3 DEF ConnSet
<1>5. /\ conn[c].up = "up" /\ conn[c].rx.f = None
      /\ fate' = Fates(Evicted(conn[c].queue), "dropped")
      /\ conn' = [conn EXCEPT ![c] = x] /\ UNCHANGED <<frames, recorded>>
  BY <1>1, <1>3 DEF Disconnect, Conn
<1>6. /\ fate' \in Seq(FateSet) /\ Len(fate') = Len(fate)
      /\ \A g \in FrameIds : fate'[g] = IF g \in Evicted(conn[c].queue)
                                        THEN "dropped" ELSE fate[g]
  BY <1>5, FatesShape DEF LinkInv, FateSet, Taken
<1>7. conn'[c] = x /\ ConnIds' = ConnIds /\ FrameIds' = FrameIds
  BY <1>4, <1>5 DEF LinkInv, LinkShape, ConnIds, FrameIds
<1>8. /\ QueueOk(c)' /\ DrainOk(c)'
      /\ LET r == conn'[c].queue
         IN  /\ r \in Seq(Nat) /\ Len(r) \in Nat \ {0} /\ r[Len(r)] = Stop
             /\ \A i \in 1 .. Len(r) - 1 : r[i] # Stop
      /\ \A g \in FrameIds : (frames[g].conn = c /\ g # Stop /\ fate'[g] = "queued") =>
             \/ conn'[c].drain.f = g
             \/ \E i \in 1 .. Len(conn'[c].queue) : conn'[c].queue[i] = g
  <2>1. \A i \in 1 .. Len(conn[c].queue) : conn[c].queue[i] # Stop
    BY <1>0, <1>5 DEF ConnOk, EndOk
  <2>2. conn'[c].queue = Put(conn[c].queue, Stop) /\ conn'[c].drain = conn[c].drain
    BY <1>1, <1>4, <1>7
  <2>3. \A g \in FrameIds :
            /\ g \in FrameIds' /\ frames'[g].conn = frames[g].conn
            /\ g # Stop => fate'[g] = IF g \in Evicted(conn[c].queue)
                                      THEN "dropped" ELSE fate[g]
    BY <1>5, <1>6, <1>7
  <2> QED BY <1>2, <1>5, <2>1, <2>2, <2>3, PutOk, Zenon
<1>9. ConnOk(c)'
  <2>1. RxOk(c)'
    BY <1>0, <1>4, <1>5, <1>7 DEF ConnOk, RxOk
  <2>2. conn'[c].queue # <<>>
    BY <1>8, EmptySeq
  <2>3. EndOk(c)'
    BY <1>0, <1>4, <1>5, <1>7, <1>8, <2>2 DEF ConnOk, EndOk
  <2> QED BY <1>8, <2>1, <2>3 DEF ConnOk
<1>10. ASSUME NEW g \in FrameIds, frames[g].conn = c PROVE Placed(g)'
  <2>1. Placed(g) /\ g # Stop /\ g # None
    BY <1>0 DEF LinkInv, Stop, None
  <2>2. fate'[g] # "coming"
    BY <1>5, <1>6, <1>10, <2>1 DEF Placed
  <2> QED BY <1>5, <1>7, <1>8, <1>10, <2>1, <2>2 DEF Placed
<1>11. \A g \in FrameIds : \/ fate'[g] = fate[g]
                           \/ /\ frames[g].conn = c
                              /\ fate'[g] \in Taken => fate[g] \in Taken
  BY <1>5, <1>6, EvictedOk DEF Taken
<1> QED BY <1>4, <1>5, <1>6, <1>9, <1>10, <1>11, FateStep

LEMMA LinkClosed ==
    ASSUME LinkInv, NEW c \in ConnIds, Closed(c)
    PROVE  LinkInv'
<1>0. conn[c] \in ConnSet /\ ConnOk(c)
  BY ConnParts
<1>1. PICK x : x = [conn[c] EXCEPT !.up = "closed"]
  OBVIOUS
<1>2. /\ x \in ConnSet /\ x.up = "closed" /\ x.queue = conn[c].queue
      /\ x.drain = conn[c].drain /\ x.rx = conn[c].rx
  BY <1>0, <1>1 DEF ConnSet
<1>3. /\ conn[c].up = "closing" /\ conn[c].drain.at = "off"
      /\ conn' = [conn EXCEPT ![c] = x] /\ UNCHANGED <<frames, fate, recorded>>
  BY <1>1 DEF Closed, Conn, InDrain
<1>4. conn'[c] = x /\ ConnIds' = ConnIds /\ FrameIds' = FrameIds
  BY <1>2, <1>3 DEF LinkInv, LinkShape, ConnIds, FrameIds
<1>5. ConnOk(c)'
  <2>1. RxOk(c)' /\ QueueOk(c)' /\ DrainOk(c)'
    BY <1>0, <1>2, <1>3, <1>4 DEF ConnOk, RxOk, QueueOk, DrainOk
  <2>2. EndOk(c)'
    BY <1>0, <1>2, <1>3, <1>4 DEF ConnOk, EndOk
  <2> QED BY <2>1, <2>2 DEF ConnOk
<1>6. \A g \in FrameIds : frames[g].conn = c => Placed(g)'
  <2> SUFFICES ASSUME NEW g \in FrameIds, frames[g].conn = c PROVE Placed(g)'
    OBVIOUS
  <2>1. Placed(g)
    BY DEF LinkInv
  <2> QED BY <1>2, <1>3, <1>4, <2>1 DEF Placed
<1>7. fate' \in Seq(FateSet)
  BY <1>3 DEF LinkInv, LinkShape
<1> QED BY <1>2, <1>3, <1>5, <1>6, <1>7, FateStep

LEMMA LinkCancel ==
    ASSUME LinkInv, NEW c \in ConnIds, Cancel(c)
    PROVE  LinkInv'
<1>1. PICK x : x = [NewConn EXCEPT !.up = "closed", !.drain.at = "off"]
  OBVIOUS
<1>2. /\ x \in ConnSet /\ x.up = "closed" /\ x.queue = <<>>
      /\ x.drain.f = None /\ x.drain.at = "off" /\ x.rx.f = None /\ x.rx.at = "idle"
  <2>1. NewConn \in ConnSet
    BY DEF NewConn, ConnSet, None
  <2>2. /\ NewConn.drain.f = None /\ NewConn.rx.f = None /\ NewConn.rx.at = "idle"
        /\ NewConn.queue = <<>>
    BY DEF NewConn
  <2> QED BY <1>1, <2>1, <2>2 DEF ConnSet
<1>3. /\ conn' = [conn EXCEPT ![c] = x] /\ UNCHANGED <<frames, recorded>>
      /\ fate' = Fates(InHand(c), "lost")
  BY <1>1 DEF Cancel, Ended, Conn
<1>4. /\ fate' \in Seq(FateSet) /\ Len(fate') = Len(fate)
      /\ \A g \in FrameIds : fate'[g] = IF g \in InHand(c) THEN "lost" ELSE fate[g]
  BY <1>3, FatesShape DEF LinkInv, FateSet
<1>5. conn'[c] = x /\ ConnIds' = ConnIds /\ FrameIds' = FrameIds
  BY <1>2, <1>3 DEF LinkInv, LinkShape, ConnIds, FrameIds
<1>6. ConnOk(c)'
  <2>1. Len(<<>>) = 0
    OBVIOUS
  <2> QED BY <1>2, <1>5, <2>1 DEF ConnOk, RxOk, QueueOk, DrainOk, EndOk
<1>7. ASSUME NEW g \in FrameIds, frames[g].conn = c PROVE Placed(g)'
  <2>1. fate'[g] \notin {"coming", "queued"}
    BY <1>4, <1>7 DEF InHand
  <2> QED BY <1>3, <1>5, <1>7, <2>1 DEF Placed
<1>8. \A g \in FrameIds : \/ fate'[g] = fate[g]
                          \/ /\ frames[g].conn = c
                             /\ fate'[g] \in Taken => fate[g] \in Taken
  BY <1>4 DEF InHand, Taken
<1> QED BY <1>2, <1>3, <1>4, <1>6, <1>7, <1>8, FateStep

-----------------------------------------------------------------------------
LEMMA LinkInit == Init => LinkInv
<1> SUFFICES ASSUME Init PROVE LinkInv
  OBVIOUS
<1>1. frames = <<>> /\ conn = <<>> /\ fate = <<>> /\ recorded = {}
  BY DEF Init, DeliveryInit
<1>2. LinkShape /\ FrameIds = {} /\ ConnIds = {}
  BY <1>1 DEF LinkShape, FrameIds, ConnIds
<1> QED BY <1>2 DEF LinkInv, TakenOnce

LEMMA LinkNext ==
    ASSUME IInv, LinkInv, [Next]_vars
    PROVE  LinkInv'
<1>1. ASSUME UNCHANGED deliveryVars PROVE LinkInv'
  BY <1>1, LinkSame DEF deliveryVars
<1>2. ASSUME NEW c \in ConnIds, DrainStep(c) PROVE LinkInv'
  BY <1>2, LinkTake, LinkMakeTopic, LinkPostUser, LinkPostStep DEF DrainStep
<1>3. ASSUME NEW c \in ConnIds, Receive(c) \/ Ready(c) \/ Record(c) \/ MarkStarted(c)
      PROVE  LinkInv'
  BY <1>3, IdsDiffer, LinkReceive, LinkReady, LinkRecord, LinkMark
<1>4. ASSUME NEW c \in ConnIds, Disconnect(c) \/ Closed(c) \/ Cancel(c) PROVE LinkInv'
  BY <1>4, LinkDisconnect, LinkClosed, LinkCancel
<1>5. ASSUME NEW k \in dedup, DedupExpires(k) PROVE LinkInv'
  BY <1>5, LinkSame DEF DedupExpires
<1>6. CASE DeliveryNext
  BY <1>2, <1>3, <1>4, <1>5, <1>6, LinkConnect DEF DeliveryNext
<1> QED BY <1>1, <1>6 DEF Next, vars

LEMMA SpecLinkInv == Spec => []LinkInv
<1>1. Init => LinkInv
  BY LinkInit
<1>2. IInv /\ LinkInv /\ [Next]_vars => LinkInv'
  BY LinkNext
<1> QED BY <1>1, <1>2, SpecIInv, PTL DEF Spec

(* A connection that was closed in order leaves nothing in its queue: the    *)
(* consumer's disconnect puts the sentinel behind what is pending, makes     *)
(* room for it if it must, and waits for the drainer to reach it.            *)
THEOREM SpecClosedIsDrained == Spec => []ClosedIsDrained
<1>1. LinkInv => ClosedIsDrained
  <2> SUFFICES ASSUME LinkInv, NEW f \in FrameIds, conn[frames[f].conn].up = "closed"
               PROVE  fate[f] \notin {"coming", "queued"}
    BY DEF ClosedIsDrained
  <2>1. PICK c : c = frames[f].conn
    OBVIOUS
  <2>2. Placed(f) /\ c \in ConnIds
    BY <2>1 DEF LinkInv, Placed
  <2>3. ConnOk(c) /\ FrameIds = 1 .. Len(frames)
    BY <2>2, ConnParts
  <2>4. conn[c].rx.f = None /\ conn[c].drain.at = "off" /\ conn[c].queue = <<>>
    BY <2>1, <2>3 DEF ConnOk, EndOk
  <2>5. conn[c].drain.f = None /\ Len(conn[c].queue) = 0 /\ f # None
    BY <2>3, <2>4 DEF ConnOk, DrainOk, None
  <2> QED BY <2>1, <2>2, <2>4, <2>5 DEF Placed
<1> QED BY <1>1, SpecLinkInv, PTL

(* A transcript line is shown once, though daemons send lines again over new *)
(* connections and _deliver_to_telegram is tried again when a topic is gone: *)
(* record_turn lets each line of a row through once, and a frame that was    *)
(* let through is in one place until its delivery is done.                   *)
THEOREM SpecLinePostedOnce == Spec => []LinePostedOnce
<1>1. LinkInv => LinePostedOnce
  BY DEF LinkInv, TakenOnce, LinePostedOnce, LineTaken, Posted, Taken, Key
<1> QED BY <1>1, SpecLinkInv, PTL

-----------------------------------------------------------------------------
(* The topics.  Whatever copies of a row's metadata there are, a topic that  *)
(* one of them names was created for that row.                               *)

MdSet     == [topic : Nat, msg : Nat, text : Seq(Nat), started : BOOLEAN]
TopicSet  == [row : Nat, live : BOOLEAN]
CallerSet == [pc : Pcs, row : Nat, md : MdSet]
MsgSet    == [topic : Nat, text : Seq(Nat)]

MetaShape ==
    /\ rows \in Seq(Row(MdSet)) /\ topics \in Seq(TopicSet) /\ msgs \in Seq(MsgSet)
    /\ obj \in Seq(MdSet) /\ Len(obj) = Len(frames)
    /\ caller \in [Callers -> CallerSet]
    /\ trouble \in [TroubleKinds -> Nat]

Names(md, r) == md.topic = None \/ (md.topic \in TopicIds /\ topics[md.topic].row = r)

CallerTopic(s) ==
    \/ /\ caller[s].row = None /\ caller[s].md.topic = None
       /\ caller[s].pc \in {"find", "write", "failed"}
    \/ /\ caller[s].row \in RowIds /\ Names(caller[s].md, caller[s].row)
       /\ rows[caller[s].row].session = BoundId(s)

TopicInv ==
    /\ MetaShape
    /\ \A t \in TopicIds : topics[t].row \in RowIds
    /\ \A r \in RowIds : Names(rows[r].md, r)
    /\ \A f \in FrameIds : frames[f].row \in RowIds /\ Names(obj[f], frames[f].row)
    /\ \A s \in Callers : CallerTopic(s)

(* Rows and topics are never taken away, and stay what they are. *)
RowsGrow ==
    /\ Len(rows) <= Len(rows')
    /\ \A r \in RowIds : rows'[r].session = rows[r].session
TopicsGrow ==
    /\ Len(topics) <= Len(topics')
    /\ \A t \in TopicIds : topics'[t].row = topics[t].row
    /\ \A t \in TopicIds' \ TopicIds : topics'[t].row \in RowIds'

LEMMA Lengths ==
    ASSUME MetaShape
    PROVE  /\ Len(rows) \in Nat /\ Len(topics) \in Nat /\ Len(obj) \in Nat /\ Len(frames) \in Nat
           /\ RowIds = 1 .. Len(rows) /\ TopicIds = 1 .. Len(topics)
           /\ FrameIds = 1 .. Len(frames)
BY DEF MetaShape, RowIds, TopicIds, FrameIds

LEMMA NamesKept ==
    ASSUME MetaShape, MetaShape', TopicsGrow, NEW md, NEW r, Names(md, r)
    PROVE  md.topic = None \/ (md.topic \in TopicIds' /\ topics'[md.topic].row = r)
<1>1. TopicIds \subseteq TopicIds'
  BY DEF MetaShape, TopicsGrow, TopicIds
<1> QED BY <1>1 DEF Names, TopicsGrow

(* A step that changes some copies of some rows' metadata. *)
LEMMA TopicKeep ==
    ASSUME TopicInv, MetaShape', RowsGrow, TopicsGrow,
           \A r \in RowIds' : (r \in RowIds /\ rows'[r].md = rows[r].md) \/ Names(rows[r].md, r)',
           \A f \in FrameIds' : \/ f \in FrameIds /\ frames'[f] = frames[f] /\ obj'[f] = obj[f]
                                \/ frames'[f].row \in RowIds' /\ Names(obj[f], frames[f].row)',
           \A s \in Callers : caller'[s] = caller[s] \/ CallerTopic(s)'
    PROVE  TopicInv'
<1>0. MetaShape
  BY DEF TopicInv
<1>1. RowIds \subseteq RowIds' /\ TopicIds \subseteq TopicIds'
  BY DEF TopicInv, MetaShape, RowsGrow, TopicsGrow, RowIds, TopicIds
<1>2. ASSUME NEW t \in TopicIds' PROVE topics'[t].row \in RowIds'
  BY <1>1 DEF TopicInv, TopicsGrow
<1>3. ASSUME NEW r \in RowIds' PROVE Names(rows[r].md, r)'
  <2>1. CASE r \in RowIds /\ rows'[r].md = rows[r].md
    <3>1. Names(rows[r].md, r)
      BY <2>1 DEF TopicInv
    <3>2. rows[r].md.topic = None
          \/ (rows[r].md.topic \in TopicIds' /\ topics'[rows[r].md.topic].row = r)
      BY <1>0, <3>1, NamesKept
    <3> QED BY <2>1, <3>2 DEF Names
  <2> QED BY <2>1
<1>4. ASSUME NEW f \in FrameIds'
      PROVE  frames'[f].row \in RowIds' /\ Names(obj[f], frames[f].row)'
  <2>1. CASE f \in FrameIds /\ frames'[f] = frames[f] /\ obj'[f] = obj[f]
    <3>1. frames[f].row \in RowIds /\ Names(obj[f], frames[f].row)
      BY <2>1 DEF TopicInv
    <3>2. \/ obj[f].topic = None
          \/ obj[f].topic \in TopicIds' /\ topics'[obj[f].topic].row = frames[f].row
      BY <1>0, <3>1, NamesKept
    <3> QED BY <1>1, <2>1, <3>1, <3>2 DEF Names
  <2> QED BY <2>1
<1>5. ASSUME NEW s \in Callers PROVE CallerTopic(s)'
  <2>1. CASE caller'[s] = caller[s]
    <3>1. CallerTopic(s)
      BY DEF TopicInv
    <3>2. CASE caller[s].row = None /\ caller[s].md.topic = None
                /\ caller[s].pc \in {"find", "write", "failed"}
      BY <2>1, <3>2 DEF CallerTopic
    <3>3. CASE ~(caller[s].row = None /\ caller[s].md.topic = None
                  /\ caller[s].pc \in {"find", "write", "failed"})
      <4>1. /\ caller[s].row \in RowIds /\ Names(caller[s].md, caller[s].row)
            /\ rows[caller[s].row].session = BoundId(s)
        BY <3>1, <3>3 DEF CallerTopic
      <4>2. \/ caller[s].md.topic = None
            \/ /\ caller[s].md.topic \in TopicIds'
               /\ topics'[caller[s].md.topic].row = caller[s].row
        BY <1>0, <4>1, NamesKept
      <4>3. caller'[s].row \in RowIds' /\ Names(caller[s].md, caller[s].row)'
        BY <1>1, <2>1, <4>1, <4>2 DEF Names
      <4>4. rows'[caller'[s].row].session = BoundId(s)
        BY <2>1, <4>1 DEF RowsGrow
      <4> QED BY <4>3, <4>4 DEF CallerTopic, BoundId, Named
    <3> QED BY <3>2, <3>3
  <2> QED BY <2>1
<1> QED BY <1>2, <1>3, <1>4, <1>5 DEF TopicInv

-----------------------------------------------------------------------------
(* What the writers do to the rows, the topics and the objects. *)
LEMMA SavedRows ==
    ASSUME rows \in Seq(Row(MdSet)), NEW r \in RowIds, NEW md \in MdSet, rows' = Saved(r, md)
    PROVE  /\ rows' \in Seq(Row(MdSet)) /\ Len(rows') = Len(rows) /\ RowIds' = RowIds
           /\ \A q \in RowIds : /\ rows'[q].session = rows[q].session
                                /\ rows'[q].md = IF q = r THEN md ELSE rows[q].md
<1>1. PICK e : e = [rows[r] EXCEPT !.md = md]
  OBVIOUS
<1>2. rows[r] \in Row(MdSet) /\ RowIds = 1 .. Len(rows)
  BY ElementOfSeq DEF RowIds
<1>3. e \in Row(MdSet) /\ e.session = rows[r].session /\ e.md = md
  BY <1>1, <1>2 DEF Row
<1>4. rows' = [rows EXCEPT ![r] = e]
  BY <1>1 DEF Saved
<1>5. /\ rows' \in Seq(Row(MdSet)) /\ Len(rows') = Len(rows)
      /\ \A q \in RowIds : rows'[q] = IF q = r THEN e ELSE rows[q]
  BY <1>2, <1>3, <1>4, ExceptSeq
<1> QED BY <1>2, <1>3, <1>5 DEF RowIds

LEMMA NewRows ==
    ASSUME rows \in Seq(Row(MdSet)), NEW s \in Sessions \cup Callers,
           NEW ref \in Sessions \cup {"blank"}, NEW started \in BOOLEAN,
           rows' = Append(rows, NewRow(s, ref, started))
    PROVE  /\ rows' \in Seq(Row(MdSet)) /\ Len(rows) \in Nat /\ Len(rows') = Len(rows) + 1
           /\ RowIds' = RowIds \cup {Len(rows) + 1} /\ Len(rows) + 1 \notin RowIds
           /\ \A q \in RowIds : rows'[q] = rows[q]
           /\ rows'[Len(rows) + 1].session = s /\ rows'[Len(rows) + 1].md = FreshMetadata(started)
<1>1. FreshMetadata(started) \in MdSet
  BY DEF FreshMetadata, MdSet, None
<1>2. PICK e : e = NewRow(s, ref, started)
  OBVIOUS
<1>3. e \in Row(MdSet) /\ e.session = s /\ e.md = FreshMetadata(started)
  BY <1>1, <1>2 DEF NewRow, Row
<1>4. /\ rows' \in Seq(Row(MdSet)) /\ Len(rows) \in Nat /\ Len(rows') = Len(rows) + 1
      /\ rows'[Len(rows) + 1] = e /\ \A q \in 1 .. Len(rows) : rows'[q] = rows[q]
  BY <1>2, <1>3
<1> QED BY <1>3, <1>4 DEF RowIds

LEMMA FreshFields ==
    ASSUME NEW started \in BOOLEAN
    PROVE  /\ FreshMetadata(started) \in MdSet /\ FreshMetadata(started).topic = None
           /\ FreshMetadata(started).msg = None /\ FreshMetadata(started).text = <<>>
BY DEF FreshMetadata, MdSet, None

LEMMA NewTopics ==
    ASSUME topics \in Seq(TopicSet), NEW r \in Nat, topics' = WithTopic(r)
    PROVE  /\ topics' \in Seq(TopicSet) /\ Len(topics) \in Nat /\ Len(topics') = Len(topics) + 1
           /\ TopicIds' = TopicIds \cup {NewTopicId} /\ NewTopicId \notin TopicIds
           /\ NewTopicId = Len(topics) + 1
           /\ \A t \in TopicIds : topics'[t] = topics[t]
           /\ topics'[NewTopicId].row = r /\ topics'[NewTopicId].live
<1>1. PICK e : e = [row |-> r, live |-> TRUE]
  OBVIOUS
<1>2. e \in TopicSet /\ e.row = r /\ e.live
  BY <1>1 DEF TopicSet
<1>3. /\ topics' \in Seq(TopicSet) /\ Len(topics) \in Nat /\ Len(topics') = Len(topics) + 1
      /\ topics'[Len(topics) + 1] = e /\ \A t \in 1 .. Len(topics) : topics'[t] = topics[t]
  BY <1>1, <1>2 DEF WithTopic
<1> QED BY <1>2, <1>3 DEF TopicIds, NewTopicId

(* Trouble only ever grows. *)
LEMMA TroubleGrows ==
    ASSUME trouble \in [TroubleKinds -> Nat], NEW kind \in TroubleKinds, GoesWrong(kind)
    PROVE  /\ trouble' \in [TroubleKinds -> Nat] /\ trouble'[kind] = trouble[kind] + 1
           /\ \A k \in TroubleKinds : k # kind => trouble'[k] = trouble[k]
BY DEF GoesWrong

(* Metadata as the drainer changes them. *)
LEMMA MdChanges ==
    ASSUME NEW md \in MdSet, NEW t \in Nat, NEW m \in Nat, NEW x \in Seq(Nat)
    PROVE  /\ [md EXCEPT !.topic = t] \in MdSet /\ [md EXCEPT !.topic = t].topic = t
           /\ [md EXCEPT !.started = TRUE] \in MdSet
           /\ [md EXCEPT !.started = TRUE].topic = md.topic
           /\ NoDigest(md) \in MdSet /\ NoDigest(md).topic = md.topic
           /\ [md EXCEPT !.text = x] \in MdSet /\ [md EXCEPT !.text = x].topic = md.topic
           /\ [md EXCEPT !.msg = m, !.text = x] \in MdSet
           /\ [md EXCEPT !.msg = m, !.text = x].topic = md.topic
<1>1. <<>> \in Seq(Nat) /\ None \in Nat
  BY DEF None
<1> QED BY <1>1 DEF MdSet, NoDigest

LEMMA TextChanges ==
    ASSUME NEW md \in MdSet, NEW m \in Nat, NEW x \in Seq(Nat)
    PROVE  /\ [md EXCEPT !.text = x] \in MdSet /\ [md EXCEPT !.text = x].topic = md.topic
           /\ [md EXCEPT !.msg = m, !.text = x] \in MdSet
           /\ [md EXCEPT !.msg = m, !.text = x].topic = md.topic
BY DEF MdSet

LEMMA TopicCleared ==
    ASSUME NEW md \in MdSet
    PROVE  [md EXCEPT !.topic = None] \in MdSet /\ [md EXCEPT !.topic = None].topic = None
BY DEF MdSet, None

(* Frame f's object is changed, and saved to its row. *)
LEMMA SaveEffect ==
    ASSUME TopicInv, NEW f \in FrameIds, NEW md \in MdSet, Save(f, md), UNCHANGED frames
    PROVE  /\ obj' \in Seq(MdSet) /\ Len(obj') = Len(frames') /\ FrameIds' = FrameIds
           /\ \A g \in FrameIds : obj'[g] = IF g = f THEN md ELSE obj[g]
           /\ rows' \in Seq(Row(MdSet)) /\ RowsGrow /\ RowIds' = RowIds
           /\ frames[f].row \in RowIds
           /\ \A q \in RowIds : rows'[q].md = IF q = frames[f].row THEN md ELSE rows[q].md
<1>1. /\ rows \in Seq(Row(MdSet)) /\ obj \in Seq(MdSet) /\ f \in 1 .. Len(obj)
      /\ Len(obj) = Len(frames) /\ Len(obj) \in Nat /\ FrameIds = 1 .. Len(obj)
      /\ frames[f].row \in RowIds
  BY DEF TopicInv, MetaShape, FrameIds
<1>2. /\ rows' \in Seq(Row(MdSet)) /\ Len(rows') = Len(rows) /\ RowIds' = RowIds
      /\ \A q \in RowIds : /\ rows'[q].session = rows[q].session
                           /\ rows'[q].md = IF q = frames[f].row THEN md ELSE rows[q].md
  BY <1>1, SavedRows DEF Save
<1>3. /\ obj' \in Seq(MdSet) /\ Len(obj') = Len(obj)
      /\ \A g \in 1 .. Len(obj) : obj'[g] = IF g = f THEN md ELSE obj[g]
  BY <1>1, ExceptSeq DEF Save
<1>4. FrameIds' = FrameIds /\ Len(rows) \in Nat
  BY <1>1 DEF FrameIds
<1> QED BY <1>1, <1>2, <1>3, <1>4 DEF RowsGrow

-----------------------------------------------------------------------------
(* The steps. *)
LEMMA TopicSame ==
    ASSUME TopicInv, UNCHANGED <<rows, topics, obj, frames, msgs, caller>>,
           trouble' \in [TroubleKinds -> Nat]
    PROVE  TopicInv'
<1>1. MetaShape /\ MetaShape'
  BY DEF TopicInv, MetaShape
<1>2. RowIds' = RowIds /\ TopicIds' = TopicIds /\ FrameIds' = FrameIds
  BY DEF RowIds, TopicIds, FrameIds
<1>3. RowsGrow /\ TopicsGrow
  BY <1>1, <1>2, Lengths DEF RowsGrow, TopicsGrow
<1> QED BY <1>1, <1>2, <1>3, TopicKeep

(* A frame's object is saved, with a topic its row may name. *)
LEMMA TopicSave ==
    ASSUME TopicInv, NEW f \in FrameIds, NEW md \in MdSet, Save(f, md),
           UNCHANGED <<frames, caller>>, msgs' \in Seq(MsgSet),
           trouble' \in [TroubleKinds -> Nat],
           topics' \in Seq(TopicSet), TopicsGrow,
           Names(md, frames[f].row)'
    PROVE  TopicInv'
<1>1. /\ obj' \in Seq(MdSet) /\ Len(obj') = Len(frames') /\ FrameIds' = FrameIds
      /\ \A g \in FrameIds : obj'[g] = IF g = f THEN md ELSE obj[g]
      /\ rows' \in Seq(Row(MdSet)) /\ RowsGrow /\ RowIds' = RowIds
      /\ frames[f].row \in RowIds
      /\ \A q \in RowIds : rows'[q].md = IF q = frames[f].row THEN md ELSE rows[q].md
  BY SaveEffect
<1>2. MetaShape'
  BY <1>1 DEF TopicInv, MetaShape
<1>3. ASSUME NEW r \in RowIds'
      PROVE  (r \in RowIds /\ rows'[r].md = rows[r].md) \/ Names(rows[r].md, r)'
  <2>1. CASE r = frames[f].row
    BY <1>1, <2>1 DEF Names
  <2>2. CASE r # frames[f].row
    BY <1>1, <1>3, <2>2
  <2> QED BY <2>1, <2>2
<1>4. ASSUME NEW g \in FrameIds'
      PROVE  \/ g \in FrameIds /\ frames'[g] = frames[g] /\ obj'[g] = obj[g]
             \/ frames'[g].row \in RowIds' /\ Names(obj[g], frames[g].row)'
  <2>1. CASE g = f
    BY <1>1, <2>1 DEF Names
  <2>2. CASE g # f
    BY <1>1, <1>4, <2>2
  <2> QED BY <2>1, <2>2
<1> QED BY <1>1, <1>2, <1>3, <1>4, TopicKeep

(* The topics stay as they are. *)
LEMMA TopicsStay ==
    ASSUME TopicInv, topics' = topics
    PROVE  topics' \in Seq(TopicSet) /\ TopicsGrow /\ TopicIds' = TopicIds
<1>1. TopicIds' = TopicIds
  BY DEF TopicIds
<1> QED BY <1>1 DEF TopicInv, MetaShape, TopicsGrow

(* A copy of a row's metadata without a digest; and two copies that agree on *)
(* the digest, or on all but "started".                                      *)
Blank(md) == md.msg = None /\ md.text = <<>>
SameDigest(md, old) == md.msg = old.msg /\ md.text = old.text
Agrees(md, old) == md.topic = old.topic /\ SameDigest(md, old)

(* How the drainer's work on frame f changes the metadata: not at all, with  *)
(* the topic kept, with a topic that is gone cleared, or with a new topic.   *)
Keeps(f)   == UNCHANGED <<topics, rows, obj>>
Rewrites(f) == /\ topics' = topics
               /\ \E md \in MdSet : Save(f, md) /\ md.topic = obj[f].topic
Clears(f)  == /\ topics' = topics /\ ~Live(obj[f].topic)
              /\ \E md \in MdSet : Save(f, md) /\ md.topic = None
Creates(f) == /\ topics' = WithTopic(frames[f].row)
              /\ \E md \in MdSet : Save(f, md) /\ md.topic = NewTopicId

TroubleMounts ==
    trouble' \in [TroubleKinds -> Nat] /\ \A k \in TroubleKinds : trouble[k] <= trouble'[k]

LEMMA Mounts ==
    ASSUME MetaShape, UNCHANGED trouble \/ \E k \in TroubleKinds : GoesWrong(k)
    PROVE  TroubleMounts
<1>1. trouble \in [TroubleKinds -> Nat]
  BY DEF MetaShape
<1>2. CASE UNCHANGED trouble
  BY <1>1, <1>2 DEF TroubleMounts
<1>3. ASSUME NEW k \in TroubleKinds, GoesWrong(k) PROVE TroubleMounts
  <2>1. /\ trouble' \in [TroubleKinds -> Nat] /\ trouble'[k] = trouble[k] + 1
        /\ \A j \in TroubleKinds : j # k => trouble'[j] = trouble[j]
    BY <1>1, <1>3, TroubleGrows
  <2>2. \A j \in TroubleKinds : trouble[j] \in Nat
    BY <1>1
  <2> QED BY <2>1, <2>2 DEF TroubleMounts
<1> QED BY <1>2, <1>3

(* The frame the drainer works on. *)
LEMMA DrainFrame ==
    ASSUME LinkInv, NEW c \in ConnIds, conn[c].drain.at \in {"create", "post"}
    PROVE  /\ conn[c].drain.f \in FrameIds /\ fate[conn[c].drain.f] = "queued"
           /\ frames[conn[c].drain.f].conn = c
<1>1. ConnOk(c)
  BY ConnParts
<1> QED BY <1>1 DEF ConnOk, DrainOk

LEMMA DrainEffect ==
    ASSUME LinkInv, TopicInv, NEW c \in ConnIds, NEW f, f = conn[c].drain.f,
           MakeTopic(c) \/ PostUser(c) \/ PostStep(c)
    PROVE  /\ Keeps(f) \/ Rewrites(f) \/ (PostUser(c) /\ Clears(f)) \/ (MakeTopic(c) /\ Creates(f))
           /\ UNCHANGED frames /\ msgs' \in Seq(MsgSet) /\ TroubleMounts
<1>0. conn[c].drain.at \in {"create", "post"}
  BY DEF MakeTopic, PostUser, PostStep, InDrain
<1>1. f \in FrameIds /\ FrameIds = 1 .. Len(frames) /\ f \in Nat
  BY <1>0, DrainFrame, ConnParts
<1>2. obj[f] \in MdSet /\ MetaShape /\ msgs \in Seq(MsgSet) /\ Len(topics) \in Nat
      /\ Len(msgs) \in Nat
  BY <1>1 DEF TopicInv, MetaShape
<1>3. obj[f].topic \in Nat /\ obj[f].text \in Seq(Nat) /\ obj[f].msg \in Nat
  BY <1>2 DEF MdSet
<1>4. NoDigest(obj[f]) \in MdSet /\ NoDigest(obj[f]).topic = obj[f].topic
  BY <1>2, <1>3, MdChanges
<1>5. CASE MakeTopic(c)
  <2>1. PICK created \in BOOLEAN, introduced \in BOOLEAN :
            /\ ApiCall(introduced)
            /\ IF created
               THEN /\ topics' = WithTopic(frames[f].row)
                    /\ Save(f, [obj[f] EXCEPT !.topic = NewTopicId])
               ELSE UNCHANGED <<topics, rows, obj>>
    BY <1>5 DEF MakeTopic
  <2>2. /\ [obj[f] EXCEPT !.topic = NewTopicId] \in MdSet
        /\ [obj[f] EXCEPT !.topic = NewTopicId].topic = NewTopicId
    <3>1. NewTopicId \in Nat
      BY <1>2 DEF NewTopicId
    <3> QED BY <1>2, <1>3, <3>1, MdChanges
  <2>3. Keeps(f) \/ Creates(f)
    BY <2>1, <2>2 DEF Keeps, Creates
  <2>4. TroubleMounts
    BY <1>2, <2>1, Mounts DEF ApiCall, TroubleKinds
  <2>5. UNCHANGED <<frames, msgs>>
    BY <1>5 DEF MakeTopic
  <2> QED BY <1>2, <1>5, <2>3, <2>4, <2>5
<1>6. CASE PostUser(c)
  <2> DEFINE md == NoDigest(obj[f])
  <2>0. UNCHANGED <<topics, frames>>
    BY <1>6 DEF PostUser
  <2>1. CASE Save(f, md)
    <3>1. Rewrites(f)
      BY <1>4, <2>0, <2>1 DEF Rewrites
    <3>2. UNCHANGED trouble \/ GoesWrong("api")
      BY <1>6 DEF PostUser
    <3>3. TroubleMounts
      BY <1>2, <3>2, Mounts DEF TroubleKinds
    <3>4. msgs' = msgs \/ msgs' = Append(msgs, Message(md.topic, <<f>>))
      BY <1>6 DEF PostUser
    <3>5. Message(md.topic, <<f>>) \in MsgSet
      <4>1. <<f>> \in Seq(Nat)
        BY <1>1
      <4> QED BY <1>3, <1>4, <4>1 DEF Message, MsgSet
    <3>6. msgs' \in Seq(MsgSet)
      BY <1>2, <3>4, <3>5, AppendProperties
    <3> QED BY <2>0, <3>1, <3>3, <3>6
  <2>2. CASE Save(f, [md EXCEPT !.topic = None]) /\ ~Live(md.topic) /\ UNCHANGED <<trouble, msgs>>
    <3>0. PICK y \in MdSet : y = md
      BY <1>3, <1>4
    <3>1. [md EXCEPT !.topic = None] \in MdSet /\ [md EXCEPT !.topic = None].topic = None
      <4>1. [y EXCEPT !.topic = None] \in MdSet /\ [y EXCEPT !.topic = None].topic = None
        BY TopicCleared
      <4> HIDE DEF md
      <4> QED BY <3>0, <4>1
    <3>2. Clears(f)
      BY <1>4, <2>0, <2>2, <3>1 DEF Clears
    <3>3. TroubleMounts
      BY <1>2, <2>2, Mounts
    <3> QED BY <1>2, <1>6, <2>0, <2>2, <3>2, <3>3
  <2> QED BY <1>6, <2>1, <2>2 DEF PostUser
<1>7. CASE PostStep(c)
  <2> DEFINE md   == Digest(f)
             text == Append(md.text, f)
             there == md.msg # None /\ Live(msgs[md.msg].topic)
  <2>0. UNCHANGED <<topics, frames>>
    BY <1>7 DEF PostStep
  <2>1. PICK edited \in BOOLEAN, sent \in BOOLEAN :
            /\ ApiCall((there => edited) /\ (edited \/ (Live(md.topic) => sent)))
            /\ IF edited
               THEN /\ msgs' = [msgs EXCEPT ![md.msg].text = text]
                    /\ Save(f, [md EXCEPT !.text = text])
               ELSE IF sent
               THEN /\ msgs' = Append(msgs, Message(md.topic, text))
                    /\ Save(f, [md EXCEPT !.msg = Len(msgs) + 1, !.text = text])
               ELSE /\ UNCHANGED msgs
                    /\ IF frames[f].reset THEN Save(f, md) ELSE UNCHANGED <<obj, rows>>
    BY <1>7 DEF PostStep
  <2>2. md \in MdSet /\ md.topic = obj[f].topic
    BY <1>2, <1>4 DEF Digest
  <2>3. md.text \in Seq(Nat) /\ md.topic \in Nat /\ md.msg \in Nat
    BY <2>2 DEF MdSet
  <2> HIDE DEF md
  <2>4. text \in Seq(Nat) /\ Len(msgs) + 1 \in Nat
    BY <1>1, <1>2, <2>3, AppendProperties
  <2> HIDE DEF text, there
  <2>5. /\ [md EXCEPT !.text = text] \in MdSet /\ [md EXCEPT !.text = text].topic = obj[f].topic
        /\ [md EXCEPT !.msg = Len(msgs) + 1, !.text = text] \in MdSet
        /\ [md EXCEPT !.msg = Len(msgs) + 1, !.text = text].topic = obj[f].topic
    <3>1. PICK y \in MdSet : y = md
      BY <2>2
    <3>2. PICK x \in Seq(Nat) : x = text
      BY <2>4
    <3>3. PICK m \in Nat : m = Len(msgs) + 1
      BY <2>4
    <3>4. /\ [y EXCEPT !.text = x] \in MdSet /\ [y EXCEPT !.text = x].topic = y.topic
          /\ [y EXCEPT !.msg = m, !.text = x] \in MdSet
          /\ [y EXCEPT !.msg = m, !.text = x].topic = y.topic
      BY TextChanges
    <3> QED BY <2>2, <3>1, <3>2, <3>3, <3>4
  <2>6. Rewrites(f) \/ Keeps(f)
    BY <2>0, <2>1, <2>2, <2>5 DEF Rewrites, Keeps
  <2>7. TroubleMounts
    BY <1>2, <2>1, Mounts DEF ApiCall, TroubleKinds
  <2>8. msgs' \in Seq(MsgSet)
    <3>1. Message(md.topic, text) \in MsgSet
      BY <2>3, <2>4 DEF Message, MsgSet
    <3>2. Append(msgs, Message(md.topic, text)) \in Seq(MsgSet)
      BY <1>2, <3>1, AppendProperties
    <3>3. [msgs EXCEPT ![md.msg].text = text] \in Seq(MsgSet)
      <4>1. CASE md.msg \in 1 .. Len(msgs)
        <5>1. PICK e : e = [msgs[md.msg] EXCEPT !.text = text]
          OBVIOUS
        <5>2. e \in MsgSet
          <6>1. msgs[md.msg] \in MsgSet
            BY <1>2, <4>1, ElementOfSeq
          <6> QED BY <2>4, <5>1, <6>1 DEF MsgSet
        <5>3. [msgs EXCEPT ![md.msg] = e] \in Seq(MsgSet)
          BY <1>2, <4>1, <5>2, ExceptSeq
        <5> QED BY <5>1, <5>3
      <4>2. CASE md.msg \notin 1 .. Len(msgs)
        <5>1. DOMAIN msgs = 1 .. Len(msgs) /\ msgs \in [1 .. Len(msgs) -> MsgSet]
          BY <1>2, LenProperties
        <5>2. [msgs EXCEPT ![md.msg].text = text] = msgs
          BY <4>2, <5>1
        <5> QED BY <1>2, <5>2
      <4> QED BY <4>1, <4>2
    <3> QED BY <1>2, <2>1, <3>2, <3>3
  <2> QED BY <2>0, <2>6, <2>7, <2>8
<1> QED BY <1>5, <1>6, <1>7

LEMMA TopicDrain ==
    ASSUME LinkInv, TopicInv, NEW c \in ConnIds, MakeTopic(c) \/ PostUser(c) \/ PostStep(c),
           UNCHANGED startVars
    PROVE  TopicInv'
<1>1. PICK f : f = conn[c].drain.f
  OBVIOUS
<1>2. /\ Keeps(f) \/ Rewrites(f) \/ Clears(f) \/ Creates(f)
      /\ UNCHANGED frames /\ msgs' \in Seq(MsgSet) /\ trouble' \in [TroubleKinds -> Nat]
  BY <1>1, DrainEffect DEF TroubleMounts
<1>3. f \in FrameIds
  <2>1. conn[c].drain.at \in {"create", "post"}
    BY DEF MakeTopic, PostUser, PostStep, InDrain
  <2> QED BY <1>1, <2>1, DrainFrame
<1>4. MetaShape /\ UNCHANGED caller /\ frames[f].row \in RowIds /\ Names(obj[f], frames[f].row)
  BY <1>3 DEF startVars, TopicInv
<1>5. CASE Keeps(f)
  <2>1. MetaShape'
    BY <1>2, <1>4, <1>5 DEF Keeps, MetaShape
  <2>2. RowIds' = RowIds /\ TopicIds' = TopicIds /\ FrameIds' = FrameIds
    BY <1>2, <1>5 DEF Keeps, RowIds, TopicIds, FrameIds
  <2>3. RowsGrow /\ TopicsGrow
    BY <1>4, <1>5, <2>2, Lengths DEF RowsGrow, TopicsGrow, Keeps
  <2> QED BY <1>2, <1>4, <1>5, <2>1, <2>2, <2>3, TopicKeep DEF Keeps
<1>6. CASE Rewrites(f) \/ Clears(f)
  <2>1. PICK md \in MdSet : Save(f, md) /\ (md.topic = obj[f].topic \/ md.topic = None)
    BY <1>6 DEF Rewrites, Clears
  <2>2. topics' = topics
    BY <1>6 DEF Rewrites, Clears
  <2>3. topics' \in Seq(TopicSet) /\ TopicsGrow /\ TopicIds' = TopicIds
    BY <2>2, TopicsStay
  <2>4. Names(md, frames[f].row)'
    BY <1>2, <1>4, <2>1, <2>2, <2>3 DEF Names
  <2> QED BY <1>2, <1>3, <1>4, <2>1, <2>3, <2>4, TopicSave
<1>7. CASE Creates(f)
  <2>1. PICK md \in MdSet : Save(f, md) /\ md.topic = NewTopicId
    BY <1>7 DEF Creates
  <2>2. frames[f].row \in Nat /\ topics \in Seq(TopicSet)
    BY <1>4, Lengths DEF MetaShape
  <2>3. /\ topics' \in Seq(TopicSet) /\ Len(topics) \in Nat /\ Len(topics') = Len(topics) + 1
        /\ TopicIds' = TopicIds \cup {NewTopicId} /\ NewTopicId \notin TopicIds
        /\ \A t \in TopicIds : topics'[t] = topics[t]
        /\ topics'[NewTopicId].row = frames[f].row
    BY <1>7, <2>2, NewTopics DEF Creates
  <2>4. RowIds' = RowIds
    BY <1>2, <1>3, <2>1, SaveEffect
  <2>5. TopicsGrow
    BY <1>4, <2>3, <2>4 DEF TopicsGrow
  <2>6. Names(md, frames[f].row)'
    BY <1>2, <2>1, <2>3 DEF Names
  <2> QED BY <1>2, <1>3, <1>4, <2>1, <2>3, <2>5, <2>6, TopicSave
<1> QED BY <1>2, <1>5, <1>6, <1>7

(* _mark_started saves the object's metadata, and claude_session_started.    *)
LEMMA MarkEffect ==
    ASSUME LinkInv, TopicInv, NEW c \in ConnIds, MarkStarted(c), NEW f, f = conn[c].rx.f
    PROVE  /\ f \in FrameIds /\ f # None /\ frames[f].row \in RowIds
           /\ UNCHANGED <<topics, obj, frames, msgs, trouble>>
           /\ rows' \in Seq(Row(MdSet)) /\ RowsGrow /\ RowIds' = RowIds
           /\ \A q \in RowIds : q # frames[f].row => rows'[q].md = rows[q].md
           /\ Agrees(rows'[frames[f].row].md, obj[f])
<1>1. f \in FrameIds /\ f # None
  <2>1. ConnOk(c)
    BY ConnParts
  <2> QED BY <2>1 DEF MarkStarted, ConnOk, RxOk
<1>2. PICK md : md = [obj[f] EXCEPT !.started = TRUE]
  OBVIOUS
<1>3. obj[f] \in MdSet /\ frames[f].row \in RowIds /\ rows \in Seq(Row(MdSet))
      /\ Len(rows) \in Nat
  BY <1>1 DEF TopicInv, MetaShape, FrameIds
<1>4. md \in MdSet /\ Agrees(md, obj[f])
  BY <1>2, <1>3 DEF MdSet, Agrees, SameDigest
<1>5. rows' = Saved(frames[f].row, md) /\ UNCHANGED <<topics, obj, frames, msgs, trouble>>
  BY <1>2 DEF MarkStarted
<1>6. /\ rows' \in Seq(Row(MdSet)) /\ Len(rows') = Len(rows) /\ RowIds' = RowIds
      /\ \A q \in RowIds : /\ rows'[q].session = rows[q].session
                           /\ rows'[q].md = IF q = frames[f].row THEN md ELSE rows[q].md
  BY <1>3, <1>4, <1>5, SavedRows
<1>7. RowsGrow
  BY <1>3, <1>6 DEF RowsGrow
<1> QED BY <1>1, <1>3, <1>4, <1>5, <1>6, <1>7

LEMMA TopicMark ==
    ASSUME LinkInv, TopicInv, NEW c \in ConnIds, MarkStarted(c), UNCHANGED startVars
    PROVE  TopicInv'
<1>1. PICK f : f = conn[c].rx.f
  OBVIOUS
<1>2. /\ f \in FrameIds /\ frames[f].row \in RowIds
      /\ UNCHANGED <<topics, obj, frames, msgs, trouble>>
      /\ rows' \in Seq(Row(MdSet)) /\ RowsGrow /\ RowIds' = RowIds
      /\ \A q \in RowIds : q # frames[f].row => rows'[q].md = rows[q].md
      /\ rows'[frames[f].row].md.topic = obj[f].topic
  BY <1>1, MarkEffect DEF Agrees
<1>3. MetaShape' /\ FrameIds' = FrameIds
  BY <1>2 DEF TopicInv, MetaShape, startVars, FrameIds
<1>4. TopicsGrow /\ TopicIds' = TopicIds
  BY <1>2, TopicsStay
<1>5. ASSUME NEW r \in RowIds'
      PROVE  (r \in RowIds /\ rows'[r].md = rows[r].md) \/ Names(rows[r].md, r)'
  <2>1. CASE r = frames[f].row
    <3>1. Names(obj[f], r)
      BY <1>2, <2>1 DEF TopicInv
    <3> QED BY <1>2, <1>4, <2>1, <3>1 DEF Names
  <2>2. CASE r # frames[f].row
    BY <1>2, <1>5, <2>2
  <2> QED BY <2>1, <2>2
<1> QED BY <1>2, <1>3, <1>4, <1>5, TopicKeep DEF startVars

(* A frame that comes in reads its row, which it may make. *)
LEMMA ArrivalEffect ==
    ASSUME IInv, IdsDiffer, LinkInv, TopicInv, NEW c \in ConnIds, Receive(c) \/ Ready(c)
    PROVE  /\ UNCHANGED <<topics, msgs, trouble>> /\ RowsGrow /\ rows' \in Seq(Row(MdSet))
           /\ \A r \in RowIds : rows'[r] = rows[r] /\ r \in RowIds'
           /\ \A r \in RowIds' \ RowIds : rows'[r].md.topic = None /\ Blank(rows'[r].md)
           /\ obj' \in Seq(MdSet) /\ Len(obj') = Len(frames') /\ Len(obj') = Len(obj) + 1
           /\ FrameIds' = FrameIds \cup {Len(frames) + 1} /\ Len(frames) + 1 \notin FrameIds
           /\ \A g \in FrameIds : frames'[g] = frames[g] /\ obj'[g] = obj[g]
           /\ \E r \in RowIds' : frames'[Len(frames) + 1].row = r
                                 /\ obj'[Len(frames) + 1] = rows'[r].md
<1>0. MetaShape /\ Len(rows) \in Nat /\ RowIds = 1 .. Len(rows) /\ rows \in Seq(Row(MdSet))
      /\ obj \in Seq(MdSet) /\ Len(obj) = Len(frames) /\ Len(frames) \in Nat
      /\ FrameIds = 1 .. Len(frames) /\ frames \in Seq(FrameSet)
  BY Lengths DEF TopicInv, MetaShape, LinkInv, LinkShape
<1>1. PICK e \in FrameSet, r \in RowIds' :
          /\ frames' = Append(frames, e) /\ e.row = r /\ obj' = Append(obj, rows'[r].md)
          /\ rows' \in Seq(Row(MdSet)) /\ RowsGrow
          /\ \A q \in RowIds : rows'[q] = rows[q] /\ q \in RowIds'
          /\ \A q \in RowIds' \ RowIds : rows'[q].md.topic = None /\ Blank(rows'[q].md)
  <2>1. CASE Receive(c)
    <3>1. PICK r \in RowIds, kind \in {"reply", "user", "assistant"},
               key \in Keys \cup {NoKey}, reset \in BOOLEAN :
              /\ frames' = Append(frames, [kind |-> kind, row |-> r, key |-> key,
                                           reset |-> reset, conn |-> c])
              /\ obj' = Append(obj, rows[r].md)
      BY <2>1 DEF Receive
    <3>2. PICK e : e = [kind |-> kind, row |-> r, key |-> key,
                        reset |-> reset, conn |-> c]
      OBVIOUS
    <3>3. r \in Nat /\ c \in Nat
      BY <1>0 DEF ConnIds, LinkInv, LinkShape
    <3>4. e \in FrameSet /\ e.row = r
      BY <3>2, <3>3 DEF FrameSet
    <3>5. rows' = rows /\ RowIds' = RowIds
      BY <2>1 DEF Receive, rowVars, RowIds
    <3>6. RowsGrow
      BY <1>0, <3>5 DEF RowsGrow
    <3> QED BY <1>0, <3>1, <3>2, <3>4, <3>5, <3>6
  <2>2. CASE Ready(c)
    <3>1. PICK s \in Sessions :
              LET mine == {r \in RowIds : rows[r].ref = s}
                  r    == IF mine = {} THEN Len(rows) + 1 ELSE CHOOSE q \in mine : TRUE
              IN  /\ rows' = IF mine = {} THEN Append(rows, NewRow(s, s, FALSE)) ELSE rows
                  /\ frames' = Append(frames, [kind |-> "ready", row |-> r, key |-> NoKey,
                                               reset |-> FALSE, conn |-> c])
                  /\ obj' = Append(obj, rows'[r].md)
      BY <2>2 DEF Ready
    <3> DEFINE mine == {r \in RowIds : rows[r].ref = s}
    <3>2. PICK r : r = IF mine = {} THEN Len(rows) + 1 ELSE CHOOSE q \in mine : TRUE
      OBVIOUS
    <3>3. PICK e : e = [kind |-> "ready", row |-> r, key |-> NoKey,
                        reset |-> FALSE, conn |-> c]
      OBVIOUS
    <3>4. frames' = Append(frames, e) /\ obj' = Append(obj, rows'[r].md)
      BY <3>1, <3>2, <3>3
    <3>5. r \in Nat /\ c \in Nat
      BY <1>0, <3>2 DEF ConnIds, LinkInv, LinkShape
    <3>6. e \in FrameSet /\ e.row = r
      BY <3>3, <3>5 DEF FrameSet
    <3>7. CASE mine = {}
      <4>1. rows' = Append(rows, NewRow(s, s, FALSE))
        BY <3>1, <3>7
      <4>2. /\ rows' \in Seq(Row(MdSet)) /\ Len(rows') = Len(rows) + 1
            /\ RowIds' = RowIds \cup {Len(rows) + 1} /\ Len(rows) + 1 \notin RowIds
            /\ \A q \in RowIds : rows'[q] = rows[q]
            /\ rows'[Len(rows) + 1].md = FreshMetadata(FALSE)
        BY <1>0, <4>1, NewRows
      <4>3. /\ r = Len(rows) + 1 /\ FreshMetadata(FALSE).topic = None
            /\ Blank(FreshMetadata(FALSE))
        BY <3>2, <3>7, FreshFields DEF Blank
      <4>4. RowsGrow
        BY <1>0, <4>2 DEF RowsGrow
      <4> QED BY <3>4, <3>6, <4>2, <4>3, <4>4
    <3>8. CASE mine # {}
      <4>1. rows' = rows /\ RowIds' = RowIds /\ r \in RowIds
        BY <3>1, <3>2, <3>8 DEF RowIds
      <4>2. RowsGrow
        BY <1>0, <4>1 DEF RowsGrow
      <4> QED BY <1>0, <3>4, <3>6, <4>1, <4>2
    <3> QED BY <3>7, <3>8
  <2> QED BY <2>1, <2>2
<1>2. rows'[r].md \in MdSet
  <2>1. r \in 1 .. Len(rows')
    BY DEF RowIds
  <2>2. rows'[r] \in Row(MdSet)
    BY <1>1, <2>1, ElementOfSeq
  <2> QED BY <2>2 DEF Row
<1>3. /\ obj' \in Seq(MdSet) /\ Len(obj') = Len(obj) + 1 /\ Len(frames') = Len(frames) + 1
      /\ \A g \in FrameIds : frames'[g] = frames[g] /\ obj'[g] = obj[g]
      /\ frames'[Len(frames) + 1] = e /\ obj'[Len(frames) + 1] = rows'[r].md
  <2>1. PICK m \in MdSet : m = rows'[r].md
    BY <1>2
  <2>2. obj' = Append(obj, m) /\ frames' = Append(frames, e)
    BY <1>1, <2>1
  <2> QED BY <1>0, <2>1, <2>2
<1>4. FrameIds' = FrameIds \cup {Len(frames) + 1} /\ Len(frames) + 1 \notin FrameIds
  BY <1>0, <1>3 DEF FrameIds
<1>5. UNCHANGED <<topics, msgs, trouble>>
  BY DEF Receive, Ready, rowVars
<1> QED BY <1>0, <1>1, <1>3, <1>4, <1>5

LEMMA TopicArrival ==
    ASSUME IInv, IdsDiffer, LinkInv, TopicInv, NEW c \in ConnIds, Receive(c) \/ Ready(c),
           UNCHANGED startVars
    PROVE  TopicInv'
<1>1. PICK r \in RowIds' :
          /\ UNCHANGED <<topics, msgs, trouble>> /\ RowsGrow /\ rows' \in Seq(Row(MdSet))
          /\ \A q \in RowIds : rows'[q] = rows[q] /\ q \in RowIds'
          /\ \A q \in RowIds' \ RowIds : rows'[q].md.topic = None
          /\ obj' \in Seq(MdSet) /\ Len(obj') = Len(frames')
          /\ FrameIds' = FrameIds \cup {Len(frames) + 1}
          /\ \A g \in FrameIds : frames'[g] = frames[g] /\ obj'[g] = obj[g]
          /\ frames'[Len(frames) + 1].row = r /\ obj'[Len(frames) + 1] = rows'[r].md
  BY ArrivalEffect
<1>2. MetaShape'
  BY <1>1 DEF TopicInv, MetaShape, startVars
<1>3. TopicsGrow /\ TopicIds' = TopicIds
  BY <1>1, TopicsStay
<1>4. ASSUME NEW q \in RowIds'
      PROVE  Names(rows[q].md, q)'
  <2>1. CASE q \in RowIds
    <3>1. Names(rows[q].md, q) /\ rows'[q] = rows[q]
      BY <1>1, <2>1 DEF TopicInv
    <3> QED BY <1>1, <1>3, <3>1 DEF Names
  <2>2. CASE q \notin RowIds
    BY <1>1, <1>4, <2>2 DEF Names
  <2> QED BY <2>1, <2>2
<1>5. ASSUME NEW g \in FrameIds'
      PROVE  \/ g \in FrameIds /\ frames'[g] = frames[g] /\ obj'[g] = obj[g]
             \/ frames'[g].row \in RowIds' /\ Names(obj[g], frames[g].row)'
  <2>1. CASE g \in FrameIds
    BY <1>1, <2>1
  <2>2. CASE g = Len(frames) + 1
    <3>1. Names(rows[r].md, r)'
      BY <1>4
    <3> QED BY <1>1, <2>2, <3>1 DEF Names
  <2> QED BY <1>1, <1>5, <2>1, <2>2
<1> QED BY <1>1, <1>2, <1>3, <1>4, <1>5, TopicKeep DEF startVars

(* A step that changes no metadata, of whatever kind. *)
LEMMA TopicQuiet ==
    ASSUME TopicInv, UNCHANGED <<rows, topics, obj, frames, msgs, startVars>>,
           UNCHANGED trouble \/ \E k \in TroubleKinds : GoesWrong(k)
    PROVE  TopicInv'
<1>1. caller' \in [Callers -> CallerSet] /\ MetaShape /\ caller' = caller
  BY DEF TopicInv, MetaShape, startVars
<1>2. trouble' \in [TroubleKinds -> Nat]
  BY <1>1, Mounts DEF TroubleMounts
<1> QED BY <1>1, <1>2, TopicSame

(* A topic that is deleted is still its row's topic. *)
LEMMA GoneEffect ==
    ASSUME MetaShape, NEW t \in TopicIds, TopicDeleted(t)
    PROVE  /\ topics' \in Seq(TopicSet) /\ Len(topics') = Len(topics) /\ TopicIds' = TopicIds
           /\ \A q \in TopicIds : topics'[q].row = topics[q].row
           /\ \A q \in TopicIds : topics'[q].live = (q # t /\ topics[q].live)
           /\ topics[t].live /\ UNCHANGED rows /\ GoesWrong("gone")
<1>1. PICK e : e = [topics[t] EXCEPT !.live = FALSE]
  OBVIOUS
<1>2. topics \in Seq(TopicSet) /\ topics[t] \in TopicSet /\ TopicIds = 1 .. Len(topics)
  BY ElementOfSeq DEF MetaShape, TopicIds
<1>3. e \in TopicSet /\ e.row = topics[t].row /\ e.live = FALSE
  BY <1>1, <1>2 DEF TopicSet
<1>4. topics' = [topics EXCEPT ![t] = e] /\ UNCHANGED rows /\ GoesWrong("gone")
      /\ topics[t].live
  BY <1>1 DEF TopicDeleted, Live
<1>5. /\ topics' \in Seq(TopicSet) /\ Len(topics') = Len(topics)
      /\ \A q \in TopicIds : topics'[q] = IF q = t THEN e ELSE topics[q]
  BY <1>2, <1>3, <1>4, ExceptSeq
<1>6. ASSUME NEW q \in TopicIds
      PROVE  topics'[q].row = topics[q].row /\ topics'[q].live = (q # t /\ topics[q].live)
  <2>1. topics[q] \in TopicSet
    BY <1>2, ElementOfSeq
  <2>2. topics[q].live \in BOOLEAN
    BY <2>1 DEF TopicSet
  <2>3. CASE q = t
    BY <1>3, <1>5, <2>3
  <2>4. CASE q # t
    BY <1>5, <2>2, <2>4
  <2> QED BY <2>3, <2>4
<1>7. TopicIds' = TopicIds
  BY <1>5 DEF TopicIds
<1> QED BY <1>4, <1>5, <1>6, <1>7

LEMMA TopicGone ==
    ASSUME TopicInv, NEW t \in TopicIds, TopicDeleted(t), UNCHANGED <<startVars, deliveryVars>>
    PROVE  TopicInv'
<1>0. MetaShape /\ UNCHANGED <<caller, obj, frames, msgs, rows>>
  BY DEF TopicInv, startVars, deliveryVars, TopicDeleted
<1>1. /\ topics' \in Seq(TopicSet) /\ Len(topics') = Len(topics) /\ TopicIds' = TopicIds
      /\ \A q \in TopicIds : topics'[q].row = topics[q].row
      /\ GoesWrong("gone")
  BY <1>0, GoneEffect
<1>2. TroubleMounts
  BY <1>0, <1>1, Mounts DEF TroubleKinds
<1>3. MetaShape'
  BY <1>0, <1>1, <1>2 DEF MetaShape, TroubleMounts
<1>4. RowIds' = RowIds /\ FrameIds' = FrameIds
  BY <1>0 DEF RowIds, FrameIds
<1>5. RowsGrow
  BY <1>0, <1>4, Lengths DEF RowsGrow
<1>6. TopicsGrow
  BY <1>0, <1>1, Lengths DEF TopicsGrow
<1> QED BY <1>0, <1>3, <1>4, <1>5, <1>6, TopicKeep

-----------------------------------------------------------------------------
(* The steps of start_session. *)
LEMMA CallerGoes ==
    ASSUME caller \in [Callers -> CallerSet], NEW s \in Callers,
           NEW p \in Pcs, NEW x \in Nat, NEW m \in MdSet, Goes(s, p, x, m)
    PROVE  /\ caller' \in [Callers -> CallerSet]
           /\ caller'[s].pc = p /\ caller'[s].row = x /\ caller'[s].md = m
           /\ \A u \in Callers : u # s => caller'[u] = caller[u]
<1>1. PICK e : e = [pc |-> p, row |-> x, md |-> m]
  OBVIOUS
<1>2. e \in CallerSet /\ e.pc = p /\ e.row = x /\ e.md = m
  BY <1>1 DEF CallerSet
<1>3. caller' = [caller EXCEPT ![s] = e]
  BY <1>1 DEF Goes
<1> QED BY <1>2, <1>3

(* What a request that goes on to p has done to the rows, the topics and     *)
(* what it knows.                                                            *)
Reads(s)    == /\ UNCHANGED rowVars /\ At(s, "find")
               /\ \E x \in RowIds \cup {None} :
                      /\ Goes(s, "write", x, IF x = None THEN FreshMetadata(Named(s))
                                             ELSE rows[x].md)
                      /\ x # None => Named(s) /\ rows[x].session = BoundId(s)
Inserts(s)  == /\ UNCHANGED <<topics, trouble>> /\ At(s, "write") /\ caller[s].row = None
               /\ rows' = Append(rows, NewRow(BoundId(s), "blank", Named(s)))
               /\ Goes(s, "bind", Len(rows) + 1, FreshMetadata(Named(s)))
WritesBack(s) ==
               /\ UNCHANGED <<topics, trouble>> /\ At(s, "write") /\ caller[s].row # None
               /\ rows' = Saved(caller[s].row, caller[s].md)
               /\ Goes(s, "bind", caller[s].row, FreshMetadata(Named(s)))
Binds(s)    == /\ UNCHANGED rowVars /\ caller[s].pc \in {"bind", "insert"}
               /\ \E p \in {"insert", "topic", "failed"} :
                      Goes(s, p, caller[s].row, caller[s].md)
Looks(s)    == /\ UNCHANGED rowVars /\ At(s, "topic")
               /\ \/ Goes(s, "done", caller[s].row, caller[s].md)
                  \/ /\ ReadAgain(s).topic = None
                     /\ Goes(s, "create", caller[s].row, ReadAgain(s))
Makes(s)    == /\ UNCHANGED trouble /\ At(s, "create")
               /\ topics' = WithTopic(caller[s].row)
               /\ rows' = Saved(caller[s].row, [caller[s].md EXCEPT !.topic = NewTopicId])
               /\ Goes(s, "done", caller[s].row, FreshMetadata(Named(s)))
Fails(s)    == /\ UNCHANGED <<rows, topics>> /\ (\E k \in TroubleKinds : GoesWrong(k))
               /\ \/ At(s, "create") /\ Goes(s, "done", caller[s].row, FreshMetadata(Named(s)))
                  \/ /\ caller[s].pc \notin {"find", "done", "failed"}
                     /\ Goes(s, "failed", caller[s].row, caller[s].md)
Loses(s)    == /\ UNCHANGED rows /\ GoesWrong("stop") /\ At(s, "create")
               /\ topics' = WithTopic(caller[s].row)
               /\ Goes(s, "failed", caller[s].row, caller[s].md)

(* The search finds a row of its session. *)
LEMMA ExistingIsThere ==
    ASSUME RowsShape, NEW session, Existing(session) # None
    PROVE  Existing(session) \in RowIds /\ rows[Existing(session)].session = session
<1> DEFINE found == {r \in RowIds : rows[r].session = session}
<1>1. found # {}
  BY DEF Existing
<1>2. Len(rows) \in Nat
  BY DEF RowsShape
<1>3. \E r \in found : \A q \in found : q <= r
  BY <1>1, <1>2, LastPosition DEF RowIds
<1>4. Existing(session) \in found
  BY <1>1, <1>3 DEF Existing
<1> QED BY <1>4

LEMMA StartEffect ==
    ASSUME IInv, NEW s \in Callers, CallerStep(s) \/ Abort(s)
    PROVE  \/ Reads(s) \/ Inserts(s) \/ WritesBack(s) \/ Binds(s)
           \/ Looks(s) \/ Makes(s) \/ Fails(s) \/ Loses(s)
<1>a. RowsShape /\ CallerShape
  BY DEF IInv, Shape
<1>1. CASE FindThread(s)
  <2>1. PICK x : x = IF Named(s) THEN Existing(SessionOf[s]) ELSE None
    OBVIOUS
  <2>2. /\ Goes(s, "write", x, IF x = None THEN FreshMetadata(Named(s)) ELSE rows[x].md)
        /\ UNCHANGED rowVars /\ At(s, "find")
    BY <1>1, <2>1 DEF FindThread, Goes, Step
  <2>3. x # None => x \in RowIds /\ Named(s) /\ rows[x].session = BoundId(s)
    BY <1>a, <2>1, ExistingIsThere DEF BoundId
  <2>4. Reads(s)
    BY <2>2, <2>3 DEF Reads
  <2> QED BY <2>4
<1>2. CASE WriteThread(s)
  <2>1. CASE caller[s].row = None
    <3>1. Inserts(s)
      BY <1>2, <2>1 DEF WriteThread, Inserts, Goes, Step
    <3> QED BY <3>1
  <2>2. CASE caller[s].row # None
    <3>1. WritesBack(s)
      BY <1>2, <2>2 DEF WriteThread, WritesBack, Goes, Step
    <3> QED BY <3>1
  <2> QED BY <2>1, <2>2
<1>3. CASE BindConnector(s) \/ InsertConnector(s)
  <2>1. PICK p \in {"insert", "topic", "failed"} : Step(s, [caller[s] EXCEPT !.pc = p])
    BY <1>3 DEF BindConnector, InsertConnector
  <2>2. Goes(s, p, caller[s].row, caller[s].md)
    BY <1>a, <2>1, PcGoes
  <2>3. Binds(s)
    BY <1>3, <2>2 DEF Binds, BindConnector, InsertConnector, At
  <2> QED BY <2>3
<1>4. CASE CheckTopic(s)
  <2>1. CASE ReadAgain(s).topic # None
    <3>1. Step(s, [caller[s] EXCEPT !.pc = "done"])
      BY <1>4, <2>1 DEF CheckTopic
    <3>2. Goes(s, "done", caller[s].row, caller[s].md)
      BY <1>a, <3>1, PcGoes
    <3>3. Looks(s)
      BY <1>4, <3>2 DEF CheckTopic, Looks
    <3> QED BY <3>3
  <2>2. CASE ReadAgain(s).topic = None
    <3>1. Looks(s)
      BY <1>4, <2>2 DEF CheckTopic, Looks, Step, Goes
    <3> QED BY <3>1
  <2> QED BY <2>1, <2>2
<1>5. CASE CreateTopic(s)
  <2>1. PICK ok \in BOOLEAN :
            /\ ApiCall(ok)
            /\ topics' = IF ok THEN WithTopic(caller[s].row) ELSE topics
            /\ rows' = IF ok THEN Saved(caller[s].row,
                                        [caller[s].md EXCEPT !.topic = NewTopicId])
                       ELSE rows
    BY <1>5 DEF CreateTopic
  <2>2. At(s, "create") /\ Goes(s, "done", caller[s].row, FreshMetadata(Named(s)))
    BY <1>5 DEF CreateTopic, Step, Goes
  <2>3. CASE ok
    <3>1. Makes(s)
      BY <2>1, <2>2, <2>3 DEF Makes, ApiCall
    <3> QED BY <3>1
  <2>4. CASE ~ok
    <3>1. GoesWrong("api") /\ UNCHANGED <<rows, topics>>
      BY <2>1, <2>4 DEF ApiCall
    <3>2. Fails(s)
      BY <2>2, <3>1 DEF Fails, TroubleKinds
    <3> QED BY <3>2
  <2> QED BY <2>3, <2>4
<1>6. CASE Abort(s)
  <2>1. /\ Step(s, [caller[s] EXCEPT !.pc = "failed"]) /\ GoesWrong("stop") /\ UNCHANGED rows
        /\ caller[s].pc \notin {"find", "done", "failed"}
        /\ topics' = topics \/ (At(s, "create") /\ topics' = WithTopic(caller[s].row))
    BY <1>6 DEF Abort
  <2>2. Goes(s, "failed", caller[s].row, caller[s].md)
    BY <1>a, <2>1, PcGoes
  <2>3. CASE topics' = topics
    <3>1. Fails(s)
      BY <2>1, <2>2, <2>3 DEF Fails, TroubleKinds
    <3> QED BY <3>1
  <2>4. CASE At(s, "create") /\ topics' = WithTopic(caller[s].row)
    <3>1. Loses(s)
      BY <2>1, <2>2, <2>4 DEF Loses
    <3> QED BY <3>1
  <2> QED BY <2>1, <2>3, <2>4
<1> QED BY <1>1, <1>2, <1>3, <1>4, <1>5, <1>6 DEF CallerStep

(* A request moves on, and may have saved a topic its row names. *)
LEMMA CallerMoves ==
    ASSUME TopicInv, NEW s \in Callers, NEW p \in Pcs, NEW x \in Nat, NEW m \in MdSet,
           Goes(s, p, x, m), UNCHANGED deliveryVars, TroubleMounts,
           rows' \in Seq(Row(MdSet)), topics' \in Seq(TopicSet), RowsGrow, TopicsGrow,
           \A r \in RowIds' : (r \in RowIds /\ rows'[r].md = rows[r].md) \/ Names(rows[r].md, r)',
           \/ x = None /\ m.topic = None /\ p \in {"find", "write", "failed"}
           \/ x \in RowIds' /\ Names(m, x)' /\ rows'[x].session = BoundId(s)
    PROVE  TopicInv'
<1>0. MetaShape /\ UNCHANGED <<obj, frames, msgs>> /\ FrameIds' = FrameIds
  BY DEF TopicInv, deliveryVars, FrameIds
<1>1. /\ caller' \in [Callers -> CallerSet] /\ caller'[s].row = x /\ caller'[s].md = m
      /\ caller'[s].pc = p
      /\ \A u \in Callers : u # s => caller'[u] = caller[u]
  BY <1>0, CallerGoes DEF MetaShape
<1>2. MetaShape'
  BY <1>0, <1>1 DEF MetaShape, TroubleMounts
<1>3. CallerTopic(s)'
  BY <1>1 DEF CallerTopic, Names, BoundId, Named
<1>4. \A u \in Callers : caller'[u] = caller[u] \/ CallerTopic(u)'
  BY <1>1, <1>3
<1> QED BY <1>0, <1>2, <1>4, TopicKeep

LEMMA TopicStart ==
    ASSUME IInv, IdsDiffer, TopicInv, NEW s \in Callers, CallerStep(s) \/ Abort(s),
           UNCHANGED deliveryVars
    PROVE  TopicInv'
<1>0. /\ MetaShape /\ rows \in Seq(Row(MdSet)) /\ topics \in Seq(TopicSet)
      /\ caller \in [Callers -> CallerSet] /\ caller[s] \in CallerSet
      /\ Len(rows) \in Nat /\ RowIds = 1 .. Len(rows)
  BY Lengths DEF TopicInv, MetaShape
<1>1. caller[s].row \in Nat /\ caller[s].md \in MdSet
  BY <1>0 DEF CallerSet
<1>2. CallerTopic(s) /\ Named(s) \in BOOLEAN
  BY DEF TopicInv, Named
<1>3. /\ FreshMetadata(Named(s)) \in MdSet /\ FreshMetadata(Named(s)).topic = None
  BY <1>2, FreshFields
<1>4. \A r \in RowIds : rows[r].md \in MdSet /\ Names(rows[r].md, r)
  <2> SUFFICES ASSUME NEW r \in RowIds
               PROVE  rows[r].md \in MdSet /\ Names(rows[r].md, r)
    OBVIOUS
  <2>1. rows[r] \in Row(MdSet)
    BY <1>0, ElementOfSeq
  <2> QED BY <2>1 DEF Row, TopicInv
<1>5. ASSUME UNCHANGED rows
      PROVE  RowsGrow /\ RowIds' = RowIds /\ rows' \in Seq(Row(MdSet))
  BY <1>0, <1>5 DEF RowsGrow, RowIds
<1>6. ASSUME UNCHANGED topics
      PROVE  TopicsGrow /\ TopicIds' = TopicIds /\ topics' \in Seq(TopicSet)
  BY <1>6, TopicsStay
<1>7. ASSUME caller[s].pc \notin {"find", "write", "failed"} \/ caller[s].row # None
      PROVE  /\ caller[s].row \in RowIds /\ Names(caller[s].md, caller[s].row)
             /\ rows[caller[s].row].session = BoundId(s)
  BY <1>2, <1>7 DEF CallerTopic
<1>8. ASSUME NEW r \in Nat, r \in RowIds', RowIds' = RowIds, topics' = WithTopic(r)
      PROVE  /\ TopicsGrow /\ topics' \in Seq(TopicSet) /\ NewTopicId \in TopicIds'
             /\ topics'[NewTopicId].row = r /\ NewTopicId \in Nat
  <2>1. /\ topics' \in Seq(TopicSet) /\ Len(topics) \in Nat /\ Len(topics') = Len(topics) + 1
        /\ TopicIds' = TopicIds \cup {NewTopicId} /\ NewTopicId \notin TopicIds
        /\ NewTopicId = Len(topics) + 1
        /\ \A t \in TopicIds : topics'[t] = topics[t]
        /\ topics'[NewTopicId].row = r
    BY <1>0, <1>8, NewTopics
  <2>2. TopicsGrow
    BY <1>8, <2>1 DEF TopicsGrow
  <2> QED BY <2>1, <2>2
<1>10. CASE Reads(s)
  <2>1. PICK x \in RowIds \cup {None} :
            /\ Goes(s, "write", x, IF x = None THEN FreshMetadata(Named(s)) ELSE rows[x].md)
            /\ x # None => Named(s) /\ rows[x].session = BoundId(s)
    BY <1>10 DEF Reads
  <2>2. PICK m : m = IF x = None THEN FreshMetadata(Named(s)) ELSE rows[x].md
    OBVIOUS
  <2>3. m \in MdSet /\ x \in Nat /\ "write" \in Pcs
    BY <1>0, <1>3, <1>4, <2>2 DEF None, Pcs
  <2>4. UNCHANGED <<rows, topics, trouble>>
    BY <1>10 DEF Reads, rowVars
  <2>5. TroubleMounts
    BY <1>0, <2>4, Mounts
  <2>6. /\ RowsGrow /\ RowIds' = RowIds /\ rows' \in Seq(Row(MdSet))
        /\ TopicsGrow /\ TopicIds' = TopicIds /\ topics' \in Seq(TopicSet)
    BY <1>5, <1>6, <2>4
  <2>7. \/ x = None /\ m.topic = None
        \/ x \in RowIds' /\ Names(m, x)' /\ rows'[x].session = BoundId(s)
    <3>1. CASE x = None
      BY <1>3, <2>2, <3>1
    <3>2. CASE x # None
      <4>1. x \in RowIds /\ m = rows[x].md /\ Names(m, x)
        BY <1>4, <2>2, <3>2
      <4>2. Names(m, x)'
        BY <2>4, <2>6, <4>1 DEF Names
      <4> QED BY <2>1, <2>4, <2>6, <3>2, <4>1, <4>2
    <3> QED BY <3>1, <3>2
  <2>8. \A r \in RowIds' : r \in RowIds /\ rows'[r].md = rows[r].md
    BY <2>4, <2>6
  <2>9. Goes(s, "write", x, m)
    BY <2>1, <2>2
  <2> QED BY <2>3, <2>5, <2>6, <2>7, <2>8, <2>9, CallerMoves
<1>11. CASE Inserts(s)
  <2>1. rows' = Append(rows, NewRow(BoundId(s), "blank", Named(s)))
    BY <1>11 DEF Inserts
  <2>2. BoundId(s) \in Sessions \cup Callers
    BY DEF BoundId, Named, IdsDiffer
  <2>3. /\ rows' \in Seq(Row(MdSet)) /\ Len(rows') = Len(rows) + 1
        /\ RowIds' = RowIds \cup {Len(rows) + 1}
        /\ \A q \in RowIds : rows'[q] = rows[q]
        /\ rows'[Len(rows) + 1].session = BoundId(s)
        /\ rows'[Len(rows) + 1].md = FreshMetadata(Named(s))
    BY <1>0, <1>2, <2>1, <2>2, NewRows
  <2>4. RowsGrow
    BY <1>0, <2>3 DEF RowsGrow
  <2>5. TopicsGrow /\ TopicIds' = TopicIds /\ topics' \in Seq(TopicSet) /\ topics' = topics
    BY <1>6, <1>11 DEF Inserts
  <2>6. TroubleMounts
    BY <1>0, <1>11, Mounts DEF Inserts
  <2>7. ASSUME NEW r \in RowIds'
        PROVE  (r \in RowIds /\ rows'[r].md = rows[r].md) \/ Names(rows[r].md, r)'
    <3>1. CASE r \in RowIds
      BY <2>3, <3>1
    <3>2. CASE r = Len(rows) + 1
      BY <1>3, <2>3, <3>2 DEF Names
    <3> QED BY <2>3, <3>1, <3>2
  <2>8. Len(rows) + 1 \in RowIds' /\ Names(FreshMetadata(Named(s)), Len(rows) + 1)'
    <3>1. PICK m : m = FreshMetadata(Named(s))
      OBVIOUS
    <3>2. m.topic = None
      BY <1>3, <3>1
    <3> QED BY <2>3, <3>1, <3>2 DEF Names, FreshMetadata, Named
  <2>9. Goes(s, "bind", Len(rows) + 1, FreshMetadata(Named(s))) /\ "bind" \in Pcs
        /\ Len(rows) + 1 \in Nat
    BY <1>0, <1>11 DEF Inserts, Pcs
  <2>10. PICK x, m : x = Len(rows) + 1 /\ m = FreshMetadata(Named(s))
    OBVIOUS
  <2>11. /\ Goes(s, "bind", x, m) /\ x \in Nat /\ m \in MdSet
         /\ x \in RowIds' /\ Names(m, x)' /\ rows'[x].session = BoundId(s)
    BY <1>3, <2>3, <2>8, <2>9, <2>10 DEF Names
  <2> QED BY <2>3, <2>4, <2>5, <2>6, <2>7, <2>9, <2>11, CallerMoves
<1>12. CASE WritesBack(s)
  <2>1. PICK x, m : x = caller[s].row /\ m = caller[s].md
    OBVIOUS
  <2>2. /\ x \in RowIds /\ Names(m, x) /\ rows[x].session = BoundId(s)
        /\ m \in MdSet /\ x \in Nat
    BY <1>1, <1>7, <1>12, <2>1 DEF WritesBack
  <2>3. rows' = Saved(x, m)
    BY <1>12, <2>1 DEF WritesBack
  <2>4. /\ rows' \in Seq(Row(MdSet)) /\ Len(rows') = Len(rows) /\ RowIds' = RowIds
        /\ \A q \in RowIds : /\ rows'[q].session = rows[q].session
                             /\ rows'[q].md = IF q = x THEN m ELSE rows[q].md
    BY <1>0, <2>2, <2>3, SavedRows
  <2>5. RowsGrow
    BY <1>0, <2>4 DEF RowsGrow
  <2>6. TopicsGrow /\ TopicIds' = TopicIds /\ topics' \in Seq(TopicSet) /\ topics' = topics
    BY <1>6, <1>12 DEF WritesBack
  <2>7. TroubleMounts
    BY <1>0, <1>12, Mounts DEF WritesBack
  <2>8. Names(m, x)'
    BY <2>2, <2>6 DEF Names
  <2>9. ASSUME NEW r \in RowIds'
        PROVE  (r \in RowIds /\ rows'[r].md = rows[r].md) \/ Names(rows[r].md, r)'
    <3>1. CASE r = x
      BY <2>2, <2>4, <2>8, <3>1 DEF Names
    <3>2. CASE r # x
      BY <2>4, <2>9, <3>2
    <3> QED BY <3>1, <3>2
  <2>10. PICK w : w = FreshMetadata(Named(s))
    OBVIOUS
  <2>11. /\ Goes(s, "bind", x, w) /\ w \in MdSet /\ x \in RowIds' /\ Names(w, x)'
         /\ rows'[x].session = BoundId(s) /\ "bind" \in Pcs
    BY <1>3, <1>12, <2>1, <2>2, <2>4, <2>10 DEF Names, WritesBack, Pcs
  <2> QED BY <2>2, <2>4, <2>5, <2>6, <2>7, <2>9, <2>11, CallerMoves
<1>13. ASSUME UNCHANGED <<rows, topics>>, TroubleMounts, NEW p \in Pcs,
              NEW x \in Nat, NEW m \in MdSet, Goes(s, p, x, m),
              x \in RowIds, Names(m, x), rows[x].session = BoundId(s)
       PROVE  TopicInv'
  <2>1. /\ RowsGrow /\ RowIds' = RowIds /\ rows' \in Seq(Row(MdSet))
        /\ TopicsGrow /\ TopicIds' = TopicIds /\ topics' \in Seq(TopicSet)
    BY <1>5, <1>6, <1>13
  <2>2. \A r \in RowIds' : r \in RowIds /\ rows'[r].md = rows[r].md
    BY <1>13, <2>1
  <2>3. x \in RowIds' /\ Names(m, x)' /\ rows'[x].session = BoundId(s)
    BY <1>13, <2>1 DEF Names
  <2> QED BY <1>13, <2>1, <2>2, <2>3, CallerMoves
<1>14. CASE Binds(s)
  <2>1. PICK p \in {"insert", "topic", "failed"} : Goes(s, p, caller[s].row, caller[s].md)
    BY <1>14 DEF Binds
  <2>2. TroubleMounts /\ UNCHANGED <<rows, topics>> /\ p \in Pcs
    BY <1>0, <1>14, Mounts DEF Binds, rowVars, Pcs
  <2>3. /\ caller[s].row \in RowIds /\ Names(caller[s].md, caller[s].row)
        /\ rows[caller[s].row].session = BoundId(s)
    BY <1>7, <1>14 DEF Binds
  <2> QED BY <1>1, <1>13, <2>1, <2>2, <2>3
<1>15. CASE Looks(s)
  <2>1. TroubleMounts /\ UNCHANGED <<rows, topics>>
    BY <1>0, <1>15, Mounts DEF Looks, rowVars
  <2>2. /\ caller[s].row \in RowIds /\ Names(caller[s].md, caller[s].row)
        /\ rows[caller[s].row].session = BoundId(s)
    BY <1>7, <1>15 DEF Looks, At
  <2>3. ReadAgain(s) \in MdSet /\ Names(ReadAgain(s), caller[s].row)
    BY <1>1, <1>4, <2>2 DEF ReadAgain
  <2>4. "done" \in Pcs /\ "create" \in Pcs
    BY DEF Pcs
  <2>5. CASE Goes(s, "done", caller[s].row, caller[s].md)
    BY <1>1, <1>13, <2>1, <2>2, <2>4, <2>5
  <2>6. CASE Goes(s, "create", caller[s].row, ReadAgain(s))
    BY <1>1, <1>13, <2>1, <2>2, <2>3, <2>4, <2>6
  <2> QED BY <1>15, <2>5, <2>6 DEF Looks
<1>16. CASE Fails(s)
  <2>1. TroubleMounts /\ UNCHANGED <<rows, topics>>
    BY <1>0, <1>16, Mounts DEF Fails
  <2>2. CASE /\ At(s, "create")
             /\ Goes(s, "done", caller[s].row, FreshMetadata(Named(s)))
    <3>1. /\ caller[s].row \in RowIds /\ rows[caller[s].row].session = BoundId(s)
          /\ Names(FreshMetadata(Named(s)), caller[s].row) /\ "done" \in Pcs
      BY <1>3, <1>7, <2>2 DEF At, Names, Pcs
    <3> QED BY <1>1, <1>3, <1>13, <2>1, <2>2, <3>1
  <2>3. CASE Goes(s, "failed", caller[s].row, caller[s].md)
    <3>1. "failed" \in Pcs
      BY DEF Pcs
    <3>2. CASE caller[s].row # None
      <4>1. /\ caller[s].row \in RowIds /\ Names(caller[s].md, caller[s].row)
            /\ rows[caller[s].row].session = BoundId(s)
        BY <1>7, <3>2
      <4> QED BY <1>1, <1>13, <2>1, <2>3, <3>1, <4>1
    <3>3. CASE caller[s].row = None
      <4>1. caller[s].md.topic = None
        BY <1>0, <1>2, <3>3 DEF CallerTopic, None
      <4>2. /\ RowsGrow /\ RowIds' = RowIds /\ rows' \in Seq(Row(MdSet))
            /\ TopicsGrow /\ TopicIds' = TopicIds /\ topics' \in Seq(TopicSet)
        BY <1>5, <1>6, <2>1
      <4>3. \A r \in RowIds' : r \in RowIds /\ rows'[r].md = rows[r].md
        BY <2>1, <4>2
      <4> QED BY <1>1, <2>1, <2>3, <3>1, <3>3, <4>1, <4>2, <4>3, CallerMoves
    <3> QED BY <3>2, <3>3
  <2> QED BY <1>16, <2>2, <2>3 DEF Fails
<1>17. CASE Makes(s)
  <2>1. PICK x, m : x = caller[s].row /\ m = [caller[s].md EXCEPT !.topic = NewTopicId]
    OBVIOUS
  <2>2. x \in RowIds /\ rows[x].session = BoundId(s) /\ x \in Nat
    BY <1>1, <1>7, <1>17, <2>1 DEF Makes, At
  <2>3. NewTopicId \in Nat /\ m \in MdSet /\ m.topic = NewTopicId
    <3>1. NewTopicId \in Nat
      BY <1>0 DEF NewTopicId
    <3> QED BY <1>1, <2>1, <3>1 DEF MdSet
  <2>4. rows' = Saved(x, m) /\ topics' = WithTopic(x)
    BY <1>17, <2>1 DEF Makes
  <2>5. /\ rows' \in Seq(Row(MdSet)) /\ Len(rows') = Len(rows) /\ RowIds' = RowIds
        /\ \A q \in RowIds : /\ rows'[q].session = rows[q].session
                             /\ rows'[q].md = IF q = x THEN m ELSE rows[q].md
    BY <1>0, <2>2, <2>3, <2>4, SavedRows
  <2>6. RowsGrow
    BY <1>0, <2>5 DEF RowsGrow
  <2>7. /\ TopicsGrow /\ topics' \in Seq(TopicSet) /\ NewTopicId \in TopicIds'
        /\ topics'[NewTopicId].row = x
    BY <1>8, <2>2, <2>4, <2>5
  <2>8. ASSUME NEW r \in RowIds'
        PROVE  (r \in RowIds /\ rows'[r].md = rows[r].md) \/ Names(rows[r].md, r)'
    <3>1. CASE r = x
      BY <2>2, <2>3, <2>5, <2>7, <3>1 DEF Names
    <3>2. CASE r # x
      BY <2>5, <2>8, <3>2
    <3> QED BY <3>1, <3>2
  <2>9. PICK w : w = FreshMetadata(Named(s))
    OBVIOUS
  <2>10. /\ Goes(s, "done", x, w) /\ w \in MdSet /\ x \in RowIds' /\ Names(w, x)'
         /\ rows'[x].session = BoundId(s) /\ "done" \in Pcs
    BY <1>3, <1>17, <2>1, <2>2, <2>5, <2>9 DEF Names, Makes, Pcs
  <2>11. TroubleMounts
    BY <1>0, <1>17, Mounts DEF Makes
  <2> QED BY <2>2, <2>5, <2>6, <2>7, <2>8, <2>10, <2>11, CallerMoves
<1>18. CASE Loses(s)
  <2>1. PICK x, m : x = caller[s].row /\ m = caller[s].md
    OBVIOUS
  <2>2. /\ x \in RowIds /\ Names(m, x) /\ rows[x].session = BoundId(s)
        /\ m \in MdSet /\ x \in Nat
    BY <1>1, <1>7, <1>18, <2>1 DEF Loses, At
  <2>3. RowsGrow /\ RowIds' = RowIds /\ rows' \in Seq(Row(MdSet)) /\ rows' = rows
    BY <1>5, <1>18 DEF Loses
  <2>4. /\ TopicsGrow /\ topics' \in Seq(TopicSet)
    BY <1>8, <1>18, <2>1, <2>2, <2>3 DEF Loses
  <2>5. topics' \in Seq(TopicSet) /\ MetaShape
    BY <1>0, <2>4
  <2>6. TopicIds \subseteq TopicIds'
    BY <1>0, <2>4, <2>5, Lengths DEF TopicsGrow, TopicIds
  <2>7. Names(m, x)'
    BY <2>2, <2>4, <2>6 DEF Names, TopicsGrow
  <2>8. Goes(s, "failed", x, m) /\ "failed" \in Pcs
    BY <1>18, <2>1 DEF Loses, Pcs
  <2>9. TroubleMounts
    BY <1>0, <1>18, Mounts DEF Loses, TroubleKinds
  <2>10. \A r \in RowIds' : r \in RowIds /\ rows'[r].md = rows[r].md
    BY <2>3
  <2>11. x \in RowIds' /\ rows'[x].session = BoundId(s)
    BY <2>2, <2>3
  <2> QED BY <2>2, <2>3, <2>4, <2>7, <2>8, <2>9, <2>10, <2>11, CallerMoves
<1> QED BY <1>10, <1>11, <1>12, <1>14, <1>15, <1>16, <1>17, <1>18, StartEffect

-----------------------------------------------------------------------------
LEMMA TopicInit == Init => TopicInv
<1> SUFFICES ASSUME Init PROVE TopicInv
  OBVIOUS
<1>1. rows = <<>> /\ topics = <<>> /\ msgs = <<>> /\ obj = <<>> /\ frames = <<>>
  BY DEF Init, RowsInit, DeliveryInit
<1>2. RowIds = {} /\ TopicIds = {} /\ FrameIds = {}
  BY <1>1 DEF RowIds, TopicIds, FrameIds
<1>3. FreshMetadata(FALSE) \in MdSet /\ FreshMetadata(FALSE).topic = None
  BY FreshFields
<1>4. PICK e : e = [pc |-> "find", row |-> None, md |-> FreshMetadata(FALSE)]
  OBVIOUS
<1>5. e \in CallerSet /\ e.row = None /\ e.md.topic = None /\ e.pc = "find"
  BY <1>3, <1>4 DEF CallerSet, Pcs, None
<1>6. caller = [s \in Callers |-> e] /\ trouble = [k \in TroubleKinds |-> 0]
  BY <1>4 DEF Init, StartInit, RowsInit
<1>7. MetaShape
  BY <1>1, <1>5, <1>6 DEF MetaShape
<1>8. \A s \in Callers : CallerTopic(s)
  BY <1>5, <1>6 DEF CallerTopic
<1> QED BY <1>2, <1>7, <1>8 DEF TopicInv

LEMMA TopicNext ==
    ASSUME IInv, LinkInv, TopicInv, [Next]_vars
    PROVE  TopicInv'
<1>1. CASE StartNext /\ UNCHANGED deliveryVars
  <2>1. PICK s \in Callers : CallerStep(s) \/ Abort(s)
    BY <1>1 DEF StartNext
  <2> QED BY <1>1, <2>1, IdsDiffer, TopicStart
<1>2. CASE DeliveryNext /\ UNCHANGED startVars
  <2>1. ASSUME NEW c \in ConnIds, Receive(c) \/ Ready(c) PROVE TopicInv'
    BY <1>2, <2>1, IdsDiffer, TopicArrival
  <2>2. ASSUME NEW c \in ConnIds, MarkStarted(c) PROVE TopicInv'
    BY <1>2, <2>2, TopicMark
  <2>3. ASSUME NEW c \in ConnIds, MakeTopic(c) \/ PostUser(c) \/ PostStep(c) PROVE TopicInv'
    BY <1>2, <2>3, TopicDrain
  <2>4. ASSUME NEW c \in ConnIds, Record(c) \/ Take(c) \/ Disconnect(c) \/ Closed(c)
        PROVE  TopicInv'
    <3>1. UNCHANGED <<rows, topics, obj, frames, msgs, trouble>>
      BY <2>4 DEF Record, Take, Disconnect, Closed, rowVars
    <3> QED BY <1>2, <3>1, TopicQuiet
  <2>5. ASSUME NEW c \in ConnIds, Cancel(c) PROVE TopicInv'
    <3>1. UNCHANGED <<rows, topics, obj, frames, msgs>> /\ GoesWrong("stop")
      BY <2>5 DEF Cancel
    <3> QED BY <1>2, <3>1, TopicQuiet DEF TroubleKinds
  <2>6. ASSUME Connect \/ \E k \in dedup : DedupExpires(k) PROVE TopicInv'
    <3>1. UNCHANGED <<rows, topics, obj, frames, msgs, trouble>>
      BY <2>6 DEF Connect, DedupExpires, rowVars
    <3> QED BY <1>2, <3>1, TopicQuiet
  <2> QED BY <1>2, <2>1, <2>2, <2>3, <2>4, <2>5, <2>6 DEF DeliveryNext, DrainStep
<1>3. ASSUME NEW t \in TopicIds, TopicDeleted(t), UNCHANGED <<startVars, deliveryVars>>
      PROVE  TopicInv'
  BY <1>3, TopicGone
<1>4. CASE UNCHANGED vars
  <2>1. UNCHANGED <<rows, topics, obj, frames, msgs, startVars, trouble>>
    BY <1>4 DEF vars, rowVars, deliveryVars
  <2> QED BY <2>1, TopicQuiet
<1> QED BY <1>1, <1>2, <1>3, <1>4 DEF Next

LEMMA SpecTopicInv == Spec => []TopicInv
<1>1. Init => TopicInv
  BY TopicInit
<1>2. IInv /\ LinkInv /\ TopicInv /\ [Next]_vars => TopicInv'
  BY TopicNext
<1> QED BY <1>1, <1>2, SpecIInv, SpecLinkInv, PTL DEF Spec

-----------------------------------------------------------------------------
(* User turns.  A topic is found gone only when one was deleted, a second    *)
(* time only when two were, and the cache holds only lines whose delivery    *)
(* was begun.                                                                *)
Dead == {t \in TopicIds : ~topics[t].live}

GoneOk ==
    /\ Dead # {} => trouble["gone"] > 0
    /\ \A t, u \in Dead : t # u => trouble["gone"] > 1

DrainTopic(c) ==
    LET d == conn[c].drain
    IN  /\ d.at = "post" => obj[d.f].topic # None
        /\ d.at = "create" => obj[d.f].topic = None
        /\ d.at \in {"create", "post"} /\ d.retried => Dead \ {obj[d.f].topic} # {}

Begun(g) ==
    /\ fate[g] # "coming"
    /\ fate[g] = "queued" => conn[frames[g].conn].drain.f = g

CacheOk == \A k \in dedup : \E g \in FrameIds : Key(g) = k /\ Begun(g)

(* What may keep a user turn away, as UserTurnShown says. *)
Excused(f) ==
    \/ trouble["api"] > 0 \/ trouble["gone"] > 1
    \/ \E t \in TopicIds :
           /\ topics[t].row # frames[f].row
           /\ rows[topics[t].row].session = rows[frames[f].row].session
    \/ \E g \in FrameIds \ {f} : Key(g) = Key(f)

NotShown(f) == frames[f].kind = "user" /\ fate[f] \in {"failed", "skipped"}

UserInv ==
    /\ GoneOk /\ CacheOk
    /\ \A c \in ConnIds : DrainTopic(c)
    /\ \A f \in FrameIds : NotShown(f) => Excused(f)

(* What a step of connection c leaves alone, and where a frame may go.       *)
Others(c) ==
    /\ ConnIds' = ConnIds /\ \A d \in ConnIds : d # c => conn'[d] = conn[d]
    /\ FrameIds \subseteq FrameIds' /\ \A f \in FrameIds : frames'[f] = frames[f]
    /\ \A f \in FrameIds : frames[f].conn # c => fate'[f] = fate[f]

FateGoesOn(f) ==
    \/ fate'[f] = fate[f]
    \/ fate[f] = "coming" /\ fate'[f] \in {"queued", "repeated", "lost"}
    \/ fate[f] = "queued" /\ fate'[f] \in {"dropped", "lost"}

Quiet(c) ==
    /\ Others(c) /\ dedup' = dedup
    /\ \A f \in FrameIds : FateGoesOn(f)
    /\ \A f \in FrameIds' \ FrameIds : fate'[f] \in {"coming", "queued"}
    /\ conn'[c].rx.f \in {conn[c].rx.f, None} \cup (FrameIds' \ FrameIds)
    /\ \/ conn'[c].drain = conn[c].drain
       \/ /\ conn'[c].drain.at = "off" /\ conn'[c].drain.f = None
          /\ \A f \in FrameIds : f = conn[c].drain.f => fate'[f] # "queued"

LEMMA ConnUpdate ==
    ASSUME LinkInv, NEW c \in ConnIds, NEW x, conn' = [conn EXCEPT ![c] = x]
    PROVE  ConnIds' = ConnIds /\ conn'[c] = x /\ \A d \in ConnIds : d # c => conn'[d] = conn[d]
<1>1. DOMAIN conn = 1 .. Len(conn) /\ Len(conn) \in Nat /\ ConnIds = 1 .. Len(conn)
  BY DEF LinkInv, LinkShape, ConnIds
<1>2. DOMAIN conn' = 1 .. Len(conn) /\ conn'[c] = x
      /\ \A d \in 1 .. Len(conn) : d # c => conn'[d] = conn[d]
  BY <1>1
<1>3. Len(conn') = Len(conn)
  BY <1>1, <1>2 DEF LinkInv, LinkShape
<1> QED BY <1>1, <1>2, <1>3 DEF ConnIds

LEMMA SameFrames ==
    ASSUME LinkInv, UNCHANGED frames
    PROVE  FrameIds' = FrameIds /\ FrameIds = 1 .. Len(frames) /\ Len(frames) \in Nat
           /\ Len(fate) = Len(frames)
BY DEF FrameIds, LinkInv, LinkShape

LEMMA QuietReceive ==
    ASSUME LinkInv, NEW c \in ConnIds, Receive(c)
    PROVE  Quiet(c)
<1>0. Len(frames) \in Nat /\ Len(fate) = Len(frames) /\ FrameIds = 1 .. Len(frames)
      /\ conn[c] \in ConnSet
  BY ConnParts
<1>1. PICK e : frames' = Append(frames, e)
  BY DEF Receive
<1>2. PICK y : y = [f |-> Len(frames) + 1, at |-> "record"]
  OBVIOUS
<1>3. PICK x : x = [conn[c] EXCEPT !.rx = y]
  OBVIOUS
<1>4. x.rx.f = Len(frames) + 1 /\ x.drain = conn[c].drain
  BY <1>0, <1>2, <1>3 DEF ConnSet
<1>5. fate' = Append(fate, "coming") /\ conn' = [conn EXCEPT ![c] = x] /\ dedup' = dedup
  BY <1>2, <1>3 DEF Receive, Conn
<1>6. /\ Len(frames') = Len(frames) + 1 /\ fate'[Len(frames) + 1] = "coming"
      /\ \A f \in FrameIds : frames'[f] = frames[f] /\ fate'[f] = fate[f]
  BY <1>0, <1>1, <1>5 DEF LinkInv, LinkShape
<1>7. FrameIds' = FrameIds \cup {Len(frames) + 1} /\ Len(frames) + 1 \notin FrameIds
  BY <1>0, <1>6 DEF FrameIds
<1>8. Others(c) /\ conn'[c] = x
  BY <1>5, <1>6, <1>7, ConnUpdate DEF Others
<1>9. /\ conn'[c].rx.f \in FrameIds' \ FrameIds /\ conn'[c].drain = conn[c].drain
      /\ \A f \in FrameIds' \ FrameIds : fate'[f] = "coming"
  BY <1>4, <1>6, <1>7, <1>8
<1>10. \A f \in FrameIds : FateGoesOn(f)
  BY <1>6 DEF FateGoesOn
<1> QED BY <1>5, <1>8, <1>9, <1>10 DEF Quiet

LEMMA QuietReady ==
    ASSUME LinkInv, NEW c \in ConnIds, Ready(c)
    PROVE  Quiet(c)
<1>0. Len(frames) \in Nat /\ Len(fate) = Len(frames) /\ FrameIds = 1 .. Len(frames)
      /\ conn[c] \in ConnSet
  BY ConnParts
<1>1. PICK e : frames' = Append(frames, e)
  BY DEF Ready
<1>2. PICK p : p = Put(conn[c].queue, Len(frames) + 1)
  OBVIOUS
<1>3. PICK x : x = [conn[c] EXCEPT !.queue = p]
  OBVIOUS
<1>4. x.rx = conn[c].rx /\ x.drain = conn[c].drain
  BY <1>0, <1>3 DEF ConnSet
<1>5. PICK t : t = Fates(Evicted(conn[c].queue), "dropped")
  OBVIOUS
<1>6. /\ fate' = Append(t, "queued") /\ conn' = [conn EXCEPT ![c] = x] /\ dedup' = dedup
      /\ conn[c].up = "up"
  BY <1>2, <1>3, <1>5 DEF Ready, Conn
<1>7. /\ t \in Seq(FateSet) /\ Len(t) = Len(fate)
      /\ \A f \in FrameIds : t[f] = IF f \in Evicted(conn[c].queue) THEN "dropped" ELSE fate[f]
  BY <1>5, FatesShape DEF LinkInv, FateSet, Taken
<1>8. /\ Len(frames') = Len(frames) + 1 /\ fate'[Len(frames) + 1] = "queued"
      /\ \A f \in FrameIds : frames'[f] = frames[f] /\ fate'[f] = t[f]
  BY <1>0, <1>1, <1>6, <1>7 DEF LinkInv, LinkShape
<1>9. FrameIds' = FrameIds \cup {Len(frames) + 1} /\ Len(frames) + 1 \notin FrameIds
  BY <1>0, <1>8 DEF FrameIds
<1>10. ASSUME NEW f \in FrameIds
       PROVE  /\ FateGoesOn(f)
              /\ frames[f].conn # c => fate'[f] = fate[f]
  BY <1>6, <1>7, <1>8, EvictedOk DEF FateGoesOn
<1>11. Others(c) /\ conn'[c] = x
  BY <1>6, <1>8, <1>9, <1>10, ConnUpdate DEF Others
<1> QED BY <1>4, <1>6, <1>8, <1>9, <1>10, <1>11 DEF Quiet

LEMMA QuietRecord ==
    ASSUME LinkInv, NEW c \in ConnIds, Record(c)
    PROVE  Quiet(c)
<1>0. /\ Len(fate) = Len(frames) /\ FrameIds = 1 .. Len(frames)
      /\ conn[c] \in ConnSet /\ ConnOk(c) /\ FrameIds' = FrameIds /\ UNCHANGED <<frames, dedup>>
  BY ConnParts, SameFrames DEF Record
<1>1. PICK f : f = conn[c].rx.f
  OBVIOUS
<1>2. /\ f \in FrameIds /\ frames[f].conn = c /\ fate[f] = "coming"
      /\ conn[c].up = "up"
  <2>1. conn[c].rx.at = "record"
    BY DEF Record
  <2>2. f \in FrameIds /\ frames[f].conn = c /\ fate[f] = "coming" /\ f # None
    BY <1>0, <1>1, <2>1 DEF ConnOk, RxOk
  <2> QED BY <1>0, <1>1, <2>2 DEF ConnOk, EndOk
<1>3. PICK x :
          /\ conn' = [conn EXCEPT ![c] = x] /\ x.drain = conn[c].drain
          /\ x.rx.f \in {f, None}
  <2>1. CASE Repeated(f)
    <3>1. PICK y : y = [f |-> None, at |-> "idle"]
      OBVIOUS
    <3>2. PICK x : x = [conn[c] EXCEPT !.rx = y]
      OBVIOUS
    <3>3. conn' = [conn EXCEPT ![c] = x]
      BY <1>1, <2>1, <3>1, <3>2 DEF Record, Conn
    <3>4. x.drain = conn[c].drain /\ x.rx.f \in {f, None}
      BY <1>0, <3>1, <3>2 DEF ConnSet
    <3> QED BY <3>3, <3>4
  <2>2. CASE ~Repeated(f)
    <3>1. PICK y : y = IF frames[f].kind = "reply" THEN [f |-> f, at |-> "mark"]
                       ELSE [f |-> None, at |-> "idle"]
      OBVIOUS
    <3>2. PICK p : p = Put(conn[c].queue, f)
      OBVIOUS
    <3>3. PICK x : x = [conn[c] EXCEPT !.rx = y, !.queue = p]
      OBVIOUS
    <3>4. conn' = [conn EXCEPT ![c] = x]
      BY <1>1, <2>2, <3>1, <3>2, <3>3 DEF Record, Conn
    <3>5. y.f \in {f, None}
      BY <3>1
    <3>6. x.drain = conn[c].drain /\ x.rx.f \in {f, None}
      BY <1>0, <3>3, <3>5 DEF ConnSet
    <3> QED BY <3>4, <3>6
  <2> QED BY <2>1, <2>2
<1>4. /\ fate'[f] \in {"queued", "repeated"}
      /\ \A g \in FrameIds : g # f =>
             fate'[g] = fate[g] \/ (g \in Evicted(conn[c].queue) /\ fate'[g] = "dropped")
  <2>1. CASE Repeated(f)
    <3>1. fate' = Fates({f}, "repeated")
      BY <1>1, <2>1 DEF Record
    <3>2. \A g \in FrameIds : fate'[g] = IF g = f THEN "repeated" ELSE fate[g]
      BY <3>1, FatesShape DEF LinkInv, FateSet
    <3> QED BY <1>2, <3>2
  <2>2. CASE ~Repeated(f)
    <3>1. PICK t : t = Fates(Evicted(conn[c].queue), "dropped")
      OBVIOUS
    <3>2. /\ t \in Seq(FateSet) /\ Len(t) = Len(fate)
          /\ \A g \in FrameIds : t[g] = IF g \in Evicted(conn[c].queue)
                                        THEN "dropped" ELSE fate[g]
      BY <3>1, FatesShape DEF LinkInv, FateSet, Taken
    <3>3. fate' = [t EXCEPT ![f] = "queued"]
      BY <1>1, <2>2, <3>1 DEF Record
    <3>4. \A g \in FrameIds : fate'[g] = IF g = f THEN "queued" ELSE t[g]
      BY <1>0, <1>2, <3>2, <3>3
    <3> QED BY <1>2, <3>2, <3>4
  <2> QED BY <2>1, <2>2
<1>5. ASSUME NEW g \in FrameIds
      PROVE  /\ FateGoesOn(g)
             /\ frames[g].conn # c => fate'[g] = fate[g]
  <2>1. CASE g = f
    BY <1>2, <1>4, <2>1 DEF FateGoesOn
  <2>2. CASE g # f
    BY <1>2, <1>4, <2>2, EvictedOk DEF FateGoesOn
  <2> QED BY <2>1, <2>2
<1>6. Others(c) /\ conn'[c] = x
  BY <1>0, <1>3, <1>5, ConnUpdate DEF Others
<1> QED BY <1>0, <1>1, <1>3, <1>5, <1>6 DEF Quiet

LEMMA QuietEnds ==
    ASSUME LinkInv, NEW c \in ConnIds,
           MarkStarted(c) \/ Disconnect(c) \/ Closed(c) \/ Cancel(c)
    PROVE  Quiet(c)
<1>0. /\ Len(fate) = Len(frames) /\ FrameIds = 1 .. Len(frames) /\ conn[c] \in ConnSet
      /\ FrameIds' = FrameIds /\ UNCHANGED <<frames, dedup>>
  BY ConnParts, SameFrames DEF MarkStarted, Disconnect, Closed, Cancel
<1>1. CASE MarkStarted(c)
  <2>1. PICK y : y = [f |-> None, at |-> "idle"]
    OBVIOUS
  <2>2. PICK x : x = [conn[c] EXCEPT !.rx = y]
    OBVIOUS
  <2>3. x.drain = conn[c].drain /\ x.rx.f = None
    BY <1>0, <2>1, <2>2 DEF ConnSet
  <2>4. conn' = [conn EXCEPT ![c] = x] /\ fate' = fate
    BY <1>1, <2>1, <2>2 DEF MarkStarted, Conn
  <2>5. Others(c) /\ conn'[c] = x
    BY <1>0, <2>4, ConnUpdate DEF Others
  <2> QED BY <1>0, <2>3, <2>4, <2>5 DEF Quiet, FateGoesOn
<1>2. CASE Disconnect(c)
  <2>1. PICK p : p = Put(conn[c].queue, Stop)
    OBVIOUS
  <2>2. PICK x : x = [conn[c] EXCEPT !.up = "closing", !.queue = p]
    OBVIOUS
  <2>3. x.drain = conn[c].drain /\ x.rx = conn[c].rx
    BY <1>0, <2>2 DEF ConnSet
  <2>4. conn' = [conn EXCEPT ![c] = x] /\ fate' = Fates(Evicted(conn[c].queue), "dropped")
        /\ conn[c].up = "up"
    BY <1>2, <2>1, <2>2 DEF Disconnect, Conn
  <2>5. \A g \in FrameIds : fate'[g] = IF g \in Evicted(conn[c].queue)
                                       THEN "dropped" ELSE fate[g]
    BY <2>4, FatesShape DEF LinkInv, FateSet, Taken
  <2>6. ASSUME NEW g \in FrameIds
        PROVE  /\ FateGoesOn(g)
               /\ frames[g].conn # c => fate'[g] = fate[g]
    BY <2>4, <2>5, EvictedOk DEF FateGoesOn
  <2>7. Others(c) /\ conn'[c] = x
    BY <1>0, <2>4, <2>6, ConnUpdate DEF Others
  <2> QED BY <1>0, <2>3, <2>6, <2>7 DEF Quiet
<1>3. CASE Closed(c)
  <2>1. PICK x : x = [conn[c] EXCEPT !.up = "closed"]
    OBVIOUS
  <2>2. x.drain = conn[c].drain /\ x.rx = conn[c].rx
    BY <1>0, <2>1 DEF ConnSet
  <2>3. conn' = [conn EXCEPT ![c] = x] /\ fate' = fate
    BY <1>3, <2>1 DEF Closed, Conn
  <2>4. Others(c) /\ conn'[c] = x
    BY <1>0, <2>3, ConnUpdate DEF Others
  <2> QED BY <1>0, <2>2, <2>3, <2>4 DEF Quiet, FateGoesOn
<1>4. CASE Cancel(c)
  <2>1. PICK x : x = [NewConn EXCEPT !.up = "closed", !.drain.at = "off"]
    OBVIOUS
  <2>2. x.drain.at = "off" /\ x.drain.f = None /\ x.rx.f = None
    BY <2>1 DEF NewConn
  <2>3. conn' = [conn EXCEPT ![c] = x] /\ fate' = Fates(InHand(c), "lost")
    BY <1>4, <2>1 DEF Cancel, Ended, Conn
  <2>4. \A g \in FrameIds : fate'[g] = IF g \in InHand(c) THEN "lost" ELSE fate[g]
    BY <2>3, FatesShape DEF LinkInv, FateSet
  <2>5. ASSUME NEW g \in FrameIds
        PROVE  /\ FateGoesOn(g)
               /\ frames[g].conn # c => fate'[g] = fate[g]
               /\ frames[g].conn = c => fate'[g] \notin {"coming", "queued"}
    BY <2>4 DEF FateGoesOn, InHand
  <2>6. Others(c) /\ conn'[c] = x
    BY <1>0, <2>3, <2>5, ConnUpdate DEF Others
  <2>7. ASSUME NEW g \in FrameIds, g = conn[c].drain.f PROVE fate'[g] # "queued"
    <3>1. ConnOk(c)
      BY ConnParts
    <3>2. g # None => frames[g].conn = c
      BY <2>7, <3>1 DEF ConnOk, DrainOk
    <3> QED BY <1>0, <2>5, <3>2 DEF None
  <2> QED BY <1>0, <2>2, <2>5, <2>6, <2>7 DEF Quiet
<1> QED BY <1>1, <1>2, <1>3, <1>4

(* The sentinel ends the drainer, which has nothing in hand. *)
LEMMA QuietStop ==
    ASSUME LinkInv, NEW c \in ConnIds, Take(c), Head(conn[c].queue) = Stop
    PROVE  Quiet(c)
<1>0. /\ FrameIds = 1 .. Len(frames) /\ conn[c] \in ConnSet /\ ConnOk(c)
      /\ FrameIds' = FrameIds /\ UNCHANGED <<frames, dedup, fate>>
  BY ConnParts, SameFrames DEF Take
<1>1. PICK d : d = [conn[c].drain EXCEPT !.at = "off"]
  OBVIOUS
<1>2. PICK t : t = Tail(conn[c].queue)
  OBVIOUS
<1>3. PICK x : x = [conn[c] EXCEPT !.queue = t, !.drain = d]
  OBVIOUS
<1>4. conn' = [conn EXCEPT ![c] = x]
  <2>1. conn' = [conn EXCEPT ![c] = [conn[c] EXCEPT !.queue = Tail(conn[c].queue),
                                                     !.drain.at = "off"]]
    BY DEF Take, Conn
  <2> QED BY <1>0, <1>1, <1>2, <1>3, <2>1 DEF ConnSet
<1>5. conn[c].drain.f = None
  BY <1>0 DEF Take, InDrain, ConnOk, DrainOk
<1>6. x.rx = conn[c].rx /\ x.drain.at = "off" /\ x.drain.f = None
  <2>1. d.at = "off" /\ d.f = None
    BY <1>0, <1>1, <1>5 DEF ConnSet
  <2> QED BY <1>0, <1>3, <2>1 DEF ConnSet
<1>7. Others(c) /\ conn'[c] = x
  BY <1>0, <1>4, ConnUpdate DEF Others
<1> QED BY <1>0, <1>5, <1>6, <1>7 DEF Quiet, FateGoesOn, None

(* The drainer of c works on frame f: it goes on, or is done with it.        *)
Works(c, f) ==
    /\ Others(c) /\ UNCHANGED frames
    /\ f \in FrameIds /\ frames[f].conn = c /\ fate[f] = "queued"
    /\ conn[c].drain.f \in {f, None} /\ conn'[c].rx = conn[c].rx
    /\ \A g \in FrameIds : g # f => fate'[g] = fate[g]
    /\ \/ fate'[f] = "queued" /\ conn'[c].drain.f = f
       \/ /\ fate'[f] \in {"skipped", "posted", "failed"}
          /\ conn'[c].drain.f = None /\ conn'[c].drain.at = "get"

LEMMA FinishWorks ==
    ASSUME LinkInv, NEW c \in ConnIds, NEW f \in FrameIds, UNCHANGED frames,
           frames[f].conn = c, fate[f] = "queued", conn[c].drain.f \in {f, None},
           NEW how \in {"skipped", "posted", "failed"}, Finish(c, f, how)
    PROVE  Works(c, f) /\ fate'[f] = how /\ conn'[c].drain.at = "get"
<1>0. /\ FrameIds = 1 .. Len(frames) /\ conn[c] \in ConnSet /\ Len(fate) = Len(frames)
      /\ FrameIds' = FrameIds
  BY ConnParts, SameFrames
<1>1. PICK d : d = [f |-> None, at |-> "get", retried |-> FALSE]
  OBVIOUS
<1>2. PICK q : q = IF conn[c].drain.f = f THEN conn[c].queue ELSE Tail(conn[c].queue)
  OBVIOUS
<1>3. PICK x : x = [conn[c] EXCEPT !.queue = q, !.drain = d]
  OBVIOUS
<1>4. conn' = [conn EXCEPT ![c] = x] /\ fate' = [fate EXCEPT ![f] = how]
  BY <1>1, <1>2, <1>3 DEF Finish, Conn
<1>5. x.rx = conn[c].rx /\ x.drain.at = "get" /\ x.drain.f = None
  BY <1>0, <1>1, <1>3 DEF ConnSet
<1>6. \A g \in FrameIds : fate'[g] = IF g = f THEN how ELSE fate[g]
  BY <1>0, <1>4 DEF LinkInv, LinkShape
<1>7. ConnIds' = ConnIds /\ conn'[c] = x /\ \A e \in ConnIds : e # c => conn'[e] = conn[e]
  BY <1>4, ConnUpdate, Zenon
<1>8. \A g \in FrameIds : frames[g].conn # c => fate'[g] = fate[g]
  BY <1>6
<1>9. FrameIds \subseteq FrameIds' /\ \A g \in FrameIds : frames'[g] = frames[g]
  BY <1>0
<1>10. Others(c)
  BY <1>7, <1>8, <1>9, Zenon DEF Others
<1> QED BY <1>5, <1>6, <1>7, <1>10 DEF Works

(* What Begin decides: the line is cached as seen, another row of the        *)
(* session has a topic, or the frame is worked on.                           *)
LEMMA BeginWorks ==
    ASSUME LinkInv, NEW c \in ConnIds, NEW f \in FrameIds, UNCHANGED frames,
           frames[f].conn = c, fate[f] = "queued", conn[c].drain.f \in {f, None},
           NEW topic, NEW seen, NEW retried \in BOOLEAN, Begin(c, f, topic, seen, retried)
    PROVE  /\ Works(c, f)
           /\ \A k \in dedup' : k \in seen \/ k = Key(f)
           /\ \/ Key(f) \in seen /\ fate'[f] = "skipped"
              \/ Conflict(frames[f].row) /\ fate'[f] = "skipped"
              \/ /\ fate'[f] = "queued" /\ conn'[c].drain.f = f
                 /\ conn'[c].drain.retried = retried
                 /\ conn'[c].drain.at = IF topic # None THEN "post" ELSE "create"
<1>1. CASE frames[f].key # NoKey /\ Key(f) \in seen
  <2>1. Finish(c, f, "skipped") /\ dedup' = seen
    BY <1>1 DEF Begin
  <2> QED BY <1>1, <2>1, FinishWorks
<1>2. CASE ~(frames[f].key # NoKey /\ Key(f) \in seen)
  <2>0. \A k \in dedup' : k \in seen \/ k = Key(f)
    BY <1>2 DEF Begin
  <2>1. ASSUME NEW at, at = IF topic # None THEN "post" ELSE "create",
               topic # None \/ ~Conflict(frames[f].row)
        PROVE  /\ Works(c, f) /\ fate'[f] = "queued" /\ conn'[c].drain.f = f
               /\ conn'[c].drain.retried = retried /\ conn'[c].drain.at = at
    <3>1. PICK q : q = IF retried THEN conn[c].queue ELSE Tail(conn[c].queue)
      OBVIOUS
    <3>2. PICK d : d = [f |-> f, at |-> at, retried |-> retried]
      OBVIOUS
    <3>3. PICK x : x = [conn[c] EXCEPT !.queue = q, !.drain = d]
      OBVIOUS
    <3>4. conn' = [conn EXCEPT ![c] = x] /\ UNCHANGED <<frames, fate>>
      BY <1>2, <2>1, <3>1, <3>2, <3>3 DEF Begin, Conn
    <3>5. /\ x.rx = conn[c].rx /\ x.drain.f = f /\ x.drain.at = at
          /\ x.drain.retried = retried
      <4>1. conn[c] \in ConnSet
        BY ConnParts
      <4> QED BY <3>2, <3>3, <4>1 DEF ConnSet
    <3>6. FrameIds' = FrameIds
      BY SameFrames
    <3>7. Others(c) /\ conn'[c] = x
      BY <3>4, <3>6, ConnUpdate DEF Others
    <3>8. Works(c, f) /\ fate'[f] = "queued"
      BY <3>4, <3>5, <3>7 DEF Works
    <3> QED BY <2>1, <3>5, <3>7, <3>8
  <2>2. CASE topic # None \/ ~Conflict(frames[f].row)
    BY <2>0, <2>1, <2>2
  <2>3. CASE topic = None /\ Conflict(frames[f].row)
    <3>1. Finish(c, f, "skipped")
      BY <1>2, <2>3 DEF Begin
    <3> QED BY <2>0, <2>3, <3>1, FinishWorks
  <2> QED BY <2>2, <2>3
<1> QED BY <1>1, <1>2

-----------------------------------------------------------------------------
(* What excuses a user turn stays so. *)
LEMMA ExcusedKept ==
    ASSUME TopicInv, RowsGrow, TopicsGrow, TroubleMounts, MetaShape',
           FrameIds \subseteq FrameIds', \A g \in FrameIds : frames'[g] = frames[g],
           NEW f \in FrameIds, Excused(f)
    PROVE  Excused(f)'
<1>0. /\ MetaShape /\ TopicIds \subseteq TopicIds' /\ trouble \in [TroubleKinds -> Nat]
      /\ trouble' \in [TroubleKinds -> Nat]
  BY Lengths DEF TopicInv, MetaShape, TopicsGrow, TopicIds
<1>1. CASE trouble["api"] > 0 \/ trouble["gone"] > 1
  <2>1. "api" \in TroubleKinds /\ "gone" \in TroubleKinds
    BY DEF TroubleKinds
  <2>2. trouble["api"] <= trouble'["api"] /\ trouble["gone"] <= trouble'["gone"]
    BY <2>1 DEF TroubleMounts
  <2>3. /\ trouble["api"] \in Nat /\ trouble'["api"] \in Nat
        /\ trouble["gone"] \in Nat /\ trouble'["gone"] \in Nat
    BY <1>0, <2>1
  <2>4. trouble'["api"] > 0 \/ trouble'["gone"] > 1
    BY <1>1, <2>2, <2>3
  <2> QED BY <2>4 DEF Excused
<1>2. CASE \E t \in TopicIds :
               /\ topics[t].row # frames[f].row
               /\ rows[topics[t].row].session = rows[frames[f].row].session
  <2>1. PICK t \in TopicIds :
            /\ topics[t].row # frames[f].row
            /\ rows[topics[t].row].session = rows[frames[f].row].session
    BY <1>2
  <2>2. topics'[t].row = topics[t].row /\ topics[t].row \in RowIds /\ frames[f].row \in RowIds
        /\ t \in TopicIds' /\ frames'[f] = frames[f]
    BY <1>0 DEF TopicInv, TopicsGrow
  <2>3. rows'[topics'[t].row].session = rows'[frames'[f].row].session
    BY <2>1, <2>2 DEF RowsGrow
  <2> QED BY <2>1, <2>2, <2>3 DEF Excused
<1>3. CASE \E g \in FrameIds \ {f} : Key(g) = Key(f)
  BY <1>3 DEF Excused, Key
<1> QED BY <1>1, <1>2, <1>3 DEF Excused

(* Another row of the session that has a topic is such an excuse. *)
LEMMA ConflictExcuses ==
    ASSUME TopicInv, NEW f \in FrameIds, Conflict(frames[f].row)
    PROVE  Excused(f)
<1>1. PICK q \in RowIds \ {frames[f].row} :
          rows[q].session = rows[frames[f].row].session /\ rows[q].md.topic # None
  BY DEF Conflict
<1>2. Names(rows[q].md, q)
  BY DEF TopicInv
<1> QED BY <1>1, <1>2 DEF Excused, Names

LEMMA GoneKept ==
    ASSUME MetaShape, UserInv, TroubleMounts, TopicsGrow,
           \A t \in TopicIds : topics'[t] = topics[t],
           \A t \in TopicIds' \ TopicIds : topics'[t].live
    PROVE  GoneOk' /\ Dead \subseteq Dead'
<1>0. "gone" \in TroubleKinds /\ trouble["gone"] \in Nat /\ trouble'["gone"] \in Nat
      /\ trouble["gone"] <= trouble'["gone"]
  BY DEF TroubleKinds, MetaShape, TroubleMounts
<1>1. TopicIds \subseteq TopicIds'
  BY Lengths DEF TopicsGrow, TopicIds
<1>2. Dead' = Dead
  BY <1>1 DEF Dead
<1> QED BY <1>0, <1>2 DEF UserInv, GoneOk

LEMMA UserKeep ==
    ASSUME TopicInv, MetaShape', UserInv, RowsGrow, TopicsGrow, TroubleMounts, GoneOk',
           FrameIds \subseteq FrameIds', \A g \in FrameIds : frames'[g] = frames[g],
           \A g \in FrameIds : Begun(g) => Begun(g)',
           \A k \in dedup' : k \in dedup \/ \E g \in FrameIds' : Key(g)' = k /\ Begun(g)',
           \A d \in ConnIds' : DrainTopic(d)',
           \A f \in FrameIds' : NotShown(f)' => (f \in FrameIds /\ NotShown(f)) \/ Excused(f)'
    PROVE  UserInv'
<1>1. CacheOk'
  <2> SUFFICES ASSUME NEW k \in dedup', k \in dedup
               PROVE  \E g \in FrameIds' : Key(g)' = k /\ Begun(g)'
    BY DEF CacheOk
  <2>1. PICK g \in FrameIds : Key(g) = k /\ Begun(g)
    BY DEF UserInv, CacheOk
  <2> QED BY <2>1 DEF Key
<1>2. ASSUME NEW f \in FrameIds', NotShown(f)' PROVE Excused(f)'
  <2>1. CASE f \in FrameIds /\ NotShown(f)
    <3>1. Excused(f)
      BY <2>1 DEF UserInv
    <3> QED BY <2>1, <3>1, ExcusedKept
  <2> QED BY <1>2, <2>1
<1> QED BY <1>1, <1>2 DEF UserInv

(* A delivery that was begun goes on until it is done. *)
LEMMA BegunKept ==
    ASSUME LinkInv, NEW c \in ConnIds, Others(c),
           \A g \in FrameIds : /\ fate'[g] = "coming" => fate[g] = "coming"
                               /\ fate'[g] = "queued" => fate[g] \in {"coming", "queued"},
           \A g \in FrameIds : (g = conn[c].drain.f /\ fate'[g] = "queued")
                                   => conn'[c].drain.f = g
    PROVE  \A g \in FrameIds : Begun(g) => Begun(g)'
<1> SUFFICES ASSUME NEW g \in FrameIds, Begun(g) PROVE Begun(g)'
  OBVIOUS
<1>1. frames[g].conn \in ConnIds /\ frames'[g] = frames[g]
  BY DEF LinkInv, Placed, Others
<1>2. fate'[g] # "coming"
  BY DEF Begun
<1>3. ASSUME fate'[g] = "queued" PROVE conn'[frames[g].conn].drain.f = g
  <2>1. fate[g] = "queued" /\ conn[frames[g].conn].drain.f = g
    BY <1>3 DEF Begun
  <2>2. CASE frames[g].conn = c
    BY <1>3, <2>1, <2>2
  <2>3. CASE frames[g].conn # c
    BY <1>1, <2>1, <2>3 DEF Others
  <2> QED BY <2>2, <2>3
<1> QED BY <1>1, <1>2, <1>3 DEF Begun

(* What a drainer knows of its topic, if its frame's object is left alone. *)
LEMMA DrainTopicKept ==
    ASSUME LinkInv, UserInv, NEW d \in ConnIds, conn'[d].drain = conn[d].drain,
           Dead \subseteq Dead',
           \A f \in FrameIds : frames[f].conn = d => obj'[f] = obj[f]
    PROVE  DrainTopic(d)'
<1>1. conn[d].drain.at \in {"create", "post"} => obj'[conn[d].drain.f] = obj[conn[d].drain.f]
  BY DrainFrame
<1>2. DrainTopic(d)
  BY DEF UserInv
<1> QED BY <1>1, <1>2 DEF DrainTopic

LEMMA OffDrainTopic ==
    ASSUME NEW d, conn'[d].drain.at \in {"get", "off"}
    PROVE  DrainTopic(d)'
BY DEF DrainTopic

-----------------------------------------------------------------------------
(* The steps that neither begin nor end a delivery. *)
LEMMA UserQuiet ==
    ASSUME LinkInv, TopicInv, UserInv, NEW c \in ConnIds, Quiet(c), UNCHANGED topics,
           TroubleMounts, RowsGrow, MetaShape', \A f \in FrameIds : obj'[f] = obj[f]
    PROVE  UserInv'
<1>0. MetaShape /\ TopicsGrow /\ TopicIds' = TopicIds
  BY TopicsStay DEF TopicInv
<1>1. GoneOk' /\ Dead \subseteq Dead'
  BY <1>0, GoneKept
<1>2. Others(c) /\ dedup' = dedup
  BY DEF Quiet
<1>3. \A g \in FrameIds : Begun(g) => Begun(g)'
  <2>1. \A g \in FrameIds : /\ fate'[g] = "coming" => fate[g] = "coming"
                            /\ fate'[g] = "queued" => fate[g] \in {"coming", "queued"}
    BY DEF Quiet, FateGoesOn
  <2>2. \A g \in FrameIds : (g = conn[c].drain.f /\ fate'[g] = "queued")
                                => conn'[c].drain.f = g
    BY DEF Quiet
  <2> QED BY <1>2, <2>1, <2>2, BegunKept
<1>4. ASSUME NEW d \in ConnIds' PROVE DrainTopic(d)'
  <2>1. d \in ConnIds /\ (d # c => conn'[d] = conn[d])
    BY <1>2, <1>4 DEF Others
  <2>2. CASE conn'[d].drain = conn[d].drain
    BY <1>1, <2>1, <2>2, DrainTopicKept
  <2>3. CASE conn'[d].drain.at = "off"
    BY <2>3, OffDrainTopic
  <2> QED BY <2>1, <2>2, <2>3 DEF Quiet
<1>5. ASSUME NEW f \in FrameIds', NotShown(f)' PROVE f \in FrameIds /\ NotShown(f)
  <2>1. f \in FrameIds
    BY <1>5 DEF Quiet, NotShown
  <2>2. FateGoesOn(f) /\ frames'[f] = frames[f]
    BY <1>2, <2>1 DEF Quiet, Others
  <2> QED BY <1>5, <2>1, <2>2 DEF NotShown, FateGoesOn
<1> QED BY <1>0, <1>1, <1>2, <1>3, <1>4, <1>5, UserKeep DEF Others

(* The steps of requests, of the operator and of the cache. *)
LEMMA UserAside ==
    ASSUME LinkInv, TopicInv, UserInv, UNCHANGED <<frames, obj, conn, fate>>,
           dedup' \subseteq dedup, TroubleMounts, RowsGrow, TopicsGrow, MetaShape', GoneOk',
           Dead \subseteq Dead'
    PROVE  UserInv'
<1>1. FrameIds' = FrameIds /\ ConnIds' = ConnIds
  BY DEF FrameIds, ConnIds
<1>2. \A g \in FrameIds : Begun(g) => Begun(g)'
  BY DEF Begun
<1>3. \A d \in ConnIds' : DrainTopic(d)'
  BY <1>1, DrainTopicKept
<1>4. \A f \in FrameIds' : NotShown(f)' => f \in FrameIds /\ NotShown(f)
  BY <1>1 DEF NotShown
<1> QED BY <1>1, <1>2, <1>3, <1>4, UserKeep

(* The drainer works on frame f, and leaves it with what is said of it.      *)
LEMMA UserWorks ==
    ASSUME LinkInv, TopicInv, UserInv, NEW c \in ConnIds, NEW f \in FrameIds, Works(c, f),
           TroubleMounts, RowsGrow, TopicsGrow, MetaShape', GoneOk', Dead \subseteq Dead',
           \A g \in FrameIds : g # f => obj'[g] = obj[g],
           \A k \in dedup' : k \in dedup \/ k = Key(f),
           NotShown(f)' => Excused(f)', DrainTopic(c)'
    PROVE  UserInv'
<1>1. Others(c) /\ frames' = frames /\ FrameIds' = FrameIds
  BY SameFrames DEF Works
<1>2. \A g \in FrameIds : Begun(g) => Begun(g)'
  <2>1. \A g \in FrameIds : /\ fate'[g] = "coming" => fate[g] = "coming"
                            /\ fate'[g] = "queued" => fate[g] \in {"coming", "queued"}
    BY DEF Works
  <2>2. \A g \in FrameIds : (g = conn[c].drain.f /\ fate'[g] = "queued")
                                => conn'[c].drain.f = g
    <3>1. \A g \in FrameIds : g # None
      BY SameFrames DEF None, Works
    <3> QED BY <3>1 DEF Works
  <2> QED BY <1>1, <2>1, <2>2, BegunKept
<1>3. Begun(f)' /\ Key(f)' = Key(f)
  BY <1>1 DEF Begun, Works, Key
<1>4. ASSUME NEW d \in ConnIds' PROVE DrainTopic(d)'
  <2>1. d \in ConnIds /\ (d # c => conn'[d] = conn[d])
    BY <1>1, <1>4 DEF Others
  <2>2. CASE d # c
    <3>1. \A g \in FrameIds : frames[g].conn = d => obj'[g] = obj[g]
      BY <2>2 DEF Works
    <3> QED BY <2>1, <2>2, <3>1, DrainTopicKept
  <2>3. CASE d = c
    BY <2>3
  <2> QED BY <2>2, <2>3
<1>5. ASSUME NEW g \in FrameIds', NotShown(g)'
      PROVE  (g \in FrameIds /\ NotShown(g)) \/ Excused(g)'
  <2>1. CASE g = f
    BY <1>5, <2>1
  <2>2. CASE g # f
    <3>1. fate'[g] = fate[g] /\ g \in FrameIds
      BY <1>1, <1>5, <2>2 DEF Works
    <3> QED BY <1>1, <1>5, <3>1 DEF NotShown
  <2> QED BY <2>1, <2>2
<1>6. \A k \in dedup' : k \in dedup \/ \E g \in FrameIds' : Key(g)' = k /\ Begun(g)'
  BY <1>1, <1>3
<1> QED BY <1>1, <1>2, <1>4, <1>5, <1>6, UserKeep

(* The item at the head of the queue, and what is in hand when one is taken. *)
LEMMA TakeFrame ==
    ASSUME LinkInv, NEW c \in ConnIds, Take(c), NEW f, f = Head(conn[c].queue), f # Stop
    PROVE  /\ f \in FrameIds /\ frames[f].conn = c /\ fate[f] = "queued"
           /\ conn[c].drain.f = None /\ UNCHANGED <<frames, obj, rows, topics, trouble, msgs>>
           /\ Begin(c, f, obj[f].topic, dedup, FALSE)
<1>1. conn[c].queue \in Seq(Nat) /\ ConnOk(c) /\ conn[c].queue # <<>>
  BY ConnParts DEF Take
<1>2. f = conn[c].queue[1] /\ 1 \in 1 .. Len(conn[c].queue)
  <2>1. Len(conn[c].queue) \in Nat \ {0} /\ Head(conn[c].queue) = conn[c].queue[1]
    BY <1>1, TailQueue
  <2> QED BY <2>1
<1>3. f \in FrameIds /\ frames[f].conn = c /\ fate[f] = "queued"
  BY <1>1, <1>2 DEF ConnOk, QueueOk
<1>4. conn[c].drain.f = None
  BY <1>1 DEF ConnOk, DrainOk, Take, InDrain
<1>5. Begin(c, f, obj[f].topic, dedup, FALSE)
  BY DEF Take
<1> QED BY <1>3, <1>4, <1>5 DEF Take, rowVars

LEMMA UserTake ==
    ASSUME LinkInv, TopicInv, UserInv, NEW c \in ConnIds, Take(c), UNCHANGED startVars,
           TopicInv'
    PROVE  UserInv'
<1>0. UNCHANGED <<frames, obj, rows, topics, trouble, msgs>> /\ MetaShape /\ MetaShape'
  BY DEF Take, rowVars, TopicInv
<1>1. /\ TopicsGrow /\ TopicIds' = TopicIds /\ FrameIds' = FrameIds /\ RowIds' = RowIds
  BY <1>0, TopicsStay DEF FrameIds, RowIds
<1>2. RowsGrow /\ TroubleMounts
  BY <1>0, <1>1, Lengths, Mounts DEF RowsGrow
<1>3. GoneOk' /\ Dead \subseteq Dead'
  BY <1>0, <1>1, <1>2, GoneKept
<1>4. CASE Head(conn[c].queue) = Stop
  <2>1. Quiet(c)
    BY <1>4, QuietStop
  <2> QED BY <1>0, <1>2, <2>1, UserQuiet
<1>5. CASE Head(conn[c].queue) # Stop
  <2>1. PICK f : f = Head(conn[c].queue)
    OBVIOUS
  <2>2. /\ f \in FrameIds /\ frames[f].conn = c /\ fate[f] = "queued"
        /\ conn[c].drain.f = None /\ Begin(c, f, obj[f].topic, dedup, FALSE)
    BY <1>5, <2>1, TakeFrame
  <2>3. PICK topic : topic = obj[f].topic
    OBVIOUS
  <2>4. PICK b \in BOOLEAN : b = FALSE
    OBVIOUS
  <2>5. /\ Works(c, f)
        /\ \A k \in dedup' : k \in dedup \/ k = Key(f)
        /\ \/ Key(f) \in dedup /\ fate'[f] = "skipped"
           \/ Conflict(frames[f].row) /\ fate'[f] = "skipped"
           \/ /\ fate'[f] = "queued" /\ conn'[c].drain.f = f
              /\ conn'[c].drain.retried = b
              /\ conn'[c].drain.at = IF topic # None THEN "post" ELSE "create"
    <3>1. Begin(c, f, topic, dedup, b)
      BY <2>2, <2>3, <2>4
    <3>2. UNCHANGED frames /\ conn[c].drain.f \in {f, None}
      BY <1>0, <2>2
    <3> QED BY <2>2, <3>1, <3>2, BeginWorks
  <2>6. NotShown(f)' => Excused(f)'
    <3>1. CASE Key(f) \in dedup
      <4>1. PICK g \in FrameIds : Key(g) = Key(f) /\ Begun(g)
        BY <3>1 DEF UserInv, CacheOk
      <4>2. g # f
        <5>1. f # None
          BY <2>2, ConnParts DEF None
        <5> QED BY <2>2, <4>1, <5>1 DEF Begun
      <4>3. Excused(f)
        BY <4>1, <4>2 DEF Excused
      <4> QED BY <1>0, <1>1, <1>2, <2>2, <4>3, ExcusedKept
    <3>2. CASE Conflict(frames[f].row)
      <4>1. Excused(f)
        BY <2>2, <3>2, ConflictExcuses
      <4> QED BY <1>0, <1>1, <1>2, <2>2, <4>1, ExcusedKept
    <3>3. CASE fate'[f] = "queued"
      BY <3>3 DEF NotShown
    <3> QED BY <2>5, <3>1, <3>2, <3>3
  <2>7. DrainTopic(c)'
    <3>1. CASE conn'[c].drain.at = "get"
      BY <3>1, OffDrainTopic
    <3>2. CASE /\ conn'[c].drain.f = f /\ conn'[c].drain.retried = b
               /\ conn'[c].drain.at = IF topic # None THEN "post" ELSE "create"
      BY <1>0, <2>3, <2>4, <3>2 DEF DrainTopic
    <3> QED BY <2>5, <3>1, <3>2 DEF Works
  <2> QED BY <1>0, <1>1, <1>2, <1>3, <2>2, <2>5, <2>6, <2>7, UserWorks
<1> QED BY <1>4, <1>5

(* What the drainer's work leaves of the rows, the topics and the objects. *)
LEMMA DrainKeeps ==
    ASSUME LinkInv, TopicInv, UserInv, NEW c \in ConnIds, NEW f, f = conn[c].drain.f,
           MakeTopic(c) \/ PostUser(c) \/ PostStep(c), TopicInv'
    PROVE  /\ f \in FrameIds /\ fate[f] = "queued" /\ frames[f].conn = c
           /\ UNCHANGED frames /\ TroubleMounts /\ RowsGrow /\ TopicsGrow /\ MetaShape'
           /\ GoneOk' /\ Dead \subseteq Dead'
           /\ \A g \in FrameIds : g # f => obj'[g] = obj[g]
           /\ Creates(f) => MakeTopic(c) /\ NewTopicId \notin TopicIds
                            /\ obj'[f].topic = NewTopicId /\ NewTopicId # None
<1>0. conn[c].drain.at \in {"create", "post"}
  BY DEF MakeTopic, PostUser, PostStep, InDrain
<1>1. f \in FrameIds /\ fate[f] = "queued" /\ frames[f].conn = c
  BY <1>0, DrainFrame
<1>2. /\ Keeps(f) \/ Rewrites(f) \/ Clears(f) \/ (MakeTopic(c) /\ Creates(f))
      /\ UNCHANGED frames /\ TroubleMounts
  BY DrainEffect
<1>3. MetaShape /\ MetaShape' /\ frames[f].row \in RowIds
  BY <1>1 DEF TopicInv
<1>4. CASE Keeps(f)
  <2>1. TopicsGrow /\ TopicIds' = TopicIds /\ RowIds' = RowIds
    BY <1>4, TopicsStay DEF Keeps, RowIds
  <2>2. RowsGrow
    BY <1>3, <1>4, <2>1, Lengths DEF Keeps, RowsGrow
  <2>3. GoneOk' /\ Dead \subseteq Dead'
    BY <1>2, <1>3, <1>4, <2>1, GoneKept DEF Keeps
  <2>4. ~Creates(f)
    <3>1. Len(topics) \in Nat /\ topics \in Seq(TopicSet)
      BY <1>3, Lengths DEF MetaShape
    <3>2. frames[f].row \in Nat
      BY <1>3, Lengths
    <3>3. SUFFICES ASSUME topics' = WithTopic(frames[f].row) PROVE FALSE
      BY DEF Creates
    <3>4. Len(topics') = Len(topics) + 1
      BY <3>1, <3>2, <3>3, NewTopics
    <3> QED BY <1>4, <3>1, <3>4 DEF Keeps
  <2> QED BY <1>1, <1>2, <1>3, <1>4, <2>2, <2>1, <2>3, <2>4 DEF Keeps
<1>5. CASE Rewrites(f) \/ Clears(f)
  <2>1. PICK md \in MdSet : Save(f, md)
    BY <1>5 DEF Rewrites, Clears
  <2>2. topics' = topics
    BY <1>5 DEF Rewrites, Clears
  <2>3. /\ \A g \in FrameIds : obj'[g] = IF g = f THEN md ELSE obj[g]
        /\ RowsGrow
    BY <1>1, <1>2, <2>1, SaveEffect
  <2>4. TopicsGrow /\ TopicIds' = TopicIds
    BY <2>2, TopicsStay
  <2>5. GoneOk' /\ Dead \subseteq Dead'
    BY <1>2, <1>3, <2>2, <2>4, GoneKept
  <2>6. ~Creates(f)
    <3>1. Len(topics) \in Nat /\ topics \in Seq(TopicSet)
      BY <1>3, Lengths DEF MetaShape
    <3>2. frames[f].row \in Nat
      BY <1>3, Lengths
    <3>3. SUFFICES ASSUME topics' = WithTopic(frames[f].row) PROVE FALSE
      BY DEF Creates
    <3>4. Len(topics') = Len(topics) + 1
      BY <3>1, <3>2, <3>3, NewTopics
    <3> QED BY <2>2, <3>1, <3>4
  <2> QED BY <1>1, <1>2, <1>3, <2>3, <2>4, <2>5, <2>6
<1>6. CASE MakeTopic(c) /\ Creates(f)
  <2>1. PICK md \in MdSet : Save(f, md) /\ md.topic = NewTopicId
    BY <1>6 DEF Creates
  <2>2. /\ \A g \in FrameIds : obj'[g] = IF g = f THEN md ELSE obj[g]
        /\ RowsGrow /\ RowIds' = RowIds
    BY <1>1, <1>2, <2>1, SaveEffect
  <2>3. /\ Len(topics) \in Nat /\ Len(topics') = Len(topics) + 1
        /\ TopicIds' = TopicIds \cup {NewTopicId} /\ NewTopicId \notin TopicIds
        /\ NewTopicId = Len(topics) + 1
        /\ \A t \in TopicIds : topics'[t] = topics[t]
        /\ topics'[NewTopicId].row = frames[f].row /\ topics'[NewTopicId].live
    <3>1. frames[f].row \in Nat /\ topics \in Seq(TopicSet)
      BY <1>3, Lengths, SMTT(30) DEF MetaShape
    <3> QED BY <1>6, <3>1, NewTopics DEF Creates
  <2>4. TopicsGrow
    BY <1>3, <2>2, <2>3 DEF TopicsGrow
  <2>5. GoneOk' /\ Dead \subseteq Dead'
    BY <1>2, <1>3, <2>3, <2>4, GoneKept
  <2>6. obj'[f].topic = NewTopicId /\ NewTopicId # None
    BY <1>1, <2>1, <2>2, <2>3 DEF None
  <2> QED BY <1>1, <1>2, <1>3, <1>6, <2>2, <2>3, <2>4, <2>5, <2>6
<1> QED BY <1>2, <1>4, <1>5, <1>6

(* A failing call excuses. *)
LEMMA FailureExcuses ==
    ASSUME MetaShape, NEW f, GoesWrong("api")
    PROVE  Excused(f)'
<1>1. trouble \in [TroubleKinds -> Nat] /\ "api" \in TroubleKinds
  BY DEF MetaShape, TroubleKinds
<1>2. trouble'["api"] = trouble["api"] + 1 /\ trouble["api"] \in Nat
  BY <1>1, TroubleGrows
<1>3. trouble'["api"] > 0
  BY <1>2
<1> QED BY <1>3 DEF Excused

LEMMA UserMakeTopic ==
    ASSUME LinkInv, TopicInv, UserInv, NEW c \in ConnIds, MakeTopic(c), TopicInv'
    PROVE  UserInv'
<1>1. PICK f : f = conn[c].drain.f
  OBVIOUS
<1>2. /\ f \in FrameIds /\ fate[f] = "queued" /\ frames[f].conn = c
      /\ UNCHANGED frames /\ TroubleMounts /\ RowsGrow /\ TopicsGrow /\ MetaShape'
      /\ GoneOk' /\ Dead \subseteq Dead'
      /\ \A g \in FrameIds : g # f => obj'[g] = obj[g]
      /\ Creates(f) => NewTopicId \notin TopicIds
                       /\ obj'[f].topic = NewTopicId /\ NewTopicId # None
  BY <1>1, DrainKeeps
<1>3. /\ MetaShape /\ conn[c].drain.at = "create" /\ DrainTopic(c) /\ dedup' = dedup
      /\ conn[c] \in ConnSet /\ obj[f] \in MdSet
  BY <1>2, ConnParts DEF TopicInv, UserInv, MakeTopic, InDrain, MetaShape, FrameIds
<1>4. CASE Finish(c, f, "failed") /\ GoesWrong("api")
  <2>1. Works(c, f) /\ conn'[c].drain.at = "get"
    BY <1>1, <1>2, <1>4, FinishWorks
  <2>2. Excused(f)' /\ DrainTopic(c)'
    BY <1>3, <1>4, <2>1, FailureExcuses, OffDrainTopic
  <2> QED BY <1>2, <1>3, <2>1, <2>2, UserWorks
<1>5. CASE GoOn(c, "post") /\ UNCHANGED fate /\ Creates(f)
  <2>1. PICK d : d = [conn[c].drain EXCEPT !.at = "post"]
    OBVIOUS
  <2>2. PICK x : x = [conn[c] EXCEPT !.drain = d]
    OBVIOUS
  <2>3. conn' = [conn EXCEPT ![c] = x]
    BY <1>3, <1>5, <2>1, <2>2 DEF GoOn, Conn, ConnSet
  <2>4. /\ x.rx = conn[c].rx /\ x.drain.f = f /\ x.drain.at = "post"
        /\ x.drain.retried = conn[c].drain.retried
    BY <1>1, <1>3, <2>1, <2>2 DEF ConnSet
  <2>5. Others(c) /\ conn'[c] = x
    <3>1. FrameIds' = FrameIds
      BY <1>2, SameFrames
    <3>2. ConnIds' = ConnIds /\ conn'[c] = x /\ \A u \in ConnIds : u # c => conn'[u] = conn[u]
      BY <2>3, ConnUpdate
    <3> QED BY <1>2, <1>5, <3>1, <3>2 DEF Others
  <2>6. Works(c, f) /\ fate'[f] = "queued"
    BY <1>1, <1>2, <1>5, <2>4, <2>5 DEF Works
  <2>7. DrainTopic(c)'
    <3>1. obj'[f].topic = NewTopicId /\ NewTopicId # None /\ NewTopicId \notin Dead
      BY <1>2, <1>5 DEF Dead
    <3>2. ASSUME conn[c].drain.retried PROVE Dead' \ {obj'[f].topic} # {}
      <4>1. Dead # {}
        BY <1>3, <3>2 DEF DrainTopic
      <4> QED BY <1>2, <3>1, <4>1
    <3> QED BY <2>4, <2>5, <3>1, <3>2 DEF DrainTopic
  <2>8. ~NotShown(f)'
    BY <2>6 DEF NotShown
  <2> QED BY <1>2, <1>3, <2>6, <2>7, <2>8, UserWorks
<1> QED
  <2>1. PICK created \in BOOLEAN, introduced \in BOOLEAN :
            /\ introduced => created
            /\ ApiCall(introduced)
            /\ created => /\ topics' = WithTopic(frames[f].row)
                          /\ Save(f, [obj[f] EXCEPT !.topic = NewTopicId])
            /\ IF introduced THEN GoOn(c, "post") /\ UNCHANGED fate
               ELSE Finish(c, f, "failed")
    BY <1>1 DEF MakeTopic
  <2>2. CASE introduced
    <3>1. [obj[f] EXCEPT !.topic = NewTopicId] \in MdSet
          /\ [obj[f] EXCEPT !.topic = NewTopicId].topic = NewTopicId
      <4>1. NewTopicId \in Nat
        BY <1>3, Lengths DEF NewTopicId
      <4> QED BY <1>3, <4>1 DEF MdSet
    <3>2. Creates(f)
      BY <2>1, <2>2, <3>1 DEF Creates
    <3> QED BY <1>5, <2>1, <2>2, <3>2
  <2>3. CASE ~introduced
    BY <1>4, <2>1, <2>3 DEF ApiCall
  <2> QED BY <2>2, <2>3

LEMMA UserPostUser ==
    ASSUME LinkInv, TopicInv, UserInv, NEW c \in ConnIds, PostUser(c), TopicInv'
    PROVE  UserInv'
<1>1. PICK f : f = conn[c].drain.f
  OBVIOUS
<1>2. /\ f \in FrameIds /\ fate[f] = "queued" /\ frames[f].conn = c
      /\ UNCHANGED frames /\ TroubleMounts /\ RowsGrow /\ TopicsGrow /\ MetaShape'
      /\ GoneOk' /\ Dead \subseteq Dead'
      /\ \A g \in FrameIds : g # f => obj'[g] = obj[g]
  BY <1>1, DrainKeeps
<1>3. /\ MetaShape /\ conn[c].drain.at = "post" /\ DrainTopic(c)
      /\ conn[c] \in ConnSet /\ obj[f] \in MdSet /\ Names(obj[f], frames[f].row)
  BY <1>2, ConnParts DEF TopicInv, UserInv, PostUser, InDrain, MetaShape, FrameIds
<1>4. obj[f].topic \in TopicIds /\ NoDigest(obj[f]).topic = obj[f].topic
      /\ NoDigest(obj[f]) \in MdSet
  <2>1. obj[f].topic # None
    BY <1>1, <1>3 DEF DrainTopic
  <2>2. NoDigest(obj[f]).topic = obj[f].topic /\ NoDigest(obj[f]) \in MdSet
    <3>1. <<>> \in Seq(Nat) /\ None \in Nat
      BY DEF None
    <3> QED BY <1>3, <3>1 DEF MdSet, NoDigest
  <2> QED BY <1>3, <2>1, <2>2 DEF Names
<1>5. ASSUME NEW how \in {"posted", "failed"}, Finish(c, f, how), dedup' = dedup,
             how = "failed" => Excused(f)'
      PROVE  UserInv'
  <2>1. Works(c, f) /\ conn'[c].drain.at = "get" /\ fate'[f] = how
    BY <1>1, <1>2, <1>5, FinishWorks
  <2>2. DrainTopic(c)' /\ (NotShown(f)' => Excused(f)')
    BY <1>5, <2>1, OffDrainTopic DEF NotShown
  <2> QED BY <1>2, <1>5, <2>1, <2>2, UserWorks
<1>6. CASE Finish(c, f, "posted") /\ dedup' = dedup
  BY <1>5, <1>6
<1>7. CASE Finish(c, f, "failed") /\ dedup' = dedup /\ GoesWrong("api")
  BY <1>3, <1>5, <1>7, FailureExcuses
<1>8. CASE /\ ~Live(obj[f].topic)
           /\ Save(f, [NoDigest(obj[f]) EXCEPT !.topic = None])
           /\ Begin(c, f, None, Forget(f), TRUE)
  <2>1. PICK b \in BOOLEAN : b = TRUE
    OBVIOUS
  <2>2. PICK seen : seen = Forget(f)
    OBVIOUS
  <2>3. /\ Works(c, f)
        /\ \A k \in dedup' : k \in seen \/ k = Key(f)
        /\ \/ Key(f) \in seen /\ fate'[f] = "skipped"
           \/ Conflict(frames[f].row) /\ fate'[f] = "skipped"
           \/ /\ fate'[f] = "queued" /\ conn'[c].drain.f = f
              /\ conn'[c].drain.retried = b
              /\ conn'[c].drain.at = IF None # None THEN "post" ELSE "create"
    <3>1. Begin(c, f, None, seen, b) /\ conn[c].drain.f \in {f, None}
      BY <1>1, <1>8, <2>1, <2>2
    <3> QED BY <1>2, <3>1, BeginWorks
  <2>4. Key(f) \notin seen /\ \A k \in dedup' : k \in dedup \/ k = Key(f)
    BY <2>2, <2>3 DEF Forget
  <2>5. NotShown(f)' => Excused(f)'
    <3>1. CASE Conflict(frames[f].row)
      <4>1. Excused(f)
        BY <1>2, <3>1, ConflictExcuses
      <4> QED BY <1>2, <4>1, SameFrames, ExcusedKept
    <3>2. CASE fate'[f] = "queued"
      BY <3>2 DEF NotShown
    <3> QED BY <2>3, <2>4, <3>1, <3>2
  <2>6. obj'[f].topic = None
    <3>1. PICK md : md = [NoDigest(obj[f]) EXCEPT !.topic = None]
      OBVIOUS
    <3>2. md \in MdSet /\ md.topic = None
      BY <1>4, <3>1 DEF MdSet, None
    <3>3. obj'[f] = md
      <4>1. Save(f, md)
        BY <1>8, <3>1
      <4> QED BY <1>2, <3>2, <4>1, SaveEffect
    <3> QED BY <3>2, <3>3
  <2>7. obj[f].topic \in Dead /\ obj[f].topic # None
    BY <1>3, <1>4, <1>8, Lengths DEF Dead, Live, None
  <2>8. DrainTopic(c)'
    <3>1. CASE conn'[c].drain.at = "get"
      BY <3>1, OffDrainTopic
    <3>2. CASE conn'[c].drain.f = f /\ conn'[c].drain.at = "create"
      <4>1. Dead' \ {obj'[f].topic} # {}
        BY <1>2, <2>6, <2>7
      <4> QED BY <2>6, <3>2, <4>1 DEF DrainTopic
    <3> QED BY <2>3, <3>1, <3>2 DEF Works
  <2> QED BY <1>2, <2>3, <2>4, <2>5, <2>8, UserWorks
<1>9. CASE /\ ~Live(obj[f].topic) /\ conn[c].drain.retried
           /\ Finish(c, f, "failed") /\ dedup' = dedup
  <2>1. obj[f].topic \in Dead
    BY <1>4, <1>9 DEF Dead, Live
  <2>2. Dead \ {obj[f].topic} # {}
    BY <1>1, <1>3, <1>9 DEF DrainTopic
  <2>3. trouble["gone"] > 1
    BY <2>1, <2>2 DEF UserInv, GoneOk
  <2>4. Excused(f)
    BY <2>3 DEF Excused
  <2>5. Excused(f)'
    BY <1>2, <2>4, SameFrames, ExcusedKept
  <2> QED BY <1>5, <1>9, <2>5
<1>10. \/ Finish(c, f, "posted") /\ dedup' = dedup
       \/ Finish(c, f, "failed") /\ dedup' = dedup /\ GoesWrong("api")
       \/ /\ ~Live(NoDigest(obj[f]).topic)
          /\ Save(f, [NoDigest(obj[f]) EXCEPT !.topic = None])
          /\ Begin(c, f, None, Forget(f), TRUE)
       \/ /\ ~Live(NoDigest(obj[f]).topic) /\ conn[c].drain.retried
          /\ Finish(c, f, "failed") /\ dedup' = dedup
  BY <1>1 DEF PostUser
<1> QED BY <1>4, <1>6, <1>7, <1>8, <1>9, <1>10

LEMMA UserPostStep ==
    ASSUME LinkInv, TopicInv, UserInv, NEW c \in ConnIds, PostStep(c), TopicInv'
    PROVE  UserInv'
<1>1. PICK f : f = conn[c].drain.f
  OBVIOUS
<1>2. /\ f \in FrameIds /\ fate[f] = "queued" /\ frames[f].conn = c
      /\ UNCHANGED frames /\ TroubleMounts /\ RowsGrow /\ TopicsGrow /\ MetaShape'
      /\ GoneOk' /\ Dead \subseteq Dead'
      /\ \A g \in FrameIds : g # f => obj'[g] = obj[g]
  BY <1>1, DrainKeeps
<1>3. PICK how \in {"posted", "failed"} : Finish(c, f, how)
  BY <1>1 DEF PostStep
<1>4. dedup' = dedup /\ frames[f].kind # "user"
  BY <1>1 DEF PostStep
<1>5. Works(c, f) /\ conn'[c].drain.at = "get"
  BY <1>1, <1>2, <1>3, FinishWorks
<1>6. DrainTopic(c)' /\ ~NotShown(f)'
  BY <1>2, <1>4, <1>5, OffDrainTopic DEF NotShown
<1> QED BY <1>2, <1>4, <1>5, <1>6, UserWorks

(* The steps of requests. *)
LEMMA StartGrows ==
    ASSUME IInv, IdsDiffer, TopicInv, NEW s \in Callers, CallerStep(s) \/ Abort(s)
    PROVE  /\ RowsGrow /\ TopicsGrow /\ TroubleMounts
           /\ \A t \in TopicIds : topics'[t] = topics[t]
           /\ \A t \in TopicIds' \ TopicIds : topics'[t].live
<1>0. /\ MetaShape /\ rows \in Seq(Row(MdSet)) /\ topics \in Seq(TopicSet)
      /\ caller[s] \in CallerSet /\ Len(rows) \in Nat /\ RowIds = 1 .. Len(rows)
      /\ CallerTopic(s)
  BY Lengths DEF TopicInv, MetaShape
<1>1. caller[s].row \in Nat /\ caller[s].md \in MdSet
  BY <1>0 DEF CallerSet
<1>2. caller[s].pc \notin {"find", "write", "failed"} \/ caller[s].row # None
          => caller[s].row \in RowIds
  BY <1>0 DEF CallerTopic
<1>3. ASSUME rows' = rows PROVE RowsGrow /\ RowIds' = RowIds
  BY <1>0, <1>3 DEF RowsGrow, RowIds
<1>4. ASSUME topics' = topics PROVE TopicsGrow /\ TopicIds' = TopicIds
  BY <1>4, TopicsStay
<1>5. ASSUME UNCHANGED trouble \/ \E k \in TroubleKinds : GoesWrong(k) PROVE TroubleMounts
  BY <1>0, <1>5, Mounts
<1>6. ASSUME NEW md \in MdSet, caller[s].row \in RowIds, rows' = Saved(caller[s].row, md)
      PROVE  RowsGrow /\ RowIds' = RowIds
  <2>1. /\ Len(rows') = Len(rows) /\ RowIds' = RowIds
        /\ \A q \in RowIds : rows'[q].session = rows[q].session
    BY <1>0, <1>6, SavedRows
  <2> QED BY <1>0, <2>1 DEF RowsGrow
<1>7. ASSUME caller[s].row \in RowIds, topics' = WithTopic(caller[s].row), RowIds' = RowIds
      PROVE  /\ TopicsGrow /\ \A t \in TopicIds : topics'[t] = topics[t]
             /\ \A t \in TopicIds' \ TopicIds : topics'[t].live
  <2>1. /\ Len(topics) \in Nat /\ Len(topics') = Len(topics) + 1
        /\ TopicIds' = TopicIds \cup {NewTopicId} /\ NewTopicId \notin TopicIds
        /\ \A t \in TopicIds : topics'[t] = topics[t]
        /\ topics'[NewTopicId].row = caller[s].row /\ topics'[NewTopicId].live
    BY <1>0, <1>1, <1>7, NewTopics
  <2> QED BY <1>7, <2>1 DEF TopicsGrow
<1>8. CASE Reads(s) \/ Binds(s) \/ Looks(s) \/ Fails(s)
  <2>1. UNCHANGED <<rows, topics>> /\ TroubleMounts
    BY <1>5, <1>8 DEF Reads, Binds, Looks, Fails, rowVars
  <2> QED BY <1>3, <1>4, <2>1
<1>9. CASE Inserts(s)
  <2>1. BoundId(s) \in Sessions \cup Callers /\ Named(s) \in BOOLEAN
    BY DEF BoundId, Named, IdsDiffer
  <2>2. /\ Len(rows') = Len(rows) + 1 /\ \A q \in RowIds : rows'[q] = rows[q]
    <3>1. rows' = Append(rows, NewRow(BoundId(s), "blank", Named(s)))
      BY <1>9 DEF Inserts
    <3> QED BY <1>0, <2>1, <3>1, NewRows
  <2>3. RowsGrow
    BY <1>0, <2>2 DEF RowsGrow
  <2>4. UNCHANGED <<topics, trouble>>
    BY <1>9 DEF Inserts
  <2> QED BY <1>4, <1>5, <2>3, <2>4
<1>10. CASE WritesBack(s)
  <2>1. rows' = Saved(caller[s].row, caller[s].md) /\ UNCHANGED <<topics, trouble>>
        /\ caller[s].row \in RowIds
    BY <1>2, <1>10 DEF WritesBack
  <2> QED BY <1>1, <1>4, <1>5, <1>6, <2>1
<1>11. CASE Makes(s)
  <2>1. PICK md : md = [caller[s].md EXCEPT !.topic = NewTopicId]
    OBVIOUS
  <2>2. md \in MdSet
    <3>1. NewTopicId \in Nat
      BY <1>0 DEF NewTopicId
    <3> QED BY <1>1, <2>1, <3>1 DEF MdSet
  <2>3. /\ rows' = Saved(caller[s].row, md) /\ topics' = WithTopic(caller[s].row)
        /\ UNCHANGED trouble /\ caller[s].row \in RowIds
    BY <1>2, <1>11, <2>1 DEF Makes, At
  <2> QED BY <1>5, <1>6, <1>7, <2>2, <2>3
<1>12. CASE Loses(s)
  <2>1. /\ UNCHANGED rows /\ GoesWrong("stop") /\ topics' = WithTopic(caller[s].row)
        /\ caller[s].row \in RowIds
    BY <1>2, <1>12 DEF Loses, At
  <2> QED BY <1>3, <1>5, <1>7, <2>1 DEF TroubleKinds
<1> QED BY <1>8, <1>9, <1>10, <1>11, <1>12, StartEffect

LEMMA UserInit == Init => UserInv
<1> SUFFICES ASSUME Init PROVE UserInv
  OBVIOUS
<1>1. topics = <<>> /\ frames = <<>> /\ conn = <<>> /\ dedup = {}
  BY DEF Init, RowsInit, DeliveryInit
<1>2. TopicIds = {} /\ FrameIds = {} /\ ConnIds = {}
  BY <1>1 DEF TopicIds, FrameIds, ConnIds
<1> QED BY <1>1, <1>2 DEF UserInv, GoneOk, CacheOk, Dead

LEMMA UserGone ==
    ASSUME LinkInv, TopicInv, UserInv, NEW t \in TopicIds, TopicDeleted(t),
           UNCHANGED deliveryVars, TopicInv'
    PROVE  UserInv'
<1>0. MetaShape /\ MetaShape' /\ UNCHANGED <<frames, obj, conn, fate, dedup, rows>>
  BY DEF TopicInv, deliveryVars, TopicDeleted
<1>1. /\ topics' \in Seq(TopicSet) /\ Len(topics') = Len(topics) /\ TopicIds' = TopicIds
      /\ \A q \in TopicIds : topics'[q].row = topics[q].row
      /\ \A q \in TopicIds : topics'[q].live = (q # t /\ topics[q].live)
      /\ topics[t].live /\ GoesWrong("gone")
  BY <1>0, GoneEffect
<1>2. TroubleMounts
  BY <1>0, <1>1, Mounts DEF TroubleKinds
<1>3. RowsGrow
  <2>1. RowIds' = RowIds
    BY <1>0 DEF RowIds
  <2> QED BY <1>0, <2>1, Lengths DEF RowsGrow
<1>4. TopicsGrow
  BY <1>0, <1>1, Lengths DEF TopicsGrow
<1>5. Dead' = Dead \cup {t} /\ t \notin Dead
  BY <1>1 DEF Dead
<1>6. GoneOk'
  <2>1. trouble'["gone"] = trouble["gone"] + 1 /\ trouble["gone"] \in Nat
    <3>1. trouble \in [TroubleKinds -> Nat] /\ "gone" \in TroubleKinds
      BY <1>0 DEF MetaShape, TroubleKinds
    <3> QED BY <1>1, <3>1, TroubleGrows
  <2>2. trouble'["gone"] > 0
    BY <2>1
  <2>3. Dead # {} => trouble'["gone"] > 1
    BY <2>1 DEF UserInv, GoneOk
  <2> QED BY <1>5, <2>2, <2>3 DEF GoneOk
<1> QED BY <1>0, <1>2, <1>3, <1>4, <1>5, <1>6, UserAside

LEMMA UserNext ==
    ASSUME IInv, LinkInv, TopicInv, UserInv, [Next]_vars, TopicInv'
    PROVE  UserInv'
<1>0. MetaShape /\ MetaShape'
  BY DEF TopicInv
<1>1. CASE StartNext /\ UNCHANGED deliveryVars
  <2>1. PICK s \in Callers : CallerStep(s) \/ Abort(s)
    BY <1>1 DEF StartNext
  <2>2. /\ RowsGrow /\ TopicsGrow /\ TroubleMounts
        /\ \A t \in TopicIds : topics'[t] = topics[t]
        /\ \A t \in TopicIds' \ TopicIds : topics'[t].live
    BY <2>1, IdsDiffer, StartGrows
  <2>3. GoneOk' /\ Dead \subseteq Dead'
    BY <1>0, <2>2, GoneKept
  <2> QED BY <1>0, <1>1, <2>2, <2>3, UserAside DEF deliveryVars
<1>2. ASSUME UNCHANGED <<rows, topics>>, UNCHANGED trouble \/ GoesWrong("stop")
      PROVE  /\ RowsGrow /\ TopicsGrow /\ TroubleMounts /\ GoneOk' /\ Dead \subseteq Dead'
  <2>1. RowIds' = RowIds /\ TopicsGrow /\ TopicIds' = TopicIds
    BY <1>2, TopicsStay DEF RowIds
  <2>2. RowsGrow /\ TroubleMounts
    BY <1>0, <1>2, <2>1, Lengths, Mounts DEF RowsGrow, TroubleKinds
  <2> QED BY <1>0, <1>2, <2>1, <2>2, GoneKept
<1>3. CASE DeliveryNext /\ UNCHANGED startVars
  <2>1. ASSUME NEW c \in ConnIds, Receive(c) \/ Ready(c) PROVE UserInv'
    <3>1. Quiet(c)
      BY <2>1, QuietReceive, QuietReady
    <3>2. UNCHANGED <<topics, trouble>> /\ RowsGrow /\ \A g \in FrameIds : obj'[g] = obj[g]
      BY <2>1, IdsDiffer, ArrivalEffect
    <3>3. TroubleMounts
      BY <1>0, <3>2, Mounts
    <3> QED BY <1>0, <3>1, <3>2, <3>3, UserQuiet
  <2>2. ASSUME NEW c \in ConnIds, MarkStarted(c) PROVE UserInv'
    <3>1. Quiet(c)
      BY <2>2, QuietEnds
    <3>2. PICK f : f = conn[c].rx.f
      OBVIOUS
    <3>3. UNCHANGED <<topics, trouble, obj>> /\ RowsGrow
      BY <2>2, <3>2, MarkEffect
    <3>4. TroubleMounts
      BY <1>0, <3>3, Mounts
    <3> QED BY <1>0, <3>1, <3>3, <3>4, UserQuiet
  <2>3. ASSUME NEW c \in ConnIds, Record(c) \/ Disconnect(c) \/ Closed(c) \/ Cancel(c)
        PROVE  UserInv'
    <3>1. Quiet(c)
      BY <2>3, QuietRecord, QuietEnds
    <3>2. UNCHANGED <<rows, topics, obj>> /\ (UNCHANGED trouble \/ GoesWrong("stop"))
      BY <2>3 DEF Record, Disconnect, Closed, Cancel, rowVars
    <3> QED BY <1>0, <1>2, <3>1, <3>2, UserQuiet
  <2>4. ASSUME NEW c \in ConnIds, DrainStep(c) PROVE UserInv'
    BY <1>3, <2>4, UserTake, UserMakeTopic, UserPostUser, UserPostStep DEF DrainStep
  <2>5. ASSUME NEW k \in dedup, DedupExpires(k) PROVE UserInv'
    <3>1. /\ UNCHANGED <<rows, topics, trouble, frames, obj, conn, fate>>
          /\ dedup' \subseteq dedup
      BY <2>5 DEF DedupExpires, rowVars
    <3> QED BY <1>0, <1>2, <3>1, UserAside
  <2>6. CASE Connect
    <3>1. /\ UNCHANGED <<rows, topics, trouble, frames, obj, fate, dedup>>
          /\ conn' = Append(conn, NewConn)
      BY <2>6 DEF Connect, rowVars
    <3>2. /\ RowsGrow /\ TopicsGrow /\ TroubleMounts /\ GoneOk' /\ Dead \subseteq Dead'
          /\ FrameIds' = FrameIds
      BY <1>2, <3>1 DEF FrameIds
    <3>3. PICK x : x = NewConn
      OBVIOUS
    <3>4. x.drain.at = "get"
      BY <3>3 DEF NewConn
    <3>5. /\ ConnIds' = ConnIds \cup {Len(conn) + 1} /\ conn'[Len(conn) + 1] = x
          /\ \A d \in ConnIds : conn'[d] = conn[d]
      BY <3>1, <3>3 DEF LinkInv, LinkShape, ConnIds
    <3>6. ASSUME NEW g \in FrameIds, Begun(g) PROVE Begun(g)'
      <4>1. frames[g].conn \in ConnIds
        BY DEF LinkInv, Placed
      <4> QED BY <3>1, <3>5, <3>6, <4>1 DEF Begun
    <3>7. ASSUME NEW d \in ConnIds' PROVE DrainTopic(d)'
      <4>1. CASE d \in ConnIds
        BY <3>1, <3>2, <3>5, <4>1, DrainTopicKept
      <4>2. CASE d = Len(conn) + 1
        BY <3>4, <3>5, <4>2, OffDrainTopic
      <4> QED BY <3>5, <4>1, <4>2
    <3>8. \A f \in FrameIds' : NotShown(f)' => f \in FrameIds /\ NotShown(f)
      BY <3>1, <3>2 DEF NotShown
    <3> QED BY <1>0, <3>1, <3>2, <3>6, <3>7, <3>8, UserKeep
  <2> QED BY <1>3, <2>1, <2>2, <2>3, <2>4, <2>5, <2>6 DEF DeliveryNext
<1>4. ASSUME NEW t \in TopicIds, TopicDeleted(t), UNCHANGED <<startVars, deliveryVars>>
      PROVE  UserInv'
  BY <1>4, UserGone
<1>5. CASE UNCHANGED vars
  <2>1. UNCHANGED <<rows, topics, trouble, frames, obj, conn, fate, dedup>>
    BY <1>5 DEF vars, rowVars, deliveryVars
  <2> QED BY <1>0, <1>2, <2>1, UserAside
<1> QED BY <1>1, <1>3, <1>4, <1>5 DEF Next

LEMMA SpecUserInv == Spec => []UserInv
<1>1. Init => UserInv
  BY UserInit
<1>2. IInv /\ LinkInv /\ TopicInv /\ TopicInv' /\ UserInv /\ [Next]_vars => UserInv'
  BY UserNext
<1> QED BY <1>1, <1>2, SpecIInv, SpecLinkInv, SpecTopicInv, PTL DEF Spec

(* A user turn whose delivery was tried is shown, in spite of a topic that   *)
(* was deleted: deliver_turn clears a topic that Telegram says is gone,      *)
(* forgets the turn's cache entry and tries once more, so that only a        *)
(* failing Telegram, a second deleted topic, another topic of the session or *)
(* another delivery of the same line keeps it away.                          *)
THEOREM SpecUserTurnShown == Spec => []UserTurnShown
<1>1. UserInv => UserTurnShown
  BY DEF UserInv, UserTurnShown, NotShown, Excused
<1> QED BY <1>1, SpecUserInv, PTL

-----------------------------------------------------------------------------
(* One topic per thread.  As long as nothing went wrong and no two copies of *)
(* a row are held at once, every copy agrees with the row, and names its     *)
(* only topic.                                                               *)
OneTopic(r) ==
    /\ \A t \in TopicIds : topics[t].row = r => rows[r].md.topic = t
    /\ \A f \in Active(r) : Agrees(obj[f], rows[r].md)
    /\ \A s \in Callers : Holds(s, r) => Agrees(caller[s].md, rows[r].md)

(* What a request knows when it is to write or to create.                    *)
Prepared(s) ==
    /\ At(s, "create") => caller[s].md.topic = None
    /\ At(s, "write") /\ ~Named(s) => caller[s].row = None

CalmInv ==
    /\ RushedNow \subseteq rushed
    /\ \A s \in Callers : Prepared(s)
    /\ Calm => \A r \in RowIds \ rushed : OneTopic(r)

(* Once something went wrong, it stays so. *)
LEMMA NotCalm ==
    ASSUME MetaShape, NEW kind \in TroubleKinds, GoesWrong(kind)
    PROVE  ~Calm'
<1>1. /\ trouble' \in [TroubleKinds -> Nat] /\ trouble'[kind] = trouble[kind] + 1
      /\ trouble[kind] \in Nat
  BY TroubleGrows DEF MetaShape
<1>2. /\ trouble'["api"] \in Nat /\ trouble'["gone"] \in Nat /\ trouble'["stop"] \in Nat
      /\ trouble'[kind] > 0
  BY <1>1 DEF TroubleKinds
<1>3. trouble'["api"] + trouble'["gone"] + trouble'["stop"] > 0
  BY <1>2 DEF TroubleKinds
<1> QED BY <1>3 DEF Calm, Total

LEMMA CalmBefore ==
    ASSUME MetaShape, TroubleMounts, Calm'
    PROVE  Calm
<1>1. /\ trouble["api"] \in Nat /\ trouble["gone"] \in Nat /\ trouble["stop"] \in Nat
      /\ trouble'["api"] \in Nat /\ trouble'["gone"] \in Nat /\ trouble'["stop"] \in Nat
      /\ trouble["api"] <= trouble'["api"] /\ trouble["gone"] <= trouble'["gone"]
      /\ trouble["stop"] <= trouble'["stop"]
  BY DEF MetaShape, TroubleMounts, TroubleKinds
<1>2. trouble'["api"] + trouble'["gone"] + trouble'["stop"] = 0
  BY DEF Calm, Total
<1>3. trouble'["api"] = 0 /\ trouble'["gone"] = 0 /\ trouble'["stop"] = 0
  <2>1. PICK a \in Nat, g \in Nat, s \in Nat :
            a = trouble'["api"] /\ g = trouble'["gone"] /\ s = trouble'["stop"]
    BY <1>1
  <2>2. a + g + s = 0
    BY <1>2, <2>1
  <2>3. a = 0 /\ g = 0 /\ s = 0
    BY <2>2
  <2> QED BY <2>1, <2>3
<1>4. trouble["api"] = 0 /\ trouble["gone"] = 0 /\ trouble["stop"] = 0
  BY <1>1, <1>3
<1> QED BY <1>4 DEF Calm, Total

(* No topic is gone while nothing went wrong. *)
LEMMA NoneDead ==
    ASSUME MetaShape, UserInv, Calm
    PROVE  Dead = {}
<1>1. trouble["api"] \in Nat /\ trouble["gone"] \in Nat /\ trouble["stop"] \in Nat
  BY DEF MetaShape, TroubleKinds
<1>2. trouble["gone"] = 0
  BY <1>1 DEF Calm, Total
<1> QED BY <1>2 DEF UserInv, GoneOk

-----------------------------------------------------------------------------
(* The frames that work on a row. *)
LEMMA OnlyOne ==
    ASSUME LinkInv, NEW r, ~Rushed(r), NEW f \in Active(r), NEW g \in Active(r)
    PROVE  f = g
<1> SUFFICES ASSUME f # g PROVE FALSE
  OBVIOUS
<1>1. Active(r) \subseteq 1 .. Len(frames) /\ Len(frames) \in Nat
  BY DEF Active, FrameIds, LinkInv, LinkShape
<1>2. IsFiniteSet(Active(r))
  <2>1. IsFiniteSet(1 .. Len(frames))
    BY <1>1, FS_Interval
  <2> QED BY <1>1, <2>1, FS_Subset
<1>3. IsFiniteSet({f}) /\ Cardinality({f}) = 1
  BY FS_Singleton
<1>4. Cardinality({f} \cup {g}) = 2
  <2>1. Cardinality({f} \cup {g}) = 1 + 1
    BY <1>3, FS_AddElement
  <2> QED BY <2>1
<1>5. Cardinality({f} \cup {g}) <= Cardinality(Active(r))
  <2>1. {f} \cup {g} \in SUBSET Active(r)
    OBVIOUS
  <2> QED BY <1>2, <2>1, FS_Subset
<1>6. Cardinality(Active(r)) \in Nat
  BY <1>2, FS_CardinalityType
<1>7. Cardinality(Active(r)) > 1
  BY <1>4, <1>5, <1>6
<1> QED BY <1>7 DEF Rushed

LEMMA ActiveAside ==
    ASSUME UNCHANGED <<frames, fate, conn>>, NEW r
    PROVE  Active(r)' = Active(r)
BY DEF Active, FrameIds, ConnIds

(* Of the frames that were there, a step of a connection adds none. *)
LEMMA ActiveShrinks ==
    ASSUME LinkInv, NEW c \in ConnIds, Others(c),
           \A f \in FrameIds : fate'[f] \in {"coming", "queued"} => fate[f] \in {"coming", "queued"},
           conn'[c].rx.f \in {conn[c].rx.f, None} \cup (FrameIds' \ FrameIds),
           NEW r, NEW f \in Active(r)', f \in FrameIds
    PROVE  f \in Active(r)
<1>1. frames[f].row = r /\ frames'[f] = frames[f] /\ f # None
  BY DEF Active, Others, FrameIds, None
<1>2. CASE fate'[f] \in {"coming", "queued"}
  BY <1>1, <1>2 DEF Active
<1>3. CASE \E d \in ConnIds' : conn'[d].rx.f = f
  <2>1. PICK d \in ConnIds' : conn'[d].rx.f = f
    BY <1>3
  <2>2. d \in ConnIds /\ (d # c => conn'[d] = conn[d])
    BY <2>1 DEF Others
  <2>3. conn[d].rx.f = f
    BY <1>1, <2>1, <2>2
  <2> QED BY <1>1, <2>2, <2>3 DEF Active
<1> QED BY <1>2, <1>3 DEF Active

LEMMA ActiveQuiet ==
    ASSUME LinkInv, NEW c \in ConnIds, Quiet(c), NEW r, NEW f \in Active(r)', f \in FrameIds
    PROVE  f \in Active(r)
<1>1. \A g \in FrameIds : fate'[g] \in {"coming", "queued"} => fate[g] \in {"coming", "queued"}
  BY DEF Quiet, FateGoesOn
<1> QED BY <1>1, ActiveShrinks DEF Quiet

LEMMA ActiveWorks ==
    ASSUME LinkInv, NEW c \in ConnIds, NEW g, Works(c, g), NEW r, NEW f \in Active(r)'
    PROVE  f \in Active(r)
<1>1. f \in FrameIds
  <2>1. FrameIds' = FrameIds
    BY SameFrames DEF Works
  <2> QED BY <2>1 DEF Active
<1>2. \A h \in FrameIds : fate'[h] \in {"coming", "queued"} => fate[h] \in {"coming", "queued"}
  BY DEF Works
<1> QED BY <1>1, <1>2, ActiveShrinks DEF Works

(* What the drainer does with the frame it has in hand. *)
LEMMA DrainWorks ==
    ASSUME LinkInv, NEW c \in ConnIds, NEW f, f = conn[c].drain.f,
           MakeTopic(c) \/ PostUser(c) \/ PostStep(c)
    PROVE  Works(c, f)
<1>1. f \in FrameIds /\ fate[f] = "queued" /\ frames[f].conn = c /\ UNCHANGED frames
  BY DrainFrame DEF MakeTopic, PostUser, PostStep, InDrain
<1>2. ASSUME NEW how \in {"posted", "failed"}, Finish(c, f, how) PROVE Works(c, f)
  BY <1>1, <1>2, FinishWorks
<1>3. CASE MakeTopic(c)
  <2>1. Finish(c, f, "failed") \/ (GoOn(c, "post") /\ UNCHANGED fate)
    BY <1>3 DEF MakeTopic
  <2>2. CASE GoOn(c, "post") /\ UNCHANGED fate
    <3>1. PICK d : d = [conn[c].drain EXCEPT !.at = "post"]
      OBVIOUS
    <3>2. PICK x : x = [conn[c] EXCEPT !.drain = d]
      OBVIOUS
    <3>3. conn[c] \in ConnSet
      BY ConnParts
    <3>4. conn' = [conn EXCEPT ![c] = x]
      BY <2>2, <3>1, <3>2, <3>3 DEF GoOn, Conn, ConnSet
    <3>5. x.rx = conn[c].rx /\ x.drain.f = f
      BY <3>1, <3>2, <3>3 DEF ConnSet
    <3>6. ConnIds' = ConnIds /\ conn'[c] = x /\ \A u \in ConnIds : u # c => conn'[u] = conn[u]
      BY <3>4, ConnUpdate
    <3>7. FrameIds' = FrameIds
      BY <1>1, SameFrames
    <3>8. Others(c)
      BY <1>1, <2>2, <3>6, <3>7 DEF Others
    <3> QED BY <1>1, <2>2, <3>5, <3>6, <3>8 DEF Works
  <2> QED BY <1>2, <2>1, <2>2
<1>4. CASE PostUser(c)
  <2>1. \/ Finish(c, f, "posted") \/ Finish(c, f, "failed")
        \/ Begin(c, f, None, Forget(f), TRUE)
    BY <1>4 DEF PostUser
  <2>2. CASE Begin(c, f, None, Forget(f), TRUE)
    <3>1. PICK b \in BOOLEAN : b = TRUE
      OBVIOUS
    <3>2. PICK seen : seen = Forget(f)
      OBVIOUS
    <3>3. Begin(c, f, None, seen, b) /\ conn[c].drain.f \in {f, None}
      BY <1>1, <2>2, <3>1, <3>2
    <3> QED BY <1>1, <3>3, BeginWorks
  <2> QED BY <1>2, <2>1, <2>2
<1>5. CASE PostStep(c)
  <2>1. PICK how \in {"posted", "failed"} : Finish(c, f, how)
    BY <1>5 DEF PostStep
  <2> QED BY <1>2, <2>1
<1> QED BY <1>3, <1>4, <1>5

-----------------------------------------------------------------------------
(* The copies of a row still agree, if what changes agrees with the row.     *)
LEMMA OneKeep ==
    ASSUME NEW r, OneTopic(r), Agrees(rows'[r].md, rows[r].md),
           \A t \in TopicIds' : topics'[t].row = r => t \in TopicIds /\ topics[t].row = r,
           \A f \in Active(r)' : \/ f \in Active(r) /\ Agrees(obj'[f], obj[f])
                                 \/ Agrees(obj'[f], rows'[r].md),
           \A s \in Callers : Holds(s, r)' =>
                                 \/ Holds(s, r) /\ Agrees(caller'[s].md, caller[s].md)
                                 \/ Agrees(caller'[s].md, rows'[r].md)
    PROVE  OneTopic(r)'
BY DEF OneTopic, Agrees, SameDigest

LEMMA SameAgrees == \A md, old : md = old => Agrees(md, old)
BY DEF Agrees, SameDigest

LEMMA HoldsAside ==
    ASSUME UNCHANGED caller, NEW s, NEW r
    PROVE  Holds(s, r)' = Holds(s, r)
BY DEF Holds, At, Named

(* A step that leaves the rows, the topics and the objects alone. *)
LEMMA OneStill ==
    ASSUME UNCHANGED <<rows, topics, caller>>, \A f \in FrameIds : obj'[f] = obj[f],
           NEW r, OneTopic(r), \A f \in Active(r)' : f \in Active(r)
    PROVE  OneTopic(r)'
<1>1. TopicIds' = TopicIds
  BY DEF TopicIds
<1>2. \A f \in Active(r)' : f \in Active(r) /\ obj'[f] = obj[f]
  BY DEF Active
<1>3. \A s \in Callers : Holds(s, r)' => Holds(s, r) /\ caller'[s] = caller[s]
  BY HoldsAside
<1> QED BY <1>1, <1>2, <1>3, OneKeep, SameAgrees

LEMMA OneMark ==
    ASSUME LinkInv, TopicInv, NEW c \in ConnIds, MarkStarted(c), UNCHANGED startVars,
           NEW r \in RowIds, OneTopic(r)
    PROVE  OneTopic(r)' /\ Agrees(rows'[r].md, rows[r].md)
<1>1. PICK g : g = conn[c].rx.f
  OBVIOUS
<1>2. /\ g \in FrameIds /\ UNCHANGED <<topics, obj, frames>>
      /\ \A q \in RowIds : q # frames[g].row => rows'[q].md = rows[q].md
      /\ Agrees(rows'[frames[g].row].md, obj[g])
  BY <1>1, MarkEffect
<1>3. Agrees(rows'[r].md, rows[r].md)
  <2>1. CASE frames[g].row = r
    <3>1. g \in Active(r)
      BY <1>1, <1>2, <2>1 DEF Active
    <3> QED BY <1>2, <2>1, <3>1 DEF OneTopic, Agrees, SameDigest
  <2>2. CASE frames[g].row # r
    BY <1>2, <2>2, SameAgrees
  <2> QED BY <2>1, <2>2
<1>4. \A f \in Active(r)' : f \in Active(r) /\ obj'[f] = obj[f]
  <2>1. FrameIds' = FrameIds
    BY <1>2, SameFrames
  <2>2. Quiet(c)
    BY QuietEnds
  <2>3. ASSUME NEW f \in Active(r)' PROVE f \in Active(r)
    <3>1. f \in FrameIds
      BY <2>1 DEF Active
    <3> QED BY <2>2, <3>1, ActiveQuiet
  <2> QED BY <1>2, <2>3
<1>5. TopicIds' = TopicIds /\ topics' = topics
  BY <1>2 DEF TopicIds
<1>6. \A s \in Callers : Holds(s, r)' => Holds(s, r) /\ caller'[s] = caller[s]
  BY HoldsAside DEF startVars
<1> QED BY <1>3, <1>4, <1>5, <1>6, OneKeep, SameAgrees

(* A frame that comes in copies the row as it is; a new row has no topic.    *)
LEMMA OneArrival ==
    ASSUME IInv, LinkInv, TopicInv, NEW c \in ConnIds, Receive(c) \/ Ready(c),
           UNCHANGED startVars, NEW r \in RowIds', r \in RowIds => OneTopic(r)
    PROVE  OneTopic(r)'
<1>1. /\ UNCHANGED topics
      /\ \A q \in RowIds : rows'[q] = rows[q] /\ q \in RowIds'
      /\ \A q \in RowIds' \ RowIds : rows'[q].md.topic = None
      /\ FrameIds' = FrameIds \cup {Len(frames) + 1} /\ Len(frames) + 1 \notin FrameIds
      /\ \A g \in FrameIds : frames'[g] = frames[g] /\ obj'[g] = obj[g]
      /\ \E q \in RowIds' : frames'[Len(frames) + 1].row = q
                            /\ obj'[Len(frames) + 1] = rows'[q].md
  BY IdsDiffer, ArrivalEffect
<1>2. Quiet(c)
  BY QuietReceive, QuietReady
<1>3. \A s \in Callers : Holds(s, r)' => Holds(s, r) /\ caller'[s] = caller[s]
  BY HoldsAside DEF startVars
<1>4. TopicIds' = TopicIds /\ topics' = topics
  BY <1>1 DEF TopicIds
<1>5. ASSUME NEW f \in Active(r)', f \notin FrameIds PROVE Agrees(obj'[f], rows'[r].md)
  <2>1. f = Len(frames) + 1 /\ frames'[f].row = r
    BY <1>1, <1>5 DEF Active
  <2> QED BY <1>1, <2>1, SameAgrees
<1>6. CASE r \in RowIds
  <2>1. rows'[r].md = rows[r].md
    BY <1>1, <1>6
  <2>2. ASSUME NEW f \in Active(r)', f \in FrameIds
        PROVE  f \in Active(r) /\ obj'[f] = obj[f]
    BY <1>1, <1>2, <2>2, ActiveQuiet
  <2>3. \A f \in Active(r)' : \/ f \in Active(r) /\ Agrees(obj'[f], obj[f])
                              \/ Agrees(obj'[f], rows'[r].md)
    BY <1>5, <2>2, SameAgrees
  <2>4. \A s \in Callers : Holds(s, r)' =>
            Holds(s, r) /\ Agrees(caller'[s].md, caller[s].md)
    BY <1>3, SameAgrees
  <2>5. Agrees(rows'[r].md, rows[r].md)
    BY <2>1, SameAgrees
  <2> QED BY <1>4, <1>6, <2>3, <2>4, <2>5, OneKeep
<1>7. CASE r \notin RowIds
  <2>1. \A t \in TopicIds' : topics'[t].row # r
    BY <1>4, <1>7 DEF TopicInv
  <2>2. ASSUME NEW f \in Active(r)' PROVE f \notin FrameIds
    BY <1>1, <1>7, <2>2 DEF Active, TopicInv
  <2>3. ASSUME NEW s \in Callers PROVE ~Holds(s, r)'
    <3>1. CallerTopic(s) /\ r # None
      BY DEF TopicInv, RowIds, None
    <3>2. caller[s].row # r
      BY <1>7, <3>1 DEF CallerTopic
    <3> QED BY <1>3, <3>2 DEF Holds
  <2> QED BY <1>5, <2>1, <2>2, <2>3 DEF OneTopic
<1> QED BY <1>6, <1>7

LEMMA OneDrain ==
    ASSUME LinkInv, TopicInv, UserInv, Calm, NEW c \in ConnIds,
           MakeTopic(c) \/ PostUser(c) \/ PostStep(c), UNCHANGED startVars,
           NEW r \in RowIds, OneTopic(r), ~Rushed(r)
    PROVE  OneTopic(r)'
<1>1. PICK f : f = conn[c].drain.f
  OBVIOUS
<1>2. /\ Keeps(f) \/ Rewrites(f) \/ (PostUser(c) /\ Clears(f)) \/ (MakeTopic(c) /\ Creates(f))
      /\ UNCHANGED frames
  BY <1>1, DrainEffect
<1>3. /\ f \in FrameIds /\ fate[f] = "queued" /\ frames[f].conn = c
      /\ frames[f].row \in RowIds /\ Names(obj[f], frames[f].row)
  BY <1>1, DrainFrame DEF MakeTopic, PostUser, PostStep, InDrain, TopicInv
<1>4. \A g \in Active(r)' : g \in Active(r)
  <2>1. Works(c, f)
    BY <1>1, DrainWorks
  <2> QED BY <2>1, ActiveWorks
<1>5. \A s \in Callers : Holds(s, r)' => Holds(s, r) /\ Agrees(caller'[s].md, caller[s].md)
  BY HoldsAside, SameAgrees DEF startVars
<1>6. MetaShape /\ topics \in Seq(TopicSet) /\ frames[f].row \in Nat
  BY <1>3, Lengths DEF TopicInv, MetaShape
<1>7. ASSUME NEW md \in MdSet, Save(f, md)
      PROVE  /\ \A g \in FrameIds : obj'[g] = IF g = f THEN md ELSE obj[g]
             /\ \A q \in RowIds : rows'[q].md = IF q = frames[f].row THEN md ELSE rows[q].md
  BY <1>2, <1>3, <1>7, SaveEffect
<1>8. ASSUME topics' = topics PROVE TopicIds' = TopicIds
  BY <1>8 DEF TopicIds
<1>9. CASE Keeps(f)
  BY <1>4, <1>5, <1>8, <1>9, OneKeep, SameAgrees DEF Keeps
<1>10. CASE frames[f].row = r
  <2>1. f \in Active(r)
    BY <1>3, <1>10 DEF Active
  <2>2. \A g \in Active(r) : g = f
    BY <2>1, OnlyOne
  <2>3. obj[f].topic = rows[r].md.topic
    BY <2>1 DEF OneTopic, Agrees
  <2>7. \A s \in Callers : ~Holds(s, r)'
    BY <1>5, <2>1 DEF Rushed
  <2>4. CASE Rewrites(f)
    <3>1. PICK md \in MdSet : Save(f, md) /\ md.topic = obj[f].topic
      BY <2>4 DEF Rewrites
    <3>2. rows'[r].md = md /\ rows'[r].md.topic = rows[r].md.topic
      BY <1>7, <1>10, <2>3, <3>1
    <3>3. \A g \in Active(r)' : obj'[g] = rows'[r].md
      BY <1>3, <1>4, <1>7, <2>2, <3>1, <3>2
    <3>4. \A t \in TopicIds' : topics'[t].row = r => rows'[r].md.topic = t
      BY <1>8, <2>4, <3>2 DEF OneTopic, Rewrites
    <3> QED BY <2>7, <3>3, <3>4, SameAgrees DEF OneTopic
  <2>5. ~(PostUser(c) /\ Clears(f))
    <3> SUFFICES ASSUME PostUser(c), Clears(f) PROVE FALSE
      OBVIOUS
    <3>1. obj[f].topic # None
      BY <1>1 DEF UserInv, DrainTopic, PostUser, InDrain
    <3>2. obj[f].topic \in Dead
      BY <1>3, <3>1 DEF Names, Clears, Live, Dead
    <3> QED BY <1>6, <3>2, NoneDead
  <2>6. CASE MakeTopic(c) /\ Creates(f)
    <3>1. PICK md \in MdSet : Save(f, md) /\ md.topic = NewTopicId
      BY <2>6 DEF Creates
    <3>2. /\ TopicIds' = TopicIds \cup {NewTopicId}
          /\ \A t \in TopicIds : topics'[t] = topics[t]
      BY <1>6, <2>6, NewTopics DEF Creates
    <3>3. rows[r].md.topic = None
      BY <1>1, <2>3, <2>6 DEF UserInv, DrainTopic, MakeTopic, InDrain
    <3>4. \A t \in TopicIds : topics[t].row # r
      BY <3>3 DEF OneTopic, TopicIds, None
    <3>5. rows'[r].md = md /\ rows'[r].md.topic = NewTopicId
      BY <1>7, <1>10, <3>1
    <3>6. \A t \in TopicIds' : topics'[t].row = r => rows'[r].md.topic = t
      BY <3>2, <3>4, <3>5
    <3>7. \A g \in Active(r)' : obj'[g] = rows'[r].md
      BY <1>3, <1>4, <1>7, <2>2, <3>1, <3>5
    <3> QED BY <2>7, <3>6, <3>7, SameAgrees DEF OneTopic
  <2> QED BY <1>2, <1>9, <2>4, <2>5, <2>6
<1>11. CASE frames[f].row # r
  <2>1. \A g \in Active(r) : g \in FrameIds /\ g # f
    BY <1>11 DEF Active
  <2>2. ASSUME NEW md \in MdSet, Save(f, md)
        PROVE  /\ Agrees(rows'[r].md, rows[r].md)
               /\ \A g \in Active(r)' : g \in Active(r) /\ Agrees(obj'[g], obj[g])
    BY <1>4, <1>7, <1>11, <2>1, <2>2, SameAgrees
  <2>3. CASE Rewrites(f) \/ Clears(f)
    <3>1. PICK md \in MdSet : Save(f, md)
      BY <2>3 DEF Rewrites, Clears
    <3>2. topics' = topics
      BY <2>3 DEF Rewrites, Clears
    <3> QED BY <1>5, <1>8, <2>2, <3>1, <3>2, OneKeep
  <2>4. CASE Creates(f)
    <3>1. PICK md \in MdSet : Save(f, md)
      BY <2>4 DEF Creates
    <3>2. /\ TopicIds' = TopicIds \cup {NewTopicId}
          /\ \A t \in TopicIds : topics'[t] = topics[t]
          /\ topics'[NewTopicId].row = frames[f].row
      BY <1>6, <2>4, NewTopics DEF Creates
    <3>3. \A t \in TopicIds' : topics'[t].row = r => t \in TopicIds /\ topics[t].row = r
      BY <1>11, <3>2
    <3> QED BY <1>5, <2>2, <3>1, <3>3, OneKeep
  <2> QED BY <1>2, <1>9, <2>3, <2>4
<1> QED BY <1>10, <1>11

-----------------------------------------------------------------------------
(* The steps of requests that succeed.                                       *)
LEMMA CallerUpdate ==
    ASSUME MetaShape, NEW s \in Callers, NEW p, NEW x, NEW m, Goes(s, p, x, m)
    PROVE  /\ caller'[s].pc = p /\ caller'[s].row = x /\ caller'[s].md = m
           /\ \A u \in Callers : u # s => caller'[u] = caller[u]
BY DEF MetaShape, Goes

(* Nobody else holds the row of a request that is to create its topic: who   *)
(* holds it serves the same session, and the lock is taken.                  *)
LEMMA CreatesAlone ==
    ASSUME IInv, TopicInv, NEW s \in Callers, At(s, "create"),
           NEW u \in Callers, Holds(u, caller[s].row)
    PROVE  u = s
<1>1. caller[s].row \in RowIds /\ rows[caller[s].row].session = BoundId(s)
  BY DEF TopicInv, CallerTopic, At
<1>2. rows[caller[s].row].session = BoundId(u)
  <2>1. caller[u].row = caller[s].row /\ caller[u].row # None
    BY <1>1 DEF Holds, RowIds, None
  <2> QED BY <1>1, <2>1 DEF TopicInv, CallerTopic
<1>3. Named(s) \in BOOLEAN /\ Named(u) \in BOOLEAN
  BY DEF Named
<1>4. CASE Named(s) /\ Named(u)
  <2>1. SessionOf[s] = SessionOf[u]
    BY <1>1, <1>2, <1>4 DEF BoundId
  <2>2. caller[u].pc \in {"write", "create"}
    BY <1>4 DEF Holds, At
  <2>3. lock[SessionOf[s]] = s /\ lock[SessionOf[u]] = u
    BY <1>4, <2>2 DEF IInv, HoldsLock, At
  <2> QED BY <2>1, <2>3
<1>5. CASE ~Named(s) /\ ~Named(u)
  BY <1>1, <1>2, <1>5 DEF BoundId
<1>6. CASE Named(s) /\ ~Named(u)
  BY <1>1, <1>2, <1>6, IdsDiffer DEF BoundId, Named
<1>7. CASE ~Named(s) /\ Named(u)
  BY <1>1, <1>2, <1>7, IdsDiffer DEF BoundId, Named
<1> QED BY <1>3, <1>4, <1>5, <1>6, <1>7

(* A request that moves on keeps the copies of row r in agreement.           *)
LEMMA OneGoes ==
    ASSUME MetaShape, UNCHANGED <<frames, obj, fate, conn>>,
           NEW s \in Callers, NEW p, NEW x, NEW m, Goes(s, p, x, m),
           NEW r, OneTopic(r), Agrees(rows'[r].md, rows[r].md),
           \A t \in TopicIds' : topics'[t].row = r => t \in TopicIds /\ topics[t].row = r,
           Holds(s, r)' => \/ Holds(s, r) /\ Agrees(m, caller[s].md)
                           \/ Agrees(m, rows'[r].md)
    PROVE  OneTopic(r)'
<1>1. /\ caller'[s].md = m
      /\ \A u \in Callers : u # s => caller'[u] = caller[u]
  BY CallerUpdate
<1>2. \A f \in Active(r)' : f \in Active(r) /\ obj'[f] = obj[f]
  BY ActiveAside
<1>3. ASSUME NEW u \in Callers, Holds(u, r)'
      PROVE  \/ Holds(u, r) /\ Agrees(caller'[u].md, caller[u].md)
             \/ Agrees(caller'[u].md, rows'[r].md)
  <2>1. CASE u = s
    BY <1>1, <1>3, <2>1
  <2>2. CASE u # s
    <3>1. caller'[u] = caller[u]
      BY <1>1, <2>2
    <3>2. Holds(u, r)
      BY <1>3, <3>1 DEF Holds, At, Named
    <3> QED BY <3>1, <3>2, SameAgrees
  <2> QED BY <2>1, <2>2
<1> QED BY <1>2, <1>3, OneKeep, SameAgrees

LEMMA OneStart ==
    ASSUME IInv, TopicInv, NEW s \in Callers, Prepared(s), CallerStep(s) \/ Abort(s),
           UNCHANGED deliveryVars, Calm',
           NEW r \in RowIds', r \in RowIds => OneTopic(r) /\ ~Rushed(r)
    PROVE  OneTopic(r)'
<1>0. /\ MetaShape /\ rows \in Seq(Row(MdSet)) /\ topics \in Seq(TopicSet)
      /\ caller[s] \in CallerSet /\ CallerTopic(s) /\ Named(s) \in BOOLEAN
      /\ Len(rows) \in Nat /\ RowIds = 1 .. Len(rows)
      /\ UNCHANGED <<frames, obj, fate, conn>>
  BY Lengths DEF TopicInv, MetaShape, deliveryVars, Named
<1>1. caller[s].row \in Nat /\ caller[s].md \in MdSet /\ FreshMetadata(Named(s)).topic = None
  BY <1>0, FreshFields DEF CallerSet
<1>2. ASSUME rows' = rows, topics' = topics
      PROVE  /\ r \in RowIds /\ OneTopic(r) /\ Agrees(rows'[r].md, rows[r].md)
             /\ \A t \in TopicIds' : topics'[t].row = r => t \in TopicIds /\ topics[t].row = r
  BY <1>2, SameAgrees DEF RowIds, TopicIds
<1>3. ASSUME NEW p, NEW x, NEW m, Goes(s, p, x, m), p \notin {"write", "create"},
             ~Named(s) => p \notin {"bind", "insert", "topic"}
      PROVE  ~Holds(s, r)'
  <2>1. caller'[s].pc = p
    BY <1>0, <1>3, CallerUpdate
  <2> QED BY <1>3, <2>1 DEF Holds, At, Named
<1>4. CASE Reads(s)
  <2>1. PICK x \in RowIds \cup {None} :
            /\ Goes(s, "write", x, IF x = None THEN FreshMetadata(Named(s)) ELSE rows[x].md)
            /\ x # None => Named(s) /\ rows[x].session = BoundId(s)
    BY <1>4 DEF Reads
  <2>2. PICK m : m = IF x = None THEN FreshMetadata(Named(s)) ELSE rows[x].md
    OBVIOUS
  <2>3. rows' = rows /\ topics' = topics
    BY <1>4 DEF Reads, rowVars
  <2>4. Goes(s, "write", x, m)
    BY <2>1, <2>2
  <2>5. Holds(s, r)' => Agrees(m, rows'[r].md)
    <3>1. caller'[s].row = x
      BY <1>0, <2>4, CallerUpdate
    <3>2. r # None
      BY DEF RowIds, None
    <3> QED BY <2>2, <2>3, <3>1, <3>2, SameAgrees DEF Holds
  <2> QED BY <1>0, <1>2, <2>3, <2>4, <2>5, OneGoes
<1>5. CASE Inserts(s)
  <2>1. BoundId(s) \in Sessions \cup Callers
    BY IdsDiffer DEF BoundId, Named
  <2>2. /\ RowIds' = RowIds \cup {Len(rows) + 1} /\ Len(rows) + 1 \notin RowIds
        /\ \A q \in RowIds : rows'[q] = rows[q]
        /\ rows'[Len(rows) + 1].md = FreshMetadata(Named(s))
    <3>1. rows' = Append(rows, NewRow(BoundId(s), "blank", Named(s)))
      BY <1>5 DEF Inserts
    <3> QED BY <1>0, <2>1, <3>1, NewRows
  <2>3. PICK x, m : x = Len(rows) + 1 /\ m = FreshMetadata(Named(s))
    OBVIOUS
  <2>4. Goes(s, "bind", x, m) /\ m.topic = None
    BY <1>1, <1>5, <2>3 DEF Inserts
  <2>5. TopicIds' = TopicIds /\ topics' = topics
    BY <1>5 DEF Inserts, TopicIds
  <2>6. /\ caller'[s].row = x /\ caller'[s].md = m
        /\ \A u \in Callers : u # s => caller'[u] = caller[u]
    BY <1>0, <2>4, CallerUpdate
  <2>7. CASE r \in RowIds
    <3>1. ~Holds(s, r)'
      BY <2>2, <2>3, <2>6, <2>7 DEF Holds
    <3>2. Agrees(rows'[r].md, rows[r].md)
      BY <2>2, <2>7, SameAgrees
    <3> QED BY <1>0, <2>2, <2>4, <2>5, <2>7, <3>1, <3>2, OneGoes
  <2>8. CASE r \notin RowIds
    <3>1. r = x /\ rows'[r].md = m
      BY <1>1, <2>2, <2>3, <2>8
    <3>2. \A t \in TopicIds' : topics'[t].row # r
      BY <2>5, <2>8 DEF TopicInv
    <3>3. \A f \in FrameIds' : frames'[f].row # r
      BY <1>0, <2>8 DEF TopicInv, FrameIds
    <3>4. \A f : f \notin Active(r)'
      BY <3>3 DEF Active
    <3>5. ASSUME NEW u \in Callers, Holds(u, r)' PROVE Agrees(caller'[u].md, rows'[r].md)
      <4>1. CASE u = s
        BY <2>6, <3>1, <4>1, SameAgrees
      <4>2. CASE u # s
        <5>1. caller[u].row = r /\ r # None
          BY <2>6, <3>5, <4>2 DEF Holds, RowIds, None
        <5> QED BY <2>8, <5>1 DEF TopicInv, CallerTopic
      <4> QED BY <4>1, <4>2
    <3> QED BY <3>1, <3>2, <3>4, <3>5 DEF OneTopic
  <2> QED BY <2>7, <2>8
<1>6. CASE WritesBack(s)
  <2>1. PICK x, m, w : x = caller[s].row /\ m = caller[s].md /\ w = FreshMetadata(Named(s))
    OBVIOUS
  <2>2. x \in RowIds /\ m \in MdSet /\ Named(s)
    BY <1>0, <1>1, <1>6, <2>1 DEF WritesBack, CallerTopic, Prepared
  <2>3. rows' = Saved(x, m) /\ Goes(s, "bind", x, w)
    BY <1>6, <2>1 DEF WritesBack
  <2>4. /\ RowIds' = RowIds
        /\ \A q \in RowIds : rows'[q].md = IF q = x THEN m ELSE rows[q].md
    BY <1>0, <2>2, <2>3, SavedRows
  <2>5. Agrees(rows'[r].md, rows[r].md)
    <3>1. CASE r = x
      <4>1. Holds(s, r)
        BY <1>6, <2>1, <3>1 DEF Holds, WritesBack
      <4> QED BY <2>1, <2>4, <3>1, <4>1 DEF OneTopic
    <3> QED BY <2>4, <3>1, SameAgrees
  <2>6. TopicIds' = TopicIds /\ topics' = topics
    BY <1>6 DEF WritesBack, TopicIds
  <2>7. ~Holds(s, r)'
    BY <1>3, <2>2, <2>3
  <2> QED BY <1>0, <2>3, <2>4, <2>5, <2>6, <2>7, OneGoes
<1>7. CASE Binds(s)
  <2>1. PICK p \in {"insert", "topic", "failed"} : Goes(s, p, caller[s].row, caller[s].md)
    BY <1>7 DEF Binds
  <2>2. PICK x, m : x = caller[s].row /\ m = caller[s].md
    OBVIOUS
  <2>3. Goes(s, p, x, m) /\ rows' = rows /\ topics' = topics
    BY <1>7, <2>1, <2>2 DEF Binds, rowVars
  <2>4. Holds(s, r)' => Holds(s, r)
    <3>1. caller'[s].pc = p /\ caller'[s].row = x
      BY <1>0, <2>3, CallerUpdate
    <3> QED BY <1>7, <2>2, <3>1 DEF Holds, At, Named, Binds
  <2> QED BY <1>0, <1>2, <2>2, <2>3, <2>4, OneGoes, SameAgrees
<1>8. CASE Looks(s)
  <2>1. rows' = rows /\ topics' = topics
    BY <1>8 DEF Looks, rowVars
  <2>2. PICK x, m, w : x = caller[s].row /\ m = caller[s].md /\ w = ReadAgain(s)
    OBVIOUS
  <2>3. CASE Goes(s, "done", x, m)
    <3>1. ~Holds(s, r)'
      BY <1>3, <2>3
    <3> QED BY <1>0, <1>2, <2>1, <2>3, <3>1, OneGoes
  <2>4. CASE Goes(s, "create", x, w)
    <3>1. ASSUME Holds(s, r)' PROVE Agrees(w, rows[r].md)
      <4>1. r = x
        BY <1>0, <2>4, <3>1, CallerUpdate DEF Holds
      <4>2. CASE Named(s)
        BY <2>2, <4>1, <4>2, SameAgrees DEF ReadAgain
      <4>3. CASE ~Named(s)
        <5>1. Holds(s, r) /\ w = caller[s].md
          BY <1>8, <2>2, <4>1, <4>3 DEF Holds, Looks, At, ReadAgain
        <5> QED BY <1>2, <2>1, <5>1 DEF OneTopic
      <4> QED BY <1>0, <4>2, <4>3
    <3> QED BY <1>0, <1>2, <2>1, <2>4, <3>1, OneGoes
  <2> QED BY <1>8, <2>2, <2>3, <2>4 DEF Looks
<1>9. CASE Makes(s)
  <2>1. PICK x, m, w : /\ x = caller[s].row /\ m = [caller[s].md EXCEPT !.topic = NewTopicId]
                       /\ w = FreshMetadata(Named(s))
    OBVIOUS
  <2>2. x \in RowIds /\ x \in Nat
    BY <1>0, <1>1, <1>9, <2>1 DEF Makes, CallerTopic, At
  <2>3. m \in MdSet /\ m.topic = NewTopicId
    <3>1. NewTopicId \in Nat
      BY <1>0, Lengths DEF NewTopicId
    <3> QED BY <1>1, <2>1, <3>1 DEF MdSet
  <2>4. rows' = Saved(x, m) /\ topics' = WithTopic(x) /\ Goes(s, "done", x, w)
    BY <1>9, <2>1 DEF Makes
  <2>5. /\ RowIds' = RowIds
        /\ \A q \in RowIds : rows'[q].md = IF q = x THEN m ELSE rows[q].md
    BY <1>0, <2>2, <2>3, <2>4, SavedRows
  <2>6. /\ TopicIds' = TopicIds \cup {NewTopicId}
        /\ \A t \in TopicIds : topics'[t] = topics[t]
        /\ topics'[NewTopicId].row = x
    BY <1>0, <2>2, <2>4, NewTopics
  <2>7. ~Holds(s, r)'
    BY <1>3, <2>4
  <2>8. CASE r # x
    <3>1. Agrees(rows'[r].md, rows[r].md)
      BY <2>5, <2>8, SameAgrees
    <3>2. \A t \in TopicIds' : topics'[t].row = r => t \in TopicIds /\ topics[t].row = r
      BY <2>6, <2>8
    <3> QED BY <1>0, <2>4, <2>5, <2>7, <3>1, <3>2, OneGoes
  <2>9. CASE r = x
    <3>1. Holds(s, r) /\ caller[s].md.topic = None
      BY <1>9, <2>1, <2>9 DEF Holds, Makes, Prepared
    <3>2. rows[r].md.topic = None /\ Active(r) = {}
      BY <2>2, <2>9, <3>1 DEF OneTopic, Rushed, Agrees
    <3>3. \A t \in TopicIds : topics[t].row # r
      BY <2>2, <2>9, <3>2 DEF OneTopic, TopicIds, None
    <3>4. \A t \in TopicIds' : topics'[t].row = r => rows'[r].md.topic = t
      BY <2>2, <2>3, <2>5, <2>6, <2>9, <3>3
    <3>5. Active(r)' = {}
      BY <1>0, <3>2, ActiveAside
    <3>6. ASSUME NEW u \in Callers PROVE ~Holds(u, r)'
      <4>1. CASE u # s
        <5>1. caller'[u] = caller[u]
          BY <1>0, <2>4, <4>1, CallerUpdate
        <5>2. ~Holds(u, r)
          BY <1>9, <2>1, <2>9, <4>1, CreatesAlone DEF Makes
        <5> QED BY <5>1, <5>2 DEF Holds, At, Named
      <4> QED BY <2>7, <4>1
    <3> QED BY <3>4, <3>5, <3>6 DEF OneTopic
  <2> QED BY <2>8, <2>9
<1>10. ~Fails(s) /\ ~Loses(s)
  BY <1>0, NotCalm DEF Fails, Loses, TroubleKinds
<1> QED BY <1>4, <1>5, <1>6, <1>7, <1>8, <1>9, <1>10, StartEffect

LEMMA PreparedStart ==
    ASSUME IInv, TopicInv, \A u \in Callers : Prepared(u),
           NEW s \in Callers, CallerStep(s) \/ Abort(s)
    PROVE  \A u \in Callers : Prepared(u)'
<1>0. MetaShape
  BY DEF TopicInv
<1>1. ASSUME NEW p, NEW x, NEW m, Goes(s, p, x, m),
             p = "create" => m.topic = None, p = "write" /\ ~Named(s) => x = None
      PROVE  \A u \in Callers : Prepared(u)'
  <2>1. /\ caller'[s].pc = p /\ caller'[s].row = x /\ caller'[s].md = m
        /\ \A u \in Callers : u # s => caller'[u] = caller[u]
    BY <1>0, <1>1, CallerUpdate
  <2>2. ASSUME NEW u \in Callers PROVE Prepared(u)'
    <3>1. CASE u = s
      BY <1>1, <2>1, <3>1 DEF Prepared, At, Named
    <3>2. CASE u # s
      BY <2>1, <3>2 DEF Prepared, At, Named
    <3> QED BY <3>1, <3>2
  <2> QED BY <2>2
<1>2. CASE Reads(s)
  <2>1. PICK x \in RowIds \cup {None} :
            /\ Goes(s, "write", x, IF x = None THEN FreshMetadata(Named(s)) ELSE rows[x].md)
            /\ x # None => Named(s) /\ rows[x].session = BoundId(s)
    BY <1>2 DEF Reads
  <2> QED BY <1>1, <2>1
<1>3. CASE Inserts(s)
  BY <1>1, <1>3 DEF Inserts
<1>4. CASE WritesBack(s)
  BY <1>1, <1>4 DEF WritesBack
<1>5. CASE Binds(s)
  BY <1>1, <1>5 DEF Binds
<1>6. CASE Looks(s)
  BY <1>1, <1>6 DEF Looks
<1>7. CASE Makes(s)
  BY <1>1, <1>7 DEF Makes
<1>8. CASE Fails(s)
  BY <1>1, <1>8 DEF Fails
<1>9. CASE Loses(s)
  BY <1>1, <1>9 DEF Loses
<1> QED BY <1>2, <1>3, <1>4, <1>5, <1>6, <1>7, <1>8, <1>9, StartEffect

(* No step takes back what went wrong. *)
LEMMA NextMounts ==
    ASSUME IInv, LinkInv, TopicInv, [Next]_vars
    PROVE  TroubleMounts
<1>0. MetaShape
  BY DEF TopicInv
<1>1. CASE StartNext
  <2>1. PICK s \in Callers : CallerStep(s) \/ Abort(s)
    BY <1>1 DEF StartNext
  <2> QED BY <2>1, IdsDiffer, StartGrows
<1>2. CASE DeliveryNext
  <2>1. ASSUME NEW c \in ConnIds, MakeTopic(c) \/ PostUser(c) \/ PostStep(c)
        PROVE  TroubleMounts
    <3>1. PICK f : f = conn[c].drain.f
      OBVIOUS
    <3> QED BY <2>1, <3>1, DrainEffect
  <2>2. ASSUME NEW c \in ConnIds,
               \/ Receive(c) \/ Ready(c) \/ Record(c) \/ MarkStarted(c) \/ Take(c)
               \/ Disconnect(c) \/ Closed(c) \/ Cancel(c)
        PROVE  TroubleMounts
    <3>1. UNCHANGED trouble \/ GoesWrong("stop")
      BY <2>2 DEF Receive, Ready, Record, MarkStarted, Take, Disconnect, Closed, Cancel, rowVars
    <3> QED BY <1>0, <3>1, Mounts DEF TroubleKinds
  <2>3. CASE Connect \/ \E k \in dedup : DedupExpires(k)
    <3>1. UNCHANGED trouble
      BY <2>3 DEF Connect, DedupExpires, rowVars
    <3> QED BY <1>0, <3>1, Mounts
  <2> QED BY <1>2, <2>1, <2>2, <2>3 DEF DeliveryNext, DrainStep
<1>3. CASE \E t \in TopicIds : TopicDeleted(t)
  BY <1>0, <1>3, Mounts DEF TopicDeleted, TroubleKinds
<1>4. CASE UNCHANGED vars
  BY <1>0, <1>4, Mounts DEF vars, rowVars
<1> QED BY <1>1, <1>2, <1>3, <1>4 DEF Next

(* A step of a connection keeps the copies of a row in agreement.            *)
LEMMA OneDelivery ==
    ASSUME IInv, LinkInv, TopicInv, UserInv, Calm, Calm', DeliveryNext, UNCHANGED startVars,
           NEW r \in RowIds', r \in RowIds => OneTopic(r) /\ ~Rushed(r)
    PROVE  OneTopic(r)'
<1>0. UNCHANGED caller /\ MetaShape
  BY DEF startVars, TopicInv
<1>1. ASSUME NEW c \in ConnIds, Receive(c) \/ Ready(c) PROVE OneTopic(r)'
  BY <1>1, OneArrival
<1>2. ASSUME UNCHANGED rows PROVE r \in RowIds /\ OneTopic(r) /\ ~Rushed(r)
  BY <1>2 DEF RowIds
<1>3. ASSUME NEW c \in ConnIds, MarkStarted(c) PROVE OneTopic(r)'
  <2>1. RowIds' = RowIds
    <3>1. PICK f : f = conn[c].rx.f
      OBVIOUS
    <3> QED BY <1>3, <3>1, MarkEffect
  <2> QED BY <1>3, <2>1, OneMark
<1>4. ASSUME NEW c \in ConnIds, MakeTopic(c) \/ PostUser(c) \/ PostStep(c) PROVE OneTopic(r)'
  <2>1. RowIds' = RowIds
    <3>1. PICK f : f = conn[c].drain.f
      OBVIOUS
    <3>2. f \in FrameIds /\ UNCHANGED frames
          /\ (Keeps(f) \/ Rewrites(f) \/ Clears(f) \/ Creates(f))
      BY <1>4, <3>1, DrainEffect, DrainFrame DEF MakeTopic, PostUser, PostStep, InDrain
    <3>3. CASE Keeps(f)
      BY <3>3 DEF Keeps, RowIds
    <3>4. CASE \E md \in MdSet : Save(f, md)
      BY <3>2, <3>4, SaveEffect
    <3> QED BY <3>2, <3>3, <3>4 DEF Rewrites, Clears, Creates
  <2> QED BY <1>4, <2>1, OneDrain
<1>5. ASSUME NEW c \in ConnIds, Quiet(c), UNCHANGED <<rows, topics, obj, frames>>
      PROVE  OneTopic(r)'
  <2>1. FrameIds' = FrameIds
    BY <1>5, SameFrames
  <2>2. \A f \in Active(r)' : f \in FrameIds
    BY <2>1 DEF Active
  <2>3. \A f \in Active(r)' : f \in Active(r)
    BY <1>5, <2>2, ActiveQuiet
  <2> QED BY <1>0, <1>2, <1>5, <2>3, OneStill
<1>6. ASSUME NEW c \in ConnIds, Record(c) \/ Disconnect(c) \/ Closed(c) \/ Cancel(c)
      PROVE  OneTopic(r)'
  <2>1. Quiet(c)
    BY <1>6, QuietRecord, QuietEnds
  <2>2. UNCHANGED <<rows, topics, obj, frames>>
    BY <1>6 DEF Record, Disconnect, Closed, Cancel, rowVars
  <2> QED BY <1>5, <2>1, <2>2
<1>7. ASSUME NEW c \in ConnIds, Take(c) PROVE OneTopic(r)'
  <2>1. UNCHANGED <<rows, topics, obj, frames>>
    BY <1>7 DEF Take, rowVars
  <2>2. PICK f : f = Head(conn[c].queue)
    OBVIOUS
  <2>3. CASE f = Stop
    BY <1>5, <1>7, <2>1, <2>2, <2>3, QuietStop
  <2>4. CASE f # Stop
    <3>1. /\ f \in FrameIds /\ frames[f].conn = c /\ fate[f] = "queued"
          /\ conn[c].drain.f = None /\ Begin(c, f, obj[f].topic, dedup, FALSE)
      BY <1>7, <2>2, <2>4, TakeFrame
    <3>2. PICK b \in BOOLEAN : b = FALSE
      OBVIOUS
    <3>3. PICK t : t = obj[f].topic
      OBVIOUS
    <3>4. PICK seen : seen = dedup
      OBVIOUS
    <3>5. Begin(c, f, t, seen, b) /\ conn[c].drain.f \in {f, None}
      BY <3>1, <3>2, <3>3, <3>4
    <3>6. Works(c, f)
      BY <2>1, <3>1, <3>5, BeginWorks
    <3>7. \A g \in Active(r)' : g \in Active(r)
      BY <3>6, ActiveWorks
    <3> QED BY <1>0, <1>2, <2>1, <3>7, OneStill
  <2> QED BY <2>3, <2>4
<1>8. CASE Connect
  <2>1. UNCHANGED <<rows, topics, obj, frames, fate>> /\ conn' = Append(conn, NewConn)
    BY <1>8 DEF Connect, rowVars
  <2>2. FrameIds' = FrameIds
    BY <2>1, SameFrames
  <2>3. PICK x : x = NewConn
    OBVIOUS
  <2>4. /\ ConnIds' = ConnIds \cup {Len(conn) + 1} /\ conn'[Len(conn) + 1] = x
        /\ \A d \in ConnIds : conn'[d] = conn[d]
    BY <2>1, <2>3 DEF LinkInv, LinkShape, ConnIds
  <2>5. x.rx.f = None
    BY <2>3 DEF NewConn
  <2>6. ASSUME NEW f \in Active(r)' PROVE f \in Active(r)
    <3>1. f \in FrameIds /\ f # None /\ frames[f].row = r
      BY <2>1, <2>2 DEF Active, FrameIds, None
    <3> QED BY <2>1, <2>4, <2>5, <3>1 DEF Active
  <2> QED BY <1>0, <1>2, <2>1, <2>6, OneStill
<1>9. CASE \E k \in dedup : DedupExpires(k)
  <2>1. UNCHANGED <<rows, topics, obj, frames, fate, conn>>
    BY <1>9 DEF DedupExpires, rowVars
  <2>2. Active(r)' = Active(r)
    BY <2>1, ActiveAside
  <2> QED BY <1>0, <1>2, <2>1, <2>2, OneStill
<1> QED BY <1>1, <1>3, <1>4, <1>6, <1>7, <1>8, <1>9 DEF DeliveryNext, DrainStep

LEMMA CalmInit == Init => CalmInv
<1> SUFFICES ASSUME Init PROVE CalmInv
  OBVIOUS
<1>1. rows = <<>> /\ rushed = {}
  BY DEF Init, RowsInit
<1>2. RowIds = {}
  BY <1>1 DEF RowIds
<1>3. \A s \in Callers : caller[s].pc = "find"
  BY DEF Init, StartInit
<1> QED BY <1>2, <1>3 DEF CalmInv, RushedNow, Prepared, At

LEMMA CalmNext ==
    ASSUME IInv, LinkInv, TopicInv, UserInv, CalmInv, [Next]_vars
    PROVE  CalmInv'
<1>0. MetaShape /\ TroubleMounts
  BY NextMounts DEF TopicInv
<1>1. CASE Next
  <2>1. rushed' = rushed \cup RushedNow' /\ RushedNow' \subseteq rushed'
    BY <1>1 DEF Next
  <2>2. \A s \in Callers : Prepared(s)'
    <3>1. CASE StartNext
      <4>1. PICK s \in Callers : CallerStep(s) \/ Abort(s)
        BY <3>1 DEF StartNext
      <4> QED BY <4>1, PreparedStart DEF CalmInv
    <3>2. CASE UNCHANGED startVars
      BY <3>2 DEF CalmInv, Prepared, At, Named, startVars
    <3> QED BY <1>1, <3>1, <3>2 DEF Next
  <2>3. ASSUME Calm', NEW r \in RowIds' \ rushed' PROVE OneTopic(r)'
    <3>1. Calm
      BY <1>0, <2>3, CalmBefore
    <3>2. r \in RowIds => OneTopic(r) /\ ~Rushed(r)
      BY <2>1, <2>3, <3>1 DEF CalmInv, RushedNow
    <3>3. CASE StartNext /\ UNCHANGED deliveryVars
      <4>1. PICK s \in Callers : CallerStep(s) \/ Abort(s)
        BY <3>3 DEF StartNext
      <4> QED BY <2>3, <3>2, <3>3, <4>1, OneStart DEF CalmInv
    <3>4. CASE DeliveryNext /\ UNCHANGED startVars
      BY <2>3, <3>1, <3>2, <3>4, OneDelivery
    <3>5. ~\E t \in TopicIds : TopicDeleted(t)
      BY <1>0, <2>3, NotCalm DEF TopicDeleted, TroubleKinds
    <3> QED BY <1>1, <3>3, <3>4, <3>5 DEF Next
  <2> QED BY <2>1, <2>2, <2>3 DEF CalmInv
<1>2. CASE UNCHANGED vars
  <2>1. /\ UNCHANGED <<rows, topics, trouble, caller, rushed, frames, obj, fate, conn>>
        /\ RowIds' = RowIds
    BY <1>2 DEF vars, rowVars, startVars, deliveryVars, RowIds
  <2>2. Calm' = Calm
    BY <2>1 DEF Calm, Total
  <2>3. \A r : Active(r)' = Active(r)
    BY <2>1, ActiveAside
  <2>4. \A s, r : Holds(s, r)' = Holds(s, r)
    BY <2>1, HoldsAside
  <2>5. RushedNow' = RushedNow
    BY <2>1, <2>3, <2>4 DEF RushedNow, Rushed
  <2>6. \A s \in Callers : Prepared(s)'
    BY <2>1 DEF CalmInv, Prepared, At, Named
  <2>7. ASSUME NEW r, OneTopic(r) PROVE OneTopic(r)'
    BY <2>1, <2>3, <2>4, <2>7 DEF OneTopic, TopicIds
  <2> QED BY <2>1, <2>2, <2>5, <2>6, <2>7 DEF CalmInv
<1> QED BY <1>1, <1>2

LEMMA SpecCalmInv == Spec => []CalmInv
<1>1. Init => CalmInv
  BY CalmInit
<1>2. IInv /\ LinkInv /\ TopicInv /\ UserInv /\ CalmInv /\ [Next]_vars => CalmInv'
  BY CalmNext
<1> QED BY <1>1, <1>2, SpecIInv, SpecLinkInv, SpecTopicInv, SpecUserInv, PTL DEF Spec

LEMMA OneTopicCounts ==
    ASSUME CalmInv
    PROVE  OneTopicPerThread
<1> SUFFICES ASSUME Calm, NEW r \in RowIds \ rushed
             PROVE  Cardinality({t \in TopicIds : topics[t].row = r}) <= 1
  BY DEF OneTopicPerThread
<1>1. PICK S : S = {t \in TopicIds : topics[t].row = r}
  OBVIOUS
<1>2. S \in SUBSET {rows[r].md.topic}
  BY <1>1 DEF CalmInv, OneTopic
<1>3. IsFiniteSet({rows[r].md.topic}) /\ Cardinality({rows[r].md.topic}) = 1
  BY FS_Singleton
<1>4. Cardinality(S) <= Cardinality({rows[r].md.topic})
  BY <1>2, <1>3, FS_Subset
<1> QED BY <1>1, <1>3, <1>4

(* A session has one topic, whoever needs it first, as long as nothing went  *)
(* wrong and no two copies of its row were held at once: whoever creates a   *)
(* topic, _ensure_session_topic or deliver_turn, knows that its row had      *)
(* none, and saves the new one before the row is read again.                 *)
THEOREM SpecOneTopicPerThread == Spec => []OneTopicPerThread
<1>1. CalmInv => OneTopicPerThread
  BY OneTopicCounts
<1> QED BY <1>1, SpecCalmInv, PTL

-----------------------------------------------------------------------------
(* The digest.  What the copies of a row's metadata say of it: the message   *)
(* is in one of the row's topics, and it and the text show frames of the row *)
(* that were posted.                                                         *)
Shows(text, r) == \A i \in 1 .. Len(text) : text[i] \in Posted /\ frames[text[i]].row = r

MessageOf(m, r) == m \in MsgIds /\ topics[msgs[m].topic].row = r

DigestOk(md, r) == Shows(md.text, r) /\ (md.msg # None => MessageOf(md.msg, r))

CallerDigest(s) ==
    IF caller[s].row = None THEN Blank(caller[s].md)
                            ELSE DigestOk(caller[s].md, caller[s].row)

TextInv ==
    /\ \A m \in MsgIds : /\ msgs[m].topic \in TopicIds
                         /\ Shows(msgs[m].text, topics[msgs[m].topic].row)
    /\ \A r \in RowIds : DigestOk(rows[r].md, r)
    /\ \A f \in FrameIds : DigestOk(obj[f], frames[f].row)
    /\ \A s \in Callers : CallerDigest(s)

(* Messages, topics and frames stay what they are, and a frame that was      *)
(* posted stays so.                                                          *)
DigestGrows ==
    /\ Posted \subseteq Posted' /\ \A f \in Posted : frames'[f] = frames[f]
    /\ MsgIds \subseteq MsgIds' /\ \A m \in MsgIds : msgs'[m].topic = msgs[m].topic
    /\ TopicIds \subseteq TopicIds' /\ \A t \in TopicIds : topics'[t].row = topics[t].row

(* A digest that is right in the next state: an old one, or a new one.       *)
Comes(md, r) == Blank(md) \/ \E old : DigestOk(old, r) /\ SameDigest(md, old)

ShowsNext(text, r) ==
    \A i \in 1 .. Len(text) : text[i] \in Posted' /\ frames'[text[i]].row = r

DigestNext(md, r) ==
    /\ ShowsNext(md.text, r)
    /\ md.msg # None => md.msg \in MsgIds' /\ topics'[msgs'[md.msg].topic].row = r

(* The drainer's work on frame f, as far as it is shown: nothing is, a new   *)
(* message shows the digest with it, or the digest's message does.           *)
Old(f) == IF Starts(f) THEN NoDigest(obj[f]) ELSE obj[f]

Hides(c, f) ==
    /\ msgs' = msgs /\ fate'[f] # "posted"
    /\ \/ UNCHANGED <<rows, obj>>
       \/ \E md \in MdSet :
              /\ Save(f, md)
              /\ \/ SameDigest(md, obj[f])
                 \/ Blank(md) /\ InDrain(c, "post") /\ (Calm' => ~Live(obj[f].topic))
Sends(f) ==
    /\ fate'[f] = "posted" /\ topics' = topics /\ Live(obj[f].topic)
    /\ msgs' = Append(msgs, Message(obj[f].topic, Append(Old(f).text, f)))
    /\ \E md \in MdSet :
           /\ Save(f, md)
           /\ IF frames[f].kind = "user" THEN Blank(md)
              ELSE md.msg = Len(msgs) + 1 /\ md.text = Append(Old(f).text, f)
    /\ Calm' => Old(f).msg = None \/ ~Live(msgs[Old(f).msg].topic)
Edits(f) ==
    /\ fate'[f] = "posted" /\ topics' = topics /\ ~Starts(f) /\ obj[f].msg # None
    /\ msgs' = [msgs EXCEPT ![obj[f].msg].text = Append(obj[f].text, f)]
    /\ \E md \in MdSet :
           Save(f, md) /\ md.msg = obj[f].msg /\ md.text = Append(obj[f].text, f)

LEMMA ShowsKept ==
    ASSUME DigestGrows, NEW text, NEW r, Shows(text, r)
    PROVE  ShowsNext(text, r)
BY DEF DigestGrows, Shows, ShowsNext

LEMMA DigestKept ==
    ASSUME TextInv, DigestGrows, NEW md, NEW r, Comes(md, r)
    PROVE  DigestNext(md, r)
<1>1. CASE Blank(md)
  <2>1. Len(md.text) = 0
    BY <1>1 DEF Blank
  <2> QED BY <1>1, <2>1 DEF Blank, DigestNext, ShowsNext
<1>2. ASSUME NEW old, DigestOk(old, r), SameDigest(md, old) PROVE DigestNext(md, r)
  <2>1. PICK text, m : text = md.text /\ m = md.msg
    OBVIOUS
  <2>2. Shows(text, r) /\ (m # None => MessageOf(m, r))
    BY <1>2, <2>1 DEF DigestOk, SameDigest
  <2>3. ShowsNext(text, r)
    BY <2>2, ShowsKept
  <2>4. ASSUME m # None PROVE m \in MsgIds' /\ topics'[msgs'[m].topic].row = r
    <3>1. m \in MsgIds /\ msgs[m].topic \in TopicIds /\ topics[msgs[m].topic].row = r
      BY <2>2, <2>4 DEF MessageOf, TextInv
    <3> QED BY <3>1 DEF DigestGrows
  <2> QED BY <2>1, <2>3, <2>4 DEF DigestNext
<1> QED BY <1>1, <1>2 DEF Comes

(* What the rows, the frames and the requests know is such a digest.         *)
LEMMA Known ==
    ASSUME TextInv
    PROVE  /\ \A r \in RowIds : Comes(rows[r].md, r)
           /\ \A f \in FrameIds : Comes(obj[f], frames[f].row)
           /\ \A s \in Callers : IF caller[s].row = None THEN Blank(caller[s].md)
                                 ELSE Comes(caller[s].md, caller[s].row)
<1>1. \A md, r : DigestOk(md, r) => Comes(md, r)
  BY DEF Comes, SameDigest
<1> QED BY <1>1 DEF TextInv, CallerDigest

LEMMA ComesSame ==
    ASSUME NEW md, NEW old, NEW r, SameDigest(md, old), Comes(old, r)
    PROVE  Comes(md, r)
BY DEF Comes, SameDigest, Blank

(* A step that changes some messages and some copies of the metadata. *)
LEMMA TextKeep ==
    ASSUME TextInv, DigestGrows,
           \A m \in MsgIds' : \/ m \in MsgIds /\ msgs'[m].text = msgs[m].text
                              \/ /\ msgs'[m].topic \in TopicIds'
                                 /\ ShowsNext(msgs'[m].text, topics'[msgs'[m].topic].row),
           \A r \in RowIds' : Comes(rows'[r].md, r) \/ DigestNext(rows'[r].md, r),
           \A f \in FrameIds' : \/ Comes(obj'[f], frames'[f].row)
                                \/ DigestNext(obj'[f], frames'[f].row),
           \A s \in Callers : IF caller'[s].row = None THEN Blank(caller'[s].md)
                              ELSE Comes(caller'[s].md, caller'[s].row)
    PROVE  TextInv'
<1>1. ASSUME NEW m \in MsgIds'
      PROVE  msgs'[m].topic \in TopicIds' /\ Shows(msgs[m].text, topics[msgs[m].topic].row)'
  <2>1. CASE m \in MsgIds /\ msgs'[m].text = msgs[m].text
    <3>1. /\ msgs[m].topic \in TopicIds /\ msgs'[m].topic = msgs[m].topic
          /\ msgs[m].topic \in TopicIds'
          /\ topics'[msgs[m].topic].row = topics[msgs[m].topic].row
      BY <2>1 DEF TextInv, DigestGrows
    <3>2. PICK text, r : text = msgs[m].text /\ r = topics[msgs[m].topic].row
      OBVIOUS
    <3>3. Shows(text, r)
      BY <2>1, <3>2 DEF TextInv
    <3>4. ShowsNext(text, r)
      BY <3>3, ShowsKept
    <3>5. msgs'[m].text = text /\ topics'[msgs'[m].topic].row = r
      BY <2>1, <3>1, <3>2
    <3> QED BY <3>1, <3>4, <3>5 DEF Shows, ShowsNext
  <2> QED BY <1>1, <2>1 DEF Shows, ShowsNext
<1>2. ASSUME NEW r \in RowIds' PROVE DigestOk(rows[r].md, r)'
  <2>1. PICK md : md = rows'[r].md
    OBVIOUS
  <2>2. DigestNext(md, r)
    BY <1>2, <2>1, DigestKept
  <2> QED BY <2>1, <2>2 DEF DigestNext, ShowsNext, DigestOk, Shows, MessageOf
<1>3. ASSUME NEW f \in FrameIds' PROVE DigestOk(obj[f], frames[f].row)'
  <2>1. PICK md, r : md = obj'[f] /\ r = frames'[f].row
    OBVIOUS
  <2>2. DigestNext(md, r)
    BY <1>3, <2>1, DigestKept
  <2> QED BY <2>1, <2>2 DEF DigestNext, ShowsNext, DigestOk, Shows, MessageOf
<1>4. ASSUME NEW s \in Callers PROVE CallerDigest(s)'
  <2>1. CASE caller'[s].row = None
    BY <1>4, <2>1 DEF CallerDigest, Blank
  <2>2. CASE caller'[s].row # None
    <3>1. PICK md, r : md = caller'[s].md /\ r = caller'[s].row
      OBVIOUS
    <3>2. DigestNext(md, r)
      BY <1>4, <2>2, <3>1, DigestKept
    <3> QED BY <2>2, <3>1, <3>2 DEF DigestNext, ShowsNext, CallerDigest, DigestOk, Shows, MessageOf
  <2> QED BY <2>1, <2>2
<1> QED BY <1>1, <1>2, <1>3, <1>4 DEF TextInv

LEMMA QuietPosted ==
    ASSUME LinkInv, NEW c \in ConnIds, Quiet(c)
    PROVE  Posted' = Posted /\ \A f \in Posted : frames'[f] = frames[f]
<1>1. ASSUME NEW f \in Posted' PROVE f \in Posted
  <2>1. f \in FrameIds
    BY DEF Posted, Quiet
  <2>2. fate[f] = "posted"
    BY <2>1 DEF Quiet, FateGoesOn, Posted
  <2> QED BY <2>1, <2>2 DEF Posted
<1>2. ASSUME NEW f \in Posted PROVE f \in Posted' /\ frames'[f] = frames[f]
  BY DEF Posted, Quiet, FateGoesOn, Others
<1> QED BY <1>1, <1>2

LEMMA WorksPosted ==
    ASSUME LinkInv, NEW c \in ConnIds, NEW f, Works(c, f)
    PROVE  /\ Posted' = IF fate'[f] = "posted" THEN Posted \cup {f} ELSE Posted
           /\ f \notin Posted /\ FrameIds' = FrameIds /\ frames' = frames
<1>1. FrameIds' = FrameIds /\ frames' = frames /\ fate[f] = "queued" /\ f \in FrameIds
  BY SameFrames DEF Works
<1>2. \A g \in FrameIds : g # f => fate'[g] = fate[g]
  BY DEF Works
<1> QED BY <1>1, <1>2 DEF Posted

(* Neither messages nor frames change, and no topic goes. *)
LEMMA GrowsAside ==
    ASSUME UNCHANGED <<msgs, frames, fate>>, MetaShape, TopicsGrow, MetaShape'
    PROVE  DigestGrows /\ Posted' = Posted /\ MsgIds' = MsgIds /\ FrameIds' = FrameIds
<1>1. Posted' = Posted /\ MsgIds' = MsgIds /\ FrameIds' = FrameIds
  BY DEF Posted, MsgIds, FrameIds
<1>2. TopicIds \subseteq TopicIds' /\ \A t \in TopicIds : topics'[t].row = topics[t].row
  <2>1. Len(topics) \in Nat /\ Len(topics') \in Nat
    BY DEF MetaShape
  <2> QED BY <2>1 DEF TopicsGrow, TopicIds
<1> QED BY <1>1, <1>2 DEF DigestGrows

(* A request goes on with a digest that is right. *)
LEMMA TextGoes ==
    ASSUME TextInv, DigestGrows, MetaShape, UNCHANGED <<msgs, frames, obj>>,
           NEW s \in Callers, NEW p, NEW x, NEW m, Goes(s, p, x, m),
           IF x = None THEN Blank(m) ELSE Comes(m, x),
           \A r \in RowIds' : Comes(rows'[r].md, r)
    PROVE  TextInv'
<1>1. MsgIds' = MsgIds /\ FrameIds' = FrameIds
  BY DEF MsgIds, FrameIds
<1>2. /\ caller'[s].row = x /\ caller'[s].md = m
      /\ \A u \in Callers : u # s => caller'[u] = caller[u]
  BY CallerUpdate
<1>3. \A u \in Callers : IF caller'[u].row = None THEN Blank(caller'[u].md)
                         ELSE Comes(caller'[u].md, caller'[u].row)
  <2> SUFFICES ASSUME NEW u \in Callers
               PROVE  IF caller'[u].row = None THEN Blank(caller'[u].md)
                      ELSE Comes(caller'[u].md, caller'[u].row)
    OBVIOUS
  <2>1. CASE u = s
    BY <1>2, <2>1
  <2>2. CASE u # s
    BY <1>2, <2>2, Known
  <2> QED BY <2>1, <2>2
<1>4. \A f \in FrameIds' : Comes(obj'[f], frames'[f].row)
  BY <1>1, Known
<1>5. \A n \in MsgIds' : n \in MsgIds /\ msgs'[n].text = msgs[n].text
  BY <1>1
<1> QED BY <1>3, <1>4, <1>5, TextKeep

LEMMA TextStart ==
    ASSUME IInv, TopicInv, TopicInv', TextInv, NEW s \in Callers, CallerStep(s) \/ Abort(s),
           UNCHANGED deliveryVars
    PROVE  TextInv'
<1>0. /\ MetaShape /\ MetaShape' /\ UNCHANGED <<msgs, frames, obj, fate>>
      /\ rows \in Seq(Row(MdSet)) /\ CallerTopic(s) /\ Named(s) \in BOOLEAN
      /\ caller[s] \in CallerSet /\ RowIds = 1 .. Len(rows) /\ Len(rows) \in Nat
  BY Lengths DEF TopicInv, MetaShape, deliveryVars, Named
<1>1. DigestGrows
  <2>1. TopicsGrow
    BY IdsDiffer, StartGrows
  <2> QED BY <1>0, <2>1, GrowsAside
<1>2. PICK x, m, w : x = caller[s].row /\ m = caller[s].md /\ w = FreshMetadata(Named(s))
  OBVIOUS
<1>3. Blank(w) /\ \A r : Comes(w, r)
  BY <1>0, <1>2, FreshFields DEF Blank, Comes
<1>4. /\ m \in MdSet /\ x \in Nat
      /\ IF x = None THEN Blank(m) ELSE Comes(m, x)
  BY <1>0, <1>2, Known DEF CallerSet
<1>5. ASSUME rows' = rows PROVE \A r \in RowIds' : Comes(rows'[r].md, r)
  BY <1>5, Known DEF RowIds
<1>6. ASSUME NEW p, NEW md, Goes(s, p, x, md), md = m \/ md = w,
             \A r \in RowIds' : Comes(rows'[r].md, r)
      PROVE  TextInv'
  BY <1>0, <1>1, <1>3, <1>4, <1>6, TextGoes
<1>7. CASE Reads(s)
  <2>1. PICK q \in RowIds \cup {None} :
            Goes(s, "write", q, IF q = None THEN FreshMetadata(Named(s)) ELSE rows[q].md)
    BY <1>7 DEF Reads
  <2>2. PICK md : md = IF q = None THEN FreshMetadata(Named(s)) ELSE rows[q].md
    OBVIOUS
  <2>3. Goes(s, "write", q, md) /\ rows' = rows
    BY <1>7, <2>1, <2>2 DEF Reads, rowVars
  <2>4. IF q = None THEN Blank(md) ELSE Comes(md, q)
    BY <1>2, <1>3, <2>2, Known
  <2> QED BY <1>0, <1>1, <1>5, <2>3, <2>4, TextGoes
<1>8. CASE Inserts(s)
  <2>1. BoundId(s) \in Sessions \cup Callers
    BY IdsDiffer DEF BoundId, Named
  <2>2. /\ RowIds' = RowIds \cup {Len(rows) + 1}
        /\ \A q \in RowIds : rows'[q] = rows[q]
        /\ rows'[Len(rows) + 1].md = w
    <3>1. rows' = Append(rows, NewRow(BoundId(s), "blank", Named(s)))
      BY <1>8 DEF Inserts
    <3> QED BY <1>0, <1>2, <2>1, <3>1, NewRows
  <2>3. PICK y : y = Len(rows) + 1
    OBVIOUS
  <2>4. Goes(s, "bind", y, w) /\ Comes(w, y)
    BY <1>2, <1>3, <1>8, <2>3 DEF Inserts
  <2>5. \A r \in RowIds' : Comes(rows'[r].md, r)
    BY <1>3, <2>2, Known
  <2> QED BY <1>0, <1>1, <1>3, <2>4, <2>5, TextGoes
<1>9. CASE WritesBack(s)
  <2>1. x \in RowIds /\ x # None
    BY <1>0, <1>2, <1>9 DEF WritesBack, CallerTopic
  <2>2. rows' = Saved(x, m) /\ Goes(s, "bind", x, w)
    BY <1>2, <1>9 DEF WritesBack
  <2>3. RowIds' = RowIds /\ \A q \in RowIds : rows'[q].md = IF q = x THEN m ELSE rows[q].md
    BY <1>0, <1>4, <2>1, <2>2, SavedRows
  <2>4. \A r \in RowIds' : Comes(rows'[r].md, r)
    BY <1>4, <2>1, <2>3, Known
  <2> QED BY <1>6, <2>2, <2>4
<1>10. CASE Binds(s)
  BY <1>2, <1>5, <1>6, <1>10 DEF Binds, rowVars
<1>11. CASE Looks(s)
  <2>1. rows' = rows
    BY <1>11 DEF Looks, rowVars
  <2>2. CASE Goes(s, "done", caller[s].row, caller[s].md)
    BY <1>2, <1>5, <1>6, <2>1, <2>2
  <2>3. CASE Goes(s, "create", caller[s].row, ReadAgain(s))
    <3>1. PICK md : md = ReadAgain(s)
      OBVIOUS
    <3>2. x \in RowIds
      BY <1>0, <1>2, <1>11 DEF Looks, CallerTopic, At
    <3>3. Goes(s, "create", x, md) /\ x # None
      BY <1>2, <2>3, <3>1, <3>2 DEF RowIds, None
    <3>4. Comes(md, x)
      BY <1>0, <1>2, <1>4, <3>1, <3>2, <3>3, Known DEF ReadAgain
    <3> QED BY <1>0, <1>1, <1>5, <2>1, <3>3, <3>4, TextGoes
  <2> QED BY <1>11, <2>2, <2>3 DEF Looks
<1>12. CASE Makes(s)
  <2>1. PICK md : md = [m EXCEPT !.topic = NewTopicId]
    OBVIOUS
  <2>2. x \in RowIds /\ x # None
    BY <1>0, <1>2, <1>12 DEF Makes, CallerTopic, At, RowIds, None
  <2>3. md \in MdSet /\ SameDigest(md, m)
    <3>1. NewTopicId \in Nat
      BY <1>0, Lengths DEF NewTopicId
    <3> QED BY <1>4, <2>1, <3>1 DEF MdSet, SameDigest
  <2>4. rows' = Saved(x, md) /\ Goes(s, "done", x, w)
    BY <1>2, <1>12, <2>1 DEF Makes
  <2>5. RowIds' = RowIds /\ \A q \in RowIds : rows'[q].md = IF q = x THEN md ELSE rows[q].md
    BY <1>0, <2>2, <2>3, <2>4, SavedRows
  <2>6. Comes(md, x)
    BY <1>4, <2>2, <2>3, ComesSame
  <2>7. \A r \in RowIds' : Comes(rows'[r].md, r)
    BY <2>5, <2>6, Known
  <2> QED BY <1>6, <2>4, <2>7
<1>13. CASE Fails(s)
  BY <1>2, <1>5, <1>6, <1>13 DEF Fails
<1>14. CASE Loses(s)
  BY <1>2, <1>5, <1>6, <1>14 DEF Loses
<1> QED BY <1>7, <1>8, <1>9, <1>10, <1>11, <1>12, <1>13, <1>14, StartEffect

(* The digest of a copy that is changed. *)
LEMMA DigestFields ==
    ASSUME NEW md \in MdSet, NEW t \in Nat, NEW m \in Nat, NEW x \in Seq(Nat)
    PROVE  /\ NoDigest(md) \in MdSet /\ Blank(NoDigest(md)) /\ NoDigest(md).topic = md.topic
           /\ SameDigest([md EXCEPT !.topic = t], md) /\ [md EXCEPT !.topic = t] \in MdSet
           /\ [md EXCEPT !.text = x].msg = md.msg /\ [md EXCEPT !.text = x].text = x
           /\ [md EXCEPT !.msg = m, !.text = x].msg = m
           /\ [md EXCEPT !.msg = m, !.text = x].text = x
BY EmptySeq DEF MdSet, NoDigest, Blank, SameDigest, None

(* What the drainer is done with was posted, or not. *)
LEMMA FinishFate ==
    ASSUME LinkInv, NEW c, NEW f \in FrameIds, NEW how, Finish(c, f, how)
    PROVE  fate'[f] = how
BY DEF Finish, LinkInv, LinkShape, FrameIds

LEMMA DrainDigest ==
    ASSUME LinkInv, TopicInv, NEW c \in ConnIds, NEW f, f = conn[c].drain.f,
           MakeTopic(c) \/ PostUser(c) \/ PostStep(c)
    PROVE  Hides(c, f) \/ Sends(f) \/ Edits(f)
<1>0. conn[c].drain.at \in {"create", "post"}
  BY DEF MakeTopic, PostUser, PostStep, InDrain
<1>1. f \in FrameIds /\ FrameIds = 1 .. Len(frames) /\ f \in Nat /\ fate[f] = "queued"
      /\ frames[f].conn = c /\ frames[f].reset \in BOOLEAN
  <2>1. f \in FrameIds /\ FrameIds = 1 .. Len(frames) /\ f \in Nat /\ fate[f] = "queued"
        /\ frames[f].conn = c
    BY <1>0, DrainFrame, ConnParts
  <2>2. frames[f] \in FrameSet
    BY <2>1 DEF LinkInv, LinkShape
  <2> QED BY <2>1, <2>2 DEF FrameSet
<1>2. obj[f] \in MdSet /\ MetaShape /\ Len(topics) \in Nat /\ Len(msgs) \in Nat
  BY <1>1 DEF TopicInv, MetaShape
<1>3. obj[f].topic \in Nat /\ obj[f].text \in Seq(Nat) /\ obj[f].msg \in Nat
  BY <1>2 DEF MdSet
<1>4. /\ NoDigest(obj[f]) \in MdSet /\ Blank(NoDigest(obj[f]))
      /\ NoDigest(obj[f]).topic = obj[f].topic
  BY <1>2, <1>3, DigestFields
<1>5. ASSUME GoesWrong("api") PROVE ~Calm'
  BY <1>2, <1>5, NotCalm DEF TroubleKinds
<1>6. CASE MakeTopic(c)
  <2>1. PICK created \in BOOLEAN, introduced \in BOOLEAN :
            /\ IF created THEN Save(f, [obj[f] EXCEPT !.topic = NewTopicId])
               ELSE UNCHANGED <<rows, obj>>
            /\ IF introduced THEN UNCHANGED fate ELSE Finish(c, f, "failed")
    BY <1>6 DEF MakeTopic
  <2>2. msgs' = msgs
    BY <1>6 DEF MakeTopic
  <2>3. fate'[f] # "posted"
    BY <1>1, <2>1, FinishFate
  <2>4. PICK md : md = [obj[f] EXCEPT !.topic = NewTopicId]
    OBVIOUS
  <2>5. md \in MdSet /\ SameDigest(md, obj[f])
    <3>1. PICK t \in Nat : t = NewTopicId
      BY <1>2 DEF NewTopicId
    <3> QED BY <1>2, <1>3, <2>4, <3>1, DigestFields
  <2> QED BY <2>1, <2>2, <2>3, <2>4, <2>5 DEF Hides
<1>7. CASE PostUser(c)
  <2>0. PICK md : md = NoDigest(obj[f])
    OBVIOUS
  <2>1. /\ md \in MdSet /\ Blank(md) /\ md.topic = obj[f].topic /\ InDrain(c, "post")
        /\ frames[f].kind = "user" /\ topics' = topics /\ Starts(f) /\ Old(f) = md
    BY <1>4, <1>7, <2>0 DEF PostUser, Starts, Old
  <2>2. CASE /\ Live(md.topic) /\ Save(f, md)
             /\ msgs' = Append(msgs, Message(md.topic, <<f>>)) /\ Finish(c, f, "posted")
    <3>1. fate'[f] = "posted"
      BY <1>1, <2>2, FinishFate
    <3>2. Append(Old(f).text, f) = <<f>>
      <4>1. Append(<<>>, f) = <<f>>
        BY <1>1
      <4>2. Old(f).text = <<>>
        BY <2>1 DEF Blank
      <4> QED BY <4>1, <4>2
    <3>3. Calm' => Old(f).msg = None
      BY <2>1 DEF Blank
    <3> QED BY <2>1, <2>2, <3>1, <3>2, <3>3 DEF Sends
  <2>3. CASE /\ GoesWrong("api") \/ ~Live(md.topic)
             /\ Save(f, md) /\ Finish(c, f, "failed") /\ UNCHANGED msgs
    <3>1. fate'[f] = "failed"
      BY <1>1, <2>3, FinishFate
    <3> QED BY <1>5, <2>1, <2>3, <3>1 DEF Hides
  <2>4. CASE /\ ~Live(md.topic) /\ Save(f, [md EXCEPT !.topic = None])
             /\ Begin(c, f, None, Forget(f), TRUE) /\ UNCHANGED msgs
    <3>1. fate'[f] # "posted"
      <4>1. PICK b \in BOOLEAN : b = TRUE
        OBVIOUS
      <4>2. PICK seen : seen = Forget(f)
        OBVIOUS
      <4>3. Begin(c, f, None, seen, b) /\ conn[c].drain.f \in {f, None} /\ UNCHANGED frames
        BY <1>1, <1>7, <2>4, <4>1, <4>2 DEF PostUser
      <4>4. fate'[f] \in {"skipped", "queued"}
        BY <1>1, <4>3, BeginWorks
      <4> QED BY <4>4
    <3>2. PICK new : new = [md EXCEPT !.topic = None]
      OBVIOUS
    <3>3. new \in MdSet /\ Blank(new)
      <4>1. PICK t \in Nat : t = None
        BY DEF None
      <4>2. new \in MdSet /\ SameDigest(new, md)
        BY <1>3, <2>1, <3>2, <4>1, DigestFields
      <4> QED BY <2>1, <4>2 DEF SameDigest, Blank
    <3> QED BY <2>1, <2>4, <3>1, <3>2, <3>3 DEF Hides
  <2> QED BY <1>1, <1>7, <2>0, <2>2, <2>3, <2>4 DEF PostUser
<1>8. CASE PostStep(c)
  <2>0. PICK md, text : md = Digest(f) /\ text = Append(md.text, f)
    OBVIOUS
  <2>1. /\ frames[f].kind # "user" /\ topics' = topics /\ InDrain(c, "post")
        /\ Starts(f) <=> frames[f].reset
    BY <1>1, <1>8 DEF PostStep, Starts
  <2>2. /\ md = Old(f) /\ md \in MdSet /\ md.topic = obj[f].topic
        /\ Starts(f) => Blank(md)
        /\ ~Starts(f) => md = obj[f]
    BY <1>2, <1>4, <2>0, <2>1 DEF Digest, Old
  <2>3. text \in Seq(Nat) /\ md.msg \in Nat
    BY <1>1, <2>0, <2>2, AppendProperties DEF MdSet
  <2>4. PICK there \in BOOLEAN : there = (md.msg # None /\ Live(msgs[md.msg].topic))
    OBVIOUS
  <2>5. PICK edited \in BOOLEAN, sent \in BOOLEAN :
            /\ edited => there
            /\ sent => ~edited /\ Live(md.topic)
            /\ ApiCall((there => edited) /\ (edited \/ (Live(md.topic) => sent)))
            /\ IF edited
               THEN /\ msgs' = [msgs EXCEPT ![md.msg].text = text]
                    /\ Save(f, [md EXCEPT !.text = text])
               ELSE IF sent
               THEN /\ msgs' = Append(msgs, Message(md.topic, text))
                    /\ Save(f, [md EXCEPT !.msg = Len(msgs) + 1, !.text = text])
               ELSE /\ UNCHANGED msgs
                    /\ IF frames[f].reset THEN Save(f, md) ELSE UNCHANGED <<obj, rows>>
            /\ Finish(c, f, IF edited \/ sent THEN "posted" ELSE "failed")
    BY <1>8, <2>0, <2>4 DEF PostStep
  <2>6. fate'[f] = IF edited \/ sent THEN "posted" ELSE "failed"
    BY <1>1, <2>5, FinishFate
  <2>7. Calm' => (there => edited) /\ (edited \/ (Live(md.topic) => sent))
    BY <1>5, <2>5 DEF ApiCall
  <2>8. CASE edited
    <3>1. ~Starts(f) /\ md.msg # None /\ md = obj[f]
      BY <2>2, <2>4, <2>5, <2>8 DEF Blank
    <3>2. PICK new : new = [md EXCEPT !.text = text]
      OBVIOUS
    <3>3. new \in MdSet /\ new.msg = md.msg /\ new.text = text
      BY <2>2, <2>3, <3>2 DEF MdSet
    <3> QED BY <2>0, <2>1, <2>5, <2>6, <2>8, <3>1, <3>2, <3>3 DEF Edits
  <2>9. CASE ~edited /\ sent
    <3>1. PICK n \in Nat : n = Len(msgs) + 1
      BY <1>2
    <3>2. PICK new : new = [md EXCEPT !.msg = n, !.text = text]
      OBVIOUS
    <3>3. new \in MdSet /\ new.msg = n /\ new.text = text
      BY <2>2, <2>3, <3>1, <3>2 DEF MdSet
    <3>4. Calm' => md.msg = None \/ ~Live(msgs[md.msg].topic)
      BY <2>4, <2>7, <2>9
    <3>5. /\ fate'[f] = "posted" /\ Live(obj[f].topic) /\ Save(f, new)
          /\ msgs' = Append(msgs, Message(obj[f].topic, Append(Old(f).text, f)))
      BY <2>0, <2>2, <2>5, <2>6, <2>9, <3>1, <3>2
    <3> QED BY <2>0, <2>1, <2>2, <3>1, <3>3, <3>4, <3>5 DEF Sends
  <2>10. CASE ~edited /\ ~sent
    <3>1. msgs' = msgs /\ fate'[f] # "posted"
      BY <2>5, <2>6, <2>10
    <3>2. CASE frames[f].reset
      <4>1. Save(f, md) /\ Blank(md) /\ (Calm' => ~Live(obj[f].topic))
        BY <2>1, <2>2, <2>5, <2>7, <2>10, <3>2
      <4> QED BY <2>1, <2>2, <3>1, <4>1 DEF Hides
    <3>3. CASE ~frames[f].reset
      BY <2>5, <2>10, <3>1, <3>3 DEF Hides
    <3> QED BY <3>2, <3>3
  <2> QED BY <2>8, <2>9, <2>10
<1> QED BY <1>6, <1>7, <1>8

(* A message of its own, or one with more in it. *)
LEMMA SendsMsgs ==
    ASSUME TopicInv, NEW f \in FrameIds, Sends(f), NEW n, n = Len(msgs) + 1
    PROVE  /\ n \in Nat /\ MsgIds' = MsgIds \cup {n} /\ n \notin MsgIds
           /\ \A m \in MsgIds : msgs'[m] = msgs[m] /\ m < n /\ m \in Nat
           /\ msgs'[n].topic = obj[f].topic /\ msgs'[n].text = Append(Old(f).text, f)
           /\ Old(f).text \in Seq(Nat) /\ f \in Nat
<1>1. obj[f] \in MdSet /\ msgs \in Seq(MsgSet) /\ Len(msgs) \in Nat /\ f \in Nat
  BY DEF TopicInv, MetaShape, FrameIds
<1>2. Old(f).text \in Seq(Nat)
  BY <1>1, EmptySeq DEF Old, NoDigest, MdSet
<1>3. PICK x : x = Message(obj[f].topic, Append(Old(f).text, f))
  OBVIOUS
<1>4. x \in MsgSet /\ x.topic = obj[f].topic /\ x.text = Append(Old(f).text, f)
  <2>1. PICK text \in Seq(Nat) : text = Append(Old(f).text, f)
    BY <1>1, <1>2, AppendProperties
  <2>2. obj[f].topic \in Nat
    BY <1>1 DEF MdSet
  <2> QED BY <1>3, <2>1, <2>2 DEF Message, MsgSet
<1>5. msgs' = Append(msgs, x)
  BY <1>3 DEF Sends
<1>6. /\ Len(msgs') = Len(msgs) + 1 /\ msgs'[Len(msgs) + 1] = x
      /\ \A m \in 1 .. Len(msgs) : msgs'[m] = msgs[m]
  BY <1>1, <1>4, <1>5, AppendProperties
<1> QED BY <1>1, <1>2, <1>4, <1>6 DEF MsgIds

LEMMA EditsMsgs ==
    ASSUME TopicInv, TextInv, NEW f \in FrameIds, Edits(f), NEW m, m = obj[f].msg
    PROVE  /\ m \in MsgIds /\ m \in Nat /\ MsgIds' = MsgIds /\ MessageOf(m, frames[f].row)
           /\ \A n \in MsgIds : msgs'[n].topic = msgs[n].topic
           /\ \A n \in MsgIds : n # m => msgs'[n].text = msgs[n].text
           /\ msgs'[m].text = Append(obj[f].text, f)
           /\ obj[f].text \in Seq(Nat) /\ f \in Nat
<1>1. obj[f] \in MdSet /\ msgs \in Seq(MsgSet) /\ Len(msgs) \in Nat /\ f \in Nat
  BY DEF TopicInv, MetaShape, FrameIds
<1>2. obj[f].text \in Seq(Nat)
  BY <1>1 DEF MdSet
<1>3. MessageOf(m, frames[f].row) /\ m \in MsgIds
  BY DEF TextInv, DigestOk, Edits, MessageOf
<1>4. PICK text \in Seq(Nat) : text = Append(obj[f].text, f)
  BY <1>1, <1>2, AppendProperties
<1>5. PICK x : x = [msgs[m] EXCEPT !.text = text]
  OBVIOUS
<1>6. msgs[m] \in MsgSet
  BY <1>1, <1>3 DEF MsgIds
<1>7. x \in MsgSet /\ x.topic = msgs[m].topic /\ x.text = text
  BY <1>5, <1>6 DEF MsgSet
<1>8. msgs' = [msgs EXCEPT ![m] = x]
  BY <1>4, <1>5 DEF Edits
<1>9. Len(msgs') = Len(msgs) /\ \A n \in 1 .. Len(msgs) : msgs'[n] = IF n = m THEN x ELSE msgs[n]
  BY <1>1, <1>3, <1>7, <1>8, ExceptSeq DEF MsgIds
<1> QED BY <1>1, <1>2, <1>3, <1>4, <1>7, <1>9, SMTT(30) DEF MsgIds

(* A text with one more frame. *)
LEMMA ShowsMore ==
    ASSUME NEW text \in Seq(Nat), NEW f \in Nat, NEW r, ShowsNext(text, r),
           f \in Posted', frames'[f].row = r
    PROVE  ShowsNext(Append(text, f), r)
<1>1. PICK x : x = Append(text, f)
  OBVIOUS
<1>2. /\ Len(x) = Len(text) + 1 /\ Len(text) \in Nat /\ x[Len(text) + 1] = f
      /\ \A i \in 1 .. Len(text) : x[i] = text[i]
  BY <1>1, AppendProperties
<1>3. ShowsNext(x, r)
  BY <1>2 DEF ShowsNext
<1> QED BY <1>1, <1>3

(* Frame f's copy and its row are saved with a digest that is right. *)
LEMMA TextSave ==
    ASSUME TopicInv, TextInv, NEW f \in FrameIds, NEW md \in MdSet, Save(f, md),
           UNCHANGED frames, Comes(md, frames[f].row) \/ DigestNext(md, frames[f].row)
    PROVE  /\ \A r \in RowIds' : Comes(rows'[r].md, r) \/ DigestNext(rows'[r].md, r)
           /\ \A g \in FrameIds' : \/ Comes(obj'[g], frames'[g].row)
                                   \/ DigestNext(obj'[g], frames'[g].row)
<1>1. /\ FrameIds' = FrameIds /\ RowIds' = RowIds
      /\ \A g \in FrameIds : obj'[g] = IF g = f THEN md ELSE obj[g]
      /\ \A q \in RowIds : rows'[q].md = IF q = frames[f].row THEN md ELSE rows[q].md
  BY SaveEffect
<1>2. ASSUME NEW r \in RowIds PROVE Comes(rows'[r].md, r) \/ DigestNext(rows'[r].md, r)
  <2>1. CASE r = frames[f].row
    BY <1>1, <2>1
  <2>2. CASE r # frames[f].row
    BY <1>1, <2>2, Known
  <2> QED BY <2>1, <2>2
<1>3. ASSUME NEW g \in FrameIds
      PROVE  Comes(obj'[g], frames'[g].row) \/ DigestNext(obj'[g], frames'[g].row)
  <2>1. CASE g = f
    BY <1>1, <2>1
  <2>2. CASE g # f
    BY <1>1, <2>2, Known
  <2> QED BY <2>1, <2>2
<1> QED BY <1>1, <1>2, <1>3

LEMMA TextDrain ==
    ASSUME LinkInv, TopicInv, UserInv, TopicInv', TextInv, NEW c \in ConnIds,
           MakeTopic(c) \/ PostUser(c) \/ PostStep(c), UNCHANGED caller
    PROVE  TextInv'
<1>1. PICK f : f = conn[c].drain.f
  OBVIOUS
<1>2. /\ f \in FrameIds /\ UNCHANGED frames /\ TopicsGrow /\ MetaShape /\ MetaShape'
      /\ Len(topics) \in Nat /\ Len(topics') \in Nat
  <2>1. f \in FrameIds /\ UNCHANGED frames /\ TopicsGrow /\ MetaShape'
    BY <1>1, DrainKeeps
  <2>2. MetaShape
    BY DEF TopicInv
  <2>3. Len(topics) \in Nat /\ Len(topics') \in Nat
    BY <2>1, <2>2 DEF MetaShape
  <2> QED BY <2>1, <2>2, <2>3
<1>3. /\ Posted' = IF fate'[f] = "posted" THEN Posted \cup {f} ELSE Posted
      /\ f \notin Posted /\ FrameIds' = FrameIds
  <2>1. Works(c, f)
    BY <1>1, DrainWorks
  <2> QED BY <2>1, WorksPosted
<1>4. TopicIds \subseteq TopicIds' /\ \A t \in TopicIds : topics'[t].row = topics[t].row
  BY <1>2 DEF TopicsGrow, TopicIds
<1>5. \A s \in Callers : IF caller'[s].row = None THEN Blank(caller'[s].md)
                         ELSE Comes(caller'[s].md, caller'[s].row)
  BY Known
<1>6. PICK r : r = frames[f].row
  OBVIOUS
<1>7. Comes(obj[f], r) /\ DigestOk(obj[f], r) /\ Names(obj[f], r) /\ obj[f] \in MdSet
  BY <1>2, <1>6, Known DEF TextInv, TopicInv, MetaShape, FrameIds
<1>8. CASE Hides(c, f)
  <2>1. MsgIds' = MsgIds /\ msgs' = msgs
    BY <1>8 DEF Hides, MsgIds
  <2>2. DigestGrows
    BY <1>2, <1>3, <1>4, <2>1 DEF DigestGrows
  <2>3. CASE UNCHANGED <<rows, obj>>
    <3>1. \A q \in RowIds' : Comes(rows'[q].md, q)
      BY <2>3, Known DEF RowIds
    <3>2. \A g \in FrameIds' : Comes(obj'[g], frames'[g].row)
      BY <1>2, <1>3, <2>3, Known
    <3> QED BY <1>5, <2>1, <2>2, <3>1, <3>2, TextKeep
  <2>4. ASSUME NEW md \in MdSet, Save(f, md), SameDigest(md, obj[f]) \/ Blank(md)
        PROVE  TextInv'
    <3>1. Comes(md, r)
      BY <1>7, <2>4, ComesSame DEF Comes
    <3>2. /\ \A q \in RowIds' : Comes(rows'[q].md, q) \/ DigestNext(rows'[q].md, q)
          /\ \A g \in FrameIds' : \/ Comes(obj'[g], frames'[g].row)
                                  \/ DigestNext(obj'[g], frames'[g].row)
      BY <1>2, <1>6, <2>4, <3>1, TextSave
    <3> QED BY <1>5, <2>1, <2>2, <3>2, TextKeep
  <2> QED BY <1>8, <2>3, <2>4 DEF Hides
<1>9. CASE Sends(f)
  <2>1. PICK n : n = Len(msgs) + 1
    OBVIOUS
  <2>2. /\ n \in Nat /\ MsgIds' = MsgIds \cup {n} /\ n \notin MsgIds
        /\ \A m \in MsgIds : msgs'[m] = msgs[m]
        /\ msgs'[n].topic = obj[f].topic /\ msgs'[n].text = Append(Old(f).text, f)
        /\ Old(f).text \in Seq(Nat) /\ f \in Nat
    BY <1>2, <1>9, <2>1, SendsMsgs
  <2>3. DigestGrows /\ f \in Posted' /\ n # None
    BY <1>2, <1>3, <1>4, <1>9, <2>1, <2>2 DEF DigestGrows, Sends, MsgIds, None, MetaShape, TopicInv
  <2>4. /\ obj[f].topic \in TopicIds' /\ topics'[obj[f].topic].row = r
        /\ topics'[msgs'[n].topic].row = r
    <3>1. obj[f].topic \in TopicIds /\ obj[f].topic # None
      BY <1>9 DEF Sends, Live, TopicIds, None
    <3> QED BY <1>4, <1>7, <2>2, <3>1 DEF Names
  <2>5. PICK text, old : text = Append(old, f) /\ old = Old(f).text
    OBVIOUS
  <2>6. ShowsNext(text, r)
    <3>1. Shows(old, r)
      <4>1. CASE Starts(f)
        <5>1. Len(old) = 0
          BY <2>5, <4>1 DEF Old, NoDigest
        <5> QED BY <5>1 DEF Shows
      <4>2. CASE ~Starts(f)
        BY <1>7, <2>5, <4>2 DEF Old, DigestOk
      <4> QED BY <4>1, <4>2
    <3>2. ShowsNext(old, r)
      BY <2>3, <3>1, ShowsKept
    <3> QED BY <1>2, <1>6, <2>2, <2>3, <2>5, <3>2, ShowsMore
  <2>7. PICK md \in MdSet :
            /\ Save(f, md)
            /\ IF frames[f].kind = "user" THEN Blank(md) ELSE md.msg = n /\ md.text = text
    BY <1>9, <2>1, <2>5 DEF Sends
  <2>8. Comes(md, r) \/ DigestNext(md, r)
    <3>1. CASE frames[f].kind = "user"
      BY <2>7, <3>1 DEF Comes
    <3>2. CASE frames[f].kind # "user"
      BY <2>2, <2>4, <2>6, <2>7, <3>2 DEF DigestNext
    <3> QED BY <3>1, <3>2
  <2>9. /\ \A q \in RowIds' : Comes(rows'[q].md, q) \/ DigestNext(rows'[q].md, q)
        /\ \A g \in FrameIds' : \/ Comes(obj'[g], frames'[g].row)
                                \/ DigestNext(obj'[g], frames'[g].row)
    BY <1>2, <1>6, <2>7, <2>8, TextSave
  <2>10. \A m \in MsgIds' : \/ m \in MsgIds /\ msgs'[m].text = msgs[m].text
                            \/ /\ msgs'[m].topic \in TopicIds'
                               /\ ShowsNext(msgs'[m].text, topics'[msgs'[m].topic].row)
    BY <2>2, <2>4, <2>5, <2>6
  <2> QED BY <1>5, <2>3, <2>9, <2>10, TextKeep
<1>10. CASE Edits(f)
  <2>1. PICK m : m = obj[f].msg
    OBVIOUS
  <2>2. /\ m \in MsgIds /\ MsgIds' = MsgIds /\ MessageOf(m, r)
        /\ \A n \in MsgIds : msgs'[n].topic = msgs[n].topic
        /\ \A n \in MsgIds : n # m => msgs'[n].text = msgs[n].text
        /\ msgs'[m].text = Append(obj[f].text, f)
        /\ obj[f].text \in Seq(Nat) /\ f \in Nat
    BY <1>2, <1>6, <1>10, <2>1, EditsMsgs, SMTT(30)
  <2>3. DigestGrows /\ f \in Posted'
    BY <1>2, <1>3, <1>4, <1>10, <2>2 DEF DigestGrows, Edits
  <2>4. msgs'[m].topic \in TopicIds' /\ topics'[msgs'[m].topic].row = r
    BY <1>4, <2>2 DEF MessageOf, TextInv
  <2>5. PICK text, old : text = Append(old, f) /\ old = obj[f].text
    OBVIOUS
  <2>6. ShowsNext(text, r)
    <3>1. Shows(old, r)
      BY <1>7, <2>5 DEF DigestOk
    <3>2. ShowsNext(old, r)
      BY <2>3, <3>1, ShowsKept
    <3> QED BY <1>2, <1>6, <2>2, <2>3, <2>5, <3>2, ShowsMore
  <2>7. PICK md \in MdSet : Save(f, md) /\ md.msg = m /\ md.text = text
    BY <1>10, <2>1, <2>5 DEF Edits
  <2>8. DigestNext(md, r)
    BY <2>2, <2>4, <2>6, <2>7 DEF DigestNext
  <2>9. /\ \A q \in RowIds' : Comes(rows'[q].md, q) \/ DigestNext(rows'[q].md, q)
        /\ \A g \in FrameIds' : \/ Comes(obj'[g], frames'[g].row)
                                \/ DigestNext(obj'[g], frames'[g].row)
    BY <1>2, <1>6, <2>7, <2>8, TextSave
  <2>10. \A n \in MsgIds' : \/ n \in MsgIds /\ msgs'[n].text = msgs[n].text
                            \/ /\ msgs'[n].topic \in TopicIds'
                               /\ ShowsNext(msgs'[n].text, topics'[msgs'[n].topic].row)
    BY <2>2, <2>4, <2>5, <2>6
  <2> QED BY <1>5, <2>3, <2>9, <2>10, TextKeep
<1> QED BY <1>1, <1>8, <1>9, <1>10, DrainDigest

(* The deliveries' other steps post nothing. *)
LEMMA PostedStays ==
    ASSUME LinkInv, NEW c \in ConnIds,
           \/ Receive(c) \/ Ready(c) \/ Record(c) \/ MarkStarted(c) \/ Take(c)
           \/ Disconnect(c) \/ Closed(c) \/ Cancel(c)
    PROVE  Posted' = Posted /\ \A f \in Posted : frames'[f] = frames[f]
<1>1. CASE ~Take(c)
  <2>1. Quiet(c)
    BY <1>1, QuietReceive, QuietReady, QuietRecord, QuietEnds
  <2> QED BY <2>1, QuietPosted
<1>2. CASE Take(c)
  <2>1. PICK f : f = Head(conn[c].queue)
    OBVIOUS
  <2>2. CASE f = Stop
    <3>1. Quiet(c)
      BY <1>2, <2>1, <2>2, QuietStop
    <3> QED BY <3>1, QuietPosted
  <2>3. CASE f # Stop
    <3>1. /\ f \in FrameIds /\ frames[f].conn = c /\ fate[f] = "queued"
          /\ conn[c].drain.f = None /\ Begin(c, f, obj[f].topic, dedup, FALSE)
      BY <1>2, <2>1, <2>3, TakeFrame
    <3>2. PICK b \in BOOLEAN : b = FALSE
      OBVIOUS
    <3>3. PICK t, seen : t = obj[f].topic /\ seen = dedup
      OBVIOUS
    <3>4. Begin(c, f, t, seen, b) /\ conn[c].drain.f \in {f, None}
      BY <3>1, <3>2, <3>3
    <3>5. UNCHANGED frames
      BY <1>2 DEF Take
    <3>6. Works(c, f) /\ fate'[f] \in {"skipped", "queued"}
      BY <3>1, <3>4, <3>5, BeginWorks
    <3> QED BY <3>6, WorksPosted
  <2> QED BY <2>2, <2>3
<1> QED BY <1>1, <1>2

(* Steps that show nothing. *)
LEMMA TextStill ==
    ASSUME TextInv, DigestGrows, UNCHANGED <<msgs, caller>>,
           \A r \in RowIds' : Comes(rows'[r].md, r),
           \A f \in FrameIds' : Comes(obj'[f], frames'[f].row)
    PROVE  TextInv'
<1>1. \A s \in Callers : IF caller'[s].row = None THEN Blank(caller'[s].md)
                         ELSE Comes(caller'[s].md, caller'[s].row)
  BY Known
<1>2. \A m \in MsgIds' : m \in MsgIds /\ msgs'[m].text = msgs[m].text
  BY DEF MsgIds
<1> QED BY <1>1, <1>2, TextKeep

LEMMA SameGrows ==
    ASSUME Posted' = Posted, \A f \in Posted : frames'[f] = frames[f],
           UNCHANGED <<msgs, topics>>
    PROVE  DigestGrows
BY DEF DigestGrows, MsgIds, TopicIds

LEMMA TextArrival ==
    ASSUME IInv, LinkInv, TopicInv, TextInv, NEW c \in ConnIds, Receive(c) \/ Ready(c),
           UNCHANGED caller
    PROVE  TextInv'
<1>0. PICK n : n = Len(frames) + 1
  OBVIOUS
<1>1. PICK r \in RowIds' :
          /\ UNCHANGED <<topics, msgs>>
          /\ \A q \in RowIds : rows'[q] = rows[q]
          /\ \A q \in RowIds' \ RowIds : Blank(rows'[q].md)
          /\ FrameIds' = FrameIds \cup {n}
          /\ \A g \in FrameIds : frames'[g] = frames[g] /\ obj'[g] = obj[g]
          /\ frames'[n].row = r /\ obj'[n] = rows'[r].md
  BY <1>0, IdsDiffer, ArrivalEffect
<1>2. DigestGrows
  BY <1>1, PostedStays, SameGrows
<1>3. ASSUME NEW q \in RowIds' PROVE Comes(rows'[q].md, q)
  <2>1. CASE q \in RowIds
    BY <1>1, <2>1, Known
  <2>2. CASE q \notin RowIds
    BY <1>1, <2>2 DEF Comes
  <2> QED BY <2>1, <2>2
<1>4. \A f \in FrameIds' : Comes(obj'[f], frames'[f].row)
  BY <1>1, <1>3, Known
<1> QED BY <1>1, <1>2, <1>3, <1>4, TextStill

LEMMA TextMark ==
    ASSUME LinkInv, TopicInv, TextInv, NEW c \in ConnIds, MarkStarted(c), UNCHANGED caller
    PROVE  TextInv'
<1>1. PICK f : f = conn[c].rx.f
  OBVIOUS
<1>2. /\ f \in FrameIds /\ UNCHANGED <<topics, obj, frames, msgs>> /\ RowIds' = RowIds
      /\ \A q \in RowIds : q # frames[f].row => rows'[q].md = rows[q].md
      /\ Agrees(rows'[frames[f].row].md, obj[f])
  BY <1>1, MarkEffect
<1>3. DigestGrows
  BY <1>2, PostedStays, SameGrows
<1>4. FrameIds' = FrameIds
  BY <1>2, SameFrames
<1>5. ASSUME NEW r \in RowIds' PROVE Comes(rows'[r].md, r)
  <2>1. CASE r = frames[f].row
    <3>1. SameDigest(rows'[r].md, obj[f]) /\ Comes(obj[f], r)
      BY <1>2, <2>1, Known DEF Agrees
    <3> QED BY <3>1, ComesSame
  <2>2. CASE r # frames[f].row
    BY <1>2, <1>5, <2>2, Known
  <2> QED BY <2>1, <2>2
<1>6. \A g \in FrameIds' : Comes(obj'[g], frames'[g].row)
  BY <1>2, <1>4, Known
<1> QED BY <1>2, <1>3, <1>5, <1>6, TextStill

(* Steps that change neither rows nor objects. *)
LEMMA TextAside ==
    ASSUME LinkInv, TextInv, DigestGrows, UNCHANGED <<msgs, caller, rows, obj, frames>>
    PROVE  TextInv'
<1>1. RowIds' = RowIds /\ FrameIds' = FrameIds
  BY SameFrames DEF RowIds
<1> QED BY <1>1, Known, TextStill

LEMMA TextInit == Init => TextInv
<1> SUFFICES ASSUME Init PROVE TextInv
  OBVIOUS
<1>1. rows = <<>> /\ msgs = <<>> /\ frames = <<>>
  BY DEF Init, RowsInit, DeliveryInit
<1>2. RowIds = {} /\ MsgIds = {} /\ FrameIds = {}
  BY <1>1 DEF RowIds, MsgIds, FrameIds
<1>3. ASSUME NEW s \in Callers PROVE CallerDigest(s)
  <2>1. PICK md : md = FreshMetadata(FALSE)
    OBVIOUS
  <2>2. Blank(md)
    BY <2>1, FreshFields DEF Blank
  <2>3. caller[s].row = None /\ caller[s].md = md
    BY <2>1 DEF Init, StartInit
  <2> QED BY <2>2, <2>3 DEF CallerDigest
<1> QED BY <1>2, <1>3 DEF TextInv

LEMMA TextNext ==
    ASSUME IInv, LinkInv, TopicInv, UserInv, TopicInv', TextInv, [Next]_vars
    PROVE  TextInv'
<1>0. MetaShape
  BY DEF TopicInv
<1>1. CASE StartNext /\ UNCHANGED deliveryVars
  <2>1. PICK s \in Callers : CallerStep(s) \/ Abort(s)
    BY <1>1 DEF StartNext
  <2> QED BY <1>1, <2>1, TextStart
<1>2. CASE DeliveryNext /\ UNCHANGED startVars
  <2>0. UNCHANGED caller
    BY <1>2 DEF startVars
  <2>1. ASSUME NEW c \in ConnIds, Receive(c) \/ Ready(c) PROVE TextInv'
    BY <2>0, <2>1, TextArrival
  <2>2. ASSUME NEW c \in ConnIds, MarkStarted(c) PROVE TextInv'
    BY <2>0, <2>2, TextMark
  <2>3. ASSUME NEW c \in ConnIds, MakeTopic(c) \/ PostUser(c) \/ PostStep(c) PROVE TextInv'
    BY <2>0, <2>3, TextDrain
  <2>4. ASSUME NEW c \in ConnIds, Record(c) \/ Take(c) \/ Disconnect(c) \/ Closed(c) \/ Cancel(c)
        PROVE  TextInv'
    <3>1. UNCHANGED <<rows, topics, obj, frames, msgs>>
      BY <2>4 DEF Record, Take, Disconnect, Closed, Cancel, rowVars
    <3>2. DigestGrows
      BY <2>4, <3>1, PostedStays, SameGrows
    <3> QED BY <2>0, <3>1, <3>2, TextAside
  <2>5. ASSUME Connect \/ \E k \in dedup : DedupExpires(k) PROVE TextInv'
    <3>1. UNCHANGED <<rows, topics, obj, frames, msgs, fate>>
      BY <2>5 DEF Connect, DedupExpires, rowVars
    <3>2. DigestGrows
      BY <3>1, SameGrows DEF Posted, FrameIds
    <3> QED BY <2>0, <3>1, <3>2, TextAside
  <2> QED BY <1>2, <2>1, <2>2, <2>3, <2>4, <2>5 DEF DeliveryNext, DrainStep
<1>3. ASSUME NEW t \in TopicIds, TopicDeleted(t), UNCHANGED <<startVars, deliveryVars>>
      PROVE  TextInv'
  <2>1. UNCHANGED <<rows, msgs, caller, obj, frames, fate>>
    BY <1>3 DEF TopicDeleted, startVars, deliveryVars
  <2>2. TopicIds' = TopicIds /\ \A q \in TopicIds : topics'[q].row = topics[q].row
    BY <1>0, <1>3, GoneEffect
  <2>3. DigestGrows
    BY <2>1, <2>2 DEF DigestGrows, Posted, FrameIds, MsgIds
  <2> QED BY <2>1, <2>3, TextAside
<1>4. CASE UNCHANGED vars
  <2>1. UNCHANGED <<rows, topics, msgs, caller, obj, frames, fate>>
    BY <1>4 DEF vars, rowVars, deliveryVars, startVars
  <2>2. DigestGrows
    BY <2>1, SameGrows DEF Posted, FrameIds
  <2> QED BY <2>1, <2>2, TextAside
<1> QED BY <1>1, <1>2, <1>3, <1>4 DEF Next

LEMMA SpecTextInv == Spec => []TextInv
<1>1. Init => TextInv
  BY TextInit
<1>2. IInv /\ LinkInv /\ TopicInv /\ UserInv /\ TopicInv' /\ TextInv /\ [Next]_vars => TextInv'
  BY TextNext
<1> QED BY <1>1, <1>2, SpecIInv, SpecLinkInv, SpecTopicInv, SpecUserInv, PTL DEF Spec

-----------------------------------------------------------------------------
(* Turns are taken: the frame that works on a row nobody rushed is the last  *)
(* that came in for it.                                                      *)
InTurn(r) == \A f \in Active(r), g \in FrameIds : frames[g].row = r => g <= f

TurnInv == \A r \in RowIds \ rushed : InTurn(r)

LEMMA TwoMembers ==
    ASSUME NEW n \in Nat, NEW S, S \subseteq 1 .. n, ~(Cardinality(S) > 1), NEW f \in S, NEW g \in S
    PROVE  f = g
<1> SUFFICES ASSUME f # g PROVE FALSE
  OBVIOUS
<1>1. IsFiniteSet(S)
  <2>1. IsFiniteSet(1 .. n)
    BY FS_Interval
  <2> QED BY <2>1, FS_Subset
<1>2. IsFiniteSet({f}) /\ Cardinality({f}) = 1
  BY FS_Singleton
<1>3. Cardinality({f} \cup {g}) = 2
  <2>1. Cardinality({f} \cup {g}) = 1 + 1
    BY <1>2, FS_AddElement
  <2> QED BY <2>1
<1>4. Cardinality({f} \cup {g}) <= Cardinality(S)
  <2>1. {f} \cup {g} \in SUBSET S
    OBVIOUS
  <2> QED BY <1>1, <2>1, FS_Subset
<1>5. Cardinality(S) \in Nat
  BY <1>1, FS_CardinalityType
<1> QED BY <1>3, <1>4, <1>5

(* Only a frame that comes in begins to work on a row. *)
LEMMA ActiveNext ==
    ASSUME LinkInv, [Next]_vars, \A c \in ConnIds : ~Receive(c) /\ ~Ready(c)
    PROVE  UNCHANGED frames /\ \A r : \A f \in Active(r)' : f \in Active(r)
<1>1. ASSUME UNCHANGED <<frames, fate, conn>>
      PROVE  UNCHANGED frames /\ \A r : \A f \in Active(r)' : f \in Active(r)
  BY <1>1, ActiveAside
<1>2. ASSUME NEW c \in ConnIds, Quiet(c), UNCHANGED frames
      PROVE  UNCHANGED frames /\ \A r : \A f \in Active(r)' : f \in Active(r)
  <2>1. FrameIds' = FrameIds
    BY <1>2, SameFrames
  <2>2. \A r : \A f \in Active(r)' : f \in FrameIds
    BY <2>1 DEF Active
  <2> QED BY <1>2, <2>2, ActiveQuiet
<1>3. ASSUME NEW c \in ConnIds,
             Record(c) \/ MarkStarted(c) \/ Disconnect(c) \/ Closed(c) \/ Cancel(c)
      PROVE  UNCHANGED frames /\ \A r : \A f \in Active(r)' : f \in Active(r)
  <2>1. Quiet(c)
    BY <1>3, QuietRecord, QuietEnds
  <2>2. UNCHANGED frames
    BY <1>3 DEF Record, MarkStarted, Disconnect, Closed, Cancel
  <2> QED BY <1>2, <2>1, <2>2
<1>4. ASSUME NEW c \in ConnIds, MakeTopic(c) \/ PostUser(c) \/ PostStep(c)
      PROVE  UNCHANGED frames /\ \A r : \A f \in Active(r)' : f \in Active(r)
  <2>1. PICK f : f = conn[c].drain.f
    OBVIOUS
  <2>2. Works(c, f)
    BY <1>4, <2>1, DrainWorks
  <2> QED BY <2>2, ActiveWorks DEF Works
<1>5. ASSUME NEW c \in ConnIds, Take(c)
      PROVE  UNCHANGED frames /\ \A r : \A f \in Active(r)' : f \in Active(r)
  <2>1. PICK f : f = Head(conn[c].queue)
    OBVIOUS
  <2>2. UNCHANGED frames
    BY <1>5 DEF Take
  <2>3. CASE f = Stop
    BY <1>2, <1>5, <2>1, <2>2, <2>3, QuietStop
  <2>4. CASE f # Stop
    <3>1. /\ f \in FrameIds /\ frames[f].conn = c /\ fate[f] = "queued"
          /\ conn[c].drain.f = None /\ Begin(c, f, obj[f].topic, dedup, FALSE)
      BY <1>5, <2>1, <2>4, TakeFrame
    <3>2. PICK b \in BOOLEAN : b = FALSE
      OBVIOUS
    <3>3. PICK t, seen : t = obj[f].topic /\ seen = dedup
      OBVIOUS
    <3>4. Begin(c, f, t, seen, b) /\ conn[c].drain.f \in {f, None}
      BY <3>1, <3>2, <3>3
    <3>5. Works(c, f)
      BY <2>2, <3>1, <3>4, BeginWorks
    <3> QED BY <2>2, <3>5, ActiveWorks
  <2> QED BY <2>3, <2>4
<1>6. ASSUME Connect
      PROVE  UNCHANGED frames /\ \A r : \A f \in Active(r)' : f \in Active(r)
  <2>1. UNCHANGED <<frames, fate>> /\ conn' = Append(conn, NewConn)
    BY <1>6 DEF Connect
  <2>2. FrameIds' = FrameIds
    BY <2>1, SameFrames
  <2>3. PICK x : x = NewConn
    OBVIOUS
  <2>4. /\ ConnIds' = ConnIds \cup {Len(conn) + 1} /\ conn'[Len(conn) + 1] = x
        /\ \A d \in ConnIds : conn'[d] = conn[d]
    BY <2>1, <2>3 DEF LinkInv, LinkShape, ConnIds
  <2>5. x.rx.f = None
    BY <2>3 DEF NewConn
  <2>6. ASSUME NEW r, NEW f \in Active(r)' PROVE f \in Active(r)
    <3>1. f \in FrameIds /\ f # None /\ frames[f].row = r
      BY <2>1, <2>2 DEF Active, FrameIds, None
    <3> QED BY <2>1, <2>4, <2>5, <3>1 DEF Active
  <2> QED BY <2>1, <2>6
<1>7. CASE DeliveryNext
  <2>1. CASE \E k \in dedup : DedupExpires(k)
    BY <1>1, <2>1 DEF DedupExpires
  <2> QED BY <1>3, <1>4, <1>5, <1>6, <1>7, <2>1 DEF DeliveryNext, DrainStep
<1>8. CASE UNCHANGED deliveryVars
  BY <1>1, <1>8 DEF deliveryVars
<1>9. DeliveryNext \/ UNCHANGED deliveryVars
  BY DEF Next, vars
<1> QED BY <1>7, <1>8, <1>9

LEMMA TurnNext ==
    ASSUME IInv, LinkInv, TopicInv, TurnInv, [Next]_vars
    PROVE  TurnInv'
<1>0. rushed \subseteq rushed' /\ (Next => RushedNow' \subseteq rushed')
  BY DEF Next, vars
<1>1. \A f \in FrameIds : frames[f].row \in RowIds
  BY DEF TopicInv
<1>2. ASSUME UNCHANGED frames, \A r : \A f \in Active(r)' : f \in Active(r) PROVE TurnInv'
  <2>1. FrameIds' = FrameIds
    BY <1>2, SameFrames
  <2>2. ASSUME NEW r \in RowIds' \ rushed', NEW f \in Active(r)', NEW g \in FrameIds',
               frames'[g].row = r
        PROVE  g <= f
    <3>1. g \in FrameIds /\ frames[g].row = r /\ r \in RowIds \ rushed /\ f \in Active(r)
      BY <1>0, <1>1, <1>2, <2>1, <2>2
    <3> QED BY <3>1 DEF TurnInv, InTurn
  <2> QED BY <2>2 DEF TurnInv, InTurn
<1>3. ASSUME Next, NEW c \in ConnIds, Receive(c) \/ Ready(c) PROVE TurnInv'
  <2>1. Quiet(c)
    BY <1>3, QuietReceive, QuietReady
  <2>2. PICK n : n = Len(frames) + 1
    OBVIOUS
  <2>3. /\ FrameIds' = FrameIds \cup {n} /\ n \notin FrameIds
        /\ \A g \in FrameIds : frames'[g] = frames[g]
    BY <1>3, <2>2, IdsDiffer, ArrivalEffect
  <2>4. n \in Nat /\ FrameIds' \subseteq 1 .. n /\ \A g \in FrameIds : g < n
    <3>1. FrameIds = 1 .. Len(frames) /\ Len(frames) \in Nat
      BY DEF LinkInv, LinkShape, FrameIds
    <3> QED BY <2>2, <2>3, <3>1
  <2>5. ASSUME NEW r \in RowIds' \ rushed', NEW f \in Active(r)', NEW g \in FrameIds',
               frames'[g].row = r
        PROVE  g <= f
    <3>1. f \in FrameIds' /\ frames'[f].row = r
      BY DEF Active
    <3>2. CASE f \notin FrameIds
      BY <2>3, <2>4, <3>1, <3>2
    <3>3. CASE f \in FrameIds /\ g \in FrameIds
      <4>1. f \in Active(r)
        BY <2>1, <3>3, ActiveQuiet
      <4>2. r \in RowIds \ rushed /\ frames[g].row = r
        BY <1>0, <1>1, <2>3, <2>5, <3>3
      <4> QED BY <3>3, <4>1, <4>2 DEF TurnInv, InTurn
    <3>4. CASE f \in FrameIds /\ g \notin FrameIds
      <4>1. fate'[g] \in {"coming", "queued"}
        BY <2>1, <2>5, <3>4 DEF Quiet
      <4>2. g \in Active(r)'
        BY <2>5, <4>1 DEF Active
      <4>3. PICK S : S = Active(r)'
        OBVIOUS
      <4>4. S \subseteq 1 .. n /\ f \in S /\ g \in S
        BY <2>4, <4>2, <4>3 DEF Active
      <4>5. ~(Cardinality(S) > 1)
        <5>1. r \notin RushedNow'
          BY <1>0, <1>3
        <5> QED BY <4>3, <5>1 DEF RushedNow, Rushed
      <4>6. f = g
        BY <2>4, <4>4, <4>5, TwoMembers
      <4> QED BY <3>3, <3>4, <4>6
    <3> QED BY <3>2, <3>3, <3>4
  <2> QED BY <2>5 DEF TurnInv, InTurn
<1>4. CASE UNCHANGED vars
  BY <1>2, <1>4, ActiveAside DEF vars, deliveryVars
<1>5. CASE Next /\ \A c \in ConnIds : ~Receive(c) /\ ~Ready(c)
  BY <1>2, <1>5, ActiveNext
<1> QED BY <1>3, <1>4, <1>5

LEMMA SpecTurnInv == Spec => []TurnInv
<1>1. Init => TurnInv
  BY DEF Init, RowsInit, TurnInv, RowIds
<1>2. IInv /\ LinkInv /\ TopicInv /\ TurnInv /\ [Next]_vars => TurnInv'
  BY TurnNext
<1> QED BY <1>1, <1>2, SpecIInv, SpecLinkInv, SpecTopicInv, PTL DEF Spec

-----------------------------------------------------------------------------
(* The story of a row that nobody rushed.  Its metadata name the message     *)
(* that is being edited and what it shows; each posted frame is shown in one *)
(* message, the one being edited just if no later frame began another.       *)
PostedTo(r) == {f \in Posted : frames[f].row = r}

Running(f, r) == frames[f].kind # "user" /\ \A h \in PostedTo(r) : f < h => ~Starts(h)

DigestShown(r) ==
    LET md == rows[r].md
    IN  IF md.msg = None THEN md.text = <<>> ELSE msgs[md.msg].text = md.text

ShownOnce(f, r) ==
    \E m \in MsgIds : /\ Showing(f) = {m}
                      /\ rows[r].md.msg # None => m <= rows[r].md.msg
                      /\ m = rows[r].md.msg <=> Running(f, r)

InOneMessage(f, g) ==
    \E m, n \in MsgIds : /\ Showing(f) = {m} /\ Showing(g) = {n} /\ m <= n
                         /\ m = n <=> Continues(f, g)

Story(r) ==
    /\ DigestShown(r)
    /\ \A f \in PostedTo(r) : ShownOnce(f, r)
    /\ \A f, g \in PostedTo(r) : f < g => InOneMessage(f, g)

DigestInv == Calm => \A r \in RowIds \ rushed : Story(r)

(* Where a digest goes on is up to the frames of its row. *)
LEMMA ContinuesIn ==
    ASSUME LinkInv, NEW r, NEW f \in PostedTo(r), NEW g \in Nat
    PROVE  Continues(f, g) <=> /\ frames[f].kind # "user"
                               /\ \A h \in PostedTo(r) : f < h /\ h <= g => ~Starts(h)
<1>1. /\ FrameIds = 1 .. Len(frames) /\ Len(frames) \in Nat /\ frames[f].row = r
      /\ f \in FrameIds
  BY DEF LinkInv, LinkShape, FrameIds, PostedTo, Posted
<1>2. \A h \in Posted : h \in f + 1 .. g <=> f < h /\ h <= g
  BY <1>1 DEF Posted
<1> QED BY <1>1, <1>2 DEF Continues, PostedTo

(* What is shown, and where. *)
InText(g, text) == \E i \in DOMAIN text : text[i] = g

LEMMA InAppend ==
    ASSUME NEW text \in Seq(Nat), NEW f \in Nat, NEW g
    PROVE  InText(g, Append(text, f)) <=> InText(g, text) \/ g = f
<1>1. PICK x : x = Append(text, f)
  OBVIOUS
<1>2. /\ x \in Seq(Nat) /\ Len(x) = Len(text) + 1 /\ Len(text) \in Nat
      /\ x[Len(text) + 1] = f /\ \A i \in 1 .. Len(text) : x[i] = text[i]
  BY <1>1, AppendProperties
<1>3. DOMAIN x = 1 .. Len(text) + 1 /\ DOMAIN text = 1 .. Len(text)
  BY <1>2
<1>4. InText(g, x) <=> InText(g, text) \/ g = f
  BY <1>2, <1>3 DEF InText
<1> QED BY <1>1, <1>4

LEMMA InShows ==
    ASSUME NEW text \in Seq(Nat), NEW r, Shows(text, r), NEW g, InText(g, text)
    PROVE  g \in Posted /\ frames[g].row = r
<1>1. DOMAIN text = 1 .. Len(text)
  OBVIOUS
<1> QED BY <1>1 DEF Shows, InText

LEMMA ShowingIn ==
    ASSUME NEW g
    PROVE  Showing(g) = {m \in MsgIds : InText(g, msgs[m].text)}
BY DEF Showing, InText

(* A step that posts no frame of the row and leaves its digest alone. *)
LEMMA StoryKept ==
    ASSUME LinkInv, LinkInv', TextInv, NEW r \in RowIds, Story(r), PostedTo(r)' = PostedTo(r),
           \A g \in PostedTo(r) : frames'[g] = frames[g] /\ Showing(g)' = Showing(g),
           MsgIds \subseteq MsgIds', SameDigest(rows'[r].md, rows[r].md),
           rows[r].md.msg # None => msgs'[rows[r].md.msg].text = msgs[rows[r].md.msg].text
    PROVE  Story(r)'
<1>1. \A g \in PostedTo(r) : Starts(g)' = Starts(g) /\ frames'[g].kind = frames[g].kind
                             /\ g \in Nat
  BY SMTT(30) DEF Starts, LinkInv, LinkShape, FrameIds, PostedTo, Posted
<1>2. DigestShown(r)'
  BY DEF Story, DigestShown, SameDigest
<1>3. ASSUME NEW f \in PostedTo(r) PROVE ShownOnce(f, r)'
  <2>1. Running(f, r)' <=> Running(f, r)
    BY <1>1 DEF Running
  <2>2. PICK m \in MsgIds : /\ Showing(f) = {m}
                            /\ rows[r].md.msg # None => m <= rows[r].md.msg
                            /\ m = rows[r].md.msg <=> Running(f, r)
    BY DEF Story, ShownOnce
  <2> QED BY <2>1, <2>2 DEF ShownOnce, SameDigest
<1>4. ASSUME NEW f \in PostedTo(r), NEW g \in PostedTo(r), f < g PROVE InOneMessage(f, g)'
  <2>1. /\ Continues(f, g) <=> /\ frames[f].kind # "user"
                               /\ \A h \in PostedTo(r) : f < h /\ h <= g => ~Starts(h)
    BY <1>1, ContinuesIn
  <2>2. /\ Continues(f, g)' <=> /\ frames'[f].kind # "user"
                                /\ \A h \in PostedTo(r)' : f < h /\ h <= g => ~Starts(h)'
    <3>1. PICK S : S = Posted'
      OBVIOUS
    <3>2. /\ FrameIds' = 1 .. Len(frames') /\ Len(frames') \in Nat
          /\ \A h \in S : h \in FrameIds'
      BY <3>1 DEF LinkInv, LinkShape, FrameIds, Posted
    <3>3. \A h \in S : h \in f + 1 .. g <=> f < h /\ h <= g
      BY <1>1, <3>2
    <3>4. \A h : h \in PostedTo(r)' <=> h \in S /\ frames'[h].row = r
      BY <3>1 DEF PostedTo
    <3>5. frames'[f].row = r
      BY <3>4
    <3> QED BY <3>1, <3>3, <3>4, <3>5 DEF Continues
  <2>3. Continues(f, g)' <=> Continues(f, g)
    BY <1>1, <2>1, <2>2
  <2>4. PICK m \in MsgIds, n \in MsgIds : /\ Showing(f) = {m} /\ Showing(g) = {n} /\ m <= n
                                          /\ m = n <=> Continues(f, g)
    BY <1>4 DEF Story, InOneMessage
  <2> QED BY <2>3, <2>4 DEF InOneMessage
<1> QED BY <1>2, <1>3, <1>4 DEF Story

(* A step that posts frame f of the row, the last so far: in the message     *)
(* being edited, or in a new one.                                            *)
LEMMA StoryAdds ==
    ASSUME LinkInv, LinkInv', TextInv, TextInv', NEW r \in RowIds, Story(r), UNCHANGED frames,
           NEW f, f \notin PostedTo(r), PostedTo(r)' = PostedTo(r) \cup {f},
           \A g \in PostedTo(r) : g < f /\ Showing(g)' = Showing(g),
           RowIds' = RowIds, MsgIds \subseteq MsgIds', NEW m \in MsgIds', Showing(f)' = {m},
           DigestShown(r)',
           rows'[r].md.msg = IF frames[f].kind = "user" THEN None ELSE m,
           \/ m = rows[r].md.msg /\ m # None /\ ~Starts(f)
           \/ (\A n \in MsgIds : n < m) /\ (Starts(f) \/ rows[r].md.msg = None)
    PROVE  Story(r)'
<1>1. /\ \A g \in PostedTo(r) : g \in Nat /\ g < f
      /\ f \in Nat /\ \A g : Starts(g)' = Starts(g)
  <2>1. \A g \in PostedTo(r) : g \in Nat
    BY DEF LinkInv, LinkShape, FrameIds, PostedTo, Posted
  <2>2. f \in FrameIds' /\ FrameIds' = FrameIds /\ FrameIds = 1 .. Len(frames)
        /\ Len(frames) \in Nat
    BY SameFrames DEF PostedTo, Posted
  <2> QED BY <2>1, <2>2 DEF Starts
<1>2. \A n \in MsgIds' : n \in Nat /\ n # None
  BY DEF MsgIds, None
<1>3. m \in Nat /\ m # None /\ \A n \in MsgIds : n \in Nat /\ n # None
  BY <1>2
<1>4. PICK old : old = rows[r].md.msg
  OBVIOUS
<1>5. Running(f, r)' <=> frames[f].kind # "user"
  BY <1>1 DEF Running
<1>6. ASSUME NEW g \in PostedTo(r)
      PROVE  Running(g, r)' <=> Running(g, r) /\ ~Starts(f)
  BY <1>1 DEF Running
<1>7. Starts(f) <=> frames[f].reset \/ frames[f].kind = "user"
  BY DEF Starts
<1>8. ASSUME NEW g \in PostedTo(r)
      PROVE  \E n \in MsgIds : /\ Showing(g)' = {n} /\ Showing(g) = {n} /\ n <= m
                               /\ n = m <=> Running(g, r)'
  <2>1. PICK n \in MsgIds : /\ Showing(g) = {n}
                            /\ old # None => n <= old
                            /\ n = old <=> Running(g, r)
    BY <1>4 DEF Story, ShownOnce
  <2>2. CASE m = old /\ ~Starts(f)
    BY <1>3, <1>6, <2>1, <2>2
  <2>3. CASE (\A k \in MsgIds : k < m) /\ (Starts(f) \/ old = None)
    <3>1. n < m /\ n \in Nat /\ n # None
      BY <1>3, <2>1, <2>3
    <3>2. ~Running(g, r)'
      BY <1>6, <2>1, <2>3, <3>1
    <3> QED BY <1>3, <2>1, <3>1, <3>2
  <2> QED BY <1>4, <2>2, <2>3
<1>9. ASSUME NEW g \in PostedTo(r) \cup {f} PROVE ShownOnce(g, r)'
  <2>1. CASE g = f
    <3>1. m = rows'[r].md.msg <=> Running(f, r)'
      BY <1>3, <1>5
    <3>2. rows'[r].md.msg # None => m <= rows'[r].md.msg
      BY <1>3
    <3> QED BY <2>1, <3>1, <3>2 DEF ShownOnce
  <2>2. CASE g \in PostedTo(r)
    <3>1. PICK n \in MsgIds : /\ Showing(g)' = {n} /\ n <= m
                              /\ n = m <=> Running(g, r)'
      BY <1>8, <2>2
    <3>2. n \in MsgIds' /\ n # None
      BY <1>3
    <3>3. CASE frames[f].kind = "user"
      <4>1. ~Running(g, r)' /\ rows'[r].md.msg = None
        BY <1>6, <1>7, <2>2, <3>3
      <4> QED BY <3>1, <3>2, <4>1 DEF ShownOnce
    <3>4. CASE frames[f].kind # "user"
      <4>1. rows'[r].md.msg = m
        BY <3>4
      <4> QED BY <3>1, <3>2, <4>1 DEF ShownOnce
    <3> QED BY <3>3, <3>4
  <2> QED BY <2>1, <2>2
<1>10. ASSUME NEW g \in PostedTo(r) \cup {f}, NEW k \in Nat
       PROVE  Continues(g, k)' <=>
                  /\ frames[g].kind # "user"
                  /\ \A h \in PostedTo(r) \cup {f} : g < h /\ h <= k => ~Starts(h)
  <2>1. PICK S : S = Posted'
    OBVIOUS
  <2>2. /\ FrameIds' = 1 .. Len(frames') /\ Len(frames') \in Nat
        /\ \A h \in S : h \in FrameIds'
    BY <2>1 DEF LinkInv, LinkShape, FrameIds, Posted
  <2>3. \A h \in S : h \in g + 1 .. k <=> g < h /\ h <= k
    BY <1>1, <2>2
  <2>4. \A h : h \in PostedTo(r) \cup {f} <=> h \in S /\ frames'[h].row = r
    BY <2>1 DEF PostedTo
  <2>5. frames'[g].row = r
    BY <2>4
  <2> QED BY <1>1, <2>1, <2>3, <2>4, <2>5 DEF Continues
<1>11. ASSUME NEW g \in PostedTo(r) \cup {f}, NEW h \in PostedTo(r) \cup {f}, g < h
       PROVE  InOneMessage(g, h)'
  <2>1. g \in PostedTo(r)
    BY <1>1, <1>11
  <2>2. CASE h = f
    <3>1. PICK n \in MsgIds : /\ Showing(g)' = {n} /\ n <= m
                              /\ n = m <=> Running(g, r)'
      BY <1>8, <2>1
    <3>2. Continues(g, f)' <=> Running(g, r)'
      BY <1>1, <1>10, <2>1 DEF Running
    <3>3. /\ n \in MsgIds' /\ Showing(f)' = {m}
          /\ n = m <=> Continues(g, f)'
      BY <3>1, <3>2
    <3>4. InOneMessage(g, f)'
      BY <3>1, <3>3 DEF InOneMessage
    <3> QED BY <2>2, <3>4
  <2>3. CASE h \in PostedTo(r)
    <3>1. Continues(g, h)' <=> Continues(g, h)
      <4>1. Continues(g, h) <=> /\ frames[g].kind # "user"
                                /\ \A i \in PostedTo(r) : g < i /\ i <= h => ~Starts(i)
        BY <1>1, <2>1, <2>3, ContinuesIn
      <4>2. ~(f <= h)
        BY <1>1, <2>3
      <4> QED BY <1>1, <1>10, <2>1, <2>3, <4>1, <4>2
    <3>2. PICK i \in MsgIds, k \in MsgIds : /\ Showing(g) = {i} /\ Showing(h) = {k} /\ i <= k
                                            /\ i = k <=> Continues(g, h)
      BY <1>11, <2>1, <2>3 DEF Story, InOneMessage
    <3>3. Showing(g)' = {i} /\ Showing(h)' = {k} /\ i \in MsgIds' /\ k \in MsgIds'
      BY <2>1, <2>3, <3>2
    <3> QED BY <3>1, <3>2, <3>3 DEF InOneMessage
  <2> QED BY <1>11, <2>2, <2>3
<1> QED BY <1>9, <1>11 DEF Story

(* A step that posts nothing. *)
LEMMA StoryStill ==
    ASSUME LinkInv, LinkInv', TopicInv, TextInv, UNCHANGED msgs, Posted' = Posted,
           \A f \in Posted : frames'[f] = frames[f],
           NEW r \in RowIds',
           r \in RowIds => Story(r) /\ SameDigest(rows'[r].md, rows[r].md),
           r \notin RowIds => Blank(rows'[r].md)
    PROVE  Story(r)'
<1>1. MsgIds' = MsgIds /\ PostedTo(r)' = PostedTo(r) /\ \A g : Showing(g)' = Showing(g)
  BY DEF MsgIds, PostedTo, Showing
<1>2. \A g \in PostedTo(r) : frames'[g] = frames[g]
  BY DEF PostedTo
<1>3. CASE r \in RowIds
  BY <1>1, <1>2, <1>3, StoryKept
<1>4. CASE r \notin RowIds
  <2>1. PostedTo(r) = {}
    BY <1>4 DEF PostedTo, Posted, TopicInv
  <2>2. DigestShown(r)'
    BY <1>4 DEF DigestShown, Blank
  <2> QED BY <1>1, <2>1, <2>2 DEF Story
<1> QED BY <1>3, <1>4

(* The requests leave the digests of rows nobody rushed alone. *)
LEMMA StartDigest ==
    ASSUME IInv, TopicInv, NEW s \in Callers, Prepared(s), CallerStep(s) \/ Abort(s),
           NEW r \in RowIds', r \in RowIds => OneTopic(r)
    PROVE  /\ r \in RowIds => SameDigest(rows'[r].md, rows[r].md)
           /\ r \notin RowIds => Blank(rows'[r].md)
<1>0. /\ MetaShape /\ rows \in Seq(Row(MdSet)) /\ caller[s] \in CallerSet /\ CallerTopic(s)
      /\ Named(s) \in BOOLEAN /\ RowIds = 1 .. Len(rows) /\ Len(rows) \in Nat
  BY Lengths DEF TopicInv, MetaShape, Named
<1>1. PICK x, m, w : x = caller[s].row /\ m = caller[s].md /\ w = FreshMetadata(Named(s))
  OBVIOUS
<1>2. m \in MdSet /\ x \in Nat /\ Blank(w)
  BY <1>0, <1>1, FreshFields DEF CallerSet, Blank
<1>3. CASE rows' = rows
  BY <1>3 DEF RowIds, SameDigest
<1>4. CASE Inserts(s)
  <2>1. BoundId(s) \in Sessions \cup Callers
    BY IdsDiffer DEF BoundId, Named
  <2>2. /\ RowIds' = RowIds \cup {Len(rows) + 1}
        /\ \A q \in RowIds : rows'[q] = rows[q]
        /\ rows'[Len(rows) + 1].md = w
    <3>1. rows' = Append(rows, NewRow(BoundId(s), "blank", Named(s)))
      BY <1>4 DEF Inserts
    <3> QED BY <1>0, <1>1, <2>1, <3>1, NewRows
  <2> QED BY <1>2, <2>2 DEF SameDigest
<1>5. ASSUME NEW md \in MdSet, x \in RowIds, rows' = Saved(x, md),
             SameDigest(md, m), Holds(s, x)
      PROVE  /\ r \in RowIds => SameDigest(rows'[r].md, rows[r].md)
             /\ r \notin RowIds => Blank(rows'[r].md)
  <2>1. RowIds' = RowIds /\ \A q \in RowIds : rows'[q].md = IF q = x THEN md ELSE rows[q].md
    BY <1>0, <1>5, SavedRows
  <2>2. CASE r = x
    <3>1. Agrees(m, rows[r].md)
      BY <1>1, <1>5, <2>2 DEF OneTopic
    <3> QED BY <1>5, <2>1, <2>2, <3>1 DEF Agrees, SameDigest
  <2>3. CASE r # x
    BY <2>1, <2>3 DEF SameDigest
  <2> QED BY <2>2, <2>3
<1>6. CASE WritesBack(s)
  <2>1. x \in RowIds /\ Holds(s, x)
    BY <1>0, <1>1, <1>6 DEF WritesBack, CallerTopic, Holds
  <2>2. rows' = Saved(x, m) /\ SameDigest(m, m)
    BY <1>1, <1>6 DEF WritesBack, SameDigest
  <2> QED BY <1>2, <1>5, <2>1, <2>2
<1>7. CASE Makes(s)
  <2>1. x \in RowIds /\ Holds(s, x)
    BY <1>0, <1>1, <1>7 DEF Makes, CallerTopic, At, Holds
  <2>2. PICK md : md = [m EXCEPT !.topic = NewTopicId]
    OBVIOUS
  <2>3. md \in MdSet /\ SameDigest(md, m)
    <3>1. NewTopicId \in Nat
      BY <1>0, Lengths DEF NewTopicId
    <3> QED BY <1>2, <2>2, <3>1 DEF MdSet, SameDigest
  <2>4. rows' = Saved(x, md)
    BY <1>1, <1>7, <2>2 DEF Makes
  <2> QED BY <1>5, <2>1, <2>3, <2>4
<1>8. CASE Reads(s) \/ Binds(s) \/ Looks(s) \/ Fails(s) \/ Loses(s)
  BY <1>3, <1>8 DEF Reads, Binds, Looks, Fails, Loses, rowVars
<1> QED BY <1>4, <1>6, <1>7, <1>8, StartEffect

-----------------------------------------------------------------------------
(* The drainer's work on a story. *)
LEMMA ShownPosted ==
    ASSUME TopicInv, TextInv, NEW g, NEW m \in Showing(g)
    PROVE  m \in MsgIds /\ g \in Posted /\ frames[g].row = topics[msgs[m].topic].row
<1>1. m \in MsgIds /\ InText(g, msgs[m].text)
  BY ShowingIn
<1>2. msgs[m].text \in Seq(Nat)
  <2>1. msgs[m] \in MsgSet
    BY <1>1 DEF TopicInv, MetaShape, MsgIds
  <2> QED BY <2>1 DEF MsgSet
<1>3. PICK text, r : text = msgs[m].text /\ r = topics[msgs[m].topic].row
  OBVIOUS
<1>4. Shows(text, r)
  BY <1>1, <1>3 DEF TextInv
<1> QED BY <1>1, <1>2, <1>3, <1>4, InShows

(* What the drainer finds when it works on a row nobody rushed. *)
LEMMA DrainFinds ==
    ASSUME LinkInv, LinkInv', TopicInv, TopicInv', UserInv, TextInv, TurnInv, Calm,
           NEW c \in ConnIds, NEW f, f = conn[c].drain.f, MakeTopic(c) \/ PostUser(c) \/ PostStep(c)
    PROVE  /\ f \in FrameIds /\ f \in Nat /\ f \notin Posted /\ UNCHANGED frames
           /\ Posted' = IF fate'[f] = "posted" THEN Posted \cup {f} ELSE Posted
           /\ obj[f] \in MdSet /\ DigestOk(obj[f], frames[f].row)
           /\ InDrain(c, "post") => Live(obj[f].topic)
           /\ obj[f].msg # None => obj[f].msg \in MsgIds /\ Live(msgs[obj[f].msg].topic)
           /\ \A r \in RowIds \ rushed :
                  frames[f].row = r /\ OneTopic(r) =>
                      /\ Agrees(obj[f], rows[r].md)
                      /\ \A g \in PostedTo(r) : g < f
<1>1. /\ f \in FrameIds /\ fate[f] = "queued" /\ UNCHANGED frames
      /\ FrameIds = 1 .. Len(frames) /\ Len(frames) \in Nat
  BY DrainKeeps, SameFrames
<1>2. /\ Posted' = IF fate'[f] = "posted" THEN Posted \cup {f} ELSE Posted
      /\ f \notin Posted
  <2>1. Works(c, f)
    BY DrainWorks
  <2> QED BY <2>1, WorksPosted
<1>3. MetaShape /\ Names(obj[f], frames[f].row) /\ DigestOk(obj[f], frames[f].row)
  BY <1>1 DEF TopicInv, TextInv
<1>4. obj[f] \in MdSet
  BY <1>1, <1>3 DEF MetaShape
<1>5. \A t \in TopicIds : Live(t)
  <2>1. Dead = {}
    BY <1>3, NoneDead
  <2> QED BY <2>1 DEF Dead, Live
<1>6. InDrain(c, "post") => Live(obj[f].topic)
  BY <1>3, <1>5 DEF Names, UserInv, DrainTopic, InDrain
<1>7. obj[f].msg # None => obj[f].msg \in MsgIds /\ Live(msgs[obj[f].msg].topic)
  BY <1>3, <1>5 DEF DigestOk, MessageOf, TextInv
<1>8. ASSUME NEW r \in RowIds \ rushed, frames[f].row = r, OneTopic(r)
      PROVE  Agrees(obj[f], rows[r].md) /\ \A g \in PostedTo(r) : g < f
  <2>1. f \in Active(r)
    BY <1>1, <1>8 DEF Active
  <2>2. Agrees(obj[f], rows[r].md)
    BY <1>8, <2>1 DEF OneTopic
  <2>3. ASSUME NEW g \in PostedTo(r) PROVE g < f
    <3>1. g \in FrameIds /\ frames[g].row = r /\ g # f
      BY <1>2 DEF PostedTo, Posted
    <3>2. g <= f
      BY <2>1, <3>1 DEF TurnInv, InTurn
    <3> QED BY <1>1, <3>1, <3>2
  <2> QED BY <2>2, <2>3
<1> QED BY <1>1, <1>2, <1>3, <1>4, <1>6, <1>7, <1>8

LEMMA StoryHides ==
    ASSUME LinkInv, LinkInv', TopicInv, TopicInv', UserInv, TextInv, TurnInv, Calm, Calm',
           NEW c \in ConnIds, NEW f, f = conn[c].drain.f,
           MakeTopic(c) \/ PostUser(c) \/ PostStep(c), Hides(c, f),
           NEW r \in RowIds \ rushed, Story(r), OneTopic(r)
    PROVE  Story(r)'
<1>1. /\ f \in FrameIds /\ UNCHANGED frames /\ obj[f] \in MdSet
      /\ Posted' = IF fate'[f] = "posted" THEN Posted \cup {f} ELSE Posted
      /\ InDrain(c, "post") => Live(obj[f].topic)
      /\ frames[f].row = r => Agrees(obj[f], rows[r].md)
  BY DrainFinds
<1>2. Posted' = Posted /\ UNCHANGED msgs
  BY <1>1 DEF Hides
<1>3. CASE UNCHANGED rows
  BY <1>1, <1>2, <1>3, StoryStill DEF RowIds, SameDigest
<1>4. ASSUME NEW md \in MdSet, Save(f, md), SameDigest(md, obj[f])
      PROVE  Story(r)'
  <2>1. RowIds' = RowIds /\ rows'[r].md = IF r = frames[f].row THEN md ELSE rows[r].md
    BY <1>1, <1>4, SaveEffect
  <2>2. SameDigest(rows'[r].md, rows[r].md)
    BY <1>1, <1>4, <2>1 DEF SameDigest, Agrees
  <2> QED BY <1>1, <1>2, <2>1, <2>2, StoryStill
<1> QED BY <1>1, <1>3, <1>4 DEF Hides

(* A new message: with the frame alone, if nobody rushed its row.            *)
LEMMA StorySends ==
    ASSUME LinkInv, LinkInv', TopicInv, TopicInv', UserInv, TextInv, TextInv', TurnInv,
           Calm, Calm', NEW c \in ConnIds, NEW f, f = conn[c].drain.f,
           MakeTopic(c) \/ PostUser(c) \/ PostStep(c), Sends(f),
           NEW r \in RowIds \ rushed, Story(r), OneTopic(r)
    PROVE  Story(r)'
<1>1. /\ f \in FrameIds /\ f \in Nat /\ f \notin Posted /\ UNCHANGED frames
      /\ Posted' = Posted \cup {f} /\ obj[f] \in MdSet /\ DigestOk(obj[f], frames[f].row)
      /\ obj[f].msg # None => obj[f].msg \in MsgIds /\ Live(msgs[obj[f].msg].topic)
      /\ frames[f].row = r => /\ Agrees(obj[f], rows[r].md)
                              /\ \A g \in PostedTo(r) : g < f
  BY DrainFinds DEF Sends
<1>2. PICK n, old, text : n = Len(msgs) + 1 /\ old = Old(f).text /\ text = Append(old, f)
  OBVIOUS
<1>3. /\ n \in Nat /\ MsgIds' = MsgIds \cup {n} /\ n \notin MsgIds
      /\ \A m \in MsgIds : msgs'[m] = msgs[m] /\ m < n /\ m \in Nat
      /\ msgs'[n].text = text /\ old \in Seq(Nat)
  BY <1>1, <1>2, SendsMsgs
<1>4. Shows(old, frames[f].row)
  <2>1. CASE Starts(f)
    <3>1. Len(old) = 0
      BY <1>2, <2>1 DEF Old, NoDigest
    <3> QED BY <3>1 DEF Shows
  <2>2. CASE ~Starts(f)
    BY <1>1, <1>2, <2>2 DEF Old, DigestOk
  <2> QED BY <2>1, <2>2
<1>5. \A g : InText(g, text) <=> InText(g, old) \/ g = f
  <2>1. old \in Seq(Nat) /\ f \in Nat /\ text = Append(old, f)
    BY <1>1, <1>2, <1>3
  <2> QED BY <2>1, InAppend
<1>6. \A g : Showing(g)' = Showing(g) \cup (IF InText(g, text) THEN {n} ELSE {})
  <2>1. \A g : Showing(g)' = {m \in MsgIds' : InText(g, msgs'[m].text)}
    BY DEF Showing, InText
  <2> QED BY <1>3, <2>1, ShowingIn
<1>7. PICK md \in MdSet : /\ Save(f, md)
                          /\ IF frames[f].kind = "user" THEN Blank(md)
                             ELSE md.msg = n /\ md.text = text
  BY <1>2 DEF Sends
<1>8. RowIds' = RowIds /\ rows'[r].md = IF r = frames[f].row THEN md ELSE rows[r].md
  BY <1>1, <1>7, SaveEffect
<1>9. CASE frames[f].row # r
  <2>1. PostedTo(r)' = PostedTo(r)
    BY <1>1, <1>9 DEF PostedTo
  <2>2. ASSUME NEW g \in PostedTo(r) PROVE Showing(g)' = Showing(g)
    <3>1. ~InText(g, text)
      BY <1>3, <1>4, <1>5, <1>9, InShows DEF PostedTo
    <3> QED BY <1>6, <3>1
  <2>3. SameDigest(rows'[r].md, rows[r].md)
    BY <1>8, <1>9 DEF SameDigest
  <2>4. rows[r].md.msg # None => msgs'[rows[r].md.msg].text = msgs[rows[r].md.msg].text
    BY <1>3 DEF TextInv, DigestOk, MessageOf
  <2> QED BY <1>1, <1>3, <2>1, <2>2, <2>3, <2>4, StoryKept
<1>10. CASE frames[f].row = r
  <2>1. PostedTo(r)' = PostedTo(r) \cup {f} /\ f \notin PostedTo(r)
    BY <1>1, <1>10 DEF PostedTo
  <2>2. Starts(f) \/ rows[r].md.msg = None
    <3> SUFFICES ASSUME ~Starts(f) PROVE rows[r].md.msg = None
      OBVIOUS
    <3>1. obj[f].msg = None
      BY <1>1 DEF Sends, Old
    <3> QED BY <1>1, <1>10, <3>1 DEF Agrees, SameDigest
  <2>3. old = <<>>
    <3>1. CASE Starts(f)
      BY <1>1, <1>2, <3>1 DEF Old, NoDigest, MdSet
    <3>2. CASE ~Starts(f)
      <4>1. rows[r].md.text = <<>>
        BY <2>2, <3>2 DEF Story, DigestShown
      <4> QED BY <1>1, <1>2, <1>10, <3>2, <4>1 DEF Old, Agrees, SameDigest
    <3> QED BY <3>1, <3>2
  <2>4. \A g : ~InText(g, old)
    BY <2>3 DEF InText
  <2>5. ASSUME NEW g \in PostedTo(r) PROVE g < f /\ Showing(g)' = Showing(g)
    BY <1>1, <1>5, <1>6, <1>10, <2>1, <2>4
  <2>6. Showing(f)' = {n}
    <3>1. Showing(f) = {}
      BY <1>1, ShownPosted
    <3> QED BY <1>5, <1>6, <3>1
  <2>7. rows'[r].md.msg = IF frames[f].kind = "user" THEN None ELSE n
    BY <1>7, <1>8, <1>10 DEF Blank
  <2>8. DigestShown(r)'
    <3>1. n # None
      BY <1>2, <1>3 DEF MsgIds, None, TopicInv, MetaShape
    <3>2. CASE frames[f].kind = "user"
      BY <1>7, <1>8, <1>10, <3>2 DEF DigestShown, Blank
    <3>3. CASE frames[f].kind # "user"
      BY <1>3, <1>7, <1>8, <1>10, <3>1, <3>3 DEF DigestShown
    <3> QED BY <3>2, <3>3
  <2> QED BY <1>1, <1>3, <1>8, <2>1, <2>2, <2>5, <2>6, <2>7, <2>8, StoryAdds
<1> QED BY <1>9, <1>10

(* The message is edited. *)
LEMMA StoryEdits ==
    ASSUME LinkInv, LinkInv', TopicInv, TopicInv', UserInv, TextInv, TextInv', TurnInv,
           Calm, Calm', NEW c \in ConnIds, NEW f, f = conn[c].drain.f,
           MakeTopic(c) \/ PostUser(c) \/ PostStep(c), Edits(f),
           NEW r \in RowIds \ rushed, Story(r), OneTopic(r)
    PROVE  Story(r)'
<1>1. /\ f \in FrameIds /\ f \in Nat /\ f \notin Posted /\ UNCHANGED frames
      /\ Posted' = Posted \cup {f} /\ obj[f] \in MdSet /\ DigestOk(obj[f], frames[f].row)
      /\ frames[f].row = r => /\ Agrees(obj[f], rows[r].md)
                              /\ \A g \in PostedTo(r) : g < f
  BY DrainFinds DEF Edits
<1>2. PICK m, old, text : m = obj[f].msg /\ old = obj[f].text /\ text = Append(old, f)
  OBVIOUS
<1>3. /\ m \in MsgIds /\ m \in Nat /\ MsgIds' = MsgIds /\ MessageOf(m, frames[f].row)
      /\ \A n \in MsgIds : n # m => msgs'[n].text = msgs[n].text
      /\ msgs'[m].text = text /\ old \in Seq(Nat)
  BY <1>1, <1>2, EditsMsgs
<1>4. Shows(old, frames[f].row) /\ m # None
  BY <1>1, <1>2 DEF DigestOk, Edits
<1>5. \A g : InText(g, text) <=> InText(g, old) \/ g = f
  <2>1. old \in Seq(Nat) /\ f \in Nat /\ text = Append(old, f)
    BY <1>1, <1>2, <1>3
  <2> QED BY <2>1, InAppend
<1>6. \A g : Showing(g)' = (Showing(g) \ {m}) \cup (IF InText(g, text) THEN {m} ELSE {})
  <2>1. \A g : Showing(g)' = {n \in MsgIds' : InText(g, msgs'[n].text)}
    BY DEF Showing, InText
  <2> QED BY <1>3, <2>1, ShowingIn
<1>7. PICK md \in MdSet : Save(f, md) /\ md.msg = m /\ md.text = text
  BY <1>2 DEF Edits
<1>8. RowIds' = RowIds /\ rows'[r].md = IF r = frames[f].row THEN md ELSE rows[r].md
  BY <1>1, <1>7, SaveEffect
<1>9. CASE frames[f].row # r
  <2>1. PostedTo(r)' = PostedTo(r)
    BY <1>1, <1>9 DEF PostedTo
  <2>2. ASSUME NEW g \in PostedTo(r) PROVE Showing(g)' = Showing(g)
    <3>1. ~InText(g, text)
      BY <1>3, <1>4, <1>5, <1>9, InShows DEF PostedTo
    <3>2. m \notin Showing(g)
      BY <1>3, <1>9, ShownPosted DEF MessageOf, PostedTo
    <3> QED BY <1>6, <3>1, <3>2
  <2>3. SameDigest(rows'[r].md, rows[r].md)
    BY <1>8, <1>9 DEF SameDigest
  <2>4. rows[r].md.msg # None => msgs'[rows[r].md.msg].text = msgs[rows[r].md.msg].text
    BY <1>3, <1>9 DEF TextInv, DigestOk, MessageOf
  <2> QED BY <1>1, <1>3, <2>1, <2>2, <2>3, <2>4, StoryKept
<1>10. CASE frames[f].row = r
  <2>1. PostedTo(r)' = PostedTo(r) \cup {f} /\ f \notin PostedTo(r)
    BY <1>1, <1>10 DEF PostedTo
  <2>2. m = rows[r].md.msg /\ old = rows[r].md.text /\ msgs[m].text = old
    BY <1>1, <1>2, <1>4, <1>10 DEF Agrees, SameDigest, Story, DigestShown
  <2>3. ASSUME NEW g \in PostedTo(r) PROVE g < f /\ Showing(g)' = Showing(g)
    <3>1. g # f /\ g < f
      BY <1>1, <1>10, <2>1
    <3>2. m \in Showing(g) <=> InText(g, text)
      BY <1>3, <1>5, <2>2, <3>1, ShowingIn
    <3> QED BY <1>6, <3>1, <3>2
  <2>4. Showing(f)' = {m}
    <3>1. Showing(f) = {}
      BY <1>1, ShownPosted
    <3> QED BY <1>5, <1>6, <3>1
  <2>5. frames[f].kind # "user" /\ ~Starts(f)
    BY DEF Edits, Starts
  <2>6. rows'[r].md.msg = IF frames[f].kind = "user" THEN None ELSE m
    BY <1>7, <1>8, <1>10, <2>5
  <2>7. DigestShown(r)'
    BY <1>3, <1>4, <1>7, <1>8, <1>10 DEF DigestShown
  <2> QED BY <1>1, <1>3, <1>4, <1>8, <2>1, <2>2, <2>3, <2>4, <2>5, <2>6, <2>7, StoryAdds
<1> QED BY <1>9, <1>10

LEMMA StoryDelivery ==
    ASSUME IInv, LinkInv, LinkInv', TopicInv, TopicInv', UserInv, TextInv, TextInv', TurnInv,
           Calm, Calm', DeliveryNext,
           NEW r \in RowIds', r \in RowIds => r \notin rushed /\ Story(r) /\ OneTopic(r)
    PROVE  Story(r)'
<1>1. ASSUME NEW c \in ConnIds, MakeTopic(c) \/ PostUser(c) \/ PostStep(c)
      PROVE  Story(r)'
  <2>1. PICK f : f = conn[c].drain.f
    OBVIOUS
  <2>2. Hides(c, f) \/ Sends(f) \/ Edits(f)
    BY <1>1, <2>1, DrainDigest
  <2>3. RowIds' = RowIds
    <3>1. f \in FrameIds /\ UNCHANGED frames
      BY <1>1, <2>1, DrainFinds
    <3>2. UNCHANGED rows \/ \E md \in MdSet : Save(f, md)
      BY <2>2 DEF Hides, Sends, Edits
    <3>3. CASE UNCHANGED rows
      BY <3>3 DEF RowIds
    <3>4. CASE \E md \in MdSet : Save(f, md)
      BY <3>1, <3>4, SaveEffect
    <3> QED BY <3>2, <3>3, <3>4
  <2> QED BY <1>1, <2>1, <2>2, <2>3, StoryHides, StorySends, StoryEdits
<1>2. ASSUME NEW c \in ConnIds, Receive(c) \/ Ready(c) PROVE Story(r)'
  <2>1. /\ UNCHANGED msgs /\ \A q \in RowIds : rows'[q] = rows[q]
        /\ \A q \in RowIds' \ RowIds : Blank(rows'[q].md)
    BY <1>2, IdsDiffer, ArrivalEffect
  <2>2. r \in RowIds => SameDigest(rows'[r].md, rows[r].md)
    BY <2>1 DEF SameDigest
  <2> QED BY <1>2, <2>1, <2>2, PostedStays, StoryStill
<1>3. ASSUME NEW c \in ConnIds, MarkStarted(c) PROVE Story(r)'
  <2>1. PICK f : f = conn[c].rx.f
    OBVIOUS
  <2>2. /\ f \in FrameIds /\ RowIds' = RowIds /\ UNCHANGED msgs
        /\ \A q \in RowIds : q # frames[f].row => rows'[q].md = rows[q].md
        /\ Agrees(rows'[frames[f].row].md, obj[f])
    BY <1>3, <2>1, MarkEffect
  <2>3. SameDigest(rows'[r].md, rows[r].md)
    <3>1. CASE frames[f].row = r
      <4>1. f \in Active(r)
        BY <1>3, <2>1, <2>2, <3>1 DEF Active
      <4> QED BY <2>2, <3>1, <4>1 DEF OneTopic, Agrees, SameDigest
    <3>2. CASE frames[f].row # r
      BY <2>2, <3>2 DEF SameDigest
    <3> QED BY <3>1, <3>2
  <2> QED BY <1>3, <2>2, <2>3, PostedStays, StoryStill
<1>4. ASSUME NEW c \in ConnIds, Record(c) \/ Take(c) \/ Disconnect(c) \/ Closed(c) \/ Cancel(c)
      PROVE  Story(r)'
  <2>1. UNCHANGED <<msgs, rows>>
    BY <1>4 DEF Record, Take, Disconnect, Closed, Cancel, rowVars
  <2>2. RowIds' = RowIds /\ SameDigest(rows'[r].md, rows[r].md)
    BY <2>1 DEF RowIds, SameDigest
  <2> QED BY <1>4, <2>1, <2>2, PostedStays, StoryStill
<1>5. CASE Connect \/ \E k \in dedup : DedupExpires(k)
  <2>1. UNCHANGED <<rows, frames, msgs, fate>>
    BY <1>5 DEF Connect, DedupExpires, rowVars
  <2>2. /\ RowIds' = RowIds /\ SameDigest(rows'[r].md, rows[r].md) /\ Posted' = Posted
        /\ \A f \in Posted : frames'[f] = frames[f]
    BY <2>1 DEF RowIds, SameDigest, Posted, FrameIds
  <2> QED BY <2>1, <2>2, StoryStill
<1> QED BY <1>1, <1>2, <1>3, <1>4, <1>5 DEF DeliveryNext, DrainStep

LEMMA StoryNext ==
    ASSUME IInv, LinkInv, LinkInv', TopicInv, TopicInv', UserInv, CalmInv, TextInv, TextInv',
           TurnInv, DigestInv, [Next]_vars
    PROVE  DigestInv'
<1> SUFFICES ASSUME Calm', NEW r \in RowIds' \ rushed' PROVE Story(r)'
  BY DEF DigestInv
<1>1. Calm /\ MetaShape
  <2>1. MetaShape /\ TroubleMounts
    BY NextMounts DEF TopicInv
  <2> QED BY <2>1, CalmBefore
<1>2. r \in RowIds => r \notin rushed /\ Story(r) /\ OneTopic(r)
  <2>1. rushed \subseteq rushed'
    BY DEF Next, vars
  <2> QED BY <1>1, <2>1 DEF DigestInv, CalmInv
<1>3. CASE StartNext /\ UNCHANGED deliveryVars
  <2>1. PICK s \in Callers : CallerStep(s) \/ Abort(s)
    BY <1>3 DEF StartNext
  <2>2. /\ r \in RowIds => SameDigest(rows'[r].md, rows[r].md)
        /\ r \notin RowIds => Blank(rows'[r].md)
    BY <1>2, <2>1, StartDigest DEF CalmInv
  <2>3. UNCHANGED <<msgs, frames, fate>>
    BY <1>3 DEF deliveryVars
  <2>4. Posted' = Posted /\ \A f \in Posted : frames'[f] = frames[f]
    BY <2>3 DEF Posted, FrameIds
  <2> QED BY <1>2, <2>2, <2>3, <2>4, StoryStill
<1>4. CASE DeliveryNext /\ UNCHANGED startVars
  BY <1>1, <1>2, <1>4, StoryDelivery
<1>5. ~\E t \in TopicIds : TopicDeleted(t)
  BY <1>1, NotCalm DEF TopicDeleted, TroubleKinds
<1>6. CASE UNCHANGED vars
  <2>1. UNCHANGED <<rows, frames, msgs, fate>>
    BY <1>6 DEF vars, rowVars, deliveryVars
  <2>2. /\ RowIds' = RowIds /\ SameDigest(rows'[r].md, rows[r].md) /\ Posted' = Posted
        /\ \A f \in Posted : frames'[f] = frames[f]
    BY <2>1 DEF RowIds, SameDigest, Posted, FrameIds
  <2> QED BY <1>2, <2>1, <2>2, StoryStill
<1> QED BY <1>3, <1>4, <1>5, <1>6 DEF Next

(* Messages of one row are in one topic: its only one. *)
LEMMA StoryIsOneMessage ==
    ASSUME TopicInv, TextInv, CalmInv, DigestInv
    PROVE  PacedDriveIsOneMessage
<1> SUFFICES ASSUME Calm, NEW f \in Posted, NEW g \in Posted, f < g,
                    frames[f].row = frames[g].row, frames[f].row \in RowIds \ rushed
             PROVE  \E m, n \in MsgIds :
                        /\ Showing(f) = {m} /\ Showing(g) = {n}
                        /\ msgs[m].topic = msgs[n].topic
                        /\ m <= n
                        /\ m = n <=> Continues(f, g)
  BY DEF PacedDriveIsOneMessage, OneMessagePerDrive
<1>1. PICK r : r = frames[f].row
  OBVIOUS
<1>2. r \in RowIds \ rushed /\ f \in PostedTo(r) /\ g \in PostedTo(r)
  BY <1>1 DEF PostedTo
<1>3. PICK m \in MsgIds, n \in MsgIds : /\ Showing(f) = {m} /\ Showing(g) = {n} /\ m <= n
                                        /\ m = n <=> Continues(f, g)
  BY <1>2 DEF DigestInv, Story, InOneMessage
<1>4. topics[msgs[m].topic].row = r /\ topics[msgs[n].topic].row = r
  BY <1>1, <1>3, ShownPosted
<1>5. msgs[m].topic \in TopicIds /\ msgs[n].topic \in TopicIds
  BY <1>3 DEF TextInv
<1>6. msgs[m].topic = msgs[n].topic
  BY <1>2, <1>4, <1>5 DEF CalmInv, OneTopic
<1> QED BY <1>3, <1>6

(* A drive's steps make up one message, edited as they come, and a reset or  *)
(* a user turn begins another, as long as nothing went wrong and each frame  *)
(* of the row is done with before the next one reads it: the copy of the     *)
(* metadata that _deliver_progress works on names the message being edited   *)
(* and what it shows, and is saved before it is read again.                  *)
THEOREM SpecPacedDriveIsOneMessage == Spec => []PacedDriveIsOneMessage
<1>1. Init => DigestInv
  BY DEF Init, RowsInit, DigestInv, RowIds
<1>2. /\ IInv /\ LinkInv /\ LinkInv' /\ TopicInv /\ TopicInv' /\ UserInv /\ CalmInv
      /\ TextInv /\ TextInv' /\ TurnInv /\ DigestInv /\ [Next]_vars
      => DigestInv'
  BY StoryNext
<1>3. TopicInv /\ TextInv /\ CalmInv /\ DigestInv => PacedDriveIsOneMessage
  BY StoryIsOneMessage
<1> QED BY <1>1, <1>2, <1>3, SpecIInv, SpecLinkInv, SpecTopicInv, SpecUserInv, SpecCalmInv,
           SpecTextInv, SpecTurnInv, PTL DEF Spec
=============================================================================
