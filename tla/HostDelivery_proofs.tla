------------------------- MODULE HostDelivery_proofs -------------------------
(***************************************************************************)
(* What the host agent passes on, for any number of events, connections,   *)
(* crashes, transcript lines, drives and tails.                            *)
(*                                                                         *)
(* The outbound queue (HostSender) keeps SenderInv: the places an event    *)
(* can wait in are disjoint, so it is sent once and once more per crash    *)
(* at most, and as long as no sender outlives its connection the places    *)
(* are in the order of production.  The transcript tail (TranscriptTail)   *)
(* keeps TailInv: each tail goes once through a stretch of the file of its *)
(* own, only the tail a drive found holds turns back, and no tail gets to  *)
(* the answers of a drive that succeeded, unless it was blind to them.     *)
(***************************************************************************)
EXTENDS TranscriptTail, HostSender, SequenceTheorems, FiniteSetTheorems,
        WellFoundedInduction, TLAPS

-----------------------------------------------------------------------------
(* What the tail and the queue pick from, in order. *)

(* Every finite set of positive numbers can be listed in ascending order. *)
LEMMA CanBeListed ==
    \A n \in Nat : \A I \in SUBSET (1 .. n) : \E m \in Nat : \E q \in [1 .. m -> I] : Lists(q, I)
<1> DEFINE P(n)   == \A I \in SUBSET (1 .. n) : \E m \in Nat : \E q \in [1 .. m -> I] : Lists(q, I)
           Without == {n \in Nat : ~ P(n)}
<1>1. SUFFICES ASSUME Without # {} PROVE FALSE
  OBVIOUS
<1>2. \E n \in Without : \A k \in Without : ~ (<<k, n>> \in OpToRel(<, Nat))
  <2>1. Without \subseteq Nat
    OBVIOUS
  <2> HIDE DEF Without
  <2> QED BY <1>1, <2>1, NatLessThanWellFounded, WFMin, Zenon
<1>3. PICK n \in Without : \A k \in Without : ~ (k < n)
  BY <1>2 DEF OpToRel
<1>4. PICK I \in SUBSET (1 .. n) : ~ \E m \in Nat : \E q \in [1 .. m -> I] : Lists(q, I)
  BY <1>3
<1>5. n # 0
  <2>1. ASSUME n = 0 PROVE FALSE
    <3>1. I = {}
      BY <2>1
    <3>2. [i \in 1 .. 0 |-> i] \in [1 .. 0 -> I] /\ Lists([i \in 1 .. 0 |-> i], I)
      BY <3>1 DEF Lists
    <3> QED BY <1>4, <3>2
  <2> QED BY <2>1
<1>6. P(n - 1)
  <2>1. n - 1 \in Nat /\ n - 1 < n
    BY <1>3, <1>5
  <2>2. n - 1 \notin Without
    BY <1>3, <2>1
  <2> QED BY <2>1, <2>2
<1>7. PICK m \in Nat : \E q \in [1 .. m -> I \ {n}] : Lists(q, I \ {n})
  <2>1. I \ {n} \in SUBSET (1 .. n - 1)
    BY <1>3, <1>4
  <2> QED BY <1>6, <2>1
<1>8. PICK q \in [1 .. m -> I \ {n}] : Lists(q, I \ {n})
  BY <1>7
<1>9. CASE n \notin I
  <2>1. I \ {n} = I
    BY <1>9
  <2> QED BY <1>4, <1>8, <2>1
<1>10. CASE n \in I
  <2> DEFINE p == [i \in 1 .. m + 1 |-> IF i <= m THEN q[i] ELSE n]
  <2>1. p \in [1 .. m + 1 -> I]
    BY <1>8, <1>10
  <2>2. ASSUME NEW i \in 1 .. m + 1, NEW j \in 1 .. m + 1, i < j PROVE p[i] < p[j]
    <3>1. i \in 1 .. m /\ p[i] = q[i]
      BY <2>2
    <3>2. q[i] \in 1 .. n /\ q[i] # n
      BY <1>8, <3>1
    <3>3. CASE j = m + 1
      BY <1>3, <3>1, <3>2, <3>3
    <3>4. CASE j \in 1 .. m
      BY <1>8, <2>2, <3>1, <3>4 DEF Lists
    <3> QED BY <2>2, <3>3, <3>4
  <2>3. ASSUME NEW k \in I PROVE \E i \in 1 .. m + 1 : p[i] = k
    <3>1. CASE k = n
      BY <3>1
    <3>2. CASE k # n
      <4>1. PICK i \in 1 .. m : q[i] = k
        BY <1>8, <3>2 DEF Lists
      <4> QED BY <4>1
    <3> QED BY <3>1, <3>2
  <2>4. DOMAIN p = 1 .. m + 1
    OBVIOUS
  <2> HIDE DEF p
  <2>5. Lists(p, I)
    BY <2>2, <2>3, <2>4 DEF Lists
  <2> QED BY <1>4, <2>1, <2>5
<1> QED BY <1>9, <1>10

(* Ascending lists what it is given. *)
LEMMA AscendingLists ==
    ASSUME NEW n \in Nat, NEW I \in SUBSET (1 .. n)
    PROVE  /\ Cardinality(I) \in Nat
           /\ Ascending(I) \in [1 .. Cardinality(I) -> I]
           /\ Lists(Ascending(I), I)
<1>1. PICK m \in Nat : \E q \in [1 .. m -> I] : Lists(q, I)
  BY CanBeListed
<1>2. PICK q \in [1 .. m -> I] : Lists(q, I)
  BY <1>1
<1>3. q \in Bijection(1 .. m, I)
  <2>1. \A i, j \in 1 .. m : q[i] = q[j] => i = j
    <3>1. \A i, j \in 1 .. m : i < j => q[i] < q[j]
      BY <1>2 DEF Lists
    <3>2. \A i \in 1 .. m : q[i] \in Int
      <4>1. I \subseteq Int
        OBVIOUS
      <4> QED BY <1>2, <4>1
    <3> QED BY <3>1, <3>2
  <2>2. \A k \in I : \E i \in 1 .. m : q[i] = k
    BY <1>2 DEF Lists
  <2> QED BY <1>2, <2>1, <2>2 DEF Bijection, Injection, Surjection, IsInjective
<1>4. Cardinality(I) = m
  BY <1>3, FS_CountingElements DEF ExistsBijection
<1> QED BY <1>2, <1>4 DEF Ascending

(* What is selected from a sequence: elements of it that are in the set,   *)
(* all of them, in their order.                                            *)
PlacesOf(p, m, s, T) ==
    /\ \A k \in 1 .. m : Selected(s, T)[k] = s[p[k]] /\ s[p[k]] \in T
    /\ \A k, l \in 1 .. m : k < l => p[k] < p[l]
    /\ \A i \in DOMAIN s : s[i] \in T => \E k \in 1 .. m : p[k] = i

LEMMA SelectedIs ==
    ASSUME NEW S, NEW s \in Seq(S), NEW T
    PROVE  /\ Selected(s, T) \in Seq(S \cap T)
           /\ \E p \in [1 .. Len(Selected(s, T)) -> DOMAIN s] :
                 PlacesOf(p, Len(Selected(s, T)), s, T)
<1> DEFINE I == {i \in DOMAIN s : s[i] \in T}
           p == Ascending(I)
           m == Cardinality(I)
<1>1. I \in SUBSET (1 .. Len(s)) /\ Len(s) \in Nat
  BY LenProperties
<1>2. m \in Nat /\ p \in [1 .. m -> I] /\ Lists(p, I)
  BY <1>1, AscendingLists
<1>3. Selected(s, T) = [k \in 1 .. m |-> s[p[k]]]
  BY <1>2 DEF Selected
<1> HIDE DEF p, m
<1>4. \A k \in 1 .. m : p[k] \in DOMAIN s /\ s[p[k]] \in S \cap T
  BY <1>2, ElementOfSeq, LenProperties
<1>5. [k \in 1 .. m |-> s[p[k]]] \in Seq(S \cap T) /\ Len([k \in 1 .. m |-> s[p[k]]]) = m
  BY <1>2, <1>4
<1>6. p \in [1 .. m -> DOMAIN s]
  BY <1>2
<1>7. \A k \in 1 .. m : Selected(s, T)[k] = s[p[k]] /\ s[p[k]] \in T
  BY <1>3, <1>4
<1>8. \A k, l \in 1 .. m : k < l => p[k] < p[l]
  BY <1>2, <1>6 DEF Lists
<1>9. \A i \in DOMAIN s : s[i] \in T => \E k \in 1 .. m : p[k] = i
  BY <1>2, <1>6 DEF Lists
<1> HIDE DEF I
<1>10. Selected(s, T) \in Seq(S \cap T) /\ Len(Selected(s, T)) = m
  BY <1>3, <1>5
<1> QED BY <1>2, <1>6, <1>7, <1>8, <1>9, <1>10 DEF PlacesOf

-----------------------------------------------------------------------------
(* The outbound queue: what it holds, and where. *)

(* What a file line can be. *)
FileLines == Events \cup {Torn, Garbled}

(* What is still to be sent from the file, and what the senders hold. *)
Waiting == IF phase = "drain" THEN batch ELSE file
Held    == {e \in Events : InHand(e)}
Times(e) == Cardinality({i \in DOMAIN sent : sent[i] = e})

(* No event is in two places from which a sender or the next drain takes   *)
(* it, and none is there that was not produced.                            *)
IncomingOnce == \A i, j \in DOMAIN incoming : incoming[i] = incoming[j] => i = j
FileOnce     == \A i, j \in DOMAIN file : (file[i] = file[j] /\ file[i] \in Events) => i = j
BatchOnce    == \A i, j \in DOMAIN batch : batch[i] = batch[j] => i = j
HandsOnce    ==
    /\ \A c \in Conns : sender[c].pc = "sending" => sender[c].event \in Events
    /\ \A c, d \in Conns : (sender[c].pc = "sending" /\ sender[d].pc = "sending"
                              /\ sender[c].event = sender[d].event) => c = d

Apart ==
    /\ ToSet(incoming) \cap Held = {} /\ ToSet(incoming) \cap ToSet(file) = {}
    /\ Held \cap ToSet(file) = {}
    /\ ToSet(batch) \subseteq ToSet(file)
    /\ phase # "drain" => batch = <<>>

Made ==
    /\ ToSet(incoming) \cup Held \cup ToSet(sent) \subseteq 1 .. produced
    /\ ToSet(file) \cap Events \subseteq 1 .. produced

OnePlace == IncomingOnce /\ FileOnce /\ BatchOnce /\ HandsOnce /\ Apart /\ Made

(* What is still to be sent was sent once per crash at most. *)
ToGo == ToSet(incoming) \cup Held \cup ToSet(Waiting)

OnceInv ==
    /\ OnePlace
    /\ \A e \in Events : /\ Times(e) <= 1 + crashes
                         /\ e \in ToGo => Times(e) <= crashes

Rises(s) == \A i, j \in DOMAIN s : i < j => s[i] < s[j]
Before(A, B) == \A a \in A, b \in B : a < b

InOrder ==
    /\ Rises(sent) /\ Rises(Waiting) /\ Rises(incoming)
    /\ Before(ToSet(sent), ToSet(Waiting) \cup Held \cup ToSet(incoming))
    /\ Before(ToSet(Waiting), Held \cup ToSet(incoming))
    /\ Before(Held, ToSet(incoming))

Alone == ~haunted /\ crashes = 0

AloneInv ==
    /\ phase = "down" => ~link
    /\ Alone =>
         /\ \A c \in Conns : Alive(c) => c = conn /\ phase # "drain"
         /\ file \in Seq(Events)
         /\ phase = "run" /\ link => file = <<>>
         /\ InOrder
         /\ Accepted \subseteq ToSet(sent) \cup ToSet(Waiting) \cup Held \cup ToSet(incoming)

SenderInv == SenderTypeOK /\ OnceInv /\ AloneInv

-----------------------------------------------------------------------------
(* Sequences as sets. *)
LEMMA SetOfSeq ==
    ASSUME NEW S, NEW s \in Seq(S)
    PROVE  /\ ToSet(s) \subseteq S /\ DOMAIN s = 1 .. Len(s) /\ Len(s) \in Nat
           /\ \A e : e \in ToSet(s) <=> \E i \in 1 .. Len(s) : s[i] = e
BY ElementOfSeq, LenProperties DEF ToSet

LEMMA SetOfEmpty == ToSet(<<>>) = {} /\ DOMAIN <<>> = {}
BY DEF ToSet

LEMMA AppendAdds ==
    ASSUME NEW S, NEW s \in Seq(S), NEW e \in S
    PROVE  /\ ToSet(Append(s, e)) = ToSet(s) \cup {e}
           /\ \A i \in DOMAIN Append(s, e) :
                 \/ i \in DOMAIN s /\ i <= Len(s) /\ Append(s, e)[i] = s[i]
                 \/ i = Len(s) + 1 /\ Append(s, e)[i] = e
           /\ Len(s) \in Nat /\ DOMAIN s = 1 .. Len(s)
           /\ DOMAIN Append(s, e) = 1 .. Len(s) + 1
           /\ Append(s, e) \in Seq(S)
<1>1. /\ Append(s, e) \in Seq(S) /\ Len(Append(s, e)) = Len(s) + 1
      /\ \A i \in 1 .. Len(s) : Append(s, e)[i] = s[i]
      /\ Append(s, e)[Len(s) + 1] = e
  BY AppendProperties
<1>2. Len(s) \in Nat /\ DOMAIN s = 1 .. Len(s)
  BY LenProperties
<1>3. DOMAIN Append(s, e) = 1 .. Len(s) + 1
  BY <1>1, LenProperties
<1>4. \A i \in 1 .. Len(s) + 1 : i \in 1 .. Len(s) \/ i = Len(s) + 1
  BY <1>2
<1>5. ToSet(Append(s, e)) = ToSet(s) \cup {e}
  <2>1. \A i \in 1 .. Len(s) + 1 : Append(s, e)[i] \in ToSet(s) \cup {e}
    BY <1>1, <1>2, <1>4 DEF ToSet
  <2>2. \A i \in DOMAIN s : \E j \in DOMAIN Append(s, e) : Append(s, e)[j] = s[i]
    BY <1>1, <1>2, <1>3
  <2>3. Len(s) + 1 \in DOMAIN Append(s, e)
    BY <1>2, <1>3
  <2> QED BY <1>1, <1>3, <2>1, <2>2, <2>3 DEF ToSet
<1> QED BY <1>1, <1>2, <1>3, <1>4, <1>5

LEMMA TailTakes ==
    ASSUME NEW S, NEW s \in Seq(S), s # <<>>
    PROVE  /\ Head(s) = s[1] /\ 1 \in DOMAIN s /\ Head(s) \in S
           /\ Tail(s) \in Seq(S)
           /\ ToSet(s) = {Head(s)} \cup ToSet(Tail(s))
           /\ \A i \in DOMAIN Tail(s) : i + 1 \in DOMAIN s /\ i \in Nat /\ i >= 1
                                        /\ Tail(s)[i] = s[i + 1]
<1>1. /\ Head(s) \in S /\ Tail(s) \in Seq(S) /\ Len(Tail(s)) = Len(s) - 1
      /\ \A i \in 1 .. Len(Tail(s)) : Tail(s)[i] = s[i + 1]
  BY HeadTailProperties
<1>2. Len(s) \in Nat \ {0} /\ DOMAIN s = 1 .. Len(s) /\ DOMAIN Tail(s) = 1 .. Len(s) - 1
  BY <1>1, LenProperties, EmptySeq
<1>3. Head(s) = s[1]
  OBVIOUS
<1>4. \A i \in DOMAIN s : i = 1 \/ (i - 1 \in DOMAIN Tail(s) /\ s[i] = Tail(s)[i - 1])
  BY <1>1, <1>2
<1>5. \A i \in DOMAIN Tail(s) : i + 1 \in DOMAIN s /\ Tail(s)[i] = s[i + 1]
  BY <1>1, <1>2
<1>6. ToSet(s) = {Head(s)} \cup ToSet(Tail(s))
  <2>1. \A i \in DOMAIN s : s[i] \in {Head(s)} \cup ToSet(Tail(s))
    BY <1>3, <1>4 DEF ToSet
  <2>2. \A i \in DOMAIN Tail(s) : Tail(s)[i] \in ToSet(s)
    BY <1>5 DEF ToSet
  <2>3. Head(s) \in ToSet(s)
    BY <1>2, <1>3 DEF ToSet
  <2>4. ToSet(s) \subseteq {Head(s)} \cup ToSet(Tail(s))
    BY <2>1 DEF ToSet
  <2>5. ToSet(Tail(s)) \subseteq ToSet(s)
    BY <2>2 DEF ToSet
  <2> QED BY <2>3, <2>4, <2>5
<1> QED BY <1>1, <1>2, <1>3, <1>5, <1>6

(* What comes after the head of a queue without repetitions is not it. *)
LEMMA HeadIsGone ==
    ASSUME NEW S, NEW s \in Seq(S), s # <<>>,
           \A i, j \in DOMAIN s : s[i] = s[j] => i = j
    PROVE  /\ Head(s) \notin ToSet(Tail(s))
           /\ \A i, j \in DOMAIN Tail(s) : Tail(s)[i] = Tail(s)[j] => i = j
<1>1. /\ Head(s) = s[1] /\ 1 \in DOMAIN s
      /\ \A i \in DOMAIN Tail(s) : i + 1 \in DOMAIN s /\ i \in Nat /\ i >= 1
                                   /\ Tail(s)[i] = s[i + 1]
  BY TailTakes
<1>2. \A i \in DOMAIN Tail(s) : Tail(s)[i] # Head(s)
  BY <1>1
<1>3. \A i, j \in DOMAIN Tail(s) : Tail(s)[i] = Tail(s)[j] => i = j
  <2> SUFFICES ASSUME NEW i \in DOMAIN Tail(s), NEW j \in DOMAIN Tail(s), Tail(s)[i] = Tail(s)[j]
               PROVE  i = j
    OBVIOUS
  <2>1. s[i + 1] = s[j + 1] /\ i + 1 \in DOMAIN s /\ j + 1 \in DOMAIN s
    BY <1>1
  <2>2. i + 1 = j + 1
    BY <2>1
  <2> QED BY <1>1, <2>2
<1> QED BY <1>2, <1>3 DEF ToSet

(* Rising sequences. *)
LEMMA RisesAppend ==
    ASSUME NEW S \in SUBSET Int, NEW s \in Seq(S), NEW e \in S, Rises(s), Before(ToSet(s), {e})
    PROVE  Rises(Append(s, e))
<1>1. /\ \A i \in DOMAIN Append(s, e) :
            \/ i \in DOMAIN s /\ i <= Len(s) /\ Append(s, e)[i] = s[i]
            \/ i = Len(s) + 1 /\ Append(s, e)[i] = e
      /\ Len(s) \in Nat /\ DOMAIN Append(s, e) = 1 .. Len(s) + 1
  BY AppendAdds
<1>2. \A i \in DOMAIN s : s[i] < e
  BY DEF Before, ToSet
<1> SUFFICES ASSUME NEW i \in DOMAIN Append(s, e), NEW j \in DOMAIN Append(s, e), i < j
             PROVE  Append(s, e)[i] < Append(s, e)[j]
  BY DEF Rises
<1>3. i \in DOMAIN s /\ Append(s, e)[i] = s[i]
  BY <1>1
<1> QED BY <1>1, <1>2, <1>3 DEF Rises

LEMMA RisesTail ==
    ASSUME NEW S \in SUBSET Int, NEW s \in Seq(S), s # <<>>, Rises(s)
    PROVE  Rises(Tail(s)) /\ Before({Head(s)}, ToSet(Tail(s)))
<1>1. /\ Head(s) = s[1] /\ 1 \in DOMAIN s
      /\ \A i \in DOMAIN Tail(s) : i + 1 \in DOMAIN s /\ i \in Nat /\ i >= 1
                                   /\ Tail(s)[i] = s[i + 1]
  BY TailTakes
<1>2. Rises(Tail(s))
  <2> SUFFICES ASSUME NEW i \in DOMAIN Tail(s), NEW j \in DOMAIN Tail(s), i < j
               PROVE  Tail(s)[i] < Tail(s)[j]
    BY DEF Rises
  <2>1. i + 1 < j + 1
    BY <1>1
  <2> QED BY <1>1, <2>1 DEF Rises
<1>3. \A i \in DOMAIN Tail(s) : Head(s) < Tail(s)[i]
  <2> SUFFICES ASSUME NEW i \in DOMAIN Tail(s) PROVE Head(s) < Tail(s)[i]
    OBVIOUS
  <2>1. 1 < i + 1
    BY <1>1
  <2> QED BY <1>1, <2>1 DEF Rises
<1> QED BY <1>2, <1>3 DEF Before, ToSet

(* What is selected keeps its order and comes without repetitions.         *)
LEMMA SelectedKeeps ==
    ASSUME NEW S, NEW s \in Seq(S), NEW T
    PROVE  /\ Selected(s, T) \in Seq(S \cap T)
           /\ ToSet(Selected(s, T)) = ToSet(s) \cap T
           /\ Rises(s) => Rises(Selected(s, T))
           /\ (\A i, j \in DOMAIN s : (s[i] = s[j] /\ s[i] \in T) => i = j)
                 => \A i, j \in DOMAIN Selected(s, T) :
                       Selected(s, T)[i] = Selected(s, T)[j] => i = j
<1> DEFINE m == Len(Selected(s, T))
<1>1. PICK p \in [1 .. m -> DOMAIN s] : PlacesOf(p, m, s, T)
  BY SelectedIs
<1>2. /\ Selected(s, T) \in Seq(S \cap T)
      /\ \A k \in 1 .. m : Selected(s, T)[k] = s[p[k]] /\ s[p[k]] \in T
      /\ \A k, l \in 1 .. m : k < l => p[k] < p[l]
      /\ \A i \in DOMAIN s : s[i] \in T => \E k \in 1 .. m : p[k] = i
  BY <1>1, SelectedIs DEF PlacesOf
<1>3. DOMAIN Selected(s, T) = 1 .. m /\ DOMAIN s \subseteq Int
  BY <1>2, LenProperties
<1> HIDE DEF m
<1>4. \A k \in 1 .. m : p[k] \in DOMAIN s /\ p[k] \in Int
  BY <1>3
<1>5. ToSet(Selected(s, T)) = ToSet(s) \cap T
  <2>1. \A e \in ToSet(Selected(s, T)) : e \in ToSet(s) \cap T
    BY <1>2, <1>3, <1>4 DEF ToSet
  <2>2. ASSUME NEW e \in ToSet(s) \cap T PROVE e \in ToSet(Selected(s, T))
    <3>1. PICK i \in DOMAIN s : s[i] = e
      BY DEF ToSet
    <3>2. PICK k \in 1 .. m : p[k] = i
      BY <1>2, <3>1
    <3>3. Selected(s, T)[k] = e
      BY <1>2, <3>1, <3>2
    <3> QED BY <1>3, <3>3 DEF ToSet
  <2> QED BY <2>1, <2>2
<1>6. Rises(s) => Rises(Selected(s, T))
  BY <1>2, <1>3, <1>4 DEF Rises
<1>7. ASSUME \A i, j \in DOMAIN s : (s[i] = s[j] /\ s[i] \in T) => i = j,
             NEW k \in 1 .. m, NEW l \in 1 .. m, Selected(s, T)[k] = Selected(s, T)[l]
      PROVE  k = l
  <2>1. p[k] = p[l]
    BY <1>2, <1>4, <1>7
  <2>2. ~ (k < l) /\ ~ (l < k)
    BY <1>2, <1>4, <2>1
  <2> QED BY <2>2
<1> QED BY <1>2, <1>3, <1>5, <1>6, <1>7
-----------------------------------------------------------------------------
(* The outbound queue: types. *)
LEMMA EnqueueIs ==
    ASSUME NEW lines \in Seq(FileLines), NEW e \in Events
    PROVE  /\ Enqueue(lines, e) \in Seq(FileLines)
           /\ Len(lines) \in Nat /\ DOMAIN lines = 1 .. Len(lines)
           /\ \A i \in DOMAIN Enqueue(lines, e) :
                 \/ i \in DOMAIN lines /\ Enqueue(lines, e)[i] = lines[i]
                 \/ i = Len(lines) + 1 /\ Enqueue(lines, e)[i] = e
                 \/ Enqueue(lines, e)[i] = Garbled
           /\ \A i \in DOMAIN lines : lines[i] \in Events =>
                 i \in DOMAIN Enqueue(lines, e) /\ Enqueue(lines, e)[i] = lines[i]
           /\ (\A i \in DOMAIN lines : lines[i] # Torn) => Enqueue(lines, e) = Append(lines, e)
<1>1. Len(lines) \in Nat /\ DOMAIN lines = 1 .. Len(lines)
  BY LenProperties
<1>2. e \in FileLines /\ Garbled \in FileLines
  BY DEF FileLines
<1>3. CASE lines # <<>> /\ Last(lines) = Torn
  <2> DEFINE t == Front(lines)
  <2>1. Enqueue(lines, e) = Append(t, Garbled)
    BY <1>3 DEF Enqueue
  <2>2. Len(lines) >= 1
    BY <1>1, <1>3, EmptySeq
  <2>3. t \in Seq(FileLines) /\ Len(t) = Len(lines) - 1 /\ \A i \in 1 .. Len(t) : t[i] = lines[i]
    <3>1. \A i \in 1 .. Len(lines) - 1 : lines[i] \in FileLines
      BY <1>1, ElementOfSeq
    <3>2. Len(lines) - 1 \in Int
      BY <1>1
    <3> QED BY <1>1, <2>2, <3>1, <3>2, SubSeqProperties DEF Front
  <2> HIDE DEF t
  <2>4. /\ Append(t, Garbled) \in Seq(FileLines)
        /\ DOMAIN Append(t, Garbled) = 1 .. Len(lines)
        /\ \A i \in 1 .. Len(lines) - 1 : Append(t, Garbled)[i] = lines[i]
        /\ Append(t, Garbled)[Len(lines)] = Garbled
    <3>1. /\ Append(t, Garbled) \in Seq(FileLines) /\ Len(Append(t, Garbled)) = Len(lines)
          /\ \A i \in 1 .. Len(t) : Append(t, Garbled)[i] = t[i]
          /\ Append(t, Garbled)[Len(lines)] = Garbled
      <4>1. /\ Append(t, Garbled) \in Seq(FileLines) /\ Len(Append(t, Garbled)) = Len(t) + 1
            /\ \A i \in 1 .. Len(t) : Append(t, Garbled)[i] = t[i]
            /\ Append(t, Garbled)[Len(t) + 1] = Garbled
        BY <1>2, <2>3, AppendProperties
      <4>2. Len(t) + 1 = Len(lines)
        BY <1>1, <2>3
      <4> QED BY <4>1, <4>2
    <3> QED BY <2>3, <3>1, LenProperties
  <2>5. lines[Len(lines)] = Torn /\ Torn \notin Events
    BY <1>3 DEF Last, Torn, Events
  <2>6. \A i \in 1 .. Len(lines) : i \in 1 .. Len(lines) - 1 \/ i = Len(lines)
    <3>1. \A n \in Nat : \A i \in 1 .. n : i \in 1 .. n - 1 \/ i = n
      OBVIOUS
    <3> QED BY <1>1, <3>1, Zenon
  <2>7. Len(lines) \in DOMAIN lines
    BY <1>1, <2>2
  <2>8. ~ \A i \in DOMAIN lines : lines[i] # Torn
    BY <2>5, <2>7
  <2>9. \A i \in DOMAIN lines : lines[i] \in Events => i \in 1 .. Len(lines) - 1
    BY <1>1, <2>5, <2>6
  <2> DEFINE new == Append(t, Garbled)
  <2> HIDE DEF new
  <2>10. /\ Enqueue(lines, e) = new /\ new \in Seq(FileLines) /\ DOMAIN new = 1 .. Len(lines)
         /\ \A i \in 1 .. Len(lines) - 1 : new[i] = lines[i]
         /\ new[Len(lines)] = Garbled
    BY <2>1, <2>4 DEF new
  <2>11. \A i \in DOMAIN new : (i \in DOMAIN lines /\ new[i] = lines[i]) \/ new[i] = Garbled
    BY <1>1, <2>6, <2>10
  <2>12. \A i \in DOMAIN lines : lines[i] \in Events => i \in DOMAIN new /\ new[i] = lines[i]
    BY <1>1, <2>9, <2>10
  <2> QED BY <1>1, <2>8, <2>10, <2>11, <2>12
<1>4. CASE ~ (lines # <<>> /\ Last(lines) = Torn)
  <2>1. Enqueue(lines, e) = Append(lines, e)
    BY <1>4 DEF Enqueue
  <2>2. /\ \A i \in DOMAIN Append(lines, e) :
              \/ i \in DOMAIN lines /\ Append(lines, e)[i] = lines[i]
              \/ i = Len(lines) + 1 /\ Append(lines, e)[i] = e
        /\ Append(lines, e) \in Seq(FileLines)
        /\ DOMAIN Append(lines, e) = 1 .. Len(lines) + 1
    BY <1>2, AppendAdds
  <2>3. \A i \in DOMAIN lines : i \in 1 .. Len(lines) + 1 /\ Append(lines, e)[i] = lines[i]
    BY <1>1, <1>2, AppendProperties
  <2> QED BY <1>1, <2>1, <2>2, <2>3
<1> QED BY <1>3, <1>4

(* What a sender can be. *)
SenderSet == [pc : {"none", "idle", "sending", "dead"}, event : Events \cup {None}]

LEMMA NumbersAre ==
    /\ MaxEvents \in Nat /\ MaxConnects \in Nat /\ MaxCrashes \in Nat
    /\ Events \subseteq Nat /\ Conns \subseteq Nat
    /\ None \notin Events /\ Torn \notin Events /\ Garbled \notin Events
    /\ NoSender \in SenderSet /\ IdleSender \in SenderSet /\ DeadSender \in SenderSet
BY HostSenderAssumption DEF Events, Conns, None, Torn, Garbled, NoSender, IdleSender, DeadSender,
                            SenderSet

(* What the drain makes of the file. *)
LEMMA DrainReads ==
    ASSUME SenderTypeOK
    PROVE  /\ ReadAll(file) \in Seq(Events) /\ ToSet(ReadAll(file)) = ToSet(file) \cap Events
           /\ Selected(ReadAll(file), Events \ Oversized) \in Seq(Events)
<1>1. file \in Seq(FileLines)
  BY DEF SenderTypeOK, FileLines
<1>2. ReadAll(file) \in Seq(FileLines \cap Events) /\ ToSet(ReadAll(file)) = ToSet(file) \cap Events
  BY <1>1, SelectedKeeps DEF ReadAll
<1>3. ReadAll(file) \in Seq(Events)
  BY <1>2, SeqMonotonic
<1>4. Selected(ReadAll(file), Events \ Oversized) \in Seq(Events \cap (Events \ Oversized))
  BY <1>3, SelectedKeeps
<1> QED BY <1>2, <1>3, <1>4, SeqMonotonic

LEMMA SenderTypeKept ==
    ASSUME SenderTypeOK, SenderNext, \A c \in Conns : sender[c].pc = "sending" => sender[c].event \in Events
    PROVE  SenderTypeOK'
<1> USE NumbersAre
<1> DEFINE NewSender(c, x) == [sender EXCEPT ![c] = x]
<1>0. sender \in [Conns -> SenderSet]
  BY DEF SenderTypeOK, SenderSet
<1>1. \A c, x : x \in SenderSet => NewSender(c, x) \in [Conns -> SenderSet]
  BY <1>0
<1> HIDE DEF NewSender
<1>2. CASE Produce
  <2>1. produced + 1 \in Events /\ produced' \in 0 .. MaxEvents
    BY <1>2 DEF Produce, SenderTypeOK, Events
  <2>2. Append(incoming, produced + 1) \in Seq(Events)
    BY <2>1, AppendProperties DEF SenderTypeOK
  <2> QED BY <1>2, <2>1, <2>2 DEF Produce, SenderTypeOK
<1>3. CASE Connect
  <2>1. conn' \in 0 .. MaxConnects /\ link' \in BOOLEAN /\ haunted' \in BOOLEAN
    BY <1>3 DEF Connect, SenderTypeOK
  <2>2. batch' \in Seq(Events)
    BY <1>3, DrainReads DEF Connect
  <2>3. phase' \in {"drain", "run"} /\ (file' = file \/ file' = <<>>)
    BY <1>3 DEF Connect, StartGather
  <2>4. sender' = sender \/ sender' = NewSender(conn + 1, IdleSender)
    BY <1>3 DEF Connect, StartGather, NewSender
  <2>5. file' \in Seq(FileLines)
    BY <2>3, EmptySeq DEF SenderTypeOK, FileLines
  <2>6. sender' \in [Conns -> SenderSet]
    BY <1>0, <1>1, <2>4
  <2> QED BY <1>3, <2>1, <2>2, <2>3, <2>5, <2>6 DEF Connect, SenderTypeOK, FileLines, SenderSet
<1>4. CASE DrainSend
  <2>1. Head(batch) \in Events /\ Tail(batch) \in Seq(Events)
    BY <1>4, HeadTailProperties DEF DrainSend, SenderTypeOK
  <2>2. Append(sent, Head(batch)) \in Seq(Events)
    BY <2>1, AppendProperties DEF SenderTypeOK
  <2> QED BY <1>4, <2>1, <2>2 DEF DrainSend, SenderTypeOK
<1>5. CASE DrainFail
  <2>1. batch \in Seq(FileLines) /\ <<>> \in Seq(Events)
    BY SeqMonotonic, EmptySeq DEF SenderTypeOK, FileLines
  <2>2. NewSender(conn, IdleSender) \in [Conns -> SenderSet]
    BY <1>1
  <2> QED BY <1>5, <2>1, <2>2 DEF DrainFail, StartGather, SenderTypeOK, FileLines, SenderSet, NewSender
<1>6. CASE DrainEnd
  <2>1. <<>> \in Seq(FileLines)
    BY EmptySeq
  <2>2. NewSender(conn, IdleSender) \in [Conns -> SenderSet]
    BY <1>1
  <2> QED BY <1>6, <2>1, <2>2 DEF DrainEnd, StartGather, SenderTypeOK, FileLines, SenderSet, NewSender
<1>7. ASSUME NEW c \in Conns, SenderTake(c) PROVE SenderTypeOK'
  <2>1. Head(incoming) \in Events /\ Tail(incoming) \in Seq(Events)
    BY <1>7, HeadTailProperties DEF SenderTake, SenderTypeOK
  <2>2. [pc |-> "sending", event |-> Head(incoming)] \in SenderSet
    BY <2>1 DEF SenderSet
  <2>3. sender' \in [Conns -> SenderSet]
    BY <1>1, <1>7, <2>2 DEF SenderTake, NewSender
  <2> QED BY <1>7, <2>1, <2>3 DEF SenderTake, SenderTypeOK, SenderSet
<1>8. ASSUME NEW c \in Conns, SendOk(c) PROVE SenderTypeOK'
  <2>1. Append(sent, sender[c].event) \in Seq(Events)
    BY <1>8, AppendProperties DEF SendOk, SenderTypeOK
  <2>2. sender' \in [Conns -> SenderSet]
    BY <1>1, <1>8 DEF SendOk, NewSender
  <2> QED BY <1>8, <2>1, <2>2 DEF SendOk, SenderTypeOK, SenderSet
<1>9. ASSUME NEW c \in Conns, SendFail(c) PROVE SenderTypeOK'
  <2>1. file \in Seq(FileLines) /\ sender[c].event \in Events
    BY <1>9 DEF SendFail, SenderTypeOK, FileLines
  <2>2. file' \in Seq(FileLines)
    BY <1>9, <2>1, EnqueueIs DEF SendFail
  <2>3. sender' \in [Conns -> SenderSet]
    BY <1>1, <1>9 DEF SendFail, NewSender
  <2>4. phase' \in {"down", "drain", "run"} /\ link' \in BOOLEAN
    BY <1>9 DEF SendFail, Raise, SenderTypeOK
  <2> QED BY <1>9, <2>2, <2>3, <2>4 DEF SendFail, SenderTypeOK, FileLines, SenderSet
<1>10. CASE LinkDrop
  BY <1>10 DEF LinkDrop, SenderTypeOK
<1>11. CASE Teardown
  BY <1>11 DEF Teardown, SenderTypeOK
<1>12. CASE Crash
  <2>1. <<>> \in Seq(Events)
    BY EmptySeq
  <2>2. file' \in Seq(FileLines)
    <3>1. file \in Seq(FileLines) /\ Torn \in FileLines
      BY DEF SenderTypeOK, FileLines
    <3>2. file' = file \/ file' = Append(file, Torn)
      BY <1>12 DEF Crash
    <3> QED BY <3>1, <3>2, AppendProperties
  <2>3. sender' \in [Conns -> SenderSet]
    BY <1>12 DEF Crash
  <2>4. crashes' \in 0 .. MaxCrashes
    BY <1>12 DEF Crash, SenderTypeOK
  <2> QED BY <1>12, <2>1, <2>2, <2>3, <2>4 DEF Crash, SenderTypeOK, FileLines, SenderSet
<1> QED BY <1>2, <1>3, <1>4, <1>5, <1>6, <1>7, <1>8, <1>9, <1>10, <1>11, <1>12
        DEF SenderNext, SenderStep

-----------------------------------------------------------------------------
(* The outbound queue: how often an event is sent. *)
LEMMA TimesIs ==
    ASSUME sent \in Seq(Events), NEW e
    PROVE  Times(e) \in Nat /\ (e \notin ToSet(sent) => Times(e) = 0)
<1>1. DOMAIN sent = 1 .. Len(sent) /\ Len(sent) \in Nat
  BY LenProperties
<1>2. IsFiniteSet(DOMAIN sent)
  BY <1>1, FS_Interval
<1>3. {i \in DOMAIN sent : sent[i] = e} \in SUBSET DOMAIN sent
  OBVIOUS
<1>4. IsFiniteSet({i \in DOMAIN sent : sent[i] = e})
  BY <1>2, <1>3, FS_Subset
<1>5. e \notin ToSet(sent) => {i \in DOMAIN sent : sent[i] = e} = {}
  BY DEF ToSet
<1> QED BY <1>4, <1>5, FS_CardinalityType, FS_EmptySet DEF Times

LEMMA TimesSent ==
    ASSUME sent \in Seq(Events), NEW e \in Events, sent' = Append(sent, e)
    PROVE  Times(e)' = Times(e) + 1 /\ \A d \in Events : d # e => Times(d)' = Times(d)
<1>1. /\ Len(sent) \in Nat /\ DOMAIN sent = 1 .. Len(sent) /\ DOMAIN sent' = 1 .. Len(sent) + 1
      /\ \A i \in 1 .. Len(sent) : sent'[i] = sent[i]
      /\ sent'[Len(sent) + 1] = e
  BY AppendAdds, AppendProperties
<1>2. \A i \in 1 .. Len(sent) + 1 : i \in 1 .. Len(sent) \/ i = Len(sent) + 1
  BY <1>1
<1>3. Len(sent) + 1 \in DOMAIN sent' /\ Len(sent) + 1 \notin DOMAIN sent /\ DOMAIN sent \subseteq DOMAIN sent'
  BY <1>1
<1>4. IsFiniteSet({i \in DOMAIN sent : sent[i] = e})
  <2>1. IsFiniteSet(DOMAIN sent)
    BY <1>1, FS_Interval
  <2>2. {i \in DOMAIN sent : sent[i] = e} \in SUBSET DOMAIN sent
    OBVIOUS
  <2> QED BY <2>1, <2>2, FS_Subset
<1>5. {i \in DOMAIN sent' : sent'[i] = e} = {i \in DOMAIN sent : sent[i] = e} \cup {Len(sent) + 1}
  BY <1>1, <1>2, <1>3
<1>6. Cardinality({i \in DOMAIN sent' : sent'[i] = e}) = Cardinality({i \in DOMAIN sent : sent[i] = e}) + 1
  <2>1. Len(sent) + 1 \notin {i \in DOMAIN sent : sent[i] = e}
    BY <1>3
  <2> QED BY <1>4, <1>5, <2>1, FS_AddElement
<1>7. \A d \in Events : d # e =>
         {i \in DOMAIN sent' : sent'[i] = d} = {i \in DOMAIN sent : sent[i] = d}
  BY <1>1, <1>2, <1>3
<1> QED BY <1>6, <1>7 DEF Times

(* What a step has to show of the places for OnceInv. *)
LEMMA OnceKept ==
    ASSUME SenderTypeOK, OnceInv, OnePlace',
           \/ /\ sent' = sent /\ crashes' = crashes
              /\ \A e \in Events \cap ToGo' : e \in ToGo \/ e \notin ToSet(sent)
           \/ \E x \in Events : /\ sent' = Append(sent, x) /\ crashes' = crashes
                                /\ x \in ToGo /\ x \notin ToGo' /\ Events \cap ToGo' \subseteq ToGo
           \/ sent' = sent /\ crashes' = crashes + 1
    PROVE  OnceInv'
<1>1. sent \in Seq(Events) /\ crashes \in Nat
  BY NumbersAre DEF SenderTypeOK
<1>2. SUFFICES ASSUME NEW e \in Events
               PROVE  Times(e)' <= 1 + crashes' /\ (e \in ToGo' => Times(e)' <= crashes')
  BY DEF OnceInv
<1>3. Times(e) \in Nat /\ (e \notin ToSet(sent) => Times(e) = 0)
  BY <1>1, TimesIs
<1>4. Times(e) <= 1 + crashes /\ (e \in ToGo => Times(e) <= crashes)
  BY <1>2 DEF OnceInv
<1>5. CASE sent' = sent
  <2>1. Times(e)' = Times(e)
    BY <1>5 DEF Times
  <2> QED BY <1>1, <1>2, <1>3, <1>4, <1>5, <2>1, AppendProperties
<1>6. CASE \E x \in Events : /\ sent' = Append(sent, x) /\ crashes' = crashes
                             /\ x \in ToGo /\ x \notin ToGo' /\ Events \cap ToGo' \subseteq ToGo
  <2>1. PICK x \in Events : /\ sent' = Append(sent, x) /\ crashes' = crashes
                            /\ x \in ToGo /\ x \notin ToGo' /\ Events \cap ToGo' \subseteq ToGo
    BY <1>6
  <2>2. Times(x)' = Times(x) + 1 /\ \A d \in Events : d # x => Times(d)' = Times(d)
    BY <1>1, <2>1, TimesSent
  <2>3. CASE e = x
    BY <1>1, <1>3, <1>4, <2>1, <2>2, <2>3
  <2>4. CASE e # x
    BY <1>1, <1>2, <1>3, <1>4, <2>1, <2>2, <2>4
  <2> QED BY <2>3, <2>4
<1> QED BY <1>5, <1>6

(* A sender that stops holding what it held, or that is new. *)
LEMMA HandEmpties ==
    ASSUME SenderTypeOK, HandsOnce, NEW c, NEW x \in SenderSet, x.pc # "sending",
           sender' = [sender EXCEPT ![c] = x]
    PROVE  /\ HandsOnce' /\ Held' \subseteq Held
           /\ (c \in Conns /\ sender[c].pc = "sending") =>
                 /\ sender[c].event \in Held
                 /\ Held' = Held \ {sender[c].event}
<1>1. sender \in [Conns -> SenderSet]
  BY DEF SenderTypeOK, SenderSet
<1>2. \A d \in Conns : /\ sender'[d].pc = "sending" => d # c
                       /\ d # c => sender'[d] = sender[d]
  BY <1>1
<1>3. HandsOnce' /\ Held' \subseteq Held
  BY <1>2 DEF HandsOnce, Held, InHand
<1>4. ASSUME c \in Conns, sender[c].pc = "sending"
      PROVE  sender[c].event \in Held /\ Held' = Held \ {sender[c].event}
  <2>1. sender[c].event \in Held
    BY <1>4 DEF HandsOnce, Held, InHand
  <2>2. sender[c].event \notin Held'
    BY <1>2, <1>4 DEF HandsOnce, Held, InHand
  <2>3. \A e \in Held : e # sender[c].event => e \in Held'
    BY <1>2 DEF Held, InHand
  <2> QED BY <1>3, <2>1, <2>2, <2>3
<1> QED BY <1>3, <1>4

LEMMA HandTakes ==
    ASSUME SenderTypeOK, HandsOnce, NEW c \in Conns, NEW e \in Events, e \notin Held,
           sender[c].pc # "sending",
           sender' = [sender EXCEPT ![c] = [pc |-> "sending", event |-> e]]
    PROVE  HandsOnce' /\ Held' = Held \cup {e}
<1>1. sender \in [Conns -> SenderSet]
  BY DEF SenderTypeOK, SenderSet
<1>2. /\ \A d \in Conns : d # c => sender'[d] = sender[d]
      /\ sender'[c].pc = "sending" /\ sender'[c].event = e
  BY <1>1
<1>3. \A d \in Conns : sender[d].pc = "sending" => sender[d].event # e
  BY DEF Held, InHand
<1>4. HandsOnce'
  BY <1>2, <1>3 DEF HandsOnce
<1> QED BY <1>2, <1>4 DEF Held, InHand

-----------------------------------------------------------------------------
(* A queue without repetitions that gets a new element. *)
LEMMA OnceMore ==
    ASSUME NEW S, NEW s \in Seq(S), NEW e \in S, e \notin ToSet(s),
           \A i, j \in DOMAIN s : s[i] = s[j] => i = j
    PROVE  \A i, j \in DOMAIN Append(s, e) : Append(s, e)[i] = Append(s, e)[j] => i = j
<1>1. \A i \in DOMAIN Append(s, e) :
         \/ i \in DOMAIN s /\ i <= Len(s) /\ Append(s, e)[i] = s[i]
         \/ i = Len(s) + 1 /\ Append(s, e)[i] = e
  BY AppendAdds
<1>2. \A i \in DOMAIN s : s[i] # e
  BY DEF ToSet
<1> QED BY <1>1, <1>2

(* What the queues hold. *)
LEMMA QueuesHold ==
    ASSUME SenderTypeOK, Apart
    PROVE  /\ ToSet(incoming) \subseteq Events /\ ToSet(batch) \subseteq Events
           /\ ToSet(sent) \subseteq Events /\ ToSet(file) \subseteq FileLines
           /\ Held \subseteq Events
           /\ ToSet(Waiting) \subseteq ToSet(file)
           /\ Events \cap {Torn, Garbled} = {}
<1>1. Events \cap {Torn, Garbled} = {}
  BY NumbersAre
<1>2. ToSet(incoming) \subseteq Events /\ ToSet(batch) \subseteq Events
      /\ ToSet(sent) \subseteq Events /\ ToSet(file) \subseteq FileLines
  BY SetOfSeq DEF SenderTypeOK, FileLines
<1> QED BY <1>1, <1>2 DEF Apart, Waiting, Held

LEMMA OnceProduce ==
    ASSUME SenderTypeOK, OnceInv, Produce PROVE OnceInv'
<1> DEFINE e == produced + 1
<1>0. OnePlace
  BY DEF OnceInv
<1>1. e \in Events /\ produced \in Nat
  BY NumbersAre DEF Produce, SenderTypeOK, Events
<1>2. e \notin ToSet(incoming) /\ e \notin Held /\ e \notin ToSet(sent) /\ e \notin ToSet(file)
  BY <1>0, <1>1 DEF OnePlace, Made
<1>3. 1 .. produced \subseteq 1 .. e /\ e \in 1 .. e /\ produced' = e
  BY <1>1 DEF Produce
<1>4. ToSet(incoming') = ToSet(incoming) \cup {e}
  BY <1>1, AppendAdds DEF Produce, SenderTypeOK
<1>5. \A i, j \in DOMAIN incoming' : incoming'[i] = incoming'[j] => i = j
  <2>1. incoming \in Seq(Events) /\ incoming' = Append(incoming, e)
    BY DEF Produce, SenderTypeOK
  <2>2. \A i, j \in DOMAIN incoming : incoming[i] = incoming[j] => i = j
    BY <1>0 DEF OnePlace, IncomingOnce
  <2> HIDE DEF e
  <2>3. \A i, j \in DOMAIN Append(incoming, e) : Append(incoming, e)[i] = Append(incoming, e)[j] => i = j
    BY <1>1, <1>2, <2>1, <2>2, OnceMore
  <2> QED BY <2>1, <2>3
<1>6. Held' = Held /\ Waiting' = Waiting /\ file' = file /\ batch' = batch /\ sent' = sent
      /\ phase' = phase /\ sender' = sender /\ crashes' = crashes
  BY DEF Produce, Held, InHand, Waiting
<1> HIDE DEF e
<1>7. OnePlace'
  <2>1. IncomingOnce'
    BY <1>5 DEF IncomingOnce
  <2>2. FileOnce' /\ BatchOnce' /\ HandsOnce'
    BY <1>0, <1>6 DEF OnePlace, FileOnce, BatchOnce, HandsOnce
  <2>3. Apart'
    BY <1>0, <1>2, <1>4, <1>6 DEF OnePlace, Apart
  <2>4. Made'
    BY <1>0, <1>3, <1>4, <1>6 DEF OnePlace, Made
  <2> QED BY <2>1, <2>2, <2>3, <2>4 DEF OnePlace
<1>8. ToGo' = ToGo \cup {e}
  BY <1>4, <1>6 DEF ToGo
<1> QED BY <1>2, <1>6, <1>7, <1>8, OnceKept

(* What a connection makes of the file, when the drain starts or is over at once. *)
LEMMA ConnectFile ==
    ASSUME SenderTypeOK, OnceInv, Connect
    PROVE  /\ ToSet(batch') = (ToSet(file) \cap Events) \ Oversized
           /\ batch' \in Seq(Events)
           /\ BatchOnce'
           /\ \/ batch' = <<>> /\ (file' = file \/ file' = <<>>) /\ phase' = "run"
              \/ batch' # <<>> /\ file' = file /\ phase' = "drain" /\ sender' = sender
           /\ Held = {} /\ Held' = {} /\ HandsOnce'
<1> DEFINE events == ReadAll(file)
           toSend == Selected(events, Events \ Oversized)
<1>1. /\ events \in Seq(Events) /\ ToSet(events) = ToSet(file) \cap Events
      /\ toSend \in Seq(Events) /\ batch' = toSend
  BY DrainReads DEF Connect
<1>2. \A i, j \in DOMAIN events : events[i] = events[j] => i = j
  <2>1. file \in Seq(FileLines)
    BY DEF SenderTypeOK, FileLines
  <2>2. \A i, j \in DOMAIN file : (file[i] = file[j] /\ file[i] \in Events) => i = j
    BY DEF OnceInv, OnePlace, FileOnce
  <2> QED BY <2>1, <2>2, SelectedKeeps DEF ReadAll
<1>3. /\ ToSet(toSend) = ToSet(events) \cap (Events \ Oversized)
      /\ \A i, j \in DOMAIN toSend : toSend[i] = toSend[j] => i = j
  <2> DEFINE T == Events \ Oversized
  <2>1. \A i, j \in DOMAIN events : (events[i] = events[j] /\ events[i] \in T) => i = j
    BY <1>2
  <2>2. events \in Seq(Events)
    BY <1>1
  <2> HIDE DEF events, T
  <2>3. /\ ToSet(Selected(events, T)) = ToSet(events) \cap T
        /\ (\A i, j \in DOMAIN events : (events[i] = events[j] /\ events[i] \in T) => i = j)
              => \A i, j \in DOMAIN Selected(events, T) :
                    Selected(events, T)[i] = Selected(events, T)[j] => i = j
    BY <2>2, SelectedKeeps
  <2> QED BY <2>1, <2>3 DEF T
<1> HIDE DEF toSend, events
<1>4. ToSet(batch') = (ToSet(file) \cap Events) \ Oversized /\ BatchOnce' /\ batch' \in Seq(Events)
  BY <1>1, <1>3 DEF BatchOnce
<1>5. \/ batch' = <<>> /\ (file' = file \/ file' = <<>>) /\ phase' = "run"
         /\ sender' = [sender EXCEPT ![conn + 1] = IdleSender]
      \/ batch' # <<>> /\ file' = file /\ phase' = "drain" /\ sender' = sender
  BY DEF Connect, StartGather
<1>6. \A c \in Conns : sender[c].pc # "sending"
  BY DEF Connect
<1>7. Held = {}
  BY <1>6 DEF Held, InHand
<1>8. \A c \in Conns : sender'[c].pc # "sending"
  <2>1. sender \in [Conns -> SenderSet] /\ IdleSender.pc = "idle"
    BY DEF SenderTypeOK, SenderSet, IdleSender
  <2> QED BY <1>5, <1>6, <2>1
<1>9. Held' = {} /\ HandsOnce'
  BY <1>8 DEF Held, InHand, HandsOnce
<1> QED BY <1>4, <1>5, <1>7, <1>9

LEMMA OnceConnect ==
    ASSUME SenderTypeOK, OnceInv, Connect PROVE OnceInv'
<1>0. OnePlace /\ phase = "down" /\ incoming' = incoming /\ produced' = produced
      /\ sent' = sent /\ crashes' = crashes
  BY DEF OnceInv, Connect
<1>1. /\ ToSet(batch') = (ToSet(file) \cap Events) \ Oversized
      /\ BatchOnce'
      /\ \/ batch' = <<>> /\ (file' = file \/ file' = <<>>) /\ phase' = "run"
         \/ batch' # <<>> /\ file' = file /\ phase' = "drain" /\ sender' = sender
      /\ Held = {} /\ Held' = {} /\ HandsOnce'
  BY ConnectFile
<1>2. ToSet(file') \subseteq ToSet(file) /\ FileOnce'
  <2>1. file' = file \/ file' = <<>>
    BY <1>1
  <2>2. CASE file' = file
    BY <1>0, <2>2 DEF OnePlace, FileOnce
  <2>3. CASE file' = <<>>
    BY <2>3, SetOfEmpty DEF FileOnce
  <2> QED BY <2>1, <2>2, <2>3
<1>3. ToSet(batch') \subseteq ToSet(file')
  BY <1>1, SetOfEmpty
<1>4. OnePlace'
  BY <1>0, <1>1, <1>2, <1>3 DEF OnePlace, IncomingOnce, Apart, Made
<1>5. ToSet(Waiting') \subseteq ToSet(Waiting)
  BY <1>0, <1>1, <1>2 DEF Waiting
<1>6. \A e \in Events \cap ToGo' : e \in ToGo
  BY <1>0, <1>1, <1>5 DEF ToGo
<1> QED BY <1>0, <1>4, <1>6, OnceKept

LEMMA OnceDrainSend ==
    ASSUME SenderTypeOK, OnceInv, DrainSend PROVE OnceInv'
<1> DEFINE e == Head(batch)
<1>0. OnePlace /\ batch \in Seq(Events) /\ sent \in Seq(Events) /\ batch # <<>> /\ phase = "drain"
  BY DEF OnceInv, DrainSend, SenderTypeOK
<1>1. e \in Events /\ ToSet(batch) = {e} \cup ToSet(Tail(batch))
  BY <1>0, TailTakes
<1>2. e \notin ToSet(Tail(batch)) /\ \A i, j \in DOMAIN Tail(batch) : Tail(batch)[i] = Tail(batch)[j] => i = j
  BY <1>0, HeadIsGone DEF OnePlace, BatchOnce
<1>3. ToSet(Append(sent, e)) = ToSet(sent) \cup {e}
  BY <1>0, <1>1, AppendAdds
<1>4. batch' = Tail(batch) /\ sent' = Append(sent, e) /\ phase' = phase /\ file' = file /\ Held' = Held
      /\ incoming' = incoming /\ sender' = sender /\ produced' = produced /\ crashes' = crashes
  BY DEF DrainSend, Held, InHand
<1> HIDE DEF e
<1>5. e \in ToSet(file) /\ e \notin Held /\ e \notin ToSet(incoming)
  BY <1>0, <1>1 DEF OnePlace, Apart
<1>6. OnePlace'
  <2>1. IncomingOnce' /\ FileOnce' /\ BatchOnce' /\ HandsOnce'
    BY <1>0, <1>2, <1>4 DEF OnePlace, IncomingOnce, FileOnce, BatchOnce, HandsOnce
  <2>2. Apart'
    BY <1>0, <1>1, <1>4 DEF OnePlace, Apart
  <2>3. Made'
    BY <1>0, <1>1, <1>3, <1>4, <1>5 DEF OnePlace, Made
  <2> QED BY <2>1, <2>2, <2>3 DEF OnePlace
<1>7. Waiting = batch /\ Waiting' = Tail(batch)
  BY <1>0, <1>4 DEF Waiting
<1>8. e \in ToGo /\ e \notin ToGo' /\ Events \cap ToGo' \subseteq ToGo
  BY <1>1, <1>2, <1>4, <1>5, <1>7 DEF ToGo
<1> QED BY <1>1, <1>4, <1>6, <1>8, OnceKept

LEMMA OnceDrainOver ==
    ASSUME SenderTypeOK, OnceInv, DrainFail \/ DrainEnd PROVE OnceInv'
<1>0. OnePlace /\ phase = "drain" /\ phase' = "run" /\ batch' = <<>> /\ incoming' = incoming
      /\ sent' = sent /\ crashes' = crashes /\ produced' = produced /\ file' = batch
  BY DEF OnceInv, DrainFail, DrainEnd, StartGather
<1>1. HandsOnce' /\ Held' \subseteq Held
  <2>1. sender' = [sender EXCEPT ![conn] = IdleSender]
    BY DEF DrainFail, DrainEnd, StartGather
  <2>2. IdleSender \in SenderSet /\ IdleSender.pc # "sending"
    BY NumbersAre DEF IdleSender
  <2> QED BY <1>0, <2>1, <2>2, HandEmpties DEF OnePlace
<1>2. ToSet(batch) \subseteq ToSet(file)
  BY <1>0 DEF OnePlace, Apart
<1>3. OnePlace'
  <2>1. IncomingOnce' /\ FileOnce'
    BY <1>0 DEF OnePlace, IncomingOnce, FileOnce, BatchOnce
  <2>2. BatchOnce' /\ ToSet(batch') = {}
    BY <1>0, SetOfEmpty DEF BatchOnce
  <2>3. Apart'
    BY <1>0, <1>1, <1>2, <2>2 DEF OnePlace, Apart
  <2>4. Made'
    BY <1>0, <1>1, <1>2 DEF OnePlace, Made
  <2> QED BY <1>1, <2>1, <2>2, <2>3, <2>4 DEF OnePlace
<1>4. Waiting' = Waiting
  BY <1>0 DEF Waiting
<1>5. \A e \in Events \cap ToGo' : e \in ToGo
  BY <1>0, <1>1, <1>4 DEF ToGo
<1> QED BY <1>0, <1>3, <1>5, OnceKept

LEMMA OnceTake ==
    ASSUME SenderTypeOK, OnceInv, NEW c \in Conns, SenderTake(c) PROVE OnceInv'
<1> DEFINE e == Head(incoming)
<1>0. OnePlace /\ incoming \in Seq(Events) /\ incoming # <<>> /\ sender[c].pc # "sending"
  BY DEF OnceInv, SenderTake, SenderTypeOK
<1>1. e \in Events /\ ToSet(incoming) = {e} \cup ToSet(Tail(incoming))
  BY <1>0, TailTakes
<1>2. e \notin ToSet(Tail(incoming))
      /\ \A i, j \in DOMAIN Tail(incoming) : Tail(incoming)[i] = Tail(incoming)[j] => i = j
  BY <1>0, HeadIsGone DEF OnePlace, IncomingOnce
<1>3. incoming' = Tail(incoming) /\ sent' = sent /\ phase' = phase /\ file' = file /\ batch' = batch
      /\ sender' = [sender EXCEPT ![c] = [pc |-> "sending", event |-> e]]
      /\ produced' = produced /\ crashes' = crashes
  BY DEF SenderTake
<1> HIDE DEF e
<1>4. e \notin Held
  BY <1>0, <1>1 DEF OnePlace, Apart
<1>5. HandsOnce' /\ Held' = Held \cup {e}
  BY <1>0, <1>1, <1>3, <1>4, HandTakes DEF OnePlace
<1>6. OnePlace'
  <2>1. IncomingOnce' /\ FileOnce' /\ BatchOnce'
    BY <1>0, <1>2, <1>3 DEF OnePlace, IncomingOnce, FileOnce, BatchOnce
  <2>2. Apart'
    BY <1>0, <1>1, <1>2, <1>3, <1>5 DEF OnePlace, Apart
  <2>3. Made'
    BY <1>0, <1>1, <1>3, <1>5 DEF OnePlace, Made
  <2> QED BY <1>5, <2>1, <2>2, <2>3 DEF OnePlace
<1>7. Waiting' = Waiting
  BY <1>3 DEF Waiting
<1>8. \A x \in Events \cap ToGo' : x \in ToGo
  BY <1>1, <1>3, <1>5, <1>7 DEF ToGo
<1> QED BY <1>3, <1>6, <1>8, OnceKept

LEMMA OnceSendOk ==
    ASSUME SenderTypeOK, OnceInv, NEW c \in Conns, SendOk(c) PROVE OnceInv'
<1> DEFINE e == sender[c].event
<1>0. OnePlace /\ sent \in Seq(Events) /\ sender[c].pc = "sending"
  BY DEF OnceInv, SendOk, SenderTypeOK
<1>1. IdleSender \in SenderSet /\ IdleSender.pc # "sending" /\ sender' = [sender EXCEPT ![c] = IdleSender]
  BY NumbersAre DEF IdleSender, SendOk
<1>2. HandsOnce' /\ e \in Held /\ Held' = Held \ {e}
  BY <1>0, <1>1, HandEmpties DEF OnePlace
<1>3. e \in Events
  BY <1>2 DEF Held
<1>4. incoming' = incoming /\ sent' = Append(sent, e) /\ phase' = phase /\ file' = file
      /\ batch' = batch /\ produced' = produced /\ crashes' = crashes
  BY DEF SendOk
<1> HIDE DEF e
<1>5. ToSet(sent') = ToSet(sent) \cup {e}
  BY <1>0, <1>3, <1>4, AppendAdds
<1>6. OnePlace'
  <2>1. IncomingOnce' /\ FileOnce' /\ BatchOnce'
    BY <1>0, <1>4 DEF OnePlace, IncomingOnce, FileOnce, BatchOnce
  <2>2. Apart'
    BY <1>0, <1>2, <1>4 DEF OnePlace, Apart
  <2>3. Made'
    BY <1>0, <1>2, <1>4, <1>5 DEF OnePlace, Made
  <2> QED BY <1>2, <2>1, <2>2, <2>3 DEF OnePlace
<1>7. Waiting' = Waiting /\ ToSet(Waiting) \subseteq ToSet(file)
  BY <1>0, <1>4 DEF Waiting, OnePlace, Apart
<1>8. e \in ToGo /\ e \notin ToGo' /\ ToGo' \subseteq ToGo
  BY <1>0, <1>2, <1>4, <1>7 DEF ToGo, OnePlace, Apart
<1> QED BY <1>3, <1>4, <1>6, <1>8, OnceKept

(* What a failed send adds to the queue file. *)
LEMMA EnqueueAdds ==
    ASSUME NEW lines \in Seq(FileLines), NEW e \in Events, e \notin ToSet(lines),
           \A i, j \in DOMAIN lines : (lines[i] = lines[j] /\ lines[i] \in Events) => i = j
    PROVE  /\ ToSet(lines) \cap Events \subseteq ToSet(Enqueue(lines, e))
           /\ ToSet(Enqueue(lines, e)) \subseteq ToSet(lines) \cup {e, Garbled}
           /\ \A i, j \in DOMAIN Enqueue(lines, e) :
                 (Enqueue(lines, e)[i] = Enqueue(lines, e)[j] /\ Enqueue(lines, e)[i] \in Events) => i = j
<1> DEFINE new == Enqueue(lines, e)
<1>1. /\ Len(lines) \in Nat /\ DOMAIN lines = 1 .. Len(lines)
      /\ \A i \in DOMAIN new :
            \/ i \in DOMAIN lines /\ new[i] = lines[i]
            \/ i = Len(lines) + 1 /\ new[i] = e
            \/ new[i] = Garbled
      /\ \A i \in DOMAIN lines : lines[i] \in Events => i \in DOMAIN new /\ new[i] = lines[i]
  BY EnqueueIs
<1> HIDE DEF new
<1>2. Garbled \notin Events
  BY NumbersAre
<1>3. ToSet(lines) \cap Events \subseteq ToSet(new)
  BY <1>1 DEF ToSet
<1>4. ToSet(new) \subseteq ToSet(lines) \cup {e, Garbled}
  BY <1>1 DEF ToSet
<1>5. \A i, j \in DOMAIN new : (new[i] = new[j] /\ new[i] \in Events) => i = j
  <2> SUFFICES ASSUME NEW i \in DOMAIN new, NEW j \in DOMAIN new, new[i] = new[j], new[i] \in Events
               PROVE  i = j
    OBVIOUS
  <2>1. \A k \in DOMAIN lines : lines[k] # e
    BY DEF ToSet
  <2>2. CASE new[i] = e
    <3>1. i = Len(lines) + 1 /\ j = Len(lines) + 1
      BY <1>1, <1>2, <2>1, <2>2
    <3> QED BY <3>1
  <2>3. CASE new[i] # e
    <3>1. i \in DOMAIN lines /\ new[i] = lines[i] /\ j \in DOMAIN lines /\ new[j] = lines[j]
      BY <1>1, <1>2, <2>3
    <3> QED BY <3>1
  <2> QED BY <2>2, <2>3
<1> QED BY <1>3, <1>4, <1>5 DEF new

LEMMA OnceSendFail ==
    ASSUME SenderTypeOK, OnceInv, NEW c \in Conns, SendFail(c) PROVE OnceInv'
<1> DEFINE e == sender[c].event
<1>0. OnePlace /\ file \in Seq(FileLines) /\ sender[c].pc = "sending"
  BY DEF OnceInv, SendFail, SenderTypeOK, FileLines
<1>1. DeadSender \in SenderSet /\ DeadSender.pc # "sending" /\ sender' = [sender EXCEPT ![c] = DeadSender]
  BY NumbersAre DEF DeadSender, SendFail
<1>2. HandsOnce' /\ e \in Held /\ Held' = Held \ {e}
  BY <1>0, <1>1, HandEmpties DEF OnePlace
<1>3. e \in Events
  BY <1>2 DEF Held
<1>4. incoming' = incoming /\ sent' = sent /\ batch' = batch /\ produced' = produced /\ crashes' = crashes
      /\ file' = Enqueue(file, e)
  BY DEF SendFail
<1>5. phase' = phase \/ (phase = "run" /\ phase' = "down")
  BY DEF SendFail, Raise
<1> HIDE DEF e
<1>6. e \notin ToSet(file) /\ e \notin ToSet(incoming)
  BY <1>0, <1>2 DEF OnePlace, Apart
<1>7. /\ ToSet(file) \cap Events \subseteq ToSet(file')
      /\ ToSet(file') \subseteq ToSet(file) \cup {e, Garbled}
      /\ FileOnce'
  <2>1. \A i, j \in DOMAIN file : (file[i] = file[j] /\ file[i] \in Events) => i = j
    BY <1>0 DEF OnePlace, FileOnce
  <2> QED BY <1>0, <1>3, <1>4, <1>6, <2>1, EnqueueAdds DEF FileOnce
<1>8. Garbled \notin Events /\ ToSet(incoming) \subseteq Events /\ ToSet(batch) \subseteq Events
      /\ Held \subseteq Events
  BY <1>0, QueuesHold, NumbersAre DEF OnePlace
<1>9. OnePlace'
  <2>1. IncomingOnce' /\ BatchOnce'
    BY <1>0, <1>4 DEF OnePlace, IncomingOnce, BatchOnce
  <2>2. Apart'
    <3>1. ToSet(incoming') \cap Held' = {} /\ ToSet(incoming') \cap ToSet(file') = {}
      BY <1>0, <1>2, <1>4, <1>6, <1>7, <1>8 DEF OnePlace, Apart
    <3>2. Held' \cap ToSet(file') = {}
      BY <1>0, <1>2, <1>7, <1>8 DEF OnePlace, Apart
    <3>3. ToSet(batch') \subseteq ToSet(file')
      BY <1>0, <1>4, <1>7, <1>8 DEF OnePlace, Apart
    <3> QED BY <1>0, <1>4, <1>5, <3>1, <3>2, <3>3 DEF OnePlace, Apart
  <2>3. Made'
    BY <1>0, <1>2, <1>3, <1>4, <1>7, <1>8 DEF OnePlace, Made
  <2> QED BY <1>2, <1>7, <2>1, <2>2, <2>3 DEF OnePlace
<1>10. ToSet(Waiting') \subseteq ToSet(Waiting) \cup {e, Garbled}
  BY <1>4, <1>5, <1>7 DEF Waiting
<1>11. \A x \in Events \cap ToGo' : x \in ToGo
  BY <1>2, <1>4, <1>8, <1>10 DEF ToGo
<1> QED BY <1>4, <1>9, <1>11, OnceKept

LEMMA OnceDown ==
    ASSUME SenderTypeOK, OnceInv, LinkDrop \/ Teardown PROVE OnceInv'
<1>1. /\ incoming' = incoming /\ sent' = sent /\ batch' = batch /\ produced' = produced
      /\ crashes' = crashes /\ file' = file /\ sender' = sender
      /\ phase' = phase \/ (phase = "run" /\ phase' = "down")
  BY DEF LinkDrop, Teardown
<1>2. Held' = Held /\ Waiting' = Waiting
  BY <1>1 DEF Held, InHand, Waiting
<1>3. OnePlace'
  BY <1>1, <1>2 DEF OnceInv, OnePlace, IncomingOnce, FileOnce, BatchOnce, HandsOnce, Apart, Made
<1>4. ToGo' = ToGo
  BY <1>1, <1>2 DEF ToGo
<1> QED BY <1>1, <1>3, <1>4, OnceKept

LEMMA OnceCrash ==
    ASSUME SenderTypeOK, OnceInv, Crash PROVE OnceInv'
<1>0. OnePlace /\ incoming' = <<>> /\ batch' = <<>> /\ phase' = "down" /\ sent' = sent
      /\ produced' = produced /\ crashes' = crashes + 1 /\ sender' = [d \in Conns |-> NoSender]
  BY DEF OnceInv, Crash
<1>1. ToSet(incoming') = {} /\ ToSet(batch') = {} /\ DOMAIN incoming' = {} /\ DOMAIN batch' = {}
  BY <1>0, SetOfEmpty
<1>2. \A d \in Conns : sender'[d].pc # "sending"
  BY <1>0 DEF NoSender
<1>3. Held' = {} /\ HandsOnce'
  BY <1>2 DEF Held, InHand, HandsOnce
<1>4. ToSet(file') \subseteq ToSet(file) \cup {Torn} /\ FileOnce'
  <2>1. CASE file' = file
    BY <1>0, <2>1 DEF OnePlace, FileOnce
  <2>2. CASE file' = Append(file, Torn)
    <3>1. file \in Seq(FileLines) /\ Torn \in FileLines /\ Torn \notin Events
      BY NumbersAre DEF SenderTypeOK, FileLines
    <3>2. /\ ToSet(Append(file, Torn)) = ToSet(file) \cup {Torn}
          /\ \A i \in DOMAIN Append(file, Torn) :
                \/ i \in DOMAIN file /\ Append(file, Torn)[i] = file[i]
                \/ Append(file, Torn)[i] = Torn
      BY <3>1, AppendAdds
    <3> QED BY <1>0, <2>2, <3>1, <3>2 DEF OnePlace, FileOnce
  <2> QED BY <2>1, <2>2 DEF Crash
<1>5. Torn \notin Events
  BY NumbersAre
<1>6. OnePlace'
  <2>1. IncomingOnce' /\ BatchOnce'
    BY <1>1 DEF IncomingOnce, BatchOnce
  <2>2. Apart' /\ Made'
    BY <1>0, <1>1, <1>3, <1>4, <1>5 DEF OnePlace, Apart, Made
  <2> QED BY <1>3, <1>4, <2>1, <2>2 DEF OnePlace
<1> QED BY <1>0, <1>6, OnceKept

LEMMA OnceStep ==
    ASSUME SenderTypeOK, OnceInv, SenderNext PROVE OnceInv'
BY OnceProduce, OnceConnect, OnceDrainSend, OnceDrainOver, OnceTake, OnceSendOk, OnceSendFail,
   OnceDown, OnceCrash DEF SenderNext, SenderStep

-----------------------------------------------------------------------------
(* The outbound queue: a sender on its own. *)
AloneNow ==
    /\ \A c \in Conns : Alive(c) => c = conn /\ phase # "drain"
    /\ file \in Seq(Events)
    /\ phase = "run" /\ link => file = <<>>
    /\ InOrder
    /\ Accepted \subseteq ToSet(sent) \cup ToSet(Waiting) \cup Held \cup ToSet(incoming)

(* The drain or a coroutine that lives holds all there is to hold. *)
LEMMA AloneHolds ==
    ASSUME SenderTypeOK, OnceInv, AloneInv, Alone
    PROVE  /\ AloneNow
           /\ phase = "drain" => Held = {}
           /\ \A c \in Conns : sender[c].pc = "sending" =>
                 c = conn /\ phase # "drain" /\ Held = {sender[c].event} /\ sender[c].event \in Events
           /\ Events \subseteq Int /\ Events \in SUBSET Int
<1>1. AloneNow
  BY DEF AloneInv, AloneNow
<1>2. \A c \in Conns : sender[c].pc = "sending" => c = conn /\ phase # "drain"
  BY <1>1 DEF AloneNow, Alive
<1>3. phase = "drain" => Held = {}
  BY <1>2 DEF Held, InHand
<1>4. ASSUME NEW c \in Conns, sender[c].pc = "sending"
      PROVE  Held = {sender[c].event} /\ sender[c].event \in Events
  <2>1. sender[c].event \in Events
    BY <1>4 DEF OnceInv, OnePlace, HandsOnce
  <2> QED BY <1>2, <1>4, <2>1 DEF Held, InHand
<1>5. Events \subseteq Int /\ Events \in SUBSET Int
  BY NumbersAre
<1> QED BY <1>1, <1>2, <1>3, <1>4, <1>5, Zenon

LEMMA AloneFrom ==
    ASSUME SenderTypeOK, SenderNext, Alone' PROVE Alone /\ ~ Crash /\ crashes' = crashes
<1>1. crashes \in Nat
  BY NumbersAre DEF SenderTypeOK
<1>2. ~ Crash
  BY <1>1 DEF Crash, Alone
<1>3. CASE Connect
  <2>1. haunted' = (haunted \/ \E c \in Conns : Alive(c)) /\ crashes' = crashes /\ haunted \in BOOLEAN
    BY <1>3 DEF Connect, SenderTypeOK
  <2> QED BY <1>2, <2>1 DEF Alone
<1>4. CASE ~ Connect
  <2>1. haunted' = haunted /\ crashes' = crashes
    BY <1>2, <1>4 DEF SenderNext, SenderStep, Produce, DrainSend, DrainFail, DrainEnd, SenderTake,
                      SendOk, SendFail, LinkDrop, Teardown
  <2> QED BY <1>2, <2>1 DEF Alone
<1> QED BY <1>2, <1>3, <1>4

LEMMA LinkIsDown ==
    ASSUME SenderTypeOK, AloneInv, SenderNext PROVE (phase = "down" => ~link)'
BY DEF AloneInv, SenderTypeOK, SenderNext, SenderStep, Produce, Connect, StartGather, DrainSend, DrainFail,
       DrainEnd, SenderTake, SendOk, SendFail, Raise, LinkDrop, Teardown, Crash

LEMMA AloneProduce ==
    ASSUME SenderTypeOK, OnceInv, AloneInv, Alone, Produce PROVE AloneNow'
<1> DEFINE e == produced + 1
<1>0. AloneNow /\ OnePlace /\ Events \in SUBSET Int /\ incoming \in Seq(Events)
  BY AloneHolds DEF OnceInv, SenderTypeOK
<1>1. e \in Events /\ produced \in Nat
  BY NumbersAre DEF Produce, SenderTypeOK, Events
<1>2. Held' = Held /\ Waiting' = Waiting /\ file' = file /\ batch' = batch /\ sent' = sent
      /\ phase' = phase /\ sender' = sender /\ conn' = conn /\ link' = link
      /\ incoming' = Append(incoming, e) /\ produced' = e
  BY DEF Produce, Held, InHand, Waiting
<1>3. ToSet(incoming') = ToSet(incoming) \cup {e}
  BY <1>0, <1>1, <1>2, AppendAdds
<1>4. \A x \in Events \cap (1 .. produced) : x < e
  BY <1>1
<1>5. Accepted' \subseteq Accepted \cup {e}
  BY <1>1, <1>2 DEF Accepted
<1> HIDE DEF e
<1>6. ToSet(incoming) \cup Held \cup ToSet(sent) \cup ToSet(Waiting) \subseteq Events \cap (1 .. produced)
  <2>1. ToSet(Waiting) \subseteq ToSet(file) /\ ToSet(file) \subseteq Events
    BY <1>0, QueuesHold, SetOfSeq DEF OnePlace, AloneNow
  <2> QED BY <1>0, <2>1, QueuesHold DEF OnePlace, Made
<1>7. Rises(incoming')
  <2>1. Before(ToSet(incoming), {e})
    BY <1>4, <1>6 DEF Before
  <2> QED BY <1>0, <1>1, <1>2, <2>1, RisesAppend DEF AloneNow, InOrder
<1>8. Before(ToSet(sent), {e}) /\ Before(Held, {e}) /\ Before(ToSet(Waiting), {e})
  BY <1>4, <1>6 DEF Before
<1>9. InOrder'
  <2>1. Rises(sent') /\ Rises(Waiting') /\ Before(Held', ToSet(incoming'))
    BY <1>0, <1>2, <1>3, <1>8 DEF AloneNow, InOrder, Before
  <2>2. Before(ToSet(sent'), ToSet(Waiting') \cup Held' \cup ToSet(incoming'))
    BY <1>0, <1>2, <1>3, <1>8 DEF AloneNow, InOrder, Before
  <2>3. Before(ToSet(Waiting'), Held' \cup ToSet(incoming'))
    BY <1>0, <1>2, <1>3, <1>8 DEF AloneNow, InOrder, Before
  <2> QED BY <1>7, <2>1, <2>2, <2>3 DEF InOrder
<1>10. Accepted' \subseteq ToSet(sent') \cup ToSet(Waiting') \cup Held' \cup ToSet(incoming')
  BY <1>0, <1>2, <1>3, <1>5 DEF AloneNow
<1> QED BY <1>0, <1>2, <1>9, <1>10 DEF AloneNow, Alive

LEMMA AloneConnect ==
    ASSUME SenderTypeOK, OnceInv, AloneInv, Alone, ~haunted', Connect PROVE AloneNow'
<1>0. AloneNow /\ phase = "down" /\ incoming' = incoming /\ produced' = produced
      /\ sent' = sent /\ conn' = conn + 1
      /\ \A c \in Conns : ~ Alive(c)
  BY AloneHolds DEF Connect
<1>1. /\ ToSet(batch') = (ToSet(file) \cap Events) \ Oversized
      /\ \/ batch' = <<>> /\ (file' = file \/ file' = <<>>) /\ phase' = "run"
         \/ batch' # <<>> /\ file' = file /\ phase' = "drain" /\ sender' = sender
      /\ Held = {} /\ Held' = {}
  BY ConnectFile
<1>2. Waiting = file /\ ToSet(Waiting) \subseteq Events
  BY <1>0, SetOfSeq DEF Waiting, AloneNow
<1>3. Rises(batch')
  <2> DEFINE T == Events \ Oversized
  <2>1. Rises(ReadAll(file))
    BY <1>0, <1>2, SelectedKeeps DEF ReadAll, AloneNow, InOrder
  <2>2. ReadAll(file) \in Seq(Events) /\ batch' = Selected(ReadAll(file), T)
    BY DrainReads DEF Connect
  <2> HIDE DEF T
  <2> QED BY <2>1, <2>2, SelectedKeeps
<1>4. CASE batch' = <<>>
  <2>1. /\ phase' = "run"
        /\ sender' = [sender EXCEPT ![conn + 1] = IdleSender]
        /\ file' = IF ReadAll(file) = <<>> THEN file ELSE <<>>
    BY <1>4 DEF Connect, StartGather
  <2>2. file' = <<>>
    <3>1. ASSUME ReadAll(file) = <<>> PROVE file = <<>>
      <4>1. ToSet(file) \cap Events = {}
        BY <3>1, DrainReads, SetOfEmpty
      <4>2. ToSet(file) = {}
        BY <1>2, <4>1
      <4>3. Len(file) \in Nat /\ 1 .. Len(file) = {}
        <5>1. file \in Seq(Events)
          BY <1>0 DEF AloneNow
        <5>2. \A e : e \in ToSet(file) <=> \E i \in 1 .. Len(file) : file[i] = e
          BY <5>1, SetOfSeq
        <5>3. Len(file) \in Nat
          BY <5>1, LenProperties
        <5> QED BY <4>2, <5>2, <5>3, Zenon
      <4>4. Len(file) = 0
        <5>1. \A n \in Nat : 1 .. n = {} => n = 0
          OBVIOUS
        <5> QED BY <4>3, <5>1, Zenon
      <4> QED BY <1>0, <4>4, EmptySeq DEF AloneNow
    <3> QED BY <2>1, <3>1
  <2>3. \A c \in Conns : c # conn + 1 => sender'[c] = sender[c]
    BY <2>1 DEF SenderTypeOK
  <2>4. \A c \in Conns : Alive(c)' => c = conn'
    BY <1>0, <2>3 DEF Alive
  <2>5. Waiting' = <<>> /\ ToSet(Waiting') = {} /\ Rises(Waiting') /\ file' \in Seq(Events)
    BY <2>1, <2>2, SetOfEmpty, EmptySeq DEF Waiting, Rises
  <2>6. InOrder'
    BY <1>0, <1>1, <2>5 DEF AloneNow, InOrder, Before
  <2>7. Accepted' \cap ToSet(Waiting) = {} /\ Accepted' = Accepted
    BY <1>0, <1>1, <1>2, <1>4, SetOfEmpty DEF Accepted
  <2>8. Accepted' \subseteq ToSet(sent') \cup ToSet(Waiting') \cup Held' \cup ToSet(incoming')
    BY <1>0, <1>1, <2>7 DEF AloneNow
  <2> QED BY <2>1, <2>2, <2>4, <2>5, <2>6, <2>8 DEF AloneNow
<1>5. CASE batch' # <<>>
  <2>1. phase' = "drain" /\ file' = file /\ sender' = sender /\ Waiting' = batch'
    BY <1>1, <1>5 DEF Waiting
  <2>2. ToSet(Waiting') \subseteq ToSet(Waiting)
    BY <1>1, <1>2, <2>1
  <2>3. InOrder'
    BY <1>0, <1>1, <1>3, <2>1, <2>2 DEF AloneNow, InOrder, Before
  <2>4. Accepted' = Accepted /\ Accepted \cap ToSet(Waiting) \subseteq ToSet(Waiting')
    BY <1>0, <1>1, <1>2, <2>1 DEF Accepted
  <2>5. Accepted' \subseteq ToSet(sent') \cup ToSet(Waiting') \cup Held' \cup ToSet(incoming')
    BY <1>0, <1>1, <2>4 DEF AloneNow
  <2> QED BY <1>0, <2>1, <2>3, <2>5 DEF AloneNow, Alive
<1> QED BY <1>4, <1>5

LEMMA AloneDrainSend ==
    ASSUME SenderTypeOK, OnceInv, AloneInv, Alone, DrainSend PROVE AloneNow'
<1> DEFINE e == Head(batch)
<1>0. AloneNow /\ batch \in Seq(Events) /\ sent \in Seq(Events) /\ batch # <<>> /\ phase = "drain"
      /\ Events \in SUBSET Int
  BY AloneHolds DEF DrainSend, SenderTypeOK
<1>1. e \in Events /\ ToSet(batch) = {e} \cup ToSet(Tail(batch))
  BY <1>0, TailTakes
<1>2. ToSet(Append(sent, e)) = ToSet(sent) \cup {e}
  BY <1>0, <1>1, AppendAdds
<1>3. batch' = Tail(batch) /\ sent' = Append(sent, e) /\ phase' = phase /\ file' = file /\ Held' = Held
      /\ incoming' = incoming /\ sender' = sender /\ produced' = produced /\ conn' = conn
  BY DEF DrainSend, Held, InHand
<1>4. Waiting = batch /\ Waiting' = Tail(batch)
  BY <1>0, <1>3 DEF Waiting
<1>5. Rises(Tail(batch)) /\ Before({e}, ToSet(Tail(batch)))
  BY <1>0, <1>4, RisesTail DEF AloneNow, InOrder
<1> HIDE DEF e
<1>6. Rises(sent')
  <2>1. Before(ToSet(sent), {e})
    BY <1>0, <1>1, <1>4 DEF AloneNow, InOrder, Before
  <2> QED BY <1>0, <1>1, <1>3, <2>1, RisesAppend DEF AloneNow, InOrder
<1>7. ToSet(Waiting') \cup {e} = ToSet(Waiting) /\ ToSet(sent') = ToSet(sent) \cup {e}
      /\ Before({e}, ToSet(Waiting'))
  BY <1>1, <1>2, <1>3, <1>4, <1>5
<1>8. InOrder'
  <2>1. Before(ToSet(sent'), ToSet(Waiting') \cup Held' \cup ToSet(incoming'))
    BY <1>0, <1>3, <1>7 DEF AloneNow, InOrder, Before
  <2>2. Before(ToSet(Waiting'), Held' \cup ToSet(incoming'))
    BY <1>0, <1>3, <1>7 DEF AloneNow, InOrder, Before
  <2> QED BY <1>0, <1>3, <1>4, <1>5, <1>6, <2>1, <2>2 DEF AloneNow, InOrder
<1>9. Accepted' \subseteq ToSet(sent') \cup ToSet(Waiting') \cup Held' \cup ToSet(incoming')
  BY <1>0, <1>3, <1>7 DEF AloneNow, Accepted
<1> QED BY <1>0, <1>3, <1>8, <1>9 DEF AloneNow, Alive

LEMMA AloneDrainOver ==
    ASSUME SenderTypeOK, OnceInv, AloneInv, Alone, DrainFail \/ DrainEnd PROVE AloneNow'
<1>0. AloneNow /\ phase = "drain" /\ phase' = "run" /\ incoming' = incoming /\ conn' = conn
      /\ sent' = sent /\ produced' = produced /\ file' = batch /\ batch \in Seq(Events)
      /\ sender' = [sender EXCEPT ![conn] = IdleSender] /\ Held = {}
  BY AloneHolds DEF DrainFail, DrainEnd, StartGather, SenderTypeOK
<1>1. Held' = {}
  <2>1. IdleSender \in SenderSet /\ IdleSender.pc # "sending"
    BY NumbersAre DEF IdleSender
  <2> QED BY <1>0, <2>1, HandEmpties DEF OnceInv, OnePlace
<1>2. Waiting' = Waiting
  BY <1>0 DEF Waiting
<1>3. phase' = "run" /\ link' => file' = <<>>
  BY DEF DrainFail, DrainEnd
<1>4. \A c \in Conns : Alive(c)' => c = conn'
  <2>1. \A c \in Conns : ~ Alive(c)
    BY <1>0 DEF AloneNow
  <2>2. \A c \in Conns : c # conn => sender'[c] = sender[c]
    BY <1>0 DEF SenderTypeOK
  <2> QED BY <1>0, <2>1, <2>2 DEF Alive
<1>5. InOrder'
  BY <1>0, <1>1, <1>2 DEF AloneNow, InOrder
<1>6. Accepted' \subseteq ToSet(sent') \cup ToSet(Waiting') \cup Held' \cup ToSet(incoming')
  BY <1>0, <1>1, <1>2 DEF AloneNow, Accepted
<1> QED BY <1>0, <1>3, <1>4, <1>5, <1>6 DEF AloneNow

LEMMA AloneTake ==
    ASSUME SenderTypeOK, OnceInv, AloneInv, Alone, NEW c \in Conns, SenderTake(c) PROVE AloneNow'
<1> DEFINE e == Head(incoming)
<1>0. /\ AloneNow /\ OnePlace /\ incoming \in Seq(Events) /\ incoming # <<>> /\ sender[c].pc = "idle"
      /\ Events \in SUBSET Int
  BY AloneHolds DEF OnceInv, SenderTake, SenderTypeOK
<1>1. e \in Events /\ ToSet(incoming) = {e} \cup ToSet(Tail(incoming))
  BY <1>0, TailTakes
<1>2. Rises(Tail(incoming)) /\ Before({e}, ToSet(Tail(incoming)))
  BY <1>0, RisesTail DEF AloneNow, InOrder
<1>3. incoming' = Tail(incoming) /\ sent' = sent /\ phase' = phase /\ file' = file /\ batch' = batch
      /\ sender' = [sender EXCEPT ![c] = [pc |-> "sending", event |-> e]]
      /\ produced' = produced /\ conn' = conn /\ link' = link
  BY DEF SenderTake
<1> HIDE DEF e
<1>4. e \notin Held
  BY <1>0, <1>1 DEF OnePlace, Apart
<1>5. Held' = Held \cup {e}
  BY <1>0, <1>1, <1>3, <1>4, HandTakes DEF OnePlace
<1>6. Waiting' = Waiting
  BY <1>3 DEF Waiting
<1>7. InOrder'
  <2>1. Before(ToSet(sent'), ToSet(Waiting') \cup Held' \cup ToSet(incoming'))
    BY <1>0, <1>1, <1>3, <1>5, <1>6 DEF AloneNow, InOrder, Before
  <2>2. Before(ToSet(Waiting'), Held' \cup ToSet(incoming'))
    BY <1>0, <1>1, <1>3, <1>5, <1>6 DEF AloneNow, InOrder, Before
  <2>3. Before(Held', ToSet(incoming'))
    BY <1>0, <1>1, <1>2, <1>3, <1>5 DEF AloneNow, InOrder, Before
  <2> QED BY <1>0, <1>2, <1>3, <1>6, <2>1, <2>2, <2>3 DEF AloneNow, InOrder
<1>8. Accepted' \subseteq ToSet(sent') \cup ToSet(Waiting') \cup Held' \cup ToSet(incoming')
  BY <1>0, <1>1, <1>3, <1>5, <1>6 DEF AloneNow, Accepted
<1>9. \A d \in Conns : Alive(d)' => Alive(d)
  <2>1. \A d \in Conns : d # c => sender'[d] = sender[d]
    BY <1>3 DEF SenderTypeOK
  <2> QED BY <1>0, <2>1 DEF Alive
<1> QED BY <1>0, <1>3, <1>7, <1>8, <1>9 DEF AloneNow

LEMMA AloneSendOk ==
    ASSUME SenderTypeOK, OnceInv, AloneInv, Alone, NEW c \in Conns, SendOk(c) PROVE AloneNow'
<1> DEFINE e == sender[c].event
<1>0. /\ AloneNow /\ OnePlace /\ sent \in Seq(Events) /\ Events \in SUBSET Int
      /\ c = conn /\ phase # "drain" /\ Held = {e} /\ e \in Events
      /\ phase # "down" /\ link /\ phase \in {"down", "drain", "run"}
  BY AloneHolds DEF OnceInv, SendOk, SenderTypeOK
<1>1. /\ incoming' = incoming /\ sent' = Append(sent, e) /\ phase' = phase /\ file' = file
      /\ batch' = batch /\ produced' = produced /\ conn' = conn /\ link' = link
      /\ sender' = [sender EXCEPT ![c] = IdleSender] /\ sender[c].pc = "sending"
  BY DEF SendOk
<1>2. Held' = Held \ {e}
  BY <1>0, <1>1, HandEmpties, NumbersAre DEF OnePlace, IdleSender
<1>3. \A d \in Conns : Alive(d)' => Alive(d)
  <2>1. \A d \in Conns : d # c => sender'[d] = sender[d]
    BY <1>1 DEF SenderTypeOK
  <2> QED BY <1>1, <2>1 DEF Alive
<1> HIDE DEF e
<1>4. ToSet(sent') = ToSet(sent) \cup {e}
  BY <1>0, <1>1, AppendAdds
<1>5. Waiting' = Waiting /\ ToSet(Waiting) = {}
  BY <1>0, <1>1, SetOfEmpty DEF Waiting, AloneNow
<1>6. Before(ToSet(sent), {e})
  BY <1>0 DEF AloneNow, InOrder, Before
<1>7. Rises(sent')
  BY <1>0, <1>1, <1>6, RisesAppend DEF AloneNow, InOrder
<1>8. InOrder'
  BY <1>0, <1>1, <1>2, <1>4, <1>5, <1>7 DEF AloneNow, InOrder, Before
<1>9. Accepted' \subseteq ToSet(sent') \cup ToSet(Waiting') \cup Held' \cup ToSet(incoming')
  BY <1>0, <1>1, <1>2, <1>4, <1>5 DEF AloneNow, Accepted
<1> QED BY <1>0, <1>1, <1>3, <1>8, <1>9 DEF AloneNow

LEMMA AloneSendFail ==
    ASSUME SenderTypeOK, OnceInv, AloneInv, Alone, NEW c \in Conns, SendFail(c) PROVE AloneNow'
<1> DEFINE e == sender[c].event
<1>0. /\ AloneNow /\ OnePlace /\ Events \in SUBSET Int
      /\ c = conn /\ phase # "drain" /\ Held = {e} /\ e \in Events
      /\ phase = "down" \/ ~ link
      /\ phase \in {"down", "drain", "run"}
  BY AloneHolds DEF OnceInv, SendFail, SenderTypeOK
<1>1. /\ incoming' = incoming /\ sent' = sent /\ file' = Enqueue(file, e)
      /\ batch' = batch /\ produced' = produced /\ conn' = conn
      /\ sender' = [sender EXCEPT ![c] = DeadSender] /\ sender[c].pc = "sending"
  BY DEF SendFail
<1>2. Held' = Held \ {e}
  BY <1>0, <1>1, HandEmpties, NumbersAre DEF OnePlace, DeadSender
<1>3. \A d \in Conns : Alive(d)' => Alive(d)
  <2>1. \A d \in Conns : d # c => sender'[d] = sender[d]
    BY <1>1 DEF SenderTypeOK
  <2> QED BY <1>1, <2>1 DEF Alive
<1>4. phase' = "down"
  BY <1>0 DEF SendFail, Raise, SenderTypeOK
<1> HIDE DEF e
<1>5. /\ file \in Seq(Events) /\ file' = Append(file, e)
  <2>1. file \in Seq(Events)
    BY <1>0 DEF AloneNow
  <2>2. \A i \in DOMAIN file : file[i] # Torn
    BY <2>1, ElementOfSeq, LenProperties, NumbersAre
  <2>3. file \in Seq(FileLines)
    BY DEF SenderTypeOK, FileLines
  <2> QED BY <1>0, <1>1, <2>1, <2>2, <2>3, EnqueueIs
<1>6. ToSet(file') = ToSet(file) \cup {e} /\ file' \in Seq(Events)
  BY <1>0, <1>5, AppendAdds
<1>7. Waiting = file /\ Waiting' = file'
  BY <1>0, <1>4 DEF Waiting
<1>8. Before(ToSet(file), {e})
  BY <1>0, <1>7 DEF AloneNow, InOrder, Before
<1>9. Rises(file')
  BY <1>0, <1>5, <1>7, <1>8, RisesAppend DEF AloneNow, InOrder
<1>10. InOrder'
  <2>1. Before(ToSet(sent'), ToSet(Waiting') \cup Held' \cup ToSet(incoming'))
    BY <1>0, <1>1, <1>2, <1>6, <1>7 DEF AloneNow, InOrder, Before
  <2>2. Before(ToSet(Waiting'), Held' \cup ToSet(incoming'))
    BY <1>0, <1>1, <1>2, <1>6, <1>7 DEF AloneNow, InOrder, Before
  <2>3. Before(Held', ToSet(incoming'))
    BY <1>0, <1>1, <1>2 DEF AloneNow, InOrder, Before
  <2> QED BY <1>0, <1>1, <1>7, <1>9, <2>1, <2>2, <2>3 DEF AloneNow, InOrder
<1>11. Accepted' \subseteq ToSet(sent') \cup ToSet(Waiting') \cup Held' \cup ToSet(incoming')
  BY <1>0, <1>1, <1>2, <1>6, <1>7 DEF AloneNow, Accepted
<1> QED BY <1>0, <1>1, <1>3, <1>4, <1>6, <1>10, <1>11 DEF AloneNow

LEMMA AloneDown ==
    ASSUME SenderTypeOK, OnceInv, AloneInv, Alone, LinkDrop \/ Teardown PROVE AloneNow'
<1>0. AloneNow
  BY AloneHolds
<1>1. /\ incoming' = incoming /\ sent' = sent /\ batch' = batch /\ produced' = produced
      /\ file' = file /\ sender' = sender /\ conn' = conn /\ link' = FALSE
      /\ phase' = phase \/ (phase = "run" /\ phase' = "down")
  BY DEF LinkDrop, Teardown
<1>2. Held' = Held /\ Waiting' = Waiting
  BY <1>1 DEF Held, InHand, Waiting
<1>3. InOrder' /\ Accepted' = Accepted
  BY <1>0, <1>1, <1>2 DEF AloneNow, InOrder, Accepted
<1> QED BY <1>0, <1>1, <1>2, <1>3 DEF AloneNow, Alive

LEMMA AloneStep ==
    ASSUME SenderTypeOK, OnceInv, AloneInv, SenderNext PROVE AloneInv'
<1>1. (phase = "down" => ~link)'
  BY LinkIsDown
<1>2. SUFFICES ASSUME Alone' PROVE AloneNow'
  BY <1>1 DEF AloneInv, AloneNow
<1>3. Alone /\ ~ Crash
  BY <1>2, AloneFrom
<1>4. CASE Connect
  BY <1>2, <1>3, <1>4, AloneConnect DEF Alone
<1>5. CASE DrainFail \/ DrainEnd
  BY <1>3, <1>5, AloneDrainOver
<1>6. CASE LinkDrop \/ Teardown
  BY <1>3, <1>6, AloneDown
<1> QED BY <1>3, <1>4, <1>5, <1>6, AloneProduce, AloneDrainSend, AloneTake, AloneSendOk, AloneSendFail
        DEF SenderNext, SenderStep

-----------------------------------------------------------------------------
(* The outbound queue: the theorems. *)
LEMMA SenderStarts == SenderInit => SenderInv
<1> SUFFICES ASSUME SenderInit PROVE SenderInv
  OBVIOUS
<1>1. produced = 0 /\ incoming = <<>> /\ file = <<>> /\ sent = <<>> /\ batch = <<>> /\ phase = "down"
      /\ conn = 0 /\ link = FALSE /\ crashes = 0 /\ haunted = FALSE /\ sender = [c \in Conns |-> NoSender]
  BY DEF SenderInit
<1>2. ToSet(<<>>) = {} /\ DOMAIN <<>> = {}
  BY SetOfEmpty
<1>3. \A c \in Conns : sender[c].pc = "none"
  BY <1>1 DEF NoSender
<1>4. Held = {} /\ HandsOnce /\ \A c \in Conns : ~ Alive(c)
  BY <1>3 DEF Held, InHand, HandsOnce, Alive
<1>5. SenderTypeOK
  <2>1. <<>> \in Seq(Events) /\ <<>> \in Seq(Events \cup {Torn, Garbled})
    BY EmptySeq
  <2>2. sender \in [Conns -> SenderSet]
    BY <1>1, NumbersAre
  <2>3. 0 \in 0 .. MaxEvents /\ 0 \in 0 .. MaxConnects /\ 0 \in 0 .. MaxCrashes
    BY NumbersAre
  <2> QED BY <1>1, <2>1, <2>2, <2>3 DEF SenderTypeOK, SenderSet
<1>6. Waiting = <<>>
  BY <1>1 DEF Waiting
<1>7. OnceInv
  <2>1. OnePlace
    BY <1>1, <1>2, <1>4 DEF OnePlace, IncomingOnce, FileOnce, BatchOnce, Apart, Made
  <2>2. \A e \in Events : Times(e) = 0
    BY <1>1, <1>2, <1>5, TimesIs DEF SenderTypeOK
  <2> QED BY <1>1, <1>2, <1>4, <1>6, <2>1, <2>2 DEF OnceInv, ToGo
<1>8. AloneInv
  <2>1. InOrder
    BY <1>1, <1>2, <1>4, <1>6 DEF InOrder, Rises, Before
  <2>2. Accepted = {}
    BY <1>1 DEF Accepted
  <2> QED BY <1>1, <1>4, <1>5, <2>1, <2>2, EmptySeq DEF AloneInv
<1> QED BY <1>5, <1>7, <1>8 DEF SenderInv

LEMMA SenderStutters ==
    ASSUME SenderInv, UNCHANGED senderVars PROVE SenderInv'
<1>1. UNCHANGED <<produced, incoming, file, sent, phase, conn, link, batch, sender, crashes, haunted>>
  BY DEF senderVars
<1>2. SenderTypeOK'
  BY <1>1 DEF SenderInv, SenderTypeOK
<1>3. Held' = Held /\ Waiting' = Waiting
  BY <1>1 DEF Held, InHand, Waiting
<1>4. OnePlace'
  BY <1>1, <1>3 DEF SenderInv, OnceInv, OnePlace, IncomingOnce, FileOnce, BatchOnce, HandsOnce, Apart, Made
<1>5. OnceInv'
  BY <1>1, <1>3, <1>4 DEF SenderInv, OnceInv, ToGo, Times
<1>6. AloneInv'
  BY <1>1, <1>3 DEF SenderInv, AloneInv, Alone, Alive, InOrder, Accepted
<1> QED BY <1>2, <1>5, <1>6 DEF SenderInv

(* Who holds what, on every execution: no event is in two places from      *)
(* which it would be sent, and as long as no sender outlived its           *)
(* connection the places are in the order of production.                   *)
THEOREM SenderKeepsItsBooks == SenderSpec => []SenderInv
<1>1. SenderInv /\ [SenderNext]_senderVars => SenderInv'
  <2>1. ASSUME SenderInv, SenderNext PROVE SenderInv'
    BY <2>1, SenderTypeKept, OnceStep, AloneStep DEF SenderInv, OnceInv, OnePlace, HandsOnce
  <2> QED BY <2>1, SenderStutters
<1> QED BY <1>1, SenderStarts, PTL DEF SenderSpec

(* However many senders outlive their connections (run_sender's gather     *)
(* leaves them running), an event goes out twice only if a crash           *)
(* interrupted the drain that had sent it.                                 *)
THEOREM SpecSentOnce == SenderSpec => []SentOnce
<1>1. SenderInv => SentOnce
  BY DEF SenderInv, OnceInv, Times, SentOnce
<1> QED BY <1>1, SenderKeepsItsBooks, PTL

(* While every connection starts with no sender left over, drops and       *)
(* reconnects lose no event, and the backend gets the events in order.     *)
THEOREM SpecAloneKeepsAll == SenderSpec => []AloneKeepsAll
<1>1. SenderInv => AloneKeepsAll
  <2> SUFFICES ASSUME SenderInv, ~haunted, crashes = 0
               PROVE  /\ \A e \in Accepted : Safe(e)
                      /\ \A i, j \in DOMAIN sent : i < j => sent[i] < sent[j]
    BY DEF AloneKeepsAll
  <2>1. InOrder /\ Accepted \subseteq ToSet(sent) \cup ToSet(Waiting) \cup Held \cup ToSet(incoming)
    BY DEF SenderInv, AloneInv, Alone
  <2>2. ToSet(Waiting) \subseteq ToSet(file)
    BY DEF SenderInv, OnceInv, OnePlace, Apart, Waiting
  <2>3. \A e \in Accepted : Safe(e)
    BY <2>1, <2>2 DEF Safe, OnDisk, Sent, Held
  <2> QED BY <2>1, <2>3 DEF InOrder, Rises
<1> QED BY <1>1, SenderKeepsItsBooks, PTL

-----------------------------------------------------------------------------
(* What a tail knows of the file: it starts at its offset or before it, a  *)
(* read that no success made stale continues there, and what it carries    *)
(* over are beginnings of lines.                                           *)
TailKnows(t) ==
    /\ t.since <= t.offset /\ t.offset <= written /\ t.size <= written
    /\ t.seen <= t.epoch
    /\ t.epoch <= IF drive = 0 THEN drives ELSE drives - 1
    /\ t.pc = "read" => t.from < t.size
    /\ t.pc = "read" /\ t.seen = t.epoch => t.from = t.offset
    /\ \A i \in DOMAIN t.rest : ~ EndsLine(t.rest[i]) /\ t.rest[i] <= t.offset
    /\ Rises(t.rest)

(* The lines tail g posted, and those it posted or holds back. *)
PostedBy(g) == {n \in DOMAIN line : \E i \in DOMAIN posted : posted[i].tail = g /\ posted[i].line = n}
Handled(g)  == PostedBy(g) \cup ToSet(tails[g].buffer)

(* Each tail has its own stretch of the file, and goes through it once. *)
Stretches ==
    /\ \A i \in DOMAIN posted : posted[i].tail \in DOMAIN tails /\ posted[i].line \in DOMAIN line
    /\ \A g \in DOMAIN tails :
          /\ ToSet(tails[g].buffer) \subseteq DOMAIN line
          /\ \A n \in Handled(g) : tails[g].since < 2 * n /\ 2 * n <= tails[g].offset
          /\ Rises(tails[g].buffer)
          /\ Before(PostedBy(g), ToSet(tails[g].buffer))
    /\ \A g, h \in DOMAIN tails : g < h =>
          /\ tails[g].size <= tails[h].since
          /\ \A n \in Handled(g) : 2 * n <= tails[h].since
    /\ \A i, j \in DOMAIN posted :
          (i < j /\ posted[i].tail = posted[j].tail) => posted[i].line < posted[j].line

(* Who is watched, and by whom: only the newest tail polls, and only the   *)
(* tail a drive found holds anything back.                                 *)
Watching ==
    /\ current # NoTail => current = Len(tails)
    /\ held # NoTail => held \in DOMAIN tails /\ drive # 0 /\ tails[held].suppress
    /\ \A g \in DOMAIN tails :
          /\ tails[g].buffer # <<>> => tails[g].suppress
          /\ tails[g].suppress => held = g
    /\ drive \in {0, drives}
    /\ succeeded \subseteq (1 .. drives) \ {drive}
    /\ \A n \in DOMAIN line : line[n].by <= drives

(* A drive that runs with nothing but the tail it found: only that tail    *)
(* has seen its lines, and posted none.                                    *)
RunningApart ==
    (drive # 0 /\ drive \notin blind) =>
        /\ current \in {held, NoTail}
        /\ \A n \in DOMAIN line : line[n].by = drive =>
              /\ \A g \in DOMAIN tails : n \notin PostedBy(g)
              /\ \A g \in DOMAIN tails : g # held => tails[g].size < 2 * n - 1

(* And once it has succeeded, no tail gets to its answer any more. *)
AnswersApart ==
    \A n \in DOMAIN line :
        (line[n].by \in succeeded \ blind /\ line[n].role = "assistant") =>
            /\ 2 * n <= written
            /\ \A g \in DOMAIN tails :
                  /\ n \notin Handled(g)
                  /\ 2 * n <= tails[g].offset \/ (g # current /\ tails[g].size < 2 * n - 1)

TailInv ==
    /\ TailTypeOK
    /\ \A g \in DOMAIN tails : TailKnows(tails[g])
    /\ Stretches /\ Watching /\ RunningApart /\ AnswersApart

-----------------------------------------------------------------------------
(* The transcript tail: what a read yields. *)
LEMMA LargestOf ==
    ASSUME NEW n \in Nat, NEW S \in SUBSET (0 .. n), S # {}
    PROVE  Max(S) \in S /\ \A k \in S : k <= Max(S)
<1> DEFINE Above == {i \in Nat : n - i \in S}
<1>1. Above # {} /\ Above \subseteq Nat
  <2>1. PICK k \in S : TRUE
    OBVIOUS
  <2>2. n - k \in Nat /\ n - (n - k) = k
    BY <2>1
  <2> QED BY <2>1, <2>2
<1> HIDE DEF Above
<1>2. \E i \in Above : \A j \in Above : ~ (<<j, i>> \in OpToRel(<, Nat))
  BY <1>1, NatLessThanWellFounded, WFMin, Zenon
<1>3. PICK i \in Above : \A j \in Above : ~ (j < i)
  BY <1>1, <1>2 DEF OpToRel
<1>4. n - i \in S /\ \A k \in S : k <= n - i
  <2>1. \A k \in S : n - k \in Above
    <3>1. \A k \in S : n - k \in Nat /\ n - (n - k) = k
      OBVIOUS
    <3> QED BY <3>1 DEF Above
  <2>2. \A k \in S : ~ (n - k < i)
    BY <1>3, <2>1
  <2>3. i \in Nat /\ n - i \in S
    BY <1>1 DEF Above
  <2> QED BY <2>2, <2>3
<1>5. \E k \in S : \A j \in S : k >= j
  BY <1>4
<1> QED BY <1>5 DEF Max

(* The whole file, in parts. *)
Parts == 1 .. 2 * MaxLines

LEMMA PartsAre ==
    /\ MaxLines \in Nat /\ MaxDrives \in Nat /\ MaxTails \in Nat
    /\ Parts \subseteq Nat /\ Parts \in SUBSET Int /\ Lines \in SUBSET Int
    /\ Editor = 0 /\ NoTail = 0
    /\ Drives = 1 .. MaxDrives /\ Tails = 1 .. MaxTails /\ Lines = 1 .. MaxLines
BY TailAssumption DEF Parts, Lines, Drives, Tails, Editor, NoTail

(* What is left over ends no line. *)
LEMMA RestIs ==
    ASSUME NEW buf \in Seq(Parts), Rises(buf), NEW m \in Nat, \A i \in DOMAIN buf : buf[i] <= m
    PROVE  /\ Rest(buf) \in Seq(Parts) /\ Rises(Rest(buf))
           /\ \A i \in DOMAIN Rest(buf) : ~ EndsLine(Rest(buf)[i]) /\ Rest(buf)[i] <= m
<1> DEFINE S == {0} \cup {i \in DOMAIN buf : EndsLine(buf[i])}
           e == LastEnd(buf)
<1>1. Len(buf) \in Nat /\ DOMAIN buf = 1 .. Len(buf) /\ \A i \in 1 .. Len(buf) : buf[i] \in Parts
  BY LenProperties, ElementOfSeq
<1>2. e \in 0 .. Len(buf) /\ \A i \in 1 .. Len(buf) : EndsLine(buf[i]) => i <= e
  <2>1. S \in SUBSET (0 .. Len(buf)) /\ S # {}
    BY <1>1
  <2>2. e = Max(S)
    BY DEF LastEnd
  <2> HIDE DEF S
  <2>3. e \in S /\ \A k \in S : k <= e
    BY <1>1, <2>1, <2>2, LargestOf
  <2> QED BY <1>1, <2>1, <2>3 DEF S
<1> HIDE DEF e
<1>3. /\ Rest(buf) \in Seq(Parts) /\ Len(Rest(buf)) = Len(buf) - e
      /\ \A i \in 1 .. Len(buf) - e : Rest(buf)[i] = buf[e + i]
  <2>1. \A i \in e + 1 .. Len(buf) : buf[i] \in Parts
    BY <1>1, <1>2
  <2>2. e + 1 \in Int /\ Len(buf) \in Int /\ Rest(buf) = SubSeq(buf, e + 1, Len(buf))
    BY <1>1, <1>2 DEF Rest, e
  <2>3. CASE e + 1 <= Len(buf) + 1
    <3>1. /\ Rest(buf) \in Seq(Parts)
          /\ Len(Rest(buf)) = IF e + 1 <= Len(buf) THEN Len(buf) - (e + 1) + 1 ELSE 0
          /\ \A i \in 1 .. Len(buf) - (e + 1) + 1 : Rest(buf)[i] = buf[(e + 1) + i - 1]
      BY <2>1, <2>2, SubSeqProperties
    <3>2. Len(buf) - (e + 1) + 1 = Len(buf) - e /\ \A i \in Int : (e + 1) + i - 1 = e + i
      BY <1>1, <1>2
    <3>3. Len(Rest(buf)) = Len(buf) - e
      <4>1. \A n \in Nat : \A k \in 0 .. n :
               (IF k + 1 <= n THEN n - (k + 1) + 1 ELSE 0) = n - k
        OBVIOUS
      <4> QED BY <1>1, <1>2, <3>1, <4>1, Zenon
    <3>4. \A i \in 1 .. Len(buf) - e : Rest(buf)[i] = buf[e + i]
      <4>1. \A i \in 1 .. Len(buf) - e : i \in Int
        OBVIOUS
      <4> QED BY <3>1, <3>2, <4>1, Zenon
    <3> QED BY <3>1, <3>3, <3>4
  <2>4. \A n \in Nat : \A k \in 0 .. n : k + 1 <= n + 1
    OBVIOUS
  <2> QED BY <1>1, <1>2, <2>3, <2>4, Zenon
<1>4. DOMAIN Rest(buf) = 1 .. Len(buf) - e
  BY <1>3, LenProperties
<1>5. \A i \in 1 .. Len(buf) - e : e + i \in 1 .. Len(buf) /\ ~ (e + i <= e)
  BY <1>1, <1>2
<1>6. \A i \in DOMAIN Rest(buf) : ~ EndsLine(Rest(buf)[i]) /\ Rest(buf)[i] <= m
  BY <1>1, <1>2, <1>3, <1>4, <1>5
<1>7. Rises(Rest(buf))
  <2>1. \A i, j \in 1 .. Len(buf) - e : i < j => e + i < e + j
    BY <1>1, <1>2
  <2> QED BY <1>1, <1>3, <1>4, <1>5, <2>1 DEF Rises
<1> QED BY <1>3, <1>6, <1>7

(* The turns of a buffer are its complete lines, in order. *)
LEMMA TurnsAre ==
    ASSUME NEW buf \in Seq(Parts), Rises(buf)
    PROVE  /\ TurnsIn(buf) \in Seq(Lines) /\ Rises(TurnsIn(buf))
           /\ \A n \in ToSet(TurnsIn(buf)) : \E i \in DOMAIN buf : EndsLine(buf[i]) /\ buf[i] = 2 * n
<1> DEFINE I == {i \in DOMAIN buf : Parses(buf, i) /\ line[buf[i] \div 2].role # "skipped"}
           ends == Ascending(I)
           m == Cardinality(I)
<1>1. Len(buf) \in Nat /\ DOMAIN buf = 1 .. Len(buf) /\ \A i \in 1 .. Len(buf) : buf[i] \in Parts
  BY LenProperties, ElementOfSeq
<1>2. m \in Nat /\ ends \in [1 .. m -> I] /\ Lists(ends, I)
  <2>1. I \in SUBSET (1 .. Len(buf))
    BY <1>1
  <2> HIDE DEF I
  <2> QED BY <1>1, <2>1, AscendingLists
<1>3. \A i \in I : i \in DOMAIN buf /\ EndsLine(buf[i])
  BY DEF Parses
<1>4. TurnsIn(buf) = [k \in 1 .. m |-> buf[ends[k]] \div 2]
  BY <1>2 DEF TurnsIn
<1> HIDE DEF I, ends, m
<1>5. \A p \in Parts : EndsLine(p) => p \div 2 \in Lines /\ p = 2 * (p \div 2)
  BY PartsAre DEF Parts, EndsLine, Lines
<1>6. \A k \in 1 .. m : /\ ends[k] \in DOMAIN buf /\ EndsLine(buf[ends[k]])
                        /\ buf[ends[k]] \div 2 \in Lines /\ buf[ends[k]] = 2 * (buf[ends[k]] \div 2)
  BY <1>1, <1>2, <1>3, <1>5
<1>7. /\ TurnsIn(buf) \in Seq(Lines) /\ DOMAIN TurnsIn(buf) = 1 .. m
      /\ \A k \in 1 .. m : TurnsIn(buf)[k] = buf[ends[k]] \div 2
  BY <1>2, <1>4, <1>6
<1>8. Rises(TurnsIn(buf))
  <2> SUFFICES ASSUME NEW k \in 1 .. m, NEW l \in 1 .. m, k < l
               PROVE  TurnsIn(buf)[k] < TurnsIn(buf)[l]
    BY <1>7 DEF Rises
  <2>1. ends[k] < ends[l]
    BY <1>2 DEF Lists
  <2>2. buf[ends[k]] < buf[ends[l]]
    BY <1>6, <2>1 DEF Rises
  <2>3. TurnsIn(buf)[k] \in Int /\ TurnsIn(buf)[l] \in Int
    BY <1>6, <1>7, PartsAre
  <2> QED BY <1>6, <1>7, <2>2, <2>3
<1>9. \A n \in ToSet(TurnsIn(buf)) : \E i \in DOMAIN buf : EndsLine(buf[i]) /\ buf[i] = 2 * n
  BY <1>6, <1>7 DEF ToSet
<1> QED BY <1>7, <1>8, <1>9

(* One list after another. *)
LEMMA JoinIs ==
    ASSUME NEW S, NEW s \in Seq(S), NEW u \in Seq(S)
    PROVE  /\ s \o u \in Seq(S)
           /\ Len(s) \in Nat /\ DOMAIN s = 1 .. Len(s)
           /\ \A i \in DOMAIN s : i \in DOMAIN (s \o u) /\ (s \o u)[i] = s[i] /\ i <= Len(s) /\ i \in Nat
           /\ \A k \in DOMAIN u : Len(s) + k \in DOMAIN (s \o u) /\ (s \o u)[Len(s) + k] = u[k]
                                  /\ Len(s) + k > Len(s) /\ k \in Nat
           /\ \A i \in DOMAIN (s \o u) : i \in DOMAIN s \/ \E k \in DOMAIN u : i = Len(s) + k
           /\ ToSet(s \o u) = ToSet(s) \cup ToSet(u)
<1>1. /\ s \o u \in Seq(S) /\ Len(s \o u) = Len(s) + Len(u)
      /\ \A i \in 1 .. Len(s) + Len(u) : (s \o u)[i] = IF i <= Len(s) THEN s[i] ELSE u[i - Len(s)]
  BY ConcatProperties
<1>2. /\ Len(s) \in Nat /\ DOMAIN s = 1 .. Len(s) /\ Len(u) \in Nat /\ DOMAIN u = 1 .. Len(u)
      /\ DOMAIN (s \o u) = 1 .. Len(s) + Len(u)
  BY <1>1, LenProperties
<1>3. \A m, n \in Nat : /\ \A i \in 1 .. m : i \in 1 .. m + n /\ i <= m /\ i \in Nat
                        /\ \A k \in 1 .. n : /\ m + k \in 1 .. m + n /\ m + k > m /\ (m + k) - m = k
                                             /\ ~ (m + k <= m) /\ k \in Nat
                        /\ \A i \in 1 .. m + n : i \in 1 .. m \/ (i - m \in 1 .. n /\ i = m + (i - m))
  OBVIOUS
<1>4. \A i \in DOMAIN s : i \in DOMAIN (s \o u) /\ (s \o u)[i] = s[i] /\ i <= Len(s) /\ i \in Nat
  BY <1>1, <1>2, <1>3, Zenon
<1>5. \A k \in DOMAIN u : Len(s) + k \in DOMAIN (s \o u) /\ (s \o u)[Len(s) + k] = u[k]
                          /\ Len(s) + k > Len(s) /\ k \in Nat
  <2> SUFFICES ASSUME NEW k \in 1 .. Len(u)
               PROVE  Len(s) + k \in 1 .. Len(s) + Len(u) /\ (s \o u)[Len(s) + k] = u[k]
                      /\ Len(s) + k > Len(s) /\ k \in Nat
    BY <1>2
  <2>1. /\ Len(s) + k \in 1 .. Len(s) + Len(u) /\ Len(s) + k > Len(s) /\ (Len(s) + k) - Len(s) = k
        /\ ~ (Len(s) + k <= Len(s)) /\ k \in Nat
    BY <1>2, <1>3, Zenon
  <2>2. (s \o u)[Len(s) + k] = IF Len(s) + k <= Len(s) THEN s[Len(s) + k] ELSE u[(Len(s) + k) - Len(s)]
    BY <1>1, <2>1, Zenon
  <2> QED BY <2>1, <2>2, Zenon
<1>6. \A i \in DOMAIN (s \o u) : i \in DOMAIN s \/ \E k \in DOMAIN u : i = Len(s) + k
  <2> SUFFICES ASSUME NEW i \in 1 .. Len(s) + Len(u), i \notin 1 .. Len(s)
               PROVE  \E k \in 1 .. Len(u) : i = Len(s) + k
    BY <1>2
  <2>1. i - Len(s) \in 1 .. Len(u) /\ i = Len(s) + (i - Len(s))
    <3>1. \A m, n \in Nat : \A k \in 1 .. m + n : k \notin 1 .. m => k - m \in 1 .. n /\ k = m + (k - m)
      OBVIOUS
    <3> QED BY <1>2, <3>1, Zenon
  <2> QED BY <2>1, Zenon
<1> DEFINE j == s \o u
<1> HIDE DEF j
<1>7. ToSet(j) = ToSet(s) \cup ToSet(u)
  <2>1. /\ \A i \in DOMAIN s : i \in DOMAIN j /\ j[i] = s[i]
        /\ \A k \in DOMAIN u : Len(s) + k \in DOMAIN j /\ j[Len(s) + k] = u[k]
        /\ \A i \in DOMAIN j : i \in DOMAIN s \/ \E k \in DOMAIN u : i = Len(s) + k
    BY <1>4, <1>5, <1>6 DEF j
  <2>2. \A e \in ToSet(j) : e \in ToSet(s) \cup ToSet(u)
    <3> SUFFICES ASSUME NEW i \in DOMAIN j PROVE j[i] \in ToSet(s) \cup ToSet(u)
      BY DEF ToSet
    <3> QED BY <2>1 DEF ToSet
  <2>3. ToSet(s) \subseteq ToSet(j) /\ ToSet(u) \subseteq ToSet(j)
    BY <2>1 DEF ToSet
  <2> QED BY <2>2, <2>3
<1> QED BY <1>1, <1>2, <1>4, <1>5, <1>6, <1>7 DEF j

LEMMA JoinRises ==
    ASSUME NEW S \in SUBSET Int, NEW s \in Seq(S), NEW u \in Seq(S),
           Rises(s), Rises(u), Before(ToSet(s), ToSet(u))
    PROVE  Rises(s \o u)
<1> DEFINE j == s \o u
<1>1. /\ Len(s) \in Nat
      /\ \A i \in DOMAIN s : i \in DOMAIN j /\ j[i] = s[i] /\ i <= Len(s) /\ i \in Nat
      /\ \A k \in DOMAIN u : Len(s) + k \in DOMAIN j /\ j[Len(s) + k] = u[k]
                             /\ Len(s) + k > Len(s) /\ k \in Nat
      /\ \A i \in DOMAIN j : i \in DOMAIN s \/ \E k \in DOMAIN u : i = Len(s) + k
  BY JoinIs
<1> HIDE DEF j
<1>2. \A i \in DOMAIN s : \A k \in DOMAIN u : s[i] < u[k]
  BY DEF Before, ToSet
<1> SUFFICES ASSUME NEW a \in DOMAIN j, NEW b \in DOMAIN j, a < b PROVE j[a] < j[b]
  BY DEF Rises, j
<1>3. CASE a \in DOMAIN s /\ b \in DOMAIN s
  BY <1>1, <1>3 DEF Rises
<1>4. CASE a \in DOMAIN s /\ b \notin DOMAIN s
  <2>1. PICK k \in DOMAIN u : b = Len(s) + k
    BY <1>1, <1>4
  <2>2. j[a] = s[a] /\ j[b] = u[k]
    BY <1>1, <1>4, <2>1
  <2> QED BY <1>2, <1>4, <2>2
<1>5. CASE a \notin DOMAIN s /\ b \in DOMAIN s
  <2>1. PICK k \in DOMAIN u : a = Len(s) + k
    BY <1>1, <1>5
  <2>2. a > Len(s) /\ b <= Len(s) /\ a \in Nat /\ b \in Nat
    BY <1>1, <1>5, <2>1
  <2> QED BY <1>1, <2>2
<1>6. CASE a \notin DOMAIN s /\ b \notin DOMAIN s
  <2>1. PICK k \in DOMAIN u : a = Len(s) + k
    BY <1>1, <1>6
  <2>2. PICK l \in DOMAIN u : b = Len(s) + l
    BY <1>1, <1>6
  <2>3. k < l
    <3>1. k \in Nat /\ l \in Nat /\ Len(s) \in Nat
      BY <1>1
    <3> QED BY <2>1, <2>2, <3>1
  <2>4. j[a] = u[k] /\ j[b] = u[l] /\ u[k] < u[l]
    BY <1>1, <2>1, <2>2, <2>3 DEF Rises
  <2> QED BY <2>4
<1> QED BY <1>3, <1>4, <1>5, <1>6

(* What came back: after the offset, up to the size that was asked for. *)
LEMMA ReadIs ==
    ASSUME written \in 0 .. 2 * MaxLines, NEW t \in TailType, TailKnows(t), t.pc = "read", t.seen = t.epoch,
           NEW buf, buf = t.rest \o ReadRange(t.from, t.size)
    PROVE  /\ Rest(buf) \in Seq(Parts) /\ Rises(Rest(buf))
           /\ \A i \in DOMAIN Rest(buf) : ~ EndsLine(Rest(buf)[i]) /\ Rest(buf)[i] <= t.size
           /\ TurnsIn(buf) \in Seq(Lines) /\ Rises(TurnsIn(buf))
           /\ \A n \in ToSet(TurnsIn(buf)) : t.offset < 2 * n /\ 2 * n <= t.size
<1>1. /\ t.from = t.offset /\ t.from < t.size /\ t.size \in 0 .. 2 * MaxLines /\ t.from \in 0 .. 2 * MaxLines
      /\ t.rest \in Seq(Parts) /\ Rises(t.rest)
      /\ \A i \in DOMAIN t.rest : ~ EndsLine(t.rest[i]) /\ t.rest[i] <= t.offset
  BY DEF TailKnows, TailType, Parts
<1>a. t.from \in Int /\ t.size \in Int /\ t.offset \in Int /\ t.offset < t.size
  BY <1>1
<1>b. \A i \in DOMAIN t.rest : t.rest[i] \in Int /\ t.rest[i] <= t.offset /\ ~ EndsLine(t.rest[i])
  <2>1. \A i \in DOMAIN t.rest : t.rest[i] \in Parts
    BY <1>1, ElementOfSeq, LenProperties
  <2> QED BY <1>1, <2>1, PartsAre
<1> DEFINE new == ReadRange(t.from, t.size)
           m == t.size - t.from
<1>2. m \in Nat /\ new = [i \in 1 .. m |-> t.from + i]
  <2>1. m \in Nat
    BY <1>1, <1>a
  <2>2. new = [i \in 1 .. m |-> t.from + i]
    BY DEF ReadRange
  <2> QED BY <2>1, <2>2
<1>3. \A i \in 1 .. m : t.from + i \in Parts /\ t.from + i > t.from /\ t.from + i <= t.size
  BY <1>1, PartsAre DEF Parts
<1> HIDE DEF m
<1>4. new \in Seq(Parts) /\ DOMAIN new = 1 .. m /\ \A i \in 1 .. m : new[i] = t.from + i
  <2>1. \A i \in 1 .. m : t.from + i \in Parts
    BY <1>3
  <2> HIDE DEF new
  <2>2. DOMAIN new = 1 .. m /\ \A i \in 1 .. m : new[i] = t.from + i
    BY <1>2, Zenon
  <2>3. new \in Seq(Parts)
    BY <1>2, <2>1
  <2> QED BY <2>2, <2>3
<1> HIDE DEF new
<1>5. Rises(new)
  <2>1. \A i, j \in 1 .. m : i < j => t.from + i < t.from + j
    BY <1>1, <1>2
  <2> QED BY <1>4, <2>1 DEF Rises
<1>6. Before(ToSet(t.rest), ToSet(new))
  <2>1. ASSUME NEW i \in DOMAIN t.rest, NEW k \in 1 .. m PROVE t.rest[i] < new[k]
    <3>1. t.rest[i] \in Int /\ t.rest[i] <= t.from
      BY <1>1, <1>b
    <3>2. new[k] \in Int /\ t.from < new[k]
      BY <1>2, <1>a, <1>4
    <3> QED BY <1>a, <3>1, <3>2
  <2> QED BY <1>4, <2>1 DEF Before, ToSet
<1>7. buf = t.rest \o new
  BY DEF new
<1>8. buf \in Seq(Parts) /\ ToSet(buf) = ToSet(t.rest) \cup ToSet(new)
  <2>1. t.rest \o new \in Seq(Parts) /\ ToSet(t.rest \o new) = ToSet(t.rest) \cup ToSet(new)
    BY <1>1, <1>4, JoinIs
  <2> QED BY <1>7, <2>1
<1>9. Rises(buf)
  BY <1>1, <1>4, <1>5, <1>6, <1>7, JoinRises, PartsAre
<1>10. \A i \in DOMAIN buf : /\ buf[i] \in Parts /\ buf[i] <= t.size
                             /\ EndsLine(buf[i]) => buf[i] > t.offset
  <2>1. \A e \in ToSet(t.rest) : e <= t.size /\ ~ EndsLine(e)
    <3>1. ASSUME NEW i \in DOMAIN t.rest PROVE t.rest[i] <= t.size /\ ~ EndsLine(t.rest[i])
      BY <1>a, <1>b
    <3> QED BY <3>1 DEF ToSet
  <2>2. \A e \in ToSet(new) : e <= t.size /\ e > t.offset
    BY <1>1, <1>3, <1>4 DEF ToSet
  <2>3. \A i \in DOMAIN buf : buf[i] \in ToSet(buf) /\ buf[i] \in Parts
    BY <1>8, ElementOfSeq, LenProperties DEF ToSet
  <2> QED BY <1>8, <2>1, <2>2, <2>3
<1>11. /\ Rest(buf) \in Seq(Parts) /\ Rises(Rest(buf))
       /\ \A i \in DOMAIN Rest(buf) : ~ EndsLine(Rest(buf)[i]) /\ Rest(buf)[i] <= t.size
  <2>1. t.size \in Nat
    BY <1>1, PartsAre
  <2> QED BY <1>8, <1>9, <1>10, <2>1, RestIs
<1>12. /\ TurnsIn(buf) \in Seq(Lines) /\ Rises(TurnsIn(buf))
       /\ \A n \in ToSet(TurnsIn(buf)) : \E i \in DOMAIN buf : EndsLine(buf[i]) /\ buf[i] = 2 * n
  BY <1>8, <1>9, TurnsAre
<1>13. \A n \in ToSet(TurnsIn(buf)) : t.offset < 2 * n /\ 2 * n <= t.size
  <2> SUFFICES ASSUME NEW n \in ToSet(TurnsIn(buf)) PROVE t.offset < 2 * n /\ 2 * n <= t.size
    OBVIOUS
  <2>1. PICK i \in DOMAIN buf : EndsLine(buf[i]) /\ buf[i] = 2 * n
    BY <1>12
  <2>2. buf[i] <= t.size /\ buf[i] > t.offset
    BY <1>10, <2>1
  <2> QED BY <1>1, <2>1, <2>2, PartsAre
<1> QED BY <1>11, <1>12, <1>13

-----------------------------------------------------------------------------
(* The transcript tail: one tail changes, and posts. *)
LEMMA TailEdit ==
    ASSUME tails \in Seq(TailType), NEW g \in DOMAIN tails, NEW t \in TailType,
           tails' = [tails EXCEPT ![g] = t]
    PROVE  /\ tails' \in Seq(TailType) /\ Len(tails') = Len(tails) /\ DOMAIN tails' = DOMAIN tails
           /\ tails'[g] = t
           /\ \A h \in DOMAIN tails : h # g => tails'[h] = tails[h]
<1>1. /\ tails' \in Seq(TailType) /\ Len(tails') = Len(tails)
      /\ \A i \in 1 .. Len(tails) : tails'[i] = IF i = g THEN t ELSE tails[i]
  BY ExceptSeq, LenProperties
<1>2. DOMAIN tails = 1 .. Len(tails) /\ DOMAIN tails' = 1 .. Len(tails')
  BY <1>1, LenProperties
<1> QED BY <1>1, <1>2

LEMMA TailNumbers ==
    ASSUME TailTypeOK
    PROVE  /\ Len(tails) \in Nat /\ DOMAIN tails = 1 .. Len(tails) /\ DOMAIN tails \subseteq Tails
           /\ DOMAIN tails \subseteq Nat \ {0}
           /\ \A g \in DOMAIN tails : tails[g] \in TailType /\ g <= Len(tails)
           /\ Len(line) \in Nat /\ DOMAIN line = 1 .. Len(line) /\ DOMAIN line \subseteq Lines
           /\ written \in 0 .. 2 * MaxLines /\ \A n \in Lines : 2 * n <= written => n \in DOMAIN line
<1>1. Len(tails) \in Nat /\ DOMAIN tails = 1 .. Len(tails) /\ Len(tails) <= MaxTails
      /\ Len(line) \in Nat /\ DOMAIN line = 1 .. Len(line)
  BY LenProperties DEF TailTypeOK
<1>2. \A g \in DOMAIN tails : tails[g] \in TailType
  BY <1>1, ElementOfSeq DEF TailTypeOK
<1>3. \A k \in Nat : k <= MaxTails => 1 .. k \subseteq Tails /\ 1 .. k \subseteq Nat \ {0} /\ \A i \in 1 .. k : i <= k
  BY PartsAre
<1>4. Len(line) = (written + 1) \div 2 /\ written \in 0 .. 2 * MaxLines
  BY DEF TailTypeOK
<1>5. \A w \in 0 .. 2 * MaxLines : /\ (w + 1) \div 2 <= MaxLines
                                   /\ \A n \in Lines : 2 * n <= w => n \in 1 .. ((w + 1) \div 2)
  BY PartsAre
<1>6. \A k \in Nat : k <= MaxLines => 1 .. k \subseteq Lines
  BY PartsAre
<1> QED BY <1>1, <1>2, <1>3, <1>4, <1>5, <1>6, Zenon

(* posted grows by the lines ns, posted by g. *)
PostsTo(g, ns) ==
    /\ posted' \in Seq([tail : Tails, line : Lines])
    /\ Len(posted) \in Nat /\ DOMAIN posted = 1 .. Len(posted)
    /\ \A i \in DOMAIN posted : i \in DOMAIN posted' /\ posted'[i] = posted[i]
    /\ \A k \in DOMAIN ns : /\ Len(posted) + k \in DOMAIN posted' /\ k \in Nat /\ k > 0
                            /\ posted'[Len(posted) + k].tail = g /\ posted'[Len(posted) + k].line = ns[k]
    /\ \A i \in DOMAIN posted' : i \in DOMAIN posted \/ \E k \in DOMAIN ns : i = Len(posted) + k

LEMMA PostIs ==
    ASSUME posted \in Seq([tail : Tails, line : Lines]), NEW g \in Tails, NEW ns \in Seq(Lines), Post(g, ns)
    PROVE  PostsTo(g, ns)
<1> DEFINE u == [i \in DOMAIN ns |-> [tail |-> g, line |-> ns[i]]]
           R == [tail : Tails, line : Lines]
<1>1. Len(ns) \in Nat /\ DOMAIN ns = 1 .. Len(ns) /\ \A i \in DOMAIN ns : ns[i] \in Lines
  BY LenProperties, ElementOfSeq
<1>2. u \in Seq(R) /\ DOMAIN u = DOMAIN ns /\ \A k \in DOMAIN ns : u[k].tail = g /\ u[k].line = ns[k]
  BY <1>1
<1>3. posted' = posted \o u /\ posted \in Seq(R)
  BY DEF Post
<1> HIDE DEF u, R
<1>4. /\ posted \o u \in Seq(R)
      /\ Len(posted) \in Nat /\ DOMAIN posted = 1 .. Len(posted)
      /\ \A i \in DOMAIN posted : i \in DOMAIN (posted \o u) /\ (posted \o u)[i] = posted[i]
      /\ \A k \in DOMAIN u : Len(posted) + k \in DOMAIN (posted \o u) /\ (posted \o u)[Len(posted) + k] = u[k]
      /\ \A i \in DOMAIN (posted \o u) : i \in DOMAIN posted \/ \E k \in DOMAIN u : i = Len(posted) + k
  <2>1. posted \in Seq(R) /\ u \in Seq(R)
    BY <1>2, <1>3
  <2> QED BY <2>1, JoinIs
<1>5. \A k \in DOMAIN ns : k \in Nat /\ k > 0
  BY <1>1
<1> QED BY <1>2, <1>3, <1>4, <1>5 DEF PostsTo, R

LEMMA NothingPosted ==
    ASSUME posted \in Seq([tail : Tails, line : Lines]), NEW g, posted' = posted
    PROVE  PostsTo(g, <<>>)
BY LenProperties DEF PostsTo

(* What tail g handles keeps to its stretch of the file. *)
LEMMA StretchKept ==
    ASSUME TailTypeOK, Stretches, NEW g \in DOMAIN tails, NEW t \in TailType,
           tails' = [tails EXCEPT ![g] = t], UNCHANGED fileVars,
           NEW ns \in Seq(Lines), PostsTo(g, ns), Rises(ns), Rises(t.buffer),
           Before(PostedBy(g), ToSet(ns)), Before(PostedBy(g) \cup ToSet(ns), ToSet(t.buffer)),
           ToSet(ns) \cup ToSet(t.buffer) \subseteq DOMAIN line,
           \A n \in ToSet(ns) \cup ToSet(t.buffer) :
              /\ t.since < 2 * n /\ 2 * n <= t.offset
              /\ \A h \in DOMAIN tails : g < h => 2 * n <= tails[h].since,
           t.since = tails[g].since, tails[g].offset <= t.offset,
           \A h \in DOMAIN tails : g < h => t.size <= tails[h].since
    PROVE  /\ Stretches'
           /\ PostedBy(g)' = PostedBy(g) \cup ToSet(ns)
           /\ \A h \in DOMAIN tails : h # g => PostedBy(h)' = PostedBy(h) /\ Handled(h)' = Handled(h)
<1>1. /\ DOMAIN tails' = DOMAIN tails /\ tails'[g] = t
      /\ \A h \in DOMAIN tails : h # g => tails'[h] = tails[h]
  BY TailEdit DEF TailTypeOK
<1>2. line' = line /\ written' = written
  BY DEF fileVars
<1>3. /\ Len(posted) \in Nat /\ DOMAIN posted = 1 .. Len(posted)
      /\ \A i \in DOMAIN posted : i \in DOMAIN posted' /\ posted'[i] = posted[i]
      /\ \A k \in DOMAIN ns : /\ Len(posted) + k \in DOMAIN posted' /\ k \in Nat /\ k > 0
                              /\ posted'[Len(posted) + k].tail = g /\ posted'[Len(posted) + k].line = ns[k]
      /\ \A i \in DOMAIN posted' : i \in DOMAIN posted \/ \E k \in DOMAIN ns : i = Len(posted) + k
  BY DEF PostsTo
<1>4. \A k \in DOMAIN ns : ns[k] \in ToSet(ns) /\ ns[k] \in DOMAIN line
  BY DEF ToSet
<1>5. PostedBy(g)' = PostedBy(g) \cup ToSet(ns)
  <2>1. ASSUME NEW n \in PostedBy(g)' PROVE n \in PostedBy(g) \cup ToSet(ns)
    <3>1. PICK i \in DOMAIN posted' : posted'[i].tail = g /\ posted'[i].line = n /\ n \in DOMAIN line
      BY <1>2 DEF PostedBy
    <3>2. CASE i \in DOMAIN posted
      BY <1>3, <3>1, <3>2 DEF PostedBy
    <3>3. CASE \E k \in DOMAIN ns : i = Len(posted) + k
      BY <1>3, <1>4, <3>1, <3>3
    <3> QED BY <1>3, <3>2, <3>3
  <2>2. PostedBy(g) \subseteq PostedBy(g)'
    BY <1>2, <1>3 DEF PostedBy
  <2>3. ToSet(ns) \subseteq PostedBy(g)'
    BY <1>2, <1>3, <1>4 DEF PostedBy, ToSet
  <2> QED BY <2>1, <2>2, <2>3
<1>6. \A h \in DOMAIN tails : h # g => PostedBy(h)' = PostedBy(h)
  <2> SUFFICES ASSUME NEW h \in DOMAIN tails, h # g PROVE PostedBy(h)' = PostedBy(h)
    OBVIOUS
  <2>1. \A i \in DOMAIN posted' : posted'[i].tail = h => i \in DOMAIN posted /\ posted'[i] = posted[i]
    BY <1>3
  <2> QED BY <1>2, <1>3, <2>1 DEF PostedBy
<1>7. \A h \in DOMAIN tails : h # g => Handled(h)' = Handled(h)
  BY <1>1, <1>6 DEF Handled
<1>8. Handled(g)' = PostedBy(g) \cup ToSet(ns) \cup ToSet(t.buffer)
  BY <1>1, <1>5 DEF Handled
<1>9. \A n \in Handled(g)' : /\ t.since < 2 * n /\ 2 * n <= t.offset
                             /\ \A h \in DOMAIN tails : g < h => 2 * n <= tails[h].since
  <2> SUFFICES ASSUME NEW n \in PostedBy(g), n \notin ToSet(ns) \cup ToSet(t.buffer)
               PROVE  /\ t.since < 2 * n /\ 2 * n <= t.offset
                      /\ \A h \in DOMAIN tails : g < h => 2 * n <= tails[h].since
    BY <1>8
  <2>1. /\ tails[g].since < 2 * n /\ 2 * n <= tails[g].offset
        /\ \A h \in DOMAIN tails : g < h => 2 * n <= tails[h].since
    BY DEF Stretches, Handled
  <2>2. n \in Int /\ tails[g].offset \in Int /\ t.offset \in Int
    BY TailNumbers, PartsAre DEF PostedBy, TailType
  <2> QED BY <2>1, <2>2
<1>10. \A i \in DOMAIN posted' : posted'[i].tail \in DOMAIN tails /\ posted'[i].line \in DOMAIN line
  BY <1>3, <1>4 DEF Stretches
<1>11. ASSUME NEW h \in DOMAIN tails
       PROVE  /\ ToSet(tails'[h].buffer) \subseteq DOMAIN line
              /\ \A n \in Handled(h)' : tails'[h].since < 2 * n /\ 2 * n <= tails'[h].offset
              /\ Rises(tails'[h].buffer)
              /\ Before(PostedBy(h)', ToSet(tails'[h].buffer))
  <2>1. CASE h = g
    BY <1>1, <1>5, <1>9, <2>1
  <2>2. CASE h # g
    BY <1>1, <1>6, <1>7, <2>2 DEF Stretches
  <2> QED BY <2>1, <2>2
<1>12. ASSUME NEW f \in DOMAIN tails, NEW h \in DOMAIN tails, f < h
       PROVE  /\ tails'[f].size <= tails'[h].since
              /\ \A n \in Handled(f)' : 2 * n <= tails'[h].since
  <2>1. tails'[h].since = tails[h].since
    BY <1>1
  <2>2. CASE f = g
    BY <1>1, <1>9, <1>12, <2>1, <2>2
  <2>3. CASE f # g
    BY <1>1, <1>7, <1>12, <2>1, <2>3 DEF Stretches
  <2> QED BY <2>2, <2>3
<1>13. ASSUME NEW i \in DOMAIN posted', NEW j \in DOMAIN posted', i < j, posted'[i].tail = posted'[j].tail
       PROVE  posted'[i].line < posted'[j].line
  <2>1. CASE i \in DOMAIN posted /\ j \in DOMAIN posted
    BY <1>3, <1>13, <2>1 DEF Stretches
  <2>2. CASE i \in DOMAIN posted /\ j \notin DOMAIN posted
    <3>1. PICK k \in DOMAIN ns : j = Len(posted) + k
      BY <1>3, <2>2
    <3>2. posted[i].tail = g /\ posted'[j].line = ns[k]
      BY <1>3, <1>13, <2>2, <3>1
    <3>3. posted[i].line \in PostedBy(g)
      BY <2>2, <3>2 DEF PostedBy, Stretches
    <3> QED BY <1>3, <1>4, <2>2, <3>2, <3>3 DEF Before
  <2>3. CASE i \notin DOMAIN posted /\ j \in DOMAIN posted
    <3>1. PICK k \in DOMAIN ns : i = Len(posted) + k
      BY <1>3, <2>3
    <3>2. j \in 1 .. Len(posted) /\ k \in Nat /\ Len(posted) \in Nat
      BY <1>3, <2>3, <3>1
    <3> QED BY <1>13, <3>1, <3>2
  <2>4. CASE i \notin DOMAIN posted /\ j \notin DOMAIN posted
    <3>1. PICK k \in DOMAIN ns : i = Len(posted) + k
      BY <1>3, <2>4
    <3>2. PICK l \in DOMAIN ns : j = Len(posted) + l
      BY <1>3, <2>4
    <3>3. k \in Nat /\ l \in Nat /\ Len(posted) \in Nat
      BY <1>3, <3>1, <3>2
    <3>4. k < l
      BY <1>13, <3>1, <3>2, <3>3
    <3> QED BY <1>3, <3>1, <3>2, <3>4 DEF Rises
  <2> QED BY <2>1, <2>2, <2>3, <2>4
<1>14. Stretches'
  BY <1>1, <1>2, <1>10, <1>11, <1>12, <1>13 DEF Stretches
<1> QED BY <1>5, <1>6, <1>7, <1>14

(* The drives' own books. *)
DriveBooks ==
    /\ drive \in {0, drives} /\ drives \in 0 .. MaxDrives
    /\ held \in Tails \cup {NoTail}
    /\ succeeded \subseteq (1 .. drives) \ {drive} /\ blind \subseteq Drives

Finished == IF drive = 0 THEN drives ELSE drives - 1

LEMMA DriveBooksAre ==
    ASSUME TailTypeOK, Watching
    PROVE  /\ DriveBooks /\ drives \in Int /\ drive \in Drives \cup {0} /\ Finished \in Int
           /\ drive # 0 => drive = drives
<1>1. DriveBooks
  BY DEF TailTypeOK, Watching, DriveBooks
<1>2. drives \in Int /\ drive \in Drives \cup {0}
  BY PartsAre DEF TailTypeOK
<1> QED BY <1>1, <1>2 DEF DriveBooks, Finished

LEMMA KnowsStill ==
    ASSUME NEW t \in TailType, TailKnows(t), written \in Int, written' \in Int, written <= written',
           Finished \in Int, Finished' \in Int, Finished <= Finished'
    PROVE  TailKnows(t)'
<1>1. t.offset \in Int /\ t.size \in Int /\ t.epoch \in Int
  BY PartsAre DEF TailType
<1>2. t.epoch <= Finished
  BY DEF TailKnows, Finished
<1>3. t.epoch <= Finished'
  BY <1>1, <1>2
<1>4. t.offset <= written' /\ t.size <= written'
  BY <1>1 DEF TailKnows
<1> QED BY <1>3, <1>4 DEF TailKnows, Finished

(* A step that changes one tail, and what it has to show. *)
LEMMA EditKept ==
    ASSUME TailInv, NEW g \in DOMAIN tails, NEW t \in TailType,
           tails' = [tails EXCEPT ![g] = t], UNCHANGED <<fileVars, current>>,
           NEW ns \in Seq(Lines), PostsTo(g, ns), Rises(ns), Rises(t.buffer),
           Before(PostedBy(g), ToSet(ns)), Before(PostedBy(g) \cup ToSet(ns), ToSet(t.buffer)),
           ToSet(ns) \cup ToSet(t.buffer) \subseteq DOMAIN line,
           \A n \in ToSet(ns) \cup ToSet(t.buffer) :
              /\ t.since < 2 * n /\ 2 * n <= t.offset
              /\ \A h \in DOMAIN tails : g < h => 2 * n <= tails[h].since,
           t.since = tails[g].since, tails[g].offset <= t.offset,
           \A h \in DOMAIN tails : g < h => t.size <= tails[h].since,
           TailKnows(t)', t.buffer # <<>> => t.suppress,
           DriveBooks', drives <= drives', Finished <= Finished',
           held' # NoTail => held' \in DOMAIN tails /\ drive' # 0 /\ tails'[held'].suppress,
           \A h \in DOMAIN tails : tails'[h].suppress => held' = h
    PROVE  /\ TailTypeOK' /\ (\A h \in DOMAIN tails : TailKnows(tails[h]))' /\ Stretches' /\ Watching'
           /\ DOMAIN tails' = DOMAIN tails /\ tails'[g] = t
           /\ \A h \in DOMAIN tails : h # g => tails'[h] = tails[h]
           /\ PostedBy(g)' = PostedBy(g) \cup ToSet(ns)
           /\ Handled(g)' = PostedBy(g) \cup ToSet(ns) \cup ToSet(t.buffer)
           /\ \A h \in DOMAIN tails : h # g => PostedBy(h)' = PostedBy(h) /\ Handled(h)' = Handled(h)
<1>1. /\ tails' \in Seq(TailType) /\ Len(tails') = Len(tails)
      /\ DOMAIN tails' = DOMAIN tails /\ tails'[g] = t
      /\ \A h \in DOMAIN tails : h # g => tails'[h] = tails[h]
  BY TailEdit DEF TailInv, TailTypeOK
<1>2. line' = line /\ written' = written /\ current' = current
  BY DEF fileVars
<1>3. TailTypeOK /\ Watching /\ \A h \in DOMAIN tails : TailKnows(tails[h]) /\ tails[h] \in TailType
  BY TailNumbers DEF TailInv
<1>4. /\ Stretches' /\ PostedBy(g)' = PostedBy(g) \cup ToSet(ns)
      /\ \A h \in DOMAIN tails : h # g => PostedBy(h)' = PostedBy(h) /\ Handled(h)' = Handled(h)
  BY <1>2, StretchKept DEF TailInv, fileVars
<1>11. Handled(g)' = PostedBy(g) \cup ToSet(ns) \cup ToSet(t.buffer)
  BY <1>1, <1>4 DEF Handled
<1>5. drives \in Int /\ Finished \in Int /\ drives' \in Int /\ Finished' \in Int /\ written \in Int
  BY <1>3, DriveBooksAre, PartsAre DEF DriveBooks, Finished, TailTypeOK
<1>6. ASSUME NEW h \in DOMAIN tails, h # g PROVE TailKnows(tails[h])'
  <2>1. PICK u \in TailType : u = tails[h]
    BY <1>3
  <2>2. TailKnows(u) /\ written <= written'
    BY <1>2, <1>3, <1>5, <2>1
  <2>3. TailKnows(u)'
    BY <1>2, <1>5, <2>2, KnowsStill
  <2>4. tails'[h] = u
    BY <1>1, <1>6, <2>1
  <2> QED BY <2>3, <2>4 DEF TailKnows
<1>7. (\A h \in DOMAIN tails : TailKnows(tails[h]))'
  <2>1. TailKnows(tails[g])'
    BY <1>1 DEF TailKnows
  <2> QED BY <1>1, <1>6, <2>1
<1>8. \A n \in DOMAIN line : line[n].by \in Int
  <2>1. \A n \in DOMAIN line : line[n] \in [by : Drives \cup {Editor}, role : Roles]
    BY <1>3, TailNumbers, ElementOfSeq DEF TailTypeOK
  <2> QED BY <2>1, PartsAre
<1>9. Watching'
  <2>1. \A h \in DOMAIN tails : tails'[h].buffer # <<>> => tails'[h].suppress
    BY <1>1, <1>3 DEF Watching
  <2>2. \A n \in DOMAIN line : line[n].by <= drives'
    BY <1>3, <1>5, <1>8 DEF Watching
  <2>3. current' # NoTail => current' = Len(tails')
    BY <1>1, <1>2, <1>3 DEF Watching
  <2>4. drive' \in {0, drives'} /\ succeeded' \subseteq (1 .. drives') \ {drive'}
    BY DEF DriveBooks
  <2> QED BY <1>1, <1>2, <2>1, <2>2, <2>3, <2>4 DEF Watching
<1>10. TailTypeOK'
  <2>1. \A h \in DOMAIN tails' :
           /\ tails'[h].pc = "read" => tails'[h].from < tails'[h].size
           /\ tails'[h].buffer # <<>> => tails'[h].suppress
           /\ tails'[h].suppress => drive' # 0 /\ held' = h
    <3>1. \A h \in DOMAIN tails : tails'[h].pc = "read" => tails'[h].from < tails'[h].size
      BY <1>1, <1>7 DEF TailKnows
    <3>2. \A h \in DOMAIN tails : h # NoTail
      BY <1>3, TailNumbers, PartsAre
    <3> QED BY <1>1, <1>9, <3>1, <3>2 DEF Watching
  <2>2. drive' \in Drives \cup {0} /\ succeeded' \subseteq Drives
    <3>1. 1 .. drives' \subseteq Drives /\ drives' \in 0 .. MaxDrives
      BY <1>5, PartsAre DEF DriveBooks
    <3> QED BY <3>1, PartsAre DEF DriveBooks
  <2>3. posted' \in Seq([tail : Tails, line : Lines])
    BY DEF PostsTo
  <2> QED BY <1>1, <1>2, <1>3, <2>1, <2>2, <2>3 DEF TailTypeOK, DriveBooks
<1> QED BY <1>1, <1>4, <1>7, <1>9, <1>10, <1>11

(* A poll step that handles nothing. *)
OnlyNotes(g, t) ==
    /\ t.offset = tails[g].offset /\ t.rest = tails[g].rest /\ t.since = tails[g].since
    /\ t.suppress = tails[g].suppress /\ t.buffer = tails[g].buffer /\ t.epoch = tails[g].epoch

LEMMA QuietKept ==
    ASSUME TailInv, NEW g \in DOMAIN tails, NEW t \in TailType, OnlyNotes(g, t), TailKnows(t),
           tails' = [tails EXCEPT ![g] = t], UNCHANGED <<fileVars, current, driveVars, posted>>,
           t.size <= tails[g].size \/ g = current
    PROVE  TailInv'
<1>0. TailTypeOK /\ Watching /\ Stretches /\ tails[g] \in TailType /\ DOMAIN tails \subseteq Int
      /\ \A h \in DOMAIN tails : tails[h] \in TailType
  BY TailNumbers DEF TailInv
<1>1. /\ DOMAIN tails' = DOMAIN tails /\ tails'[g] = t
      /\ \A h \in DOMAIN tails : h # g => tails'[h] = tails[h]
  BY <1>0, TailEdit DEF TailTypeOK
<1>2. UNCHANGED <<written, line, current, drive, held, drives, succeeded, blind, posted>>
  BY DEF fileVars, driveVars
<1>3. PostsTo(g, <<>>)
  BY <1>0, <1>2, NothingPosted DEF TailTypeOK
<1>4. <<>> \in Seq(Lines) /\ Rises(<<>>) /\ ToSet(<<>>) = {}
  BY SetOfEmpty, EmptySeq DEF Rises
<1>5. ToSet(t.buffer) \subseteq Handled(g) /\ PostedBy(g) \subseteq Handled(g)
  BY DEF OnlyNotes, Handled
<1>6. \A h \in DOMAIN tails : g < h => t.size <= tails[h].since
  <2> SUFFICES ASSUME NEW h \in DOMAIN tails, g < h PROVE t.size <= tails[h].since
    OBVIOUS
  <2>1. CASE g = current
    <3>1. g = Len(tails) /\ h <= Len(tails) /\ h \in Int /\ g \in Int
      BY <1>0, <2>1, TailNumbers, PartsAre DEF Watching
    <3> QED BY <3>1
  <2>2. CASE t.size <= tails[g].size
    <3>1. tails[g].size <= tails[h].since
      BY <1>0 DEF Stretches
    <3>2. t.size \in Int /\ tails[g].size \in Int /\ tails[h].since \in Int
      BY <1>0, PartsAre DEF TailType
    <3> QED BY <2>2, <3>1, <3>2
  <2> QED BY <2>1, <2>2
<1>7. TailTypeOK' /\ (\A h \in DOMAIN tails : TailKnows(tails[h]))' /\ Stretches' /\ Watching'
  <2>1. TailKnows(t)'
    BY <1>2 DEF TailKnows
  <2>2. Rises(t.buffer) /\ ToSet(t.buffer) \subseteq DOMAIN line
        /\ Before(PostedBy(g), ToSet(t.buffer))
        /\ \A n \in ToSet(t.buffer) :
              /\ t.since < 2 * n /\ 2 * n <= t.offset
              /\ \A h \in DOMAIN tails : g < h => 2 * n <= tails[h].since
    BY <1>0, <1>5 DEF OnlyNotes, Stretches
  <2>3. DriveBooks' /\ Finished' = Finished /\ drives \in Int /\ Finished \in Int
    BY <1>0, <1>2, DriveBooksAre DEF DriveBooks, Finished
  <2>4. /\ held' # NoTail => held' \in DOMAIN tails /\ drive' # 0 /\ tails'[held'].suppress
        /\ \A h \in DOMAIN tails : tails'[h].suppress => held' = h
        /\ t.buffer # <<>> => t.suppress
    BY <1>0, <1>1, <1>2 DEF Watching, OnlyNotes
  <2>5. Before(PostedBy(g), ToSet(<<>>)) /\ PostedBy(g) \cup ToSet(<<>>) = PostedBy(g)
        /\ ToSet(<<>>) \cup ToSet(t.buffer) = ToSet(t.buffer)
    BY <1>4 DEF Before
  <2>6. t.since = tails[g].since /\ tails[g].offset <= t.offset /\ drives <= drives' /\ Finished <= Finished'
    BY <1>0, <1>2, <2>3, PartsAre DEF OnlyNotes, TailType
  <2>7. UNCHANGED <<fileVars, current>>
    BY <1>2 DEF fileVars
  <2> QED BY <1>3, <1>4, <1>6, <2>1, <2>2, <2>3, <2>4, <2>5, <2>6, <2>7, EditKept
<1>8. \A h \in DOMAIN tails : PostedBy(h)' = PostedBy(h) /\ Handled(h)' = Handled(h)
      /\ tails'[h].offset = tails[h].offset
      /\ (h = current \/ tails'[h].size <= tails[h].size)
  <2>1. \A h \in DOMAIN tails : PostedBy(h)' = PostedBy(h)
    BY <1>2 DEF PostedBy
  <2>2. \A h \in DOMAIN tails : tails'[h].offset = tails[h].offset /\ tails'[h].buffer = tails[h].buffer
    BY <1>1 DEF OnlyNotes
  <2>3. \A h \in DOMAIN tails : h = current \/ tails'[h].size <= tails[h].size
    <3> SUFFICES ASSUME NEW h \in DOMAIN tails PROVE h = current \/ tails'[h].size <= tails[h].size
      OBVIOUS
    <3>1. tails[h].size \in Int
      BY <1>0, PartsAre DEF TailType
    <3>2. tails[h].size <= tails[h].size
      BY <3>1
    <3>3. CASE h = g
      BY <1>1, <3>3
    <3>4. CASE h # g
      BY <1>1, <3>2, <3>4
    <3> QED BY <3>3, <3>4
  <2>4. \A h \in DOMAIN tails : Handled(h)' = Handled(h)
    BY <2>1, <2>2 DEF Handled
  <2> QED BY <2>1, <2>2, <2>3, <2>4, Zenon
<1>9. \A h \in DOMAIN tails : \A n \in DOMAIN line :
         h # current /\ tails[h].size < 2 * n - 1 => tails'[h].size < 2 * n - 1
  <2> SUFFICES ASSUME NEW h \in DOMAIN tails, NEW n \in DOMAIN line, h # current, tails[h].size < 2 * n - 1
               PROVE  tails'[h].size < 2 * n - 1
    OBVIOUS
  <2>1. tails'[h].size <= tails[h].size
    BY <1>8
  <2>2. tails'[h] \in TailType
    BY <1>0, <1>1
  <2>3. n \in Int
    BY <1>0, TailNumbers, PartsAre
  <2>4. tails'[h].size \in Int /\ tails[h].size \in Int
    BY <1>0, <2>2, PartsAre DEF TailType
  <2> QED BY <2>1, <2>3, <2>4
<1>10. RunningApart'
  <2> SUFFICES ASSUME drive # 0, drive \notin blind
               PROVE  /\ current \in {held, NoTail}
                      /\ \A n \in DOMAIN line : line[n].by = drive =>
                            /\ \A h \in DOMAIN tails : n \notin PostedBy(h)'
                            /\ \A h \in DOMAIN tails : h # held => tails'[h].size < 2 * n - 1
    BY <1>1, <1>2 DEF RunningApart
  <2>1. /\ current \in {held, NoTail}
        /\ \A n \in DOMAIN line : line[n].by = drive =>
              /\ \A h \in DOMAIN tails : n \notin PostedBy(h)
              /\ \A h \in DOMAIN tails : h # held => tails[h].size < 2 * n - 1
    BY DEF TailInv, RunningApart
  <2>2. \A h \in DOMAIN tails : h # held => h # current
    BY <1>0, <2>1, TailNumbers, PartsAre
  <2> QED BY <1>8, <1>9, <2>1, <2>2
<1>11. AnswersApart'
  BY <1>1, <1>2, <1>8, <1>9 DEF TailInv, AnswersApart
<1> QED BY <1>7, <1>10, <1>11 DEF TailInv

LEMMA AsleepIs ==
    ASSUME NEW t \in TailType
    PROVE  /\ Asleep(t) \in TailType
           /\ Asleep(t).pc = "sleep" /\ Asleep(t).seen = 0 /\ Asleep(t).size = 0 /\ Asleep(t).from = 0
           /\ Asleep(t).offset = t.offset /\ Asleep(t).rest = t.rest /\ Asleep(t).since = t.since
           /\ Asleep(t).suppress = t.suppress /\ Asleep(t).buffer = t.buffer /\ Asleep(t).epoch = t.epoch
           /\ Asleep(t).found = t.found
<1>1. 0 \in 0 .. MaxDrives /\ 0 \in 0 .. 2 * MaxLines
  BY PartsAre
<1> DEFINE u == [t EXCEPT !.pc = "sleep", !.seen = 0]
<1>2. /\ u \in TailType /\ u.pc = "sleep" /\ u.seen = 0
      /\ u.offset = t.offset /\ u.rest = t.rest /\ u.since = t.since
      /\ u.suppress = t.suppress /\ u.buffer = t.buffer /\ u.epoch = t.epoch /\ u.found = t.found
  BY <1>1 DEF TailType
<1>3. Asleep(t) = [u EXCEPT !.size = 0, !.from = 0]
  BY DEF Asleep
<1> HIDE DEF u
<1> QED BY <1>1, <1>2, <1>3 DEF TailType

LEMMA AsleepKept ==
    ASSUME TailInv, NEW g \in DOMAIN tails, tails' = [tails EXCEPT ![g] = Asleep(tails[g])],
           UNCHANGED <<fileVars, current, driveVars, posted>>
    PROVE  TailInv'
<1> DEFINE t == Asleep(tails[g])
<1>1. tails[g] \in TailType /\ TailKnows(tails[g]) /\ written \in Nat
  BY TailNumbers, PartsAre DEF TailInv, TailTypeOK
<1>2. /\ t \in TailType /\ t.pc = "sleep" /\ t.seen = 0 /\ t.size = 0 /\ t.from = 0
      /\ OnlyNotes(g, t)
  BY <1>1, AsleepIs DEF OnlyNotes
<1>3. tails' = [tails EXCEPT ![g] = t]
  OBVIOUS
<1> HIDE DEF t
<1>4. t.epoch \in Nat /\ tails[g].size \in Nat
  BY <1>1, <1>2, PartsAre DEF TailType
<1>5. TailKnows(t)
  BY <1>1, <1>2, <1>4 DEF TailKnows, OnlyNotes
<1>6. t.size <= tails[g].size
  BY <1>2, <1>4
<1> QED BY <1>2, <1>3, <1>5, <1>6, QuietKept

LEMMA PollKept ==
    ASSUME TailInv, NEW g \in DOMAIN tails, Tick(g) \/ Find(g) \/ StatSize(g) \/ Resume(g)
    PROVE  TailInv'
<1> DEFINE t == tails[g]
<1>0. UNCHANGED <<fileVars, current, driveVars, posted>> /\ g = current
  BY DEF Tick, Find, StatSize, Resume, Poll
<1>1. t \in TailType /\ TailKnows(t) /\ written \in 0 .. 2 * MaxLines
  BY TailNumbers DEF TailInv
<1> HIDE DEF t
<1>2. t.epoch \in Int /\ t.offset \in Int /\ t.size \in Int /\ t.seen \in Int /\ written \in Int
  BY <1>1, PartsAre DEF TailType
<1>3. ASSUME NEW u \in TailType, tails' = [tails EXCEPT ![g] = u], TailKnows(u),
             u.offset = t.offset, u.rest = t.rest, u.since = t.since,
             u.suppress = t.suppress, u.buffer = t.buffer, u.epoch = t.epoch
      PROVE  TailInv'
  <2>1. OnlyNotes(g, u)
    BY <1>3 DEF OnlyNotes, t
  <2> QED BY <1>0, <1>3, <2>1, QuietKept
<1>4. ASSUME tails' = [tails EXCEPT ![g] = Asleep(t)] PROVE TailInv'
  BY <1>0, <1>4, AsleepKept DEF t
<1>5. ASSUME tails' = [tails EXCEPT ![g] = [t EXCEPT !.pc = "stat", !.seen = t.epoch]] PROVE TailInv'
  <2> DEFINE u == [t EXCEPT !.pc = "stat", !.seen = t.epoch]
  <2>1. /\ u \in TailType /\ u.pc = "stat" /\ u.seen = t.epoch
        /\ u.offset = t.offset /\ u.rest = t.rest /\ u.since = t.since /\ u.size = t.size
        /\ u.suppress = t.suppress /\ u.buffer = t.buffer /\ u.epoch = t.epoch
    BY <1>1 DEF TailType
  <2>2. tails' = [tails EXCEPT ![g] = u]
    BY <1>5
  <2> HIDE DEF u
  <2>3. TailKnows(u)
    BY <1>1, <1>2, <2>1 DEF TailKnows
  <2> QED BY <1>3, <2>1, <2>2, <2>3
<1>6. ASSUME tails' = [tails EXCEPT ![g] = [t EXCEPT !.pc = "find"]] PROVE TailInv'
  <2> DEFINE u == [t EXCEPT !.pc = "find"]
  <2>1. /\ u \in TailType /\ u.pc = "find" /\ u.seen = t.seen
        /\ u.offset = t.offset /\ u.rest = t.rest /\ u.since = t.since /\ u.size = t.size
        /\ u.suppress = t.suppress /\ u.buffer = t.buffer /\ u.epoch = t.epoch
    BY <1>1 DEF TailType
  <2>2. tails' = [tails EXCEPT ![g] = u]
    BY <1>6
  <2> HIDE DEF u
  <2>3. TailKnows(u)
    BY <1>1, <1>2, <2>1 DEF TailKnows
  <2> QED BY <1>3, <2>1, <2>2, <2>3
<1>7. CASE Tick(g)
  <2>1. \/ tails' = [tails EXCEPT ![g] = [t EXCEPT !.pc = "stat", !.seen = t.epoch]]
        \/ tails' = [tails EXCEPT ![g] = [t EXCEPT !.pc = "find"]]
    BY <1>7 DEF Tick, Poll, t
  <2> QED BY <1>5, <1>6, <2>1
<1>8. CASE Find(g)
  <2>1. \/ tails' = [tails EXCEPT ![g] = [t EXCEPT !.found = TRUE, !.pc = "stat", !.seen = t.epoch]]
        \/ tails' = [tails EXCEPT ![g] = Asleep(t)]
    BY <1>8 DEF Find, Poll, t
  <2>2. ASSUME tails' = [tails EXCEPT ![g] = [t EXCEPT !.found = TRUE, !.pc = "stat", !.seen = t.epoch]]
        PROVE  TailInv'
    <3> DEFINE u == [t EXCEPT !.found = TRUE, !.pc = "stat", !.seen = t.epoch]
    <3>1. /\ u \in TailType /\ u.pc = "stat" /\ u.seen = t.epoch
          /\ u.offset = t.offset /\ u.rest = t.rest /\ u.since = t.since /\ u.size = t.size
          /\ u.suppress = t.suppress /\ u.buffer = t.buffer /\ u.epoch = t.epoch
      BY <1>1 DEF TailType
    <3>2. tails' = [tails EXCEPT ![g] = u]
      BY <2>2
    <3> HIDE DEF u
    <3>3. TailKnows(u)
      BY <1>1, <1>2, <3>1 DEF TailKnows
    <3> QED BY <1>3, <3>1, <3>2, <3>3
  <2> QED BY <1>4, <2>1, <2>2
<1>9. CASE StatSize(g)
  <2> DEFINE u == [t EXCEPT !.size = written, !.pc = "resume"]
  <2>1. /\ u \in TailType /\ u.pc = "resume" /\ u.seen = t.seen /\ u.size = written
        /\ u.offset = t.offset /\ u.rest = t.rest /\ u.since = t.since
        /\ u.suppress = t.suppress /\ u.buffer = t.buffer /\ u.epoch = t.epoch
    BY <1>1 DEF TailType
  <2>2. tails' = [tails EXCEPT ![g] = u]
    BY <1>9 DEF StatSize, Poll, t
  <2> HIDE DEF u
  <2>3. TailKnows(u)
    BY <1>1, <1>2, <2>1 DEF TailKnows
  <2> QED BY <1>3, <2>1, <2>2, <2>3
<1>10. CASE Resume(g)
  <2>1. CASE t.size <= t.offset
    <3>1. tails' = [tails EXCEPT ![g] = Asleep(t)]
      BY <1>10, <2>1 DEF Resume, Poll, t
    <3> QED BY <1>4, <3>1
  <2>2. CASE ~ (t.size <= t.offset)
    <3> DEFINE u == [t EXCEPT !.pc = "read", !.from = t.offset]
    <3>1. /\ u \in TailType /\ u.pc = "read" /\ u.seen = t.seen /\ u.from = t.offset /\ u.size = t.size
          /\ u.offset = t.offset /\ u.rest = t.rest /\ u.since = t.since
          /\ u.suppress = t.suppress /\ u.buffer = t.buffer /\ u.epoch = t.epoch
      BY <1>1 DEF TailType
    <3>2. tails' = [tails EXCEPT ![g] = u]
      BY <1>10, <2>2 DEF Resume, Poll, t
    <3> HIDE DEF u
    <3>3. u.from < u.size
      BY <1>2, <2>2, <3>1
    <3>4. TailKnows(u)
      BY <1>1, <1>2, <3>1, <3>3 DEF TailKnows
    <3> QED BY <1>3, <3>1, <3>2, <3>4
  <2> QED BY <2>1, <2>2
<1> QED BY <1>7, <1>8, <1>9, <1>10

LEMMA ReadKept ==
    ASSUME TailInv, NEW g \in DOMAIN tails, ProcessRead(g) PROVE TailInv'
<1> DEFINE t0   == tails[g]
           buf  == t0.rest \o ReadRange(t0.from, t0.size)
           new  == TurnsIn(buf)
           kept == [Asleep(t0) EXCEPT !.offset = t0.size, !.rest = Rest(buf)]
<1>0. /\ TailTypeOK /\ Watching /\ Stretches /\ t0 \in TailType /\ TailKnows(t0) /\ g \in Nat /\ g # 0
      /\ \A h \in DOMAIN tails : tails[h] \in TailType
      /\ DOMAIN line \subseteq Int /\ \A n \in DOMAIN line : n >= 1
      /\ written \in Int /\ \A n \in Lines : 2 * n <= written => n \in DOMAIN line
  <2>1. \A n \in DOMAIN line : n \in Int /\ n >= 1
    BY TailNumbers, PartsAre DEF TailInv
  <2> QED BY <2>1, TailNumbers, PartsAre DEF TailInv
<1>1. UNCHANGED <<fileVars, current, driveVars>> /\ t0.pc = "read"
  BY DEF ProcessRead
<1>2. CASE t0.seen # t0.epoch
  <2>1. tails' = [tails EXCEPT ![g] = Asleep(tails[g])] /\ posted' = posted
    BY <1>2 DEF ProcessRead
  <2> QED BY <1>1, <2>1, AsleepKept
<1>3. CASE t0.seen = t0.epoch
  <2>1. \/ /\ t0.suppress /\ tails' = [tails EXCEPT ![g] = [kept EXCEPT !.buffer = t0.buffer \o new]]
           /\ posted' = posted
        \/ ~t0.suppress /\ tails' = [tails EXCEPT ![g] = kept] /\ Post(g, new)
    <3>1. kept.buffer = t0.buffer
      BY <1>0, AsleepIs DEF TailType
    <3>2. CASE t0.suppress
      <4>1. tails' = [tails EXCEPT ![g] = [kept EXCEPT !.buffer = kept.buffer \o new]] /\ posted' = posted
        BY <1>3, <3>2 DEF ProcessRead
      <4> QED BY <3>1, <3>2, <4>1
    <3>3. CASE ~t0.suppress
      BY <1>3, <3>3 DEF ProcessRead
    <3> QED BY <3>2, <3>3
  <2>2. /\ Rest(buf) \in Seq(Parts) /\ Rises(Rest(buf))
        /\ \A i \in DOMAIN Rest(buf) : ~ EndsLine(Rest(buf)[i]) /\ Rest(buf)[i] <= t0.size
        /\ new \in Seq(Lines) /\ Rises(new)
        /\ \A n \in ToSet(new) : t0.offset < 2 * n /\ 2 * n <= t0.size
    BY <1>0, <1>1, <1>3, ReadIs DEF TailTypeOK
  <2>3. /\ kept \in TailType /\ kept.pc = "sleep" /\ kept.seen = 0 /\ kept.size = 0
        /\ kept.offset = t0.size /\ kept.rest = Rest(buf) /\ kept.since = t0.since
        /\ kept.suppress = t0.suppress /\ kept.buffer = t0.buffer /\ kept.epoch = t0.epoch
    <3>1. /\ Asleep(t0) \in TailType /\ Asleep(t0).pc = "sleep" /\ Asleep(t0).seen = 0 /\ Asleep(t0).size = 0
          /\ Asleep(t0).since = t0.since /\ Asleep(t0).suppress = t0.suppress
          /\ Asleep(t0).buffer = t0.buffer /\ Asleep(t0).epoch = t0.epoch
      BY <1>0, AsleepIs
    <3>2. t0.size \in 0 .. 2 * MaxLines /\ Rest(buf) \in Seq(1 .. 2 * MaxLines)
      BY <1>0, <2>2 DEF TailType, Parts
    <3> HIDE DEF buf
    <3> QED BY <3>1, <3>2 DEF TailType
  <2> HIDE DEF new, buf
  <2>4. /\ t0.offset \in Int /\ t0.size \in Int /\ t0.since \in Int /\ t0.epoch \in Nat /\ t0.buffer \in Seq(Lines)
        /\ t0.since <= t0.offset /\ t0.offset < t0.size /\ t0.size <= written
    <3>1. /\ t0.offset \in Int /\ t0.size \in Int /\ t0.since \in Int /\ t0.epoch \in Nat
          /\ t0.buffer \in Seq(Lines)
      BY <1>0, PartsAre DEF TailType
    <3> QED BY <1>0, <1>1, <1>3, <3>1 DEF TailKnows
  <2> HIDE DEF kept
  <2>5. ASSUME NEW n \in ToSet(new)
        PROVE  /\ n \in DOMAIN line /\ n \in Int /\ t0.offset < 2 * n /\ 2 * n <= t0.size /\ t0.since < 2 * n
               /\ \A h \in DOMAIN tails : g < h => 2 * n <= tails[h].since
    <3>1. t0.offset < 2 * n /\ 2 * n <= t0.size /\ n \in Lines /\ n \in Int
      BY <2>2, SetOfSeq, PartsAre
    <3>2. t0.since < 2 * n /\ 2 * n <= written
      BY <1>0, <2>4, <3>1
    <3>3. ASSUME NEW h \in DOMAIN tails, g < h PROVE 2 * n <= tails[h].since
      <4>1. t0.size <= tails[h].since
        BY <1>0, <3>3 DEF Stretches
      <4>2. tails[h].since \in Int
        BY <1>0, PartsAre DEF TailType
      <4> QED BY <2>4, <3>1, <4>1, <4>2
    <3> QED BY <1>0, <3>1, <3>2, <3>3
  <2>6. Before(Handled(g), ToSet(new)) /\ Before(PostedBy(g), ToSet(new)) /\ Before(ToSet(t0.buffer), ToSet(new))
    <3>1. ASSUME NEW n \in Handled(g), NEW m \in ToSet(new) PROVE n < m
      <4>1. 2 * n <= t0.offset
        BY <1>0 DEF Stretches
      <4>2. n \in Int
        BY <1>0 DEF Handled, PostedBy, Stretches
      <4> QED BY <2>4, <2>5, <4>1, <4>2
    <3> QED BY <3>1 DEF Before, Handled
  <2>7. \A n \in Handled(g) : t0.since < 2 * n /\ 2 * n <= t0.size
                              /\ n \in DOMAIN line
                              /\ \A h \in DOMAIN tails : g < h => 2 * n <= tails[h].since
    <3> SUFFICES ASSUME NEW n \in Handled(g)
                 PROVE  t0.since < 2 * n /\ 2 * n <= t0.size /\ n \in DOMAIN line
                        /\ \A h \in DOMAIN tails : g < h => 2 * n <= tails[h].since
      OBVIOUS
    <3>1. t0.since < 2 * n /\ 2 * n <= t0.offset
          /\ \A h \in DOMAIN tails : g < h => 2 * n <= tails[h].since
      BY <1>0 DEF Stretches
    <3>2. n \in DOMAIN line /\ n \in Int
      BY <1>0 DEF Handled, PostedBy, Stretches
    <3> QED BY <2>4, <3>1, <3>2
  <2>8. UNCHANGED <<written, line, current, drive, held, drives, succeeded, blind>>
    BY <1>1 DEF fileVars, driveVars
  <2>9. /\ DriveBooks' /\ drives <= drives' /\ Finished <= Finished' /\ UNCHANGED <<fileVars, current>>
    <3>1. DriveBooks /\ drives \in Int /\ Finished \in Int /\ Finished' = Finished
      BY <1>0, <2>8, DriveBooksAre DEF Finished
    <3> QED BY <1>1, <2>8, <3>1 DEF DriveBooks
  <2>10. tails[g].offset <= t0.size /\ \A h \in DOMAIN tails : g < h => 0 <= tails[h].since
    <3>1. \A h \in DOMAIN tails : 0 <= tails[h].since
      BY <1>0, PartsAre DEF TailType
    <3> QED BY <2>4, <3>1
  (* What follows from either way of handling the new lines. *)
  <2>11. ASSUME NEW t \in TailType, t.size = 0, t.offset = t0.size, t.suppress = t0.suppress,
                TailTypeOK', (\A h \in DOMAIN tails : TailKnows(tails[h]))', Stretches', Watching',
                DOMAIN tails' = DOMAIN tails, tails'[g] = t,
                \A h \in DOMAIN tails : h # g => tails'[h] = tails[h],
                PostedBy(g)' \subseteq PostedBy(g) \cup ToSet(new),
                t0.suppress => PostedBy(g)' = PostedBy(g),
                Handled(g)' \subseteq Handled(g) \cup ToSet(new),
                \A h \in DOMAIN tails : h # g => PostedBy(h)' = PostedBy(h) /\ Handled(h)' = Handled(h)
         PROVE  TailInv'
    <3>1. RunningApart'
      <4> SUFFICES ASSUME drive # 0, drive \notin blind
                   PROVE  /\ current \in {held, NoTail}
                          /\ \A n \in DOMAIN line : line[n].by = drive =>
                                /\ \A h \in DOMAIN tails : n \notin PostedBy(h)'
                                /\ \A h \in DOMAIN tails : h # held => tails'[h].size < 2 * n - 1
        BY <2>8, <2>11 DEF RunningApart
      <4>1. /\ current \in {held, NoTail}
            /\ \A n \in DOMAIN line : line[n].by = drive =>
                  /\ \A h \in DOMAIN tails : n \notin PostedBy(h)
                  /\ \A h \in DOMAIN tails : h # held => tails[h].size < 2 * n - 1
        BY DEF TailInv, RunningApart
      <4> SUFFICES ASSUME NEW n \in DOMAIN line, line[n].by = drive
                   PROVE  n \notin PostedBy(g)' /\ (g # held => tails'[g].size < 2 * n - 1)
        BY <2>11, <4>1
      <4>2. tails'[g].size < 2 * n - 1
        <5>1. n \in Int /\ n >= 1
          BY <1>0
        <5> QED BY <2>11, <5>1
      <4>3. CASE g = held
        <5>1. t0.suppress
          BY <1>0, <4>3, PartsAre DEF Watching
        <5> QED BY <2>11, <4>1, <4>2, <5>1
      <4>4. CASE g # held
        <5>1. tails[g].size < 2 * n - 1 /\ n \notin PostedBy(g)
          BY <4>1, <4>4
        <5>2. n \notin ToSet(new)
          <6>1. ASSUME n \in ToSet(new) PROVE FALSE
            <7>1. 2 * n <= t0.size /\ n \in Int
              BY <2>5, <6>1
            <7> QED BY <2>4, <5>1, <7>1
          <6> QED BY <6>1
        <5> QED BY <2>11, <4>2, <5>1, <5>2
      <4> QED BY <4>3, <4>4
    <3>2. AnswersApart'
      <4> SUFFICES ASSUME NEW n \in DOMAIN line, line[n].by \in succeeded \ blind, line[n].role = "assistant"
                   PROVE  /\ 2 * n <= written
                          /\ \A h \in DOMAIN tails :
                                /\ n \notin Handled(h)'
                                /\ 2 * n <= tails'[h].offset \/ (h # current /\ tails'[h].size < 2 * n - 1)
        BY <2>8, <2>11 DEF AnswersApart
      <4>1. /\ 2 * n <= written
            /\ \A h \in DOMAIN tails :
                  /\ n \notin Handled(h)
                  /\ 2 * n <= tails[h].offset \/ (h # current /\ tails[h].size < 2 * n - 1)
        BY DEF TailInv, AnswersApart
      <4>2. n \notin ToSet(new)
        <5>1. ASSUME n \in ToSet(new) PROVE FALSE
          <6>1. t0.offset < 2 * n /\ 2 * n <= t0.size /\ n \in Int
            BY <2>5, <5>1
          <6>2. 2 * n <= t0.offset \/ t0.size < 2 * n - 1
            BY <4>1
          <6> QED BY <2>4, <6>1, <6>2
        <5> QED BY <5>1
      <4>3. 2 * n <= tails'[g].offset \/ (g # current /\ tails'[g].size < 2 * n - 1)
        <5>1. n \in Int /\ n >= 1
          BY <1>0
        <5>2. CASE 2 * n <= t0.offset
          BY <2>4, <2>11, <5>1, <5>2
        <5>3. CASE g # current
          BY <2>11, <5>1, <5>3
        <5> QED BY <4>1, <5>2, <5>3
      <4> QED BY <2>11, <4>1, <4>2, <4>3
    <3> QED BY <2>11, <3>1, <3>2 DEF TailInv
  <2>12. ASSUME NEW t \in TailType, tails' = [tails EXCEPT ![g] = t], t.pc = "sleep", t.seen = 0, t.size = 0,
                t.offset = t0.size, t.rest = Rest(buf), t.since = t0.since, t.suppress = t0.suppress,
                t.epoch = t0.epoch, t.buffer # <<>> => t.suppress
         PROVE  /\ TailKnows(t)'
                /\ held' # NoTail => held' \in DOMAIN tails /\ drive' # 0 /\ tails'[held'].suppress
                /\ \A h \in DOMAIN tails : tails'[h].suppress => held' = h
                /\ t.since = tails[g].since /\ tails[g].offset <= t.offset
                /\ \A h \in DOMAIN tails : g < h => t.size <= tails[h].since
    <3>1. TailKnows(t)'
      <4>1. t.epoch <= (IF drive = 0 THEN drives ELSE drives - 1) /\ t.seen <= t.epoch /\ 0 <= written
        BY <1>0, <2>4, <2>12, PartsAre DEF TailKnows, TailTypeOK
      <4>2. t.since <= t.offset /\ t.offset <= written
        BY <2>4, <2>12
      <4> QED BY <2>2, <2>8, <2>12, <4>1, <4>2 DEF TailKnows
    <3>2. /\ DOMAIN tails' = DOMAIN tails /\ tails'[g] = t
          /\ \A h \in DOMAIN tails : h # g => tails'[h] = tails[h]
      BY <1>0, <2>12, TailEdit DEF TailTypeOK
    <3>3. /\ held' # NoTail => held' \in DOMAIN tails /\ drive' # 0 /\ tails'[held'].suppress
          /\ \A h \in DOMAIN tails : tails'[h].suppress => held' = h
      BY <1>0, <2>8, <2>12, <3>2 DEF Watching
    <3> QED BY <2>10, <2>12, <3>1, <3>3
  <2>13. <<>> \in Seq(Lines) /\ Rises(<<>>) /\ ToSet(<<>>) = {}
    BY SetOfEmpty, EmptySeq DEF Rises
  <2>14. CASE t0.suppress
    <3> DEFINE b == t0.buffer \o new
    <3>1. tails' = [tails EXCEPT ![g] = [kept EXCEPT !.buffer = b]] /\ posted' = posted
      BY <2>1, <2>14
    <3>2. b \in Seq(Lines) /\ ToSet(b) = ToSet(t0.buffer) \cup ToSet(new)
      BY <2>2, <2>4, JoinIs
    <3>3. Rises(b)
      <4>1. Rises(t0.buffer)
        BY <1>0 DEF Stretches
      <4> QED BY <2>2, <2>4, <2>6, <4>1, JoinRises, PartsAre
    <3> HIDE DEF b
    <3>4. PICK t \in TailType :
          /\ tails' = [tails EXCEPT ![g] = t] /\ t.pc = "sleep" /\ t.seen = 0 /\ t.size = 0
          /\ t.offset = t0.size /\ t.rest = Rest(buf) /\ t.since = t0.since
          /\ t.suppress = t0.suppress /\ t.buffer = b /\ t.epoch = t0.epoch
      <4>1. PICK t \in TailType : t = [kept EXCEPT !.buffer = b]
        BY <2>3, <3>2 DEF TailType
      <4>2. /\ t.pc = "sleep" /\ t.seen = 0 /\ t.size = 0
            /\ t.offset = t0.size /\ t.rest = Rest(buf) /\ t.since = t0.since
            /\ t.suppress = t0.suppress /\ t.buffer = b /\ t.epoch = t0.epoch
        BY <2>3, <3>2, <4>1 DEF TailType
      <4> QED BY <3>1, <4>1, <4>2
    <3> HIDE DEF t0
    <3>5. PostsTo(g, <<>>)
      BY <1>0, <3>1, NothingPosted DEF TailTypeOK
    <3>6. Before(PostedBy(g), ToSet(<<>>)) /\ Before(PostedBy(g) \cup ToSet(<<>>), ToSet(t.buffer))
      <4>1. Before(PostedBy(g), ToSet(t0.buffer))
        BY <1>0 DEF Stretches, t0
      <4> QED BY <2>6, <2>13, <3>2, <3>4, <4>1 DEF Before
    <3>7. /\ ToSet(<<>>) \cup ToSet(t.buffer) \subseteq DOMAIN line
          /\ \A n \in ToSet(<<>>) \cup ToSet(t.buffer) :
                /\ t.since < 2 * n /\ 2 * n <= t.offset
                /\ \A h \in DOMAIN tails : g < h => 2 * n <= tails[h].since
      BY <2>5, <2>7, <2>13, <3>2, <3>4 DEF Handled, t0
    <3>8. t.buffer # <<>> => t.suppress
      BY <2>14, <3>4
    <3>9. Rises(t.buffer)
      BY <3>3, <3>4
    <3>10. /\ TailKnows(t)'
           /\ held' # NoTail => held' \in DOMAIN tails /\ drive' # 0 /\ tails'[held'].suppress
           /\ \A h \in DOMAIN tails : tails'[h].suppress => held' = h
           /\ t.since = tails[g].since /\ tails[g].offset <= t.offset
           /\ \A h \in DOMAIN tails : g < h => t.size <= tails[h].since
      BY <2>12, <3>1, <3>4, <3>8
    <3>11. /\ TailTypeOK' /\ (\A h \in DOMAIN tails : TailKnows(tails[h]))' /\ Stretches' /\ Watching'
           /\ DOMAIN tails' = DOMAIN tails /\ tails'[g] = t
           /\ \A h \in DOMAIN tails : h # g => tails'[h] = tails[h]
           /\ PostedBy(g)' = PostedBy(g) \cup ToSet(<<>>)
           /\ Handled(g)' = PostedBy(g) \cup ToSet(<<>>) \cup ToSet(t.buffer)
           /\ \A h \in DOMAIN tails : h # g => PostedBy(h)' = PostedBy(h) /\ Handled(h)' = Handled(h)
      BY <2>9, <2>13, <3>1, <3>4, <3>5, <3>6, <3>7, <3>8, <3>9, <3>10, EditKept
    <3>12. PostedBy(g)' = PostedBy(g) /\ Handled(g)' = Handled(g) \cup ToSet(new)
      BY <2>13, <3>2, <3>4, <3>11 DEF Handled, t0
    <3> QED BY <2>11, <3>4, <3>11, <3>12
  <2>15. CASE ~t0.suppress
    <3>0. PICK t \in TailType : t = kept
      BY <2>3
    <3>1. tails' = [tails EXCEPT ![g] = t] /\ PostsTo(g, new)
      <4>1. g \in Tails
        BY TailNumbers DEF TailInv
      <4> QED BY <1>0, <2>1, <2>2, <2>15, <3>0, <4>1, PostIs DEF TailTypeOK
    <3>2. t.buffer = <<>>
      BY <1>0, <2>3, <2>15, <3>0 DEF Watching
    <3> HIDE DEF t0
    <3>3. Before(PostedBy(g) \cup ToSet(new), ToSet(t.buffer)) /\ Rises(t.buffer)
      BY <2>13, <3>2 DEF Before
    <3>4. /\ ToSet(new) \cup ToSet(t.buffer) \subseteq DOMAIN line
          /\ \A n \in ToSet(new) \cup ToSet(t.buffer) :
                /\ t.since < 2 * n /\ 2 * n <= t.offset
                /\ \A h \in DOMAIN tails : g < h => 2 * n <= tails[h].since
      BY <2>3, <2>5, <2>13, <3>0, <3>2
    <3>5. t.buffer # <<>> => t.suppress
      BY <3>2
    <3>6. /\ TailKnows(t)'
          /\ held' # NoTail => held' \in DOMAIN tails /\ drive' # 0 /\ tails'[held'].suppress
          /\ \A h \in DOMAIN tails : tails'[h].suppress => held' = h
          /\ t.since = tails[g].since /\ tails[g].offset <= t.offset
          /\ \A h \in DOMAIN tails : g < h => t.size <= tails[h].since
      BY <2>3, <2>12, <3>0, <3>1, <3>5
    <3>7. /\ TailTypeOK' /\ (\A h \in DOMAIN tails : TailKnows(tails[h]))' /\ Stretches' /\ Watching'
          /\ DOMAIN tails' = DOMAIN tails /\ tails'[g] = t
          /\ \A h \in DOMAIN tails : h # g => tails'[h] = tails[h]
          /\ PostedBy(g)' = PostedBy(g) \cup ToSet(new)
          /\ Handled(g)' = PostedBy(g) \cup ToSet(new) \cup ToSet(t.buffer)
          /\ \A h \in DOMAIN tails : h # g => PostedBy(h)' = PostedBy(h) /\ Handled(h)' = Handled(h)
      BY <2>2, <2>6, <2>9, <3>1, <3>3, <3>4, <3>5, <3>6, EditKept
    <3>8. Handled(g)' \subseteq Handled(g) \cup ToSet(new)
      BY <2>13, <3>2, <3>7 DEF Handled
    <3> QED BY <2>3, <2>11, <2>15, <3>0, <3>7, <3>8
  <2> QED BY <2>14, <2>15
<1> QED BY <1>2, <1>3

-----------------------------------------------------------------------------
(* The transcript tail: the file and the host commands. *)
LEMMA TailStopKept ==
    ASSUME TailInv, TailStop PROVE TailInv'
<1>0. TailTypeOK /\ \A h \in DOMAIN tails : h # 0
  BY TailNumbers DEF TailInv
<1>1. UNCHANGED <<written, line, tails, drive, held, drives, succeeded, blind, posted>> /\ current' = NoTail
  BY DEF TailStop, fileVars, driveVars
<1>2. TailTypeOK'
  BY <1>0, <1>1 DEF TailTypeOK
<1>3. (\A h \in DOMAIN tails : TailKnows(tails[h]))'
  BY <1>1 DEF TailInv, TailKnows
<1>4. \A h : PostedBy(h)' = PostedBy(h) /\ Handled(h)' = Handled(h)
  BY <1>1 DEF PostedBy, Handled
<1>5. Stretches' /\ Watching' /\ RunningApart'
  BY <1>1, <1>4 DEF TailInv, Stretches, Watching, RunningApart
<1>6. AnswersApart'
  BY <1>0, <1>1, <1>4, PartsAre DEF TailInv, AnswersApart
<1> QED BY <1>2, <1>3, <1>5, <1>6 DEF TailInv

(* The file's length in parts and in lines. *)
LEMMA Lengths ==
    \A w \in Nat, k \in Nat : k = (w + 1) \div 2 =>
        /\ w % 2 = 1 => (w + 2) \div 2 = k /\ w = 2 * k - 1
        /\ w % 2 # 1 => (w + 2) \div 2 = k + 1 /\ w = 2 * k
OBVIOUS

LEMMA WriteSecondKept ==
    ASSUME TailInv, WriteSecond PROVE TailInv'
<1>0. /\ TailTypeOK /\ written \in Nat /\ written <= 2 * MaxLines /\ Len(line) \in Nat
      /\ Len(line) = (written + 1) \div 2 /\ MaxLines \in Nat
      /\ DOMAIN line \subseteq Int /\ \A h \in DOMAIN tails : tails[h] \in TailType
  <2>1. DOMAIN line \subseteq Int
    BY TailNumbers, PartsAre DEF TailInv
  <2>2. written \in 0 .. 2 * MaxLines /\ Len(line) = (written + 1) \div 2
    BY DEF TailInv, TailTypeOK
  <2> QED BY <2>1, <2>2, TailNumbers, PartsAre DEF TailInv
<1>1. UNCHANGED <<line, tails, current, drive, held, drives, succeeded, blind, posted>>
      /\ written' = written + 1 /\ written % 2 = 1
  BY DEF WriteSecond, Open, driveVars
<1>2. written' \in 0 .. 2 * MaxLines /\ Len(line) = (written' + 1) \div 2
  <2>1. (written + 2) \div 2 = Len(line) /\ written = 2 * Len(line) - 1
    BY <1>0, <1>1, Lengths
  <2>2. (written + 1) + 1 = written + 2
    BY <1>0
  <2> QED BY <1>0, <1>1, <2>1, <2>2
<1>3. TailTypeOK'
  BY <1>0, <1>1, <1>2 DEF TailTypeOK
<1>4. (\A h \in DOMAIN tails : TailKnows(tails[h]))'
  <2>1. ASSUME NEW h \in DOMAIN tails PROVE TailKnows(tails[h])'
    <3>1. PICK u \in TailType : u = tails[h]
      BY <1>0
    <3>2. TailKnows(u) /\ Finished \in Int /\ Finished' = Finished
      BY <1>0, <1>1, <3>1, DriveBooksAre DEF TailInv, Finished
    <3>3. TailKnows(u)'
      BY <1>0, <1>1, <3>2, KnowsStill
    <3>4. tails'[h] = u
      BY <1>1, <3>1
    <3> QED BY <3>3, <3>4 DEF TailKnows
  <2> QED BY <1>1, <2>1
<1>5. \A h : PostedBy(h)' = PostedBy(h) /\ Handled(h)' = Handled(h)
  BY <1>1 DEF PostedBy, Handled
<1>6. Stretches' /\ Watching' /\ RunningApart'
  BY <1>1, <1>5 DEF TailInv, Stretches, Watching, RunningApart
<1>7. AnswersApart'
  <2>1. \A n \in DOMAIN line : 2 * n <= written => 2 * n <= written'
    BY <1>0, <1>1
  <2> QED BY <1>1, <1>5, <2>1 DEF TailInv, AnswersApart
<1> QED BY <1>3, <1>4, <1>6, <1>7 DEF TailInv

LEMMA WriteFirstKept ==
    ASSUME TailInv, NEW by \in {Editor, drive}, NEW role \in Roles, WriteFirst(by, role) PROVE TailInv'
<1> DEFINE new == Len(line) + 1
           rec == [by |-> by, role |-> role]
           Recs == [by : Drives \cup {Editor}, role : Roles]
<1>0. /\ TailTypeOK /\ Watching /\ Stretches /\ written \in Nat /\ written <= 2 * MaxLines /\ Len(line) \in Nat
      /\ Len(line) = (written + 1) \div 2 /\ MaxLines \in Nat
      /\ DOMAIN line = 1 .. Len(line) /\ DOMAIN line \subseteq Int
      /\ \A h \in DOMAIN tails : tails[h] \in TailType
  <2>1. DOMAIN line \subseteq Int
    BY TailNumbers, PartsAre DEF TailInv
  <2>2. written \in 0 .. 2 * MaxLines /\ Len(line) = (written + 1) \div 2
    BY DEF TailInv, TailTypeOK
  <2> QED BY <2>1, <2>2, TailNumbers, PartsAre DEF TailInv
<1>1. UNCHANGED <<tails, current, drive, held, drives, succeeded, blind, posted>>
      /\ written' = written + 1 /\ written % 2 # 1 /\ Len(line) < MaxLines /\ line' = Append(line, rec)
  BY DEF WriteFirst, Open, driveVars
<1>2. drive \in Drives \cup {0} /\ drives \in Nat /\ drive <= drives /\ drive \in Nat /\ drive \notin succeeded
      /\ 0 \notin succeeded /\ Editor = 0 /\ Finished \in Int
  <2>1. drive \in {0, drives} /\ succeeded \subseteq (1 .. drives) \ {drive}
    BY <1>0 DEF Watching
  <2>2. drive \in Drives \cup {0} /\ drives \in Nat
    BY <1>0, PartsAre DEF TailTypeOK
  <2>3. 0 \notin 1 .. drives
    BY <2>2
  <2> QED BY <1>0, <2>1, <2>2, <2>3, PartsAre, DriveBooksAre
<1>3. rec \in Recs /\ line \in Seq(Recs) /\ rec.by = by
  BY <1>0, <1>2 DEF TailTypeOK
<1> HIDE DEF rec, Recs
<1>4. /\ line' \in Seq(Recs) /\ Len(line') = new
      /\ \A n \in DOMAIN line : line'[n] = line[n]
      /\ line'[new] = rec
      /\ DOMAIN line' = DOMAIN line \cup {new}
  <2>1. /\ Append(line, rec) \in Seq(Recs) /\ Len(Append(line, rec)) = new
        /\ \A i \in 1 .. Len(line) : Append(line, rec)[i] = line[i]
        /\ Append(line, rec)[new] = rec
    BY <1>3, AppendProperties
  <2>2. DOMAIN Append(line, rec) = 1 .. new
    BY <2>1, LenProperties
  <2>3. \A k \in Nat : 1 .. k + 1 = (1 .. k) \cup {k + 1}
    OBVIOUS
  <2> QED BY <1>0, <1>1, <2>1, <2>2, <2>3
<1>5. written = 2 * Len(line) /\ written' \in 0 .. 2 * MaxLines /\ new = (written' + 1) \div 2 /\ new \in Int
      /\ new \notin DOMAIN line
  <2>1. (written + 2) \div 2 = Len(line) + 1 /\ written = 2 * Len(line)
    BY <1>0, <1>1, Lengths
  <2>2. (written + 1) + 1 = written + 2 /\ written + 1 \in 0 .. 2 * MaxLines
    BY <1>0, <1>1, <2>1
  <2> QED BY <1>0, <1>1, <2>1, <2>2
<1> HIDE DEF new
<1>6. TailTypeOK'
  BY <1>0, <1>1, <1>4, <1>5 DEF TailTypeOK, Recs
<1>7. (\A h \in DOMAIN tails : TailKnows(tails[h]))'
  <2>1. ASSUME NEW h \in DOMAIN tails PROVE TailKnows(tails[h])'
    <3>1. PICK u \in TailType : u = tails[h]
      BY <1>0
    <3>2. TailKnows(u) /\ Finished' = Finished
      BY <1>1, <3>1 DEF TailInv, Finished
    <3>3. TailKnows(u)'
      BY <1>0, <1>1, <1>2, <3>2, KnowsStill
    <3>4. tails'[h] = u
      BY <1>1, <3>1
    <3> QED BY <3>3, <3>4 DEF TailKnows
  <2> QED BY <1>1, <2>1
<1>8. \A h : PostedBy(h)' = PostedBy(h) /\ Handled(h)' = Handled(h)
  <2>1. \A i \in DOMAIN posted : posted[i].line \in DOMAIN line
    BY <1>0 DEF Stretches
  <2>2. \A h : PostedBy(h)' = PostedBy(h)
    BY <1>1, <1>4, <2>1 DEF PostedBy
  <2> QED BY <1>1, <2>2 DEF Handled
<1>9. Stretches'
  BY <1>0, <1>1, <1>4, <1>8 DEF Stretches
<1>10. Watching'
  <2>1. rec.by <= drives
    BY <1>2, <1>3
  <2> QED BY <1>0, <1>1, <1>4, <2>1 DEF Watching
<1>11. \A h \in DOMAIN tails : new \notin PostedBy(h) /\ tails[h].size < 2 * new - 1
  <2> SUFFICES ASSUME NEW h \in DOMAIN tails PROVE new \notin PostedBy(h) /\ tails[h].size < 2 * new - 1
    OBVIOUS
  <2>1. tails[h].size <= written /\ tails[h].size \in Int /\ written \in Int
    BY <1>0, PartsAre DEF TailInv, TailKnows, TailType
  <2>2. 2 * new - 1 = written + 1
    BY <1>0, <1>5 DEF new
  <2>3. new \notin PostedBy(h)
    BY <1>5 DEF PostedBy
  <2> QED BY <2>1, <2>2, <2>3
<1>12. RunningApart'
  BY <1>1, <1>4, <1>8, <1>11 DEF TailInv, RunningApart
<1>13. AnswersApart'
  <2>1. \A n \in DOMAIN line : 2 * n <= written => 2 * n <= written'
    BY <1>0, <1>1
  <2>2. rec.by \notin succeeded
    BY <1>2, <1>3
  <2> QED BY <1>1, <1>4, <1>8, <2>1, <2>2 DEF TailInv, AnswersApart
<1> QED BY <1>6, <1>7, <1>9, <1>10, <1>12, <1>13 DEF TailInv

LEMMA TailStartKept ==
    ASSUME TailInv, TailStart PROVE TailInv'
<1>a. PICK new \in {Len(tails) + 1} : TRUE
  OBVIOUS
<1>0. /\ TailTypeOK /\ Watching /\ Stretches /\ written \in 0 .. 2 * MaxLines /\ written \in Int
      /\ Len(tails) \in Nat /\ DOMAIN tails = 1 .. Len(tails)
      /\ \A h \in DOMAIN tails : tails[h] \in TailType /\ TailKnows(tails[h]) /\ h \in Int /\ h <= Len(tails)
      /\ Finished \in Nat
  <2>1. /\ Len(tails) \in Nat /\ DOMAIN tails = 1 .. Len(tails) /\ written \in 0 .. 2 * MaxLines
        /\ \A h \in DOMAIN tails : tails[h] \in TailType /\ h \in Int /\ h <= Len(tails)
    BY TailNumbers DEF TailInv
  <2>2. Finished \in Nat
    <3>1. drive \in {0, drives} /\ drives \in Nat
      BY PartsAre DEF TailInv, TailTypeOK, Watching
    <3> QED BY <3>1 DEF Finished
  <2> QED BY <2>1, <2>2, PartsAre DEF TailInv
<1>1. /\ UNCHANGED <<written, line, drive, held, drives, succeeded, posted>>
      /\ Len(tails) < MaxTails /\ tails' = Append(tails, NewTail) /\ current' = new
      /\ blind' = IF drive = 0 THEN blind ELSE blind \cup {drive}
  BY <1>a DEF TailStart, fileVars
<1>2. PICK t \in TailType : t = NewTail
  <2>1. NewTail \in TailType
    <3>1. <<>> \in Seq(1 .. 2 * MaxLines) /\ <<>> \in Seq(Lines)
      BY EmptySeq
    <3>2. 0 \in 0 .. 2 * MaxLines /\ 0 \in 0 .. MaxDrives /\ Exists \in BOOLEAN
      BY PartsAre DEF Exists
    <3> QED BY <1>0, <3>1, <3>2 DEF NewTail, TailType
  <2> QED BY <2>1
<1>3. /\ t.offset = written /\ t.rest = <<>> /\ t.since = written /\ t.suppress = FALSE /\ t.buffer = <<>>
      /\ t.epoch = 0 /\ t.pc = "sleep" /\ t.seen = 0 /\ t.size = 0
  BY <1>2 DEF NewTail
<1>4. /\ tails' \in Seq(TailType) /\ Len(tails') = new /\ DOMAIN tails' = DOMAIN tails \cup {new}
      /\ \A h \in DOMAIN tails : tails'[h] = tails[h]
      /\ tails'[new] = t
  <2>1. /\ Append(tails, t) \in Seq(TailType) /\ Len(Append(tails, t)) = new
        /\ \A i \in 1 .. Len(tails) : Append(tails, t)[i] = tails[i]
        /\ Append(tails, t)[new] = t
    BY <1>a, <1>0, AppendProperties DEF TailTypeOK
  <2>2. DOMAIN Append(tails, t) = 1 .. new
    BY <2>1, LenProperties
  <2>3. \A k \in Nat : 1 .. k + 1 = (1 .. k) \cup {k + 1}
    OBVIOUS
  <2> QED BY <1>a, <1>0, <1>1, <1>2, <2>1, <2>2, <2>3
<1>5. new \in Tails /\ new \notin DOMAIN tails /\ new <= MaxTails /\ new # NoTail
      /\ \A h \in DOMAIN tails : h < new /\ ~ (new < h) /\ h # new
  BY <1>a, <1>0, <1>1, PartsAre
<1>6. TailKnows(t)'
  <2>1. t.epoch <= (IF drive = 0 THEN drives ELSE drives - 1)
    BY <1>0, <1>3 DEF Finished
  <2>2. t.seen <= t.epoch /\ t.since <= t.offset /\ t.offset <= written /\ t.size <= written
    BY <1>0, <1>3
  <2>3. DOMAIN t.rest = {} /\ Rises(t.rest)
    BY <1>3, SetOfEmpty DEF Rises
  <2> QED BY <1>1, <1>3, <2>1, <2>2, <2>3 DEF TailKnows
<1>7. (\A h \in DOMAIN tails : TailKnows(tails[h]))'
  BY <1>0, <1>1, <1>4, <1>6 DEF TailKnows
<1>8. TailTypeOK'
  <2>1. blind' \subseteq Drives
    BY <1>0, <1>1 DEF TailTypeOK
  <2>2. t.buffer = <<>> /\ t.suppress = FALSE /\ t.pc # "read"
    BY <1>3
  <2>3. \A h \in DOMAIN tails' :
           /\ tails'[h].pc = "read" => tails'[h].from < tails'[h].size
           /\ tails'[h].buffer # <<>> => tails'[h].suppress
           /\ tails'[h].suppress => drive' # 0 /\ held' = h
    BY <1>0, <1>1, <1>4, <2>2 DEF TailTypeOK
  <2> QED BY <1>0, <1>1, <1>4, <1>5, <2>1, <2>3 DEF TailTypeOK
<1>9. \A h : PostedBy(h)' = PostedBy(h)
  BY <1>1 DEF PostedBy
<1>10. PostedBy(new) = {} /\ Handled(new)' = {}
  <2>1. PostedBy(new) = {}
    BY <1>0, <1>5 DEF Stretches, PostedBy
  <2> QED BY <1>3, <1>4, <1>9, <2>1, SetOfEmpty DEF Handled
<1>11. \A h \in DOMAIN tails : Handled(h)' = Handled(h)
  BY <1>4, <1>9 DEF Handled
<1>12. \A h \in DOMAIN tails : tails[h].size <= t.since /\ \A n \in Handled(h) : 2 * n <= t.since
  <2> SUFFICES ASSUME NEW h \in DOMAIN tails
               PROVE  tails[h].size <= t.since /\ \A n \in Handled(h) : 2 * n <= t.since
    OBVIOUS
  <2>1. tails[h].size <= written /\ tails[h].offset <= written /\ tails[h].offset \in Int
    BY <1>0, PartsAre DEF TailKnows, TailType
  <2>2. \A n \in Handled(h) : 2 * n <= tails[h].offset /\ n \in Int
    <3>1. \A n \in Handled(h) : n \in DOMAIN line
      BY <1>0 DEF Handled, PostedBy, Stretches
    <3> QED BY <1>0, <3>1, TailNumbers, PartsAre DEF Stretches
  <2> QED BY <1>0, <1>3, <2>1, <2>2
<1>13. Stretches'
  <2>1. /\ ToSet(t.buffer) = {} /\ Rises(t.buffer)
    BY <1>3, SetOfEmpty DEF Rises
  <2>2. \A i \in DOMAIN posted' : posted'[i].tail \in DOMAIN tails' /\ posted'[i].line \in DOMAIN line'
    BY <1>0, <1>1, <1>4 DEF Stretches
  <2>3. \A g \in DOMAIN tails' :
          /\ ToSet(tails'[g].buffer) \subseteq DOMAIN line'
          /\ \A n \in Handled(g)' : tails'[g].since < 2 * n /\ 2 * n <= tails'[g].offset
          /\ Rises(tails'[g].buffer)
          /\ Before(PostedBy(g)', ToSet(tails'[g].buffer))
    <3> SUFFICES ASSUME NEW g \in DOMAIN tails'
                 PROVE  /\ ToSet(tails'[g].buffer) \subseteq DOMAIN line'
                        /\ \A n \in Handled(g)' : tails'[g].since < 2 * n /\ 2 * n <= tails'[g].offset
                        /\ Rises(tails'[g].buffer)
                        /\ Before(PostedBy(g)', ToSet(tails'[g].buffer))
      OBVIOUS
    <3>1. CASE g \in DOMAIN tails
      BY <1>0, <1>1, <1>4, <1>9, <1>11, <3>1 DEF Stretches
    <3>2. CASE g = new
      BY <1>4, <1>10, <2>1, <3>2 DEF Before
    <3> QED BY <1>4, <3>1, <3>2
  <2>4. \A g, h \in DOMAIN tails' : g < h =>
          /\ tails'[g].size <= tails'[h].since
          /\ \A n \in Handled(g)' : 2 * n <= tails'[h].since
    <3> SUFFICES ASSUME NEW g \in DOMAIN tails', NEW h \in DOMAIN tails', g < h
                 PROVE  /\ tails'[g].size <= tails'[h].since
                        /\ \A n \in Handled(g)' : 2 * n <= tails'[h].since
      OBVIOUS
    <3>1. g \in DOMAIN tails
      <4>1. new \in Int /\ ~ (new < new)
        BY <1>5, PartsAre
      <4> QED BY <1>4, <1>5, <4>1
    <3>2. CASE h \in DOMAIN tails
      BY <1>0, <1>4, <1>11, <3>1, <3>2 DEF Stretches
    <3>3. CASE h = new
      BY <1>4, <1>11, <1>12, <3>1, <3>3
    <3> QED BY <1>4, <3>2, <3>3
  <2> QED BY <1>0, <1>1, <2>2, <2>3, <2>4 DEF Stretches
<1>14. Watching'
  <2>1. \A h \in DOMAIN tails' :
           /\ tails'[h].buffer # <<>> => tails'[h].suppress
           /\ tails'[h].suppress => held' = h
    BY <1>0, <1>1, <1>3, <1>4 DEF Watching
  <2>2. held' # NoTail => held' \in DOMAIN tails' /\ drive' # 0 /\ tails'[held'].suppress
    BY <1>0, <1>1, <1>4 DEF Watching
  <2> QED BY <1>0, <1>1, <1>4, <2>1, <2>2 DEF Watching
<1>15. RunningApart'
  BY <1>1 DEF RunningApart
<1>16. AnswersApart'
  <2> SUFFICES ASSUME NEW n \in DOMAIN line, line[n].by \in succeeded \ blind, line[n].role = "assistant"
               PROVE  /\ 2 * n <= written
                      /\ \A h \in DOMAIN tails' :
                            /\ n \notin Handled(h)'
                            /\ 2 * n <= tails'[h].offset \/ (h # new /\ tails'[h].size < 2 * n - 1)
    BY <1>1 DEF AnswersApart
  <2>1. /\ 2 * n <= written
        /\ \A h \in DOMAIN tails :
              /\ n \notin Handled(h)
              /\ 2 * n <= tails[h].offset \/ (h # current /\ tails[h].size < 2 * n - 1)
    BY DEF TailInv, AnswersApart
  <2> QED BY <1>3, <1>4, <1>5, <1>10, <1>11, <2>1
<1> QED BY <1>7, <1>8, <1>13, <1>14, <1>15, <1>16 DEF TailInv

-----------------------------------------------------------------------------
(* The transcript tail: drives. *)
LEMMA NoTailKept ==
    ASSUME TailInv, UNCHANGED <<fileVars, current, tails, posted>>, DriveBooks',
           drives <= drives', Finished <= Finished', held = NoTail, held' = NoTail
    PROVE  /\ TailTypeOK' /\ (\A h \in DOMAIN tails : TailKnows(tails[h]))' /\ Stretches' /\ Watching'
           /\ \A h : PostedBy(h)' = PostedBy(h) /\ Handled(h)' = Handled(h)
<1>0. /\ TailTypeOK /\ Watching /\ Stretches /\ written \in Int
      /\ \A h \in DOMAIN tails : tails[h] \in TailType /\ TailKnows(tails[h]) /\ h # NoTail
  BY TailNumbers, PartsAre DEF TailInv, TailTypeOK
<1>1. UNCHANGED <<written, line, tails, current, posted>>
  BY DEF fileVars
<1>2. drives \in Int /\ Finished \in Int /\ drives' \in 0 .. MaxDrives /\ drives' \in Int /\ Finished' \in Int
      /\ written <= written'
  BY <1>0, <1>1, DriveBooksAre, PartsAre DEF DriveBooks, Finished
<1>3. \A h \in DOMAIN tails : ~ tails[h].suppress /\ tails[h].buffer = <<>>
  BY <1>0 DEF Watching
<1>4. \A h : PostedBy(h)' = PostedBy(h) /\ Handled(h)' = Handled(h)
  BY <1>1 DEF PostedBy, Handled
<1>5. (\A h \in DOMAIN tails : TailKnows(tails[h]))'
  <2>1. ASSUME NEW h \in DOMAIN tails PROVE TailKnows(tails[h])'
    <3>1. PICK u \in TailType : u = tails[h]
      BY <1>0
    <3>2. TailKnows(u)'
      BY <1>0, <1>1, <1>2, <3>1, KnowsStill
    <3>3. tails'[h] = u
      BY <1>1, <3>1
    <3> QED BY <3>2, <3>3 DEF TailKnows
  <2> QED BY <1>1, <2>1
<1>6. Stretches'
  BY <1>0, <1>1, <1>4 DEF Stretches
<1>7. \A n \in DOMAIN line : line[n].by <= drives'
  <2>1. \A n \in DOMAIN line : line[n] \in [by : Drives \cup {Editor}, role : Roles]
    BY <1>0, TailNumbers, ElementOfSeq DEF TailTypeOK
  <2>2. \A n \in DOMAIN line : line[n].by \in Int
    BY <2>1, PartsAre
  <2> QED BY <1>0, <1>2, <2>2 DEF Watching
<1>8. Watching'
  BY <1>0, <1>1, <1>3, <1>7 DEF Watching, DriveBooks
<1>9. TailTypeOK'
  <2>1. 1 .. drives' \subseteq Drives /\ drives' \in Drives \cup {0}
    BY <1>2, PartsAre
  <2> QED BY <1>0, <1>1, <1>3, <2>1 DEF TailTypeOK, DriveBooks
<1> QED BY <1>4, <1>5, <1>6, <1>8, <1>9

LEMMA DriveStartKept ==
    ASSUME TailInv, DriveStart PROVE TailInv'
<1>0. /\ TailTypeOK /\ Watching /\ Stretches /\ drives \in Nat /\ drives < MaxDrives /\ drive = 0 /\ held = NoTail
      /\ \A h \in DOMAIN tails : tails[h] \in TailType /\ h # NoTail /\ h <= Len(tails) /\ h \in Int
  BY TailNumbers, PartsAre DEF TailInv, TailTypeOK, Watching, DriveStart
<1>1. /\ UNCHANGED <<written, line, current, succeeded, blind, posted>> /\ UNCHANGED <<fileVars, current>>
      /\ drive' = drives + 1 /\ drives' = drives + 1 /\ held' = current
  BY DEF DriveStart, fileVars
<1>2. /\ DriveBooks' /\ drives <= drives' /\ Finished <= Finished'
  <2>1. drives + 1 \in 0 .. MaxDrives /\ drives + 1 # 0 /\ drives + 1 \in 1 .. drives + 1
    BY <1>0, PartsAre
  <2>2. succeeded \subseteq 1 .. drives /\ (1 .. drives) \subseteq (1 .. drives + 1) \ {drives + 1}
    BY <1>0 DEF Watching
  <2>3. DriveBooks'
    BY <1>0, <1>1, <2>1, <2>2 DEF DriveBooks, TailTypeOK
  <2> QED BY <1>0, <1>1, <2>1, <2>3 DEF Finished
<1>3. \A n \in DOMAIN line : line[n].by # drive'
  <2>1. \A n \in DOMAIN line : line[n] \in [by : Drives \cup {Editor}, role : Roles]
    BY <1>0, TailNumbers, ElementOfSeq DEF TailTypeOK
  <2>2. \A n \in DOMAIN line : line[n].by \in Int /\ line[n].by <= drives
    BY <1>0, <2>1, PartsAre DEF Watching
  <2> QED BY <1>0, <1>1, <2>2
<1>4. RunningApart'
  BY <1>1, <1>3 DEF RunningApart
<1>5. CASE current = NoTail
  <2>1. tails' = tails /\ held' = NoTail /\ UNCHANGED <<fileVars, current, tails, posted>>
    BY <1>1, <1>5 DEF DriveStart
  <2>2. /\ TailTypeOK' /\ (\A h \in DOMAIN tails : TailKnows(tails[h]))' /\ Stretches' /\ Watching'
        /\ \A h : PostedBy(h)' = PostedBy(h) /\ Handled(h)' = Handled(h)
    BY <1>0, <1>2, <2>1, NoTailKept
  <2>3. AnswersApart'
    BY <1>1, <2>1, <2>2 DEF TailInv, AnswersApart
  <2> QED BY <1>4, <2>2, <2>3 DEF TailInv
<1>6. CASE current # NoTail
  <2>1. PICK g \in DOMAIN tails : g = current
    <3>1. current = Len(tails) /\ current \in Tails
      BY <1>0, <1>6 DEF Watching, TailTypeOK
    <3>2. Len(tails) \in 1 .. Len(tails)
      BY <3>1, TailNumbers, PartsAre DEF TailInv
    <3> QED BY <1>0, <3>1, <3>2, TailNumbers
  <2>2. PICK t \in TailType : t = [tails[g] EXCEPT !.suppress = TRUE]
    BY <1>0 DEF TailType
  <2>3. /\ t.offset = tails[g].offset /\ t.rest = tails[g].rest /\ t.since = tails[g].since
        /\ t.suppress = TRUE /\ t.buffer = tails[g].buffer /\ t.epoch = tails[g].epoch
        /\ t.pc = tails[g].pc /\ t.seen = tails[g].seen /\ t.size = tails[g].size /\ t.from = tails[g].from
    BY <1>0, <2>2 DEF TailType
  <2>4. tails' = [tails EXCEPT ![g] = t]
    <3>1. tails' = [tails EXCEPT ![g] = [tails[g] EXCEPT !.suppress = TRUE]]
      BY <1>6, <2>1 DEF DriveStart
    <3> QED BY <2>2, <3>1
  <2>5. t.buffer = <<>> /\ \A h \in DOMAIN tails : ~ tails[h].suppress
    BY <1>0, <2>3 DEF Watching
  <2>6. PostsTo(g, <<>>) /\ <<>> \in Seq(Lines) /\ Rises(<<>>) /\ ToSet(<<>>) = {}
    BY <1>0, <1>1, NothingPosted, SetOfEmpty, EmptySeq DEF TailTypeOK, Rises
  <2>7. /\ Before(PostedBy(g), ToSet(<<>>)) /\ Before(PostedBy(g) \cup ToSet(<<>>), ToSet(t.buffer))
        /\ Rises(t.buffer) /\ ToSet(<<>>) \cup ToSet(t.buffer) = {}
    BY <2>5, <2>6 DEF Before
  <2>8. TailKnows(t)'
    <3>1. TailKnows(tails[g]) /\ drives \in Int /\ Finished \in Int /\ Finished' \in Int
          /\ written \in Int /\ written <= written'
      BY <1>0, <1>1, <1>2, DriveBooksAre, PartsAre DEF TailInv, TailTypeOK, DriveBooks, Finished
    <3>2. TailKnows(t)
      BY <2>3, <3>1 DEF TailKnows
    <3> QED BY <1>1, <1>2, <3>1, <3>2, KnowsStill
  <2>9. /\ DOMAIN tails' = DOMAIN tails /\ tails'[g] = t
        /\ \A h \in DOMAIN tails : h # g => tails'[h] = tails[h]
    BY <1>0, <2>4, TailEdit DEF TailTypeOK
  <2>10. /\ held' # NoTail => held' \in DOMAIN tails /\ drive' # 0 /\ tails'[held'].suppress
         /\ \A h \in DOMAIN tails : tails'[h].suppress => held' = h
    BY <1>0, <1>1, <2>1, <2>3, <2>5, <2>9
  <2>11. /\ t.since = tails[g].since /\ tails[g].offset <= t.offset
         /\ \A h \in DOMAIN tails : g < h => t.size <= tails[h].since
    <3>1. \A h \in DOMAIN tails : ~ (g < h)
      BY <1>0, <2>1 DEF Watching
    <3>2. tails[g].offset \in Int
      BY <1>0, PartsAre DEF TailType
    <3> QED BY <2>3, <3>1, <3>2
  <2>12. /\ TailTypeOK' /\ (\A h \in DOMAIN tails : TailKnows(tails[h]))' /\ Stretches' /\ Watching'
         /\ PostedBy(g)' = PostedBy(g) \cup ToSet(<<>>)
         /\ Handled(g)' = PostedBy(g) \cup ToSet(<<>>) \cup ToSet(t.buffer)
         /\ \A h \in DOMAIN tails : h # g => PostedBy(h)' = PostedBy(h) /\ Handled(h)' = Handled(h)
    BY <1>1, <1>2, <2>3, <2>4, <2>6, <2>7, <2>8, <2>10, <2>11, EditKept
  <2>13. \A h \in DOMAIN tails : /\ Handled(h)' = Handled(h) /\ tails'[h].offset = tails[h].offset
                                 /\ tails'[h].size = tails[h].size
    BY <2>3, <2>6, <2>9, <2>12 DEF Handled
  <2>14. AnswersApart'
    BY <1>1, <2>9, <2>13 DEF TailInv, AnswersApart
  <2> QED BY <1>4, <2>12, <2>14 DEF TailInv
<1> QED BY <1>5, <1>6

(* What an ended drive has written is complete. *)
LEMMA EndedLines ==
    ASSUME TailTypeOK, Ended, NEW n \in DOMAIN line, line[n].by = drive
    PROVE  2 * n <= written
<1>1. /\ written \in Nat /\ Len(line) \in Nat /\ Len(line) = (written + 1) \div 2 /\ DOMAIN line = 1 .. Len(line)
      /\ n \in Int /\ n <= Len(line)
  <2>1. written \in Nat /\ Len(line) = (written + 1) \div 2
    BY PartsAre DEF TailTypeOK
  <2>2. Len(line) \in Nat /\ DOMAIN line = 1 .. Len(line)
    BY TailNumbers
  <2> QED BY <2>1, <2>2
<1>2. CASE written % 2 = 1
  <2>1. written = 2 * Len(line) - 1
    BY <1>1, <1>2, Lengths
  <2>2. n # Len(line)
    BY <1>2 DEF Ended, Open, Last
  <2> QED BY <1>1, <2>1, <2>2
<1>3. CASE written % 2 # 1
  <2>1. written = 2 * Len(line)
    BY <1>1, <1>3, Lengths
  <2> QED BY <1>1, <2>1
<1> QED BY <1>2, <1>3

(* The tail that was held is let go, and posts some of what it kept back. *)
LEMMA LetGo ==
    ASSUME TailInv, NEW g \in DOMAIN tails, held = g, held' = NoTail, drive' = 0, drives' = drives,
           UNCHANGED <<fileVars, current>>, succeeded' \subseteq succeeded \cup {drive},
           blind' \subseteq blind \cup {drive},
           NEW t \in TailType, tails' = [tails EXCEPT ![g] = t], t.buffer = <<>>, t.suppress = FALSE,
           t.rest = tails[g].rest, t.since = tails[g].since, t.pc = tails[g].pc, t.seen = tails[g].seen,
           t.size = tails[g].size, t.from = tails[g].from,
           \/ t.offset = tails[g].offset /\ t.epoch = tails[g].epoch
           \/ t.offset \in {tails[g].offset, written} /\ t.epoch = tails[g].epoch + 1,
           NEW ns \in Seq(Lines), Rises(ns), ToSet(ns) \subseteq ToSet(tails[g].buffer), Post(g, ns)
    PROVE  /\ TailTypeOK' /\ (\A h \in DOMAIN tails : TailKnows(tails[h]))' /\ Stretches' /\ Watching' /\ RunningApart'
           /\ DOMAIN tails' = DOMAIN tails /\ tails'[g] = t /\ tails[g].offset <= t.offset
           /\ \A h \in DOMAIN tails : h # g => tails'[h] = tails[h]
           /\ Handled(g)' = PostedBy(g) \cup ToSet(ns)
           /\ \A h \in DOMAIN tails : h # g => Handled(h)' = Handled(h)
<1>0. /\ TailTypeOK /\ Watching /\ Stretches /\ drives \in Nat /\ drive \in Drives /\ drive = drives
      /\ \A h \in DOMAIN tails : tails[h] \in TailType /\ h # NoTail
      /\ g \in Tails /\ TailKnows(tails[g]) /\ written \in Int
  <2>1. drive # 0 /\ drive \in {0, drives} /\ drive \in Drives \cup {0}
    BY TailNumbers, PartsAre DEF TailInv, Watching, TailTypeOK
  <2> QED BY <2>1, TailNumbers, PartsAre DEF TailInv, TailTypeOK
<1>1. /\ written' = written /\ line' = line /\ current' = current
  BY DEF fileVars
<1>2. DriveBooks' /\ drives <= drives' /\ Finished <= Finished' /\ Finished = drives - 1 /\ Finished' = drives
  <2>1. drive \in 1 .. drives /\ drive # 0
    BY <1>0, PartsAre
  <2>2. succeeded \subseteq (1 .. drives) \ {drive} /\ 0 \notin 1 .. drives
    BY <1>0 DEF Watching
  <2>3. DriveBooks'
    BY <1>0, <2>1, <2>2 DEF DriveBooks, TailTypeOK
  <2> QED BY <1>0, <2>1, <2>3 DEF Finished
<1>3. /\ tails[g].offset \in Int /\ t.offset \in Int /\ tails[g].offset <= t.offset /\ t.offset <= written
      /\ tails[g].epoch \in Int /\ tails[g].epoch <= drives - 1 /\ tails[g].epoch <= t.epoch /\ t.epoch <= drives
      /\ tails[g].since \in Int /\ tails[g].seen \in Int /\ tails[g].seen <= tails[g].epoch
  <2>1. /\ tails[g].offset \in Int /\ tails[g].epoch \in Int /\ tails[g].since \in Int /\ tails[g].seen \in Int
    <3>1. /\ tails[g].offset \in 0 .. 2 * MaxLines /\ tails[g].epoch \in 0 .. MaxDrives
          /\ tails[g].since \in 0 .. 2 * MaxLines /\ tails[g].seen \in 0 .. MaxDrives
      BY <1>0 DEF TailType
    <3> QED BY <3>1
  <2>2. /\ tails[g].offset <= written /\ tails[g].epoch <= drives - 1 /\ tails[g].seen <= tails[g].epoch
    BY <1>0, <1>2 DEF TailKnows, Finished
  <2> QED BY <1>0, <2>1, <2>2
<1>4. PostsTo(g, ns)
  BY <1>0, PostIs DEF TailTypeOK
<1>5. Before(PostedBy(g), ToSet(ns)) /\ ToSet(t.buffer) = {} /\ Rises(t.buffer)
      /\ Before(PostedBy(g) \cup ToSet(ns), ToSet(t.buffer))
  <2>1. Before(PostedBy(g), ToSet(tails[g].buffer))
    BY <1>0 DEF Stretches
  <2> QED BY <2>1, SetOfEmpty DEF Before, Rises
<1>6. /\ ToSet(ns) \cup ToSet(t.buffer) \subseteq DOMAIN line
      /\ \A n \in ToSet(ns) \cup ToSet(t.buffer) :
            /\ t.since < 2 * n /\ 2 * n <= t.offset
            /\ \A h \in DOMAIN tails : g < h => 2 * n <= tails[h].since
  <2> SUFFICES ASSUME NEW n \in ToSet(ns)
               PROVE  /\ n \in DOMAIN line /\ t.since < 2 * n /\ 2 * n <= t.offset
                      /\ \A h \in DOMAIN tails : g < h => 2 * n <= tails[h].since
    BY <1>5
  <2>1. n \in Handled(g) /\ n \in DOMAIN line
    BY <1>0 DEF Handled, Stretches
  <2>2. /\ tails[g].since < 2 * n /\ 2 * n <= tails[g].offset
        /\ \A h \in DOMAIN tails : g < h => 2 * n <= tails[h].since
    BY <1>0, <2>1 DEF Stretches
  <2>3. n \in Int
    BY <1>0, <2>1, TailNumbers, PartsAre
  <2> QED BY <1>3, <2>1, <2>2, <2>3
<1>7. TailKnows(t)'
  <2>1. t.since <= t.offset /\ t.offset <= written' /\ t.size <= written'
    BY <1>0, <1>1, <1>3 DEF TailKnows
  <2>2. t.seen <= t.epoch /\ t.epoch <= (IF drive' = 0 THEN drives' ELSE drives' - 1)
    BY <1>3
  <2>3. t.pc = "read" => t.from < t.size
    BY <1>0 DEF TailKnows
  <2>4. t.pc = "read" /\ t.seen = t.epoch => t.from = t.offset
    <3>1. CASE t.offset = tails[g].offset /\ t.epoch = tails[g].epoch
      BY <1>0, <3>1 DEF TailKnows
    <3>2. CASE t.epoch = tails[g].epoch + 1
      BY <1>3, <3>2
    <3> QED BY <3>1, <3>2
  <2>5. ASSUME NEW i \in DOMAIN t.rest PROVE ~ EndsLine(t.rest[i]) /\ t.rest[i] <= t.offset
    <3>1. ~ EndsLine(t.rest[i]) /\ t.rest[i] <= tails[g].offset
      BY <1>0 DEF TailKnows
    <3>2. t.rest[i] \in Int
      BY ElementOfSeq, LenProperties, PartsAre DEF TailType, Parts
    <3> QED BY <1>3, <3>1, <3>2
  <2>6. Rises(t.rest)
    BY <1>0 DEF TailKnows
  <2> QED BY <2>1, <2>2, <2>3, <2>4, <2>5, <2>6 DEF TailKnows
<1>8. /\ DOMAIN tails' = DOMAIN tails /\ tails'[g] = t
      /\ \A h \in DOMAIN tails : h # g => tails'[h] = tails[h]
  BY <1>0, TailEdit DEF TailTypeOK
<1>9. /\ held' # NoTail => held' \in DOMAIN tails /\ drive' # 0 /\ tails'[held'].suppress
      /\ \A h \in DOMAIN tails : tails'[h].suppress => held' = h
  BY <1>0, <1>8 DEF Watching
<1>10. \A h \in DOMAIN tails : g < h => t.size <= tails[h].since
  BY <1>0 DEF Stretches
<1>11. /\ TailTypeOK' /\ (\A h \in DOMAIN tails : TailKnows(tails[h]))' /\ Stretches' /\ Watching'
       /\ Handled(g)' = PostedBy(g) \cup ToSet(ns) \cup ToSet(t.buffer)
       /\ \A h \in DOMAIN tails : h # g => PostedBy(h)' = PostedBy(h) /\ Handled(h)' = Handled(h)
  BY <1>2, <1>3, <1>4, <1>5, <1>6, <1>7, <1>9, <1>10, EditKept
<1>12. RunningApart'
  BY DEF RunningApart
<1> QED BY <1>3, <1>5, <1>8, <1>11, <1>12

LEMMA DriveFailKept ==
    ASSUME TailInv, DriveFail PROVE TailInv'
<1>0. /\ TailTypeOK /\ Watching /\ Stretches /\ UNCHANGED <<fileVars, current, drives, succeeded, blind>>
      /\ written' = written /\ line' = line /\ drive' = 0 /\ held' = NoTail /\ drive # 0
  BY DEF TailInv, DriveFail, Ended, fileVars
<1>1. CASE held = NoTail
  <2>1. tails' = tails /\ posted' = posted /\ UNCHANGED <<fileVars, current, tails, posted>>
    BY <1>0, <1>1 DEF DriveFail
  <2>2. DriveBooks' /\ drives <= drives' /\ Finished <= Finished'
    <3>1. DriveBooks /\ drives \in Int /\ 0 \notin 1 .. drives
      BY <1>0, DriveBooksAre
    <3> QED BY <1>0, <3>1 DEF DriveBooks, Finished
  <2>3. /\ TailTypeOK' /\ (\A h \in DOMAIN tails : TailKnows(tails[h]))' /\ Stretches' /\ Watching'
        /\ \A h : PostedBy(h)' = PostedBy(h) /\ Handled(h)' = Handled(h)
    BY <1>0, <1>1, <2>1, <2>2, NoTailKept
  <2>4. RunningApart' /\ AnswersApart'
    BY <1>0, <2>1, <2>3 DEF TailInv, RunningApart, AnswersApart
  <2> QED BY <2>3, <2>4 DEF TailInv
<1>2. CASE held # NoTail
  <2>1. PICK g \in DOMAIN tails : g = held /\ tails[g] \in TailType
    BY <1>0, <1>2, TailNumbers DEF Watching
  <2>2. PICK t \in TailType : t = [tails[g] EXCEPT !.buffer = <<>>, !.suppress = FALSE]
    BY <2>1, EmptySeq DEF TailType
  <2>3. /\ t.offset = tails[g].offset /\ t.rest = tails[g].rest /\ t.since = tails[g].since
        /\ t.suppress = FALSE /\ t.buffer = <<>> /\ t.epoch = tails[g].epoch
        /\ t.pc = tails[g].pc /\ t.seen = tails[g].seen /\ t.size = tails[g].size /\ t.from = tails[g].from
    BY <2>1, <2>2 DEF TailType
  <2>4. tails' = [tails EXCEPT ![g] = t] /\ Post(g, tails[g].buffer)
    <3>1. /\ tails' = [tails EXCEPT ![g] = [tails[g] EXCEPT !.buffer = <<>>, !.suppress = FALSE]]
          /\ Post(g, tails[g].buffer)
      BY <1>2, <2>1 DEF DriveFail
    <3> QED BY <2>2, <3>1
  <2>5. PICK ns \in Seq(Lines) : ns = tails[g].buffer
    BY <2>1 DEF TailType
  <2>6. Post(g, ns) /\ Rises(ns) /\ ToSet(ns) \subseteq ToSet(tails[g].buffer)
    BY <1>0, <2>1, <2>4, <2>5 DEF Stretches
  <2>7. /\ TailTypeOK' /\ (\A h \in DOMAIN tails : TailKnows(tails[h]))' /\ Stretches' /\ Watching' /\ RunningApart'
        /\ DOMAIN tails' = DOMAIN tails /\ tails'[g] = t
        /\ \A h \in DOMAIN tails : h # g => tails'[h] = tails[h]
        /\ Handled(g)' = PostedBy(g) \cup ToSet(ns)
        /\ \A h \in DOMAIN tails : h # g => Handled(h)' = Handled(h)
    BY <1>0, <2>1, <2>3, <2>4, <2>6, LetGo
  <2>8. \A h \in DOMAIN tails : /\ Handled(h)' = Handled(h) /\ tails'[h].offset = tails[h].offset
                                /\ tails'[h].size = tails[h].size
    BY <2>3, <2>5, <2>7 DEF Handled
  <2>9. AnswersApart'
    BY <1>0, <2>7, <2>8 DEF TailInv, AnswersApart
  <2> QED BY <2>7, <2>9 DEF TailInv
<1> QED BY <1>1, <1>2

LEMMA DriveOkKept ==
    ASSUME TailInv, DriveOk PROVE TailInv'
<1>0. /\ TailTypeOK /\ Watching /\ Stretches /\ UNCHANGED <<fileVars, current, drives>> /\ Ended
      /\ written' = written /\ line' = line /\ current' = current
      /\ drive' = 0 /\ held' = NoTail /\ drive # 0 /\ drives \in Nat /\ drive \in Drives /\ drive = drives
      /\ succeeded' = succeeded \cup {drive} /\ blind \subseteq blind' /\ blind' \subseteq blind \cup {drive}
  <2>1. /\ TailTypeOK /\ Watching /\ Stretches /\ DriveOk
    BY DEF TailInv
  <2>2. drive # 0 /\ drive \in {0, drives} /\ drive \in Drives \cup {0} /\ drives \in Nat
    BY <2>1, PartsAre DEF DriveOk, Ended, Watching, TailTypeOK
  <2> QED BY <2>1, <2>2 DEF DriveOk, fileVars
<1>1. ASSUME NEW n \in DOMAIN line, line[n].by = drive
      PROVE  2 * n <= written
  BY <1>0, <1>1, EndedLines
<1>2. \A n \in DOMAIN line :
        (line[n].by \in succeeded \ blind /\ line[n].role = "assistant") =>
            /\ 2 * n <= written
            /\ \A h \in DOMAIN tails :
                  /\ n \notin Handled(h)
                  /\ 2 * n <= tails[h].offset \/ (h # current /\ tails[h].size < 2 * n - 1)
  BY DEF TailInv, AnswersApart
<1>3. ASSUME drive \notin blind
      PROVE  /\ current \in {held, NoTail}
             /\ \A n \in DOMAIN line : line[n].by = drive =>
                   /\ \A h \in DOMAIN tails : n \notin PostedBy(h)
                   /\ \A h \in DOMAIN tails : h # held => tails[h].size < 2 * n - 1
  BY <1>0, <1>3 DEF TailInv, RunningApart
<1>4. \A h \in DOMAIN tails : h # NoTail /\ (h # held => tails[h].buffer = <<>> /\ Handled(h) = PostedBy(h))
  <2>1. \A h \in DOMAIN tails : h # NoTail
    BY <1>0, TailNumbers, PartsAre
  <2>2. \A h \in DOMAIN tails : h # held => tails[h].buffer = <<>>
    BY <1>0 DEF Watching
  <2> QED BY <2>1, <2>2, SetOfEmpty DEF Handled
<1>5. CASE held = NoTail
  <2>1. tails' = tails /\ posted' = posted /\ UNCHANGED <<fileVars, current, tails, posted>> /\ blind' = blind
    BY <1>0, <1>5 DEF DriveOk
  <2>2. DriveBooks' /\ drives <= drives' /\ Finished <= Finished'
    <3>1. DriveBooks /\ drives \in Int /\ 0 \notin 1 .. drives /\ drive \in 1 .. drives
      BY <1>0, DriveBooksAre, PartsAre
    <3> QED BY <1>0, <2>1, <3>1 DEF DriveBooks, Finished
  <2>3. /\ TailTypeOK' /\ (\A h \in DOMAIN tails : TailKnows(tails[h]))' /\ Stretches' /\ Watching'
        /\ \A h : PostedBy(h)' = PostedBy(h) /\ Handled(h)' = Handled(h)
    BY <1>0, <1>5, <2>1, <2>2, NoTailKept
  <2>4. RunningApart'
    BY <1>0 DEF RunningApart
  <2>5. AnswersApart'
    <3> SUFFICES ASSUME NEW n \in DOMAIN line, line[n].by \in (succeeded \cup {drive}) \ blind,
                        line[n].role = "assistant"
                 PROVE  /\ 2 * n <= written
                        /\ \A h \in DOMAIN tails :
                              /\ n \notin Handled(h)
                              /\ 2 * n <= tails[h].offset \/ (h # current /\ tails[h].size < 2 * n - 1)
      BY <1>0, <2>1, <2>3 DEF AnswersApart
    <3>1. CASE line[n].by \in succeeded
      BY <1>2, <3>1
    <3>2. CASE line[n].by = drive
      BY <1>1, <1>3, <1>4, <1>5, <3>2
    <3> QED BY <3>1, <3>2
  <2> QED BY <2>3, <2>4, <2>5 DEF TailInv
<1>6. CASE held # NoTail
  <2>1. PICK g \in DOMAIN tails : g = held /\ tails[g] \in TailType
    BY <1>0, <1>6, TailNumbers DEF Watching
  <2> DEFINE off == IF tails[g].found THEN written ELSE tails[g].offset
  <2>2. /\ off \in 0 .. 2 * MaxLines /\ off \in {tails[g].offset, written}
        /\ tails[g].epoch + 1 \in 0 .. MaxDrives
    <3>1. /\ tails[g].epoch \in 0 .. MaxDrives /\ tails[g].offset \in 0 .. 2 * MaxLines
          /\ written \in 0 .. 2 * MaxLines
      BY <1>0, <2>1 DEF TailType, TailTypeOK
    <3>2. tails[g].epoch <= drives - 1 /\ drives \in 0 .. MaxDrives
      BY <1>0 DEF TailInv, TailKnows, TailTypeOK
    <3> QED BY <3>1, <3>2, PartsAre
  <2> HIDE DEF off
  <2>3. PICK t \in TailType :
            t = [tails[g] EXCEPT !.buffer = <<>>, !.suppress = FALSE, !.epoch = tails[g].epoch + 1, !.offset = off]
    <3>1. PICK u \in TailType : u = [tails[g] EXCEPT !.buffer = <<>>, !.suppress = FALSE]
      BY <2>1, EmptySeq DEF TailType
    <3>2. [u EXCEPT !.epoch = tails[g].epoch + 1, !.offset = off] \in TailType
      BY <2>2, <3>1 DEF TailType
    <3>3. [u EXCEPT !.epoch = tails[g].epoch + 1, !.offset = off]
          = [tails[g] EXCEPT !.buffer = <<>>, !.suppress = FALSE, !.epoch = tails[g].epoch + 1, !.offset = off]
      BY <2>1, <3>1 DEF TailType
    <3> QED BY <3>2, <3>3
  <2>4. /\ t.offset = off /\ t.rest = tails[g].rest /\ t.since = tails[g].since
        /\ t.suppress = FALSE /\ t.buffer = <<>> /\ t.epoch = tails[g].epoch + 1
        /\ t.pc = tails[g].pc /\ t.seen = tails[g].seen /\ t.size = tails[g].size /\ t.from = tails[g].from
    BY <2>1, <2>3 DEF TailType
  <2>5. /\ tails' = [tails EXCEPT ![g] = t] /\ Post(g, Selected(tails[g].buffer, UserLines))
        /\ blind' = IF ~tails[g].found THEN blind \cup {drive} ELSE blind
    <3>1. tails' = [tails EXCEPT ![held] = [tails[held] EXCEPT !.buffer = <<>>, !.suppress = FALSE,
                        !.epoch = tails[held].epoch + 1,
                        !.offset = IF tails[held].found THEN written ELSE tails[held].offset]]
      BY <1>6 DEF DriveOk
    <3>2. tails' = [tails EXCEPT ![g] = [tails[g] EXCEPT !.buffer = <<>>, !.suppress = FALSE,
                                           !.epoch = tails[g].epoch + 1, !.offset = off]]
      BY <2>1, <3>1, Zenon DEF off
    <3>3. /\ Post(g, Selected(tails[g].buffer, UserLines))
          /\ blind' = IF ~tails[g].found THEN blind \cup {drive} ELSE blind
      BY <1>6, <2>1 DEF DriveOk
    <3> QED BY <2>3, <3>2, <3>3
  <2>6. PICK ns \in Seq(Lines) : /\ ns = Selected(tails[g].buffer, UserLines) /\ Rises(ns)
                                 /\ ToSet(ns) = ToSet(tails[g].buffer) \cap UserLines
    <3>1. tails[g].buffer \in Seq(Lines) /\ Rises(tails[g].buffer)
      BY <1>0, <2>1 DEF TailType, Stretches
    <3>2. /\ Selected(tails[g].buffer, UserLines) \in Seq(Lines \cap UserLines)
          /\ ToSet(Selected(tails[g].buffer, UserLines)) = ToSet(tails[g].buffer) \cap UserLines
          /\ Rises(Selected(tails[g].buffer, UserLines))
      BY <3>1, SelectedKeeps
    <3>3. Selected(tails[g].buffer, UserLines) \in Seq(Lines)
      <4>1. ASSUME NEW s \in Seq(Lines \cap UserLines) PROVE s \in Seq(Lines)
        BY ElementOfSeq, LenProperties, SeqDef
      <4> QED BY <3>2, <4>1
    <3> QED BY <3>2, <3>3
  <2>7. /\ TailTypeOK' /\ (\A h \in DOMAIN tails : TailKnows(tails[h]))' /\ Stretches' /\ Watching' /\ RunningApart'
        /\ DOMAIN tails' = DOMAIN tails /\ tails'[g] = t /\ tails[g].offset <= t.offset
        /\ \A h \in DOMAIN tails : h # g => tails'[h] = tails[h]
        /\ Handled(g)' = PostedBy(g) \cup ToSet(ns)
        /\ \A h \in DOMAIN tails : h # g => Handled(h)' = Handled(h)
    <3>1. \/ t.offset = tails[g].offset /\ t.epoch = tails[g].epoch
          \/ t.offset \in {tails[g].offset, written} /\ t.epoch = tails[g].epoch + 1
      BY <2>2, <2>4
    <3>2. ToSet(ns) \subseteq ToSet(tails[g].buffer) /\ Post(g, ns)
      BY <2>5, <2>6
    <3>3. held = g /\ drives' = drives /\ succeeded' \subseteq succeeded \cup {drive}
      BY <1>0, <2>1
    <3> QED BY <1>0, <2>4, <2>5, <2>6, <3>1, <3>2, <3>3, LetGo
  <2>8. AnswersApart'
    <3> SUFFICES ASSUME NEW n \in DOMAIN line, line[n].by \in (succeeded \cup {drive}) \ blind',
                        line[n].role = "assistant"
                 PROVE  /\ 2 * n <= written
                        /\ \A h \in DOMAIN tails :
                              /\ n \notin Handled(h)'
                              /\ 2 * n <= tails'[h].offset \/ (h # current /\ tails'[h].size < 2 * n - 1)
      BY <1>0, <2>7 DEF AnswersApart
    <3>1. n \notin ToSet(ns) /\ n \in Int
      BY <1>0, <2>6, TailNumbers, PartsAre DEF UserLines, IsUser
    <3>2. CASE line[n].by \in succeeded
      <4>1. 2 * n <= written
        BY <1>0, <1>2, <3>2
      <4>2. \A h \in DOMAIN tails :
               /\ n \notin Handled(h)
               /\ 2 * n <= tails[h].offset \/ (h # current /\ tails[h].size < 2 * n - 1)
        BY <1>0, <1>2, <3>2
      <4>3. n \notin Handled(g)'
        BY <2>7, <3>1, <4>2 DEF Handled
      <4>4. 2 * n <= t.offset \/ (g # current /\ t.size < 2 * n - 1)
        <5>1. tails[g].offset \in Int /\ t.offset \in Int
          BY <2>1, PartsAre DEF TailType
        <5> QED BY <2>4, <2>7, <3>1, <4>2, <5>1
      <4> QED BY <2>7, <4>1, <4>2, <4>3, <4>4
    <3>3. CASE line[n].by = drive
      <4>1. drive \notin blind /\ tails[g].found
        BY <1>0, <2>5, <3>3
      <4>2. /\ current \in {held, NoTail}
            /\ \A h \in DOMAIN tails : n \notin PostedBy(h)
            /\ \A h \in DOMAIN tails : h # held => tails[h].size < 2 * n - 1
        BY <1>3, <3>3, <4>1
      <4>3. 2 * n <= written /\ t.offset = written
        BY <1>1, <2>4, <3>3, <4>1 DEF off
      <4>4. ASSUME NEW h \in DOMAIN tails, h # g
            PROVE  n \notin Handled(h)' /\ h # current /\ tails'[h].size < 2 * n - 1
        BY <1>4, <2>1, <2>7, <4>2, <4>4
      <4>5. n \notin Handled(g)'
        BY <2>7, <3>1, <4>2
      <4> QED BY <2>7, <4>3, <4>4, <4>5
    <3> QED BY <3>2, <3>3
  <2> QED BY <2>7, <2>8 DEF TailInv
<1> QED BY <1>5, <1>6

-----------------------------------------------------------------------------
(* The transcript tail: the theorems. *)
LEMMA TailStarts == TailInit => TailInv
<1> SUFFICES ASSUME TailInit PROVE TailInv
  OBVIOUS
<1>1. /\ written = 0 /\ line = <<>> /\ tails = <<>> /\ current = NoTail /\ drive = 0 /\ held = NoTail /\ drives = 0
      /\ succeeded = {} /\ blind = {} /\ posted = <<>>
  BY DEF TailInit
<1>2. DOMAIN <<>> = {} /\ Len(<<>>) = 0 /\ \A S : <<>> \in Seq(S)
  BY SetOfEmpty, EmptySeq
<1>3. TailTypeOK
  <2>1. 0 \in 0 .. 2 * MaxLines /\ 0 \in 0 .. MaxDrives /\ 0 <= MaxTails /\ (0 + 1) \div 2 = 0
    BY PartsAre
  <2> QED BY <1>1, <1>2, <2>1 DEF TailTypeOK
<1>4. Stretches /\ Watching
  BY <1>1, <1>2 DEF Stretches, Watching
<1>5. RunningApart /\ AnswersApart
  BY <1>1, <1>2 DEF RunningApart, AnswersApart
<1> QED BY <1>1, <1>2, <1>3, <1>4, <1>5 DEF TailInv

LEMMA TailStutters ==
    ASSUME TailInv, UNCHANGED tailVars PROVE TailInv'
<1>1. UNCHANGED <<written, line, tails, current, drive, held, drives, succeeded, blind, posted>>
  BY DEF tailVars, fileVars, driveVars
<1>2. TailTypeOK'
  BY <1>1 DEF TailInv, TailTypeOK
<1>3. \A h : PostedBy(h)' = PostedBy(h) /\ Handled(h)' = Handled(h)
  BY <1>1 DEF PostedBy, Handled
<1>4. (\A h \in DOMAIN tails : TailKnows(tails[h]))'
  BY <1>1 DEF TailInv, TailKnows
<1>5. Stretches'
  BY <1>1, <1>3 DEF TailInv, Stretches
<1>6. Watching' /\ RunningApart' /\ AnswersApart'
  BY <1>1, <1>3 DEF TailInv, Watching, RunningApart, AnswersApart
<1> QED BY <1>2, <1>4, <1>5, <1>6 DEF TailInv

LEMMA TailStep ==
    ASSUME TailInv, TailNext PROVE TailInv'
<1>1. CASE \E by \in {Editor, drive}, role \in Roles : WriteFirst(by, role)
  BY <1>1, WriteFirstKept
<1>2. CASE WriteSecond \/ TailStart \/ TailStop
  BY <1>2, WriteSecondKept, TailStartKept, TailStopKept
<1>3. CASE DriveStart \/ DriveOk \/ DriveFail
  BY <1>3, DriveStartKept, DriveOkKept, DriveFailKept
<1>4. CASE \E g \in DOMAIN tails : PollStep(g)
  BY <1>4, PollKept, ReadKept DEF PollStep
<1> QED BY <1>1, <1>2, <1>3, <1>4 DEF TailNext

(* Who has seen what of the transcript, on every execution: each tail goes *)
(* through a stretch of the file of its own and once, only the tail a      *)
(* drive found holds turns back, and no tail gets to the answers of a      *)
(* drive that succeeded, unless it was blind to them.                      *)
THEOREM TailKeepsItsPlace == TailSpec => []TailInv
<1>1. TailInv /\ [TailNext]_tailVars => TailInv'
  BY TailStep, TailStutters
<1> QED BY <1>1, TailStarts, PTL DEF TailSpec

(* However polls, reads, drives and restarts of the tail interleave, no    *)
(* assistant turn of a successful drive is posted by a tail too, unless    *)
(* the drive's tail was replaced meanwhile or had not found the file.      *)
THEOREM SpecNoEcho == TailSpec => []NoEcho
<1>1. TailInv => NoEcho
  <2> SUFFICES ASSUME TailInv, NEW i \in DOMAIN posted, line[posted[i].line].role = "assistant",
                      line[posted[i].line].by \in succeeded, line[posted[i].line].by \notin blind
               PROVE  FALSE
    BY DEF NoEcho
  <2>1. posted[i].tail \in DOMAIN tails /\ posted[i].line \in DOMAIN line
    BY DEF TailInv, Stretches
  <2>2. posted[i].line \in Handled(posted[i].tail)
    BY <2>1 DEF Handled, PostedBy
  <2> QED BY <2>1, <2>2 DEF TailInv, AnswersApart
<1> QED BY <1>1, TailKeepsItsPlace, PTL

(* However they interleave, no line of the transcript is posted twice,     *)
(* each tail posts in the file's order, and none posts what was in the     *)
(* file before it began.                                                   *)
THEOREM SpecOnceInOrder == TailSpec => []OnceInOrder
<1>1. TailInv => OnceInOrder
  <2> SUFFICES ASSUME TailInv, NEW i \in DOMAIN posted, NEW j \in DOMAIN posted
               PROVE  /\ 2 * posted[i].line > tails[posted[i].tail].since
                      /\ i # j => posted[i].line # posted[j].line
                      /\ (i < j /\ posted[i].tail = posted[j].tail)
                            => posted[i].line < posted[j].line
    BY DEF OnceInOrder
  <2>1. TailTypeOK /\ Stretches
    BY DEF TailInv
  <2>2. DOMAIN posted = 1 .. Len(posted) /\ Len(posted) \in Nat
    BY <2>1, LenProperties DEF TailTypeOK
  <2>3. ASSUME NEW k \in DOMAIN posted
        PROVE  /\ posted[k].tail \in DOMAIN tails /\ posted[k].line \in DOMAIN line
               /\ posted[k].line \in Handled(posted[k].tail)
               /\ posted[k].tail \in Int /\ posted[k].line \in Int /\ tails[posted[k].tail].since \in Int
               /\ tails[posted[k].tail].since < 2 * posted[k].line
    <3>1. posted[k].tail \in DOMAIN tails /\ posted[k].line \in DOMAIN line
      BY <2>1 DEF Stretches
    <3>2. posted[k].line \in Handled(posted[k].tail)
      BY <3>1 DEF Handled, PostedBy
    <3>3. tails[posted[k].tail].since < 2 * posted[k].line
      BY <2>1, <3>1, <3>2 DEF Stretches
    <3>4. posted[k].tail \in Int /\ posted[k].line \in Int /\ tails[posted[k].tail] \in TailType
      BY <2>1, <3>1, TailNumbers, PartsAre
    <3>5. tails[posted[k].tail].since \in Int
      BY <3>4, PartsAre DEF TailType
    <3> QED BY <3>1, <3>2, <3>3, <3>4, <3>5
  <2>4. ASSUME NEW k \in DOMAIN posted, NEW l \in DOMAIN posted, posted[k].tail < posted[l].tail
        PROVE  posted[k].line # posted[l].line
    <3>1. 2 * posted[k].line <= tails[posted[l].tail].since
      BY <2>1, <2>3, <2>4 DEF Stretches
    <3>2. /\ posted[k].line \in Int /\ posted[l].line \in Int /\ tails[posted[l].tail].since \in Int
          /\ tails[posted[l].tail].since < 2 * posted[l].line
      BY <2>3
    <3> QED BY <3>1, <3>2
  <2>5. ASSUME NEW k \in DOMAIN posted, NEW l \in DOMAIN posted, k < l, posted[k].tail = posted[l].tail
        PROVE  posted[k].line < posted[l].line
    BY <2>1, <2>5 DEF Stretches
  <2>6. ASSUME i # j PROVE posted[i].line # posted[j].line
    <3>1. i < j \/ j < i
      BY <2>2, <2>6
    <3>2. CASE posted[i].tail = posted[j].tail
      <4>1. posted[i].line < posted[j].line \/ posted[j].line < posted[i].line
        BY <2>5, <3>1, <3>2
      <4>2. posted[i].line \in Int /\ posted[j].line \in Int
        BY <2>3
      <4> QED BY <4>1, <4>2
    <3>3. CASE posted[i].tail # posted[j].tail
      <4>1. posted[i].tail \in Int /\ posted[j].tail \in Int
        BY <2>3
      <4>2. posted[i].tail < posted[j].tail \/ posted[j].tail < posted[i].tail
        BY <3>3, <4>1
      <4> QED BY <2>4, <4>2
    <3> QED BY <3>2, <3>3
  <2>7. 2 * posted[i].line > tails[posted[i].tail].since
    BY <2>3
  <2> QED BY <2>5, <2>6, <2>7
<1> QED BY <1>1, TailKeepsItsPlace, PTL

(* A poll neither begins nor ends the holding back. *)
LEMMA PollsKeepSuppressing ==
    ASSUME TailTypeOK, NEW h \in DOMAIN tails, PollStep(h), NEW g \in DOMAIN tails
    PROVE  tails'[g].suppress = tails[g].suppress
<1>1. tails[h] \in TailType
  BY TailNumbers
<1> DEFINE t == tails[h]
<1>2. ASSUME NEW u, tails' = [tails EXCEPT ![h] = u], u.suppress = t.suppress
      PROVE  tails'[g].suppress = tails[g].suppress
  BY <1>2
<1>3. /\ Asleep(t) \in TailType /\ Asleep(t).suppress = t.suppress
  BY <1>1, AsleepIs
<1>4. CASE Tick(h)
  <2>1. /\ [t EXCEPT !.pc = "stat", !.seen = t.epoch].suppress = t.suppress
        /\ [t EXCEPT !.pc = "find"].suppress = t.suppress
    BY <1>1 DEF TailType
  <2>2. \/ tails' = [tails EXCEPT ![h] = [t EXCEPT !.pc = "stat", !.seen = t.epoch]]
        \/ tails' = [tails EXCEPT ![h] = [t EXCEPT !.pc = "find"]]
    BY <1>4 DEF Tick, Poll
  <2> HIDE DEF t
  <2> QED BY <1>2, <2>1, <2>2
<1>5. CASE Find(h)
  <2>1. [t EXCEPT !.found = TRUE, !.pc = "stat", !.seen = t.epoch].suppress = t.suppress
    BY <1>1 DEF TailType
  <2>2. \/ tails' = [tails EXCEPT ![h] = [t EXCEPT !.found = TRUE, !.pc = "stat", !.seen = t.epoch]]
        \/ tails' = [tails EXCEPT ![h] = Asleep(t)]
    BY <1>5 DEF Find, Poll
  <2> HIDE DEF t
  <2> QED BY <1>2, <1>3, <2>1, <2>2
<1>6. CASE StatSize(h)
  <2>1. [t EXCEPT !.size = written, !.pc = "resume"].suppress = t.suppress
    BY <1>1 DEF TailType
  <2>2. tails' = [tails EXCEPT ![h] = [t EXCEPT !.size = written, !.pc = "resume"]]
    BY <1>6 DEF StatSize, Poll
  <2> HIDE DEF t
  <2> QED BY <1>2, <2>1, <2>2
<1>7. CASE Resume(h)
  <2>1. [t EXCEPT !.pc = "read", !.from = t.offset].suppress = t.suppress
    BY <1>1 DEF TailType
  <2>2. \/ tails' = [tails EXCEPT ![h] = [t EXCEPT !.pc = "read", !.from = t.offset]]
        \/ tails' = [tails EXCEPT ![h] = Asleep(t)]
    BY <1>7 DEF Resume, Poll
  <2> HIDE DEF t
  <2> QED BY <1>2, <1>3, <2>1, <2>2
<1>8. CASE ProcessRead(h)
  <2> DEFINE buf  == t.rest \o ReadRange(t.from, t.size)
             kept == [Asleep(t) EXCEPT !.offset = t.size, !.rest = Rest(buf)]
             more == [kept EXCEPT !.buffer = kept.buffer \o TurnsIn(buf)]
  <2>1. \/ tails' = [tails EXCEPT ![h] = Asleep(t)]
        \/ tails' = [tails EXCEPT ![h] = kept]
        \/ tails' = [tails EXCEPT ![h] = more]
    BY <1>8 DEF ProcessRead
  <2>2. kept.suppress = t.suppress /\ more.suppress = t.suppress
    <3> HIDE DEF buf
    <3> QED BY <1>3 DEF TailType
  <2> HIDE DEF t, kept, more
  <2> QED BY <1>2, <1>3, <2>1, <2>2
<1> QED BY <1>4, <1>5, <1>6, <1>7, <1>8 DEF PollStep

(* Only the end of a drive lets a tail go, and only the tail it found. *)
LEMMA OnlyEndsLetGo ==
    ASSUME TailInv, TailNext, NEW g \in DOMAIN tails, tails[g].suppress, ~tails'[g].suppress
    PROVE  held = g /\ held # NoTail /\ (DriveOk \/ DriveFail)
<1>1. TailTypeOK /\ held = g /\ g # NoTail /\ drive # 0
  BY TailNumbers, PartsAre DEF TailInv, Watching
<1>2. ASSUME UNCHANGED tails PROVE FALSE
  BY <1>2
<1>3. CASE \E by \in {Editor, drive}, role \in Roles : WriteFirst(by, role)
  BY <1>2, <1>3 DEF WriteFirst
<1>4. CASE WriteSecond \/ TailStop
  BY <1>2, <1>4 DEF WriteSecond, TailStop
<1>5. CASE TailStart
  <2>1. tails' = Append(tails, NewTail) /\ tails \in Seq(TailType)
    BY <1>1, <1>5 DEF TailStart, TailTypeOK
  <2>2. tails'[g] = tails[g]
    <3>1. g \in 1 .. Len(tails)
      BY <2>1, LenProperties
    <3> QED BY <2>1, <3>1, AppendProperties
  <2> QED BY <2>2
<1>6. CASE DriveStart
  BY <1>1, <1>6 DEF DriveStart
<1>7. CASE \E h \in DOMAIN tails : PollStep(h)
  BY <1>1, <1>7, PollsKeepSuppressing
<1> QED BY <1>1, <1>3, <1>4, <1>5, <1>6, <1>7 DEF TailNext

(* Nothing but the end of the drive that found a tail lets it go, and      *)
(* whether that drive succeeds or fails, every user turn the tail kept     *)
(* back meanwhile is posted in the same step.                              *)
THEOREM SpecHeldUserTurnsReplayed == TailSpec => HeldUserTurnsReplayed
<1>1. TailInv /\ [TailNext]_tailVars =>
        [\A g \in DOMAIN tails :
            (tails[g].suppress /\ ~tails'[g].suppress) =>
                \A n \in ToSet(tails[g].buffer) : IsUser(n) => Posted(n)']_tailVars
  <2> SUFFICES ASSUME TailInv, TailNext, NEW g \in DOMAIN tails, tails[g].suppress, ~tails'[g].suppress,
                      NEW n \in ToSet(tails[g].buffer), IsUser(n)
               PROVE  Posted(n)'
    OBVIOUS
  <2>1. held = g /\ held # NoTail /\ (DriveOk \/ DriveFail)
    BY OnlyEndsLetGo
  <2>2. /\ TailTypeOK /\ g \in Tails /\ tails[g].buffer \in Seq(Lines) /\ n \in DOMAIN line
        /\ posted \in Seq([tail : Tails, line : Lines])
    <3>1. tails[g] \in TailType /\ g \in Tails
      BY TailNumbers DEF TailInv
    <3>2. ToSet(tails[g].buffer) \subseteq DOMAIN line
      BY DEF TailInv, Stretches
    <3> QED BY <3>1, <3>2 DEF TailInv, TailTypeOK, TailType
  <2>3. ASSUME NEW ns \in Seq(Lines), Post(g, ns), n \in ToSet(ns)
        PROVE  Posted(n)'
    <3>1. PostsTo(g, ns)
      BY <2>2, <2>3, PostIs
    <3>2. PICK k \in DOMAIN ns : ns[k] = n
      BY <2>3 DEF ToSet
    <3>3. Len(posted) + k \in DOMAIN posted' /\ posted'[Len(posted) + k].line = n
      BY <3>1, <3>2 DEF PostsTo
    <3> QED BY <3>3 DEF Posted
  <2>4. CASE DriveOk
    <3>1. Post(g, Selected(tails[g].buffer, UserLines))
      BY <2>1, <2>4 DEF DriveOk
    <3>2. /\ Selected(tails[g].buffer, UserLines) \in Seq(Lines \cap UserLines)
          /\ ToSet(Selected(tails[g].buffer, UserLines)) = ToSet(tails[g].buffer) \cap UserLines
      BY <2>2, SelectedKeeps
    <3>3. Selected(tails[g].buffer, UserLines) \in Seq(Lines)
      <4>1. ASSUME NEW s \in Seq(Lines \cap UserLines) PROVE s \in Seq(Lines)
        BY ElementOfSeq, LenProperties, SeqDef
      <4> QED BY <3>2, <4>1
    <3>4. n \in UserLines
      BY <2>2 DEF UserLines
    <3> QED BY <2>3, <3>1, <3>2, <3>3, <3>4
  <2>5. CASE DriveFail
    <3>1. Post(g, tails[g].buffer)
      BY <2>1, <2>5 DEF DriveFail
    <3> QED BY <2>2, <2>3, <3>1
  <2> QED BY <2>1, <2>4, <2>5
<1> QED BY <1>1, TailKeepsItsPlace, PTL DEF TailSpec, HeldUserTurnsReplayed
=============================================================================
