------------------------------ MODULE Selection ------------------------------
(***************************************************************************)
(* Picking from a sequence, in its order.  Selected is SelectSeq of the    *)
(* standard modules with a set for a test, without its recursion, so that  *)
(* proofs can say what is picked.                                          *)
(***************************************************************************)
EXTENDS Sequences, FiniteSets, Integers

(* q lists the numbers of I, each once, from the smallest to the largest. *)
Lists(q, I) ==
    /\ \A i, j \in DOMAIN q : i < j => q[i] < q[j]
    /\ \A n \in I : \E i \in DOMAIN q : q[i] = n

(* The numbers of a finite set, in ascending order. *)
Ascending(I) == CHOOSE q \in [1 .. Cardinality(I) -> I] : Lists(q, I)

(* The elements of s that are in T, in the order they have in s. *)
Selected(s, T) ==
    LET places == Ascending({i \in DOMAIN s : s[i] \in T})
    IN  [k \in DOMAIN places |-> s[places[k]]]
=============================================================================
