------------------------------ MODULE QueueFacts ------------------------------
(***************************************************************************)
(* Facts about the queues of calls and messages that the models keep as    *)
(* sequences, stated once for the proofs about several components.         *)
(***************************************************************************)
EXTENDS Integers, Sequences, FiniteSets, FiniteSetTheorems, TLAPS

LEMMA HeadAndTail ==
  ASSUME NEW S, NEW q \in Seq(S), q # <<>>
  PROVE  /\ Head(q) = q[1] /\ 1 \in DOMAIN q /\ q[1] \in S
         /\ Tail(q) \in Seq(S)
         /\ \A i \in DOMAIN Tail(q) : i + 1 \in DOMAIN q /\ Tail(q)[i] = q[i + 1]
         /\ \A i \in DOMAIN q : i # 1 => i - 1 \in DOMAIN Tail(q) /\ Tail(q)[i - 1] = q[i]
OBVIOUS

LEMMA Appended ==
  ASSUME NEW S, NEW q \in Seq(S), NEW x \in S
  PROVE  /\ Append(q, x) \in Seq(S)
         /\ \A i \in DOMAIN Append(q, x) :
              (i \in DOMAIN q /\ Append(q, x)[i] = q[i]) \/ (i = Len(q) + 1 /\ Append(q, x)[i] = x)
         /\ \A i \in DOMAIN q : i \in DOMAIN Append(q, x) /\ Append(q, x)[i] = q[i]
         /\ Len(q) + 1 \in DOMAIN Append(q, x) /\ Append(q, x)[Len(q) + 1] = x
         /\ \A i \in DOMAIN q : i < Len(q) + 1
OBVIOUS

LEMMA Joined ==
  ASSUME NEW S, NEW q \in Seq(S), NEW r \in Seq(S)
  PROVE  /\ q \o r \in Seq(S)
         /\ \A i \in DOMAIN (q \o r) :
              \/ i \in DOMAIN q /\ (q \o r)[i] = q[i]
              \/ i - Len(q) \in DOMAIN r /\ (q \o r)[i] = r[i - Len(q)] /\ i > Len(q)
         /\ \A i \in DOMAIN q : i \in DOMAIN (q \o r) /\ (q \o r)[i] = q[i]
         /\ \A i \in DOMAIN r : i + Len(q) \in DOMAIN (q \o r) /\ (q \o r)[i + Len(q)] = r[i]
OBVIOUS

LEMMA Indices ==
  ASSUME NEW S, NEW q \in Seq(S)
  PROVE  /\ Len(q) \in Nat /\ DOMAIN q = 1..Len(q)
         /\ \A i \in DOMAIN q : i \in Nat /\ 1 <= i /\ i <= Len(q) /\ q[i] \in S
OBVIOUS

\* A queue whose elements are changed in place.
LEMMA Mapped ==
  ASSUME NEW S, NEW q \in Seq(S), NEW f \in [DOMAIN q -> S]
  PROVE  f \in Seq(S) /\ Len(f) = Len(q) /\ DOMAIN f = DOMAIN q
OBVIOUS

\* The rest of a queue after as many elements as a set of its places has.
LEMMA Rest ==
  ASSUME NEW S, NEW q \in Seq(S), NEW T \in SUBSET DOMAIN q
  PROVE  LET r == SubSeq(q, Cardinality(T) + 1, Len(q)) IN
         r \in Seq(S) /\ \A i \in DOMAIN r : \E j \in DOMAIN q : r[i] = q[j]
<1>1. IsFiniteSet(1..Len(q)) /\ DOMAIN q = 1..Len(q)
  BY FS_Interval, Indices
<1>2. IsFiniteSet(T)
  BY <1>1, FS_Subset
<1>3. Cardinality(T) \in Nat
  BY <1>2, FS_CardinalityType
<1> DEFINE n == Cardinality(T)
<1>4. /\ SubSeq(q, n + 1, Len(q)) \in Seq(S)
      /\ \A i \in DOMAIN SubSeq(q, n + 1, Len(q)) :
           i + n \in DOMAIN q /\ SubSeq(q, n + 1, Len(q))[i] = q[i + n]
  <2> HIDE DEF n
  <2> SUFFICES ASSUME n \in Nat
               PROVE  /\ SubSeq(q, n + 1, Len(q)) \in Seq(S)
                      /\ \A i \in DOMAIN SubSeq(q, n + 1, Len(q)) :
                           i + n \in DOMAIN q /\ SubSeq(q, n + 1, Len(q))[i] = q[i + n]
    BY <1>3 DEF n
  <2> QED OBVIOUS
<1> QED BY <1>4
=============================================================================
