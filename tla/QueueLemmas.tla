----------------------------- MODULE QueueLemmas -----------------------------
(***************************************************************************)
(* Lemmas about queues in which nothing occurs twice: the connections that *)
(* wait for an iterative server.                                           *)
(***************************************************************************)
EXTENDS Integers, Sequences, SequenceTheorems, TLAPS

\* What is not in a queue can be added at its end.
LEMMA Joins ==
    ASSUME NEW S, NEW q \in Seq(S), NEW c \in S, \A k \in DOMAIN q : q[k] # c,
           \A k, l \in DOMAIN q : q[k] = q[l] => k = l
    PROVE  /\ Append(q, c) \in Seq(S)
           /\ \A k, l \in DOMAIN Append(q, c) :
                 Append(q, c)[k] = Append(q, c)[l] => k = l
           /\ \A k \in DOMAIN Append(q, c) :
                 Append(q, c)[k] = c \/ \E l \in DOMAIN q : Append(q, c)[k] = q[l]
<1>1. /\ Append(q, c) \in Seq(S)
      /\ Len(Append(q, c)) = Len(q) + 1
      /\ \A k \in 1 .. Len(q) : Append(q, c)[k] = q[k]
      /\ Append(q, c)[Len(q) + 1] = c
  BY AppendProperties
<1>2. DOMAIN q = 1 .. Len(q) /\ Len(q) \in Nat /\ DOMAIN Append(q, c) = 1 .. Len(q) + 1
  BY <1>1, LenProperties
<1>3. ASSUME NEW k \in DOMAIN Append(q, c)
      PROVE  k = Len(q) + 1 \/ (k \in DOMAIN q /\ Append(q, c)[k] = q[k])
  BY <1>1, <1>2
<1>4. QED
  BY <1>1, <1>2, <1>3

\* The front of a queue can be taken from it.
LEMMA LeavesQueue ==
    ASSUME NEW S, NEW q \in Seq(S), q # <<>>,
           \A k, l \in DOMAIN q : q[k] = q[l] => k = l
    PROVE  /\ Tail(q) \in Seq(S)
           /\ Head(q) = q[1] /\ 1 \in DOMAIN q
           /\ \A k, l \in DOMAIN Tail(q) : Tail(q)[k] = Tail(q)[l] => k = l
           /\ \A k \in DOMAIN Tail(q) :
                 Tail(q)[k] # Head(q) /\ \E l \in DOMAIN q : Tail(q)[k] = q[l]
<1>1. /\ Tail(q) \in Seq(S)
      /\ Len(Tail(q)) = Len(q) - 1
      /\ \A k \in 1 .. Len(Tail(q)) : Tail(q)[k] = q[k + 1]
  BY HeadTailProperties
<1>2. /\ DOMAIN q = 1 .. Len(q) /\ Len(q) \in Nat /\ Len(q) > 0
      /\ DOMAIN Tail(q) = 1 .. Len(q) - 1
  BY <1>1, LenProperties, EmptySeq
<1>3. Head(q) = q[1] /\ 1 \in DOMAIN q
  BY <1>2
<1>4. ASSUME NEW k \in DOMAIN Tail(q)
      PROVE  Tail(q)[k] = q[k + 1] /\ k + 1 \in DOMAIN q /\ k + 1 # 1
  BY <1>1, <1>2
<1>5. ASSUME NEW k \in DOMAIN Tail(q), NEW l \in DOMAIN Tail(q), Tail(q)[k] = Tail(q)[l]
      PROVE  k = l
  BY <1>2, <1>4, <1>5
<1>6. QED
  BY <1>1, <1>3, <1>4, <1>5
=============================================================================
