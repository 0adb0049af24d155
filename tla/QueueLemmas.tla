---------------------------- MODULE QueueLemmas ----------------------------
(***************************************************************************)
(* What the sequence operators of the models do to the elements of a       *)
(* queue: Vec::remove keeps all the others, an insertion keeps them all.   *)
(***************************************************************************)
EXTENDS SequencesExt, SequenceTheorems, TLAPS

(* The first message of a channel and the rest of it. *)
LEMMA HeadTail ==
  ASSUME NEW S, NEW q \in Seq(S), q # <<>>
  PROVE  Head(q) \in S /\ Tail(q) \in Seq(S)
OBVIOUS

(* A channel that lost its first message is another one. *)
LEMMA TailDiffers ==
  ASSUME NEW S, NEW q \in Seq(S), q # <<>>
  PROVE  Tail(q) # q
<1>1. Len(Tail(q)) = Len(q) - 1
  BY HeadTailProperties
<1>2. Len(q) \in Nat
  OBVIOUS
<1>3. \A k \in Nat : k # k - 1
  OBVIOUS
<1> QED BY <1>1, <1>2, <1>3, Zenon

(* Two channels that begin alike have the same first message. *)
LEMMA SameHead ==
  ASSUME NEW S, NEW q \in Seq(S), q # <<>>, NEW r \in Seq(S), Len(r) >= 1, r[1] = q[1]
  PROVE  r # <<>> /\ Head(r) = Head(q)
<1>1. r # <<>> /\ Head(r) = r[1]
  OBVIOUS
<1>2. Head(q) = q[1]
  OBVIOUS
<1> QED BY <1>1, <1>2

(* One message is a sequence of messages. *)
LEMMA SingletonType ==
  ASSUME NEW S, NEW e \in S
  PROVE  <<e>> \in Seq(S)
OBVIOUS

(* A prefix of a queue, what a broken connection lets through. *)
LEMMA PrefixType ==
  ASSUME NEW S, NEW q \in Seq(S), NEW n \in 0 .. Len(q)
  PROVE  SubSeq(q, 1, n) \in Seq(S)
OBVIOUS

(* An insertion puts e at position k and moves what follows by one. *)
LEMMA InsertType ==
  ASSUME NEW S, NEW q \in Seq(S), NEW k \in 1 .. Len(q) + 1, NEW e \in S
  PROVE  /\ InsertAt(q, k, e) \in Seq(S)
         /\ Len(InsertAt(q, k, e)) = Len(q) + 1
         /\ InsertAt(q, k, e)[k] = e
         /\ \A i \in 1 .. (k - 1) : InsertAt(q, k, e)[i] = q[i]
         /\ \A i \in k .. Len(q) : InsertAt(q, k, e)[i + 1] = q[i]
<1> DEFINE a == SubSeq(q, 1, k - 1)
           c == SubSeq(q, k, Len(q))
<1>1. /\ a \in Seq(S) /\ Len(a) = k - 1
      /\ \A i \in 1 .. k - 1 : a[i] = q[i]
  BY SubSeqProperties
<1>2. /\ c \in Seq(S) /\ Len(c) = Len(q) - k + 1
      /\ \A i \in 1 .. Len(q) - k + 1 : c[i] = q[k + i - 1]
  BY SubSeqProperties
<1> HIDE DEF a, c
<1>3. /\ a \o <<e>> \in Seq(S) /\ Len(a \o <<e>>) = k
      /\ \A i \in 1 .. k - 1 : (a \o <<e>>)[i] = q[i]
      /\ (a \o <<e>>)[k] = e
  BY <1>1
<1> DEFINE d == a \o <<e>>
<1> HIDE DEF d
<1>4. /\ d \o c \in Seq(S) /\ Len(d \o c) = Len(q) + 1
      /\ \A i \in 1 .. Len(q) + 1 : (d \o c)[i] = IF i <= k THEN d[i] ELSE c[i - k]
  <2>1. d \in Seq(S) /\ Len(d) = k
    BY <1>3 DEF d
  <2>2. /\ d \o c \in Seq(S) /\ Len(d \o c) = Len(d) + Len(c)
        /\ \A i \in 1 .. Len(d) + Len(c) :
             (d \o c)[i] = IF i <= Len(d) THEN d[i] ELSE c[i - Len(d)]
    BY <2>1, <1>2, ConcatProperties
  <2>3. Len(d) + Len(c) = Len(q) + 1
    BY <2>1, <1>2
  <2> QED BY <2>1, <2>2, <2>3
<1>5. InsertAt(q, k, e) = d \o c
  BY DEF InsertAt, a, c, d
<1>6. d[k] = e /\ \A i \in 1 .. k - 1 : d[i] = q[i]
  BY <1>3 DEF d
<1>7. ASSUME NEW i \in 1 .. k - 1 PROVE (d \o c)[i] = q[i]
  <2>1. i \in 1 .. Len(q) + 1 /\ i <= k
    OBVIOUS
  <2> QED BY <2>1, <1>4, <1>6
<1>8. ASSUME NEW i \in k .. Len(q) PROVE (d \o c)[i + 1] = q[i]
  <2>1. (d \o c)[i + 1] = c[i + 1 - k]
    BY <1>4
  <2>2. i + 1 - k \in 1 .. Len(q) - k + 1 /\ k + (i + 1 - k) - 1 = i
    OBVIOUS
  <2>3. c[i + 1 - k] = q[k + (i + 1 - k) - 1]
    BY <2>2, <1>2
  <2> QED BY <2>1, <2>2, <2>3
<1> QED BY <1>4, <1>5, <1>6, <1>7, <1>8

(* Vec::remove(k) moves what follows back by one. *)
LEMMA RemoveType ==
  ASSUME NEW S, NEW q \in Seq(S), NEW k \in 1 .. Len(q)
  PROVE  /\ RemoveAt(q, k) \in Seq(S)
         /\ Len(RemoveAt(q, k)) = Len(q) - 1
         /\ \A i \in 1 .. (k - 1) : RemoveAt(q, k)[i] = q[i]
         /\ \A i \in k .. (Len(q) - 1) : RemoveAt(q, k)[i] = q[i + 1]
<1> DEFINE a == SubSeq(q, 1, k - 1)
           c == SubSeq(q, k + 1, Len(q))
<1>1. /\ a \in Seq(S) /\ Len(a) = k - 1
      /\ \A i \in 1 .. k - 1 : a[i] = q[i]
  BY SubSeqProperties
<1>2. /\ c \in Seq(S) /\ Len(c) = Len(q) - k
      /\ \A i \in 1 .. Len(q) - k : c[i] = q[k + i]
  BY SubSeqProperties
<1> HIDE DEF a, c
<1>3. /\ a \o c \in Seq(S) /\ Len(a \o c) = Len(q) - 1
      /\ \A i \in 1 .. Len(q) - 1 : (a \o c)[i] = IF i < k THEN a[i] ELSE c[i - k + 1]
  <2>1. /\ a \o c \in Seq(S) /\ Len(a \o c) = Len(a) + Len(c)
        /\ \A i \in 1 .. Len(a) + Len(c) :
             (a \o c)[i] = IF i <= Len(a) THEN a[i] ELSE c[i - Len(a)]
    BY <1>1, <1>2, ConcatProperties
  <2>2. Len(a) + Len(c) = Len(q) - 1
    BY <1>1, <1>2
  <2>3. ASSUME NEW i \in 1 .. Len(q) - 1
        PROVE  (a \o c)[i] = IF i < k THEN a[i] ELSE c[i - k + 1]
    <3>1. i <= Len(a) <=> i < k
      BY <1>1
    <3>2. i - Len(a) = i - k + 1
      BY <1>1
    <3> QED BY <2>1, <2>2, <3>1, <3>2
  <2> QED BY <2>1, <2>2, <2>3
<1>4. RemoveAt(q, k) = a \o c
  BY DEF RemoveAt, a, c
<1>5. \A i \in 1 .. (k - 1) : (a \o c)[i] = q[i]
  BY <1>1, <1>3
<1>6. ASSUME NEW i \in k .. (Len(q) - 1) PROVE (a \o c)[i] = q[i + 1]
  <2>1. (a \o c)[i] = c[i - k + 1]
    BY <1>3
  <2> QED BY <2>1, <1>2
<1> QED BY <1>3, <1>4, <1>5, <1>6

(* What was in the queue before an insertion is in it after, and so is e. *)
LEMMA InsertKeeps ==
  ASSUME NEW S, NEW q \in Seq(S), NEW k \in 1 .. Len(q) + 1, NEW e \in S
  PROVE  /\ \E m \in 1 .. Len(InsertAt(q, k, e)) : InsertAt(q, k, e)[m] = e
         /\ \A i \in 1 .. Len(q) :
              \E m \in 1 .. Len(InsertAt(q, k, e)) : InsertAt(q, k, e)[m] = q[i]
<1> DEFINE r == InsertAt(q, k, e)
<1>1. /\ Len(r) = Len(q) + 1 /\ r[k] = e
      /\ \A i \in 1 .. (k - 1) : r[i] = q[i]
      /\ \A i \in k .. Len(q) : r[i + 1] = q[i]
  BY InsertType
<1> HIDE DEF r
<1>2. k \in 1 .. Len(r)
  BY <1>1
<1>3. ASSUME NEW i \in 1 .. Len(q) PROVE \E m \in 1 .. Len(r) : r[m] = q[i]
  <2>1. CASE i < k
    <3>1. i \in 1 .. (k - 1) /\ i \in 1 .. Len(r)
      BY <1>1, <2>1
    <3> QED BY <1>1, <3>1
  <2>2. CASE i >= k
    <3>1. i \in k .. Len(q) /\ i + 1 \in 1 .. Len(r)
      BY <1>1, <2>2
    <3> QED BY <1>1, <3>1
  <2> QED BY <2>1, <2>2
<1> QED BY <1>1, <1>2, <1>3 DEF r

(* What was in the queue at another position is in it after a removal. *)
LEMMA RemoveKeeps ==
  ASSUME NEW S, NEW q \in Seq(S), NEW k \in 1 .. Len(q), NEW i \in 1 .. Len(q), i # k
  PROVE  \E m \in 1 .. Len(RemoveAt(q, k)) : RemoveAt(q, k)[m] = q[i]
<1> DEFINE r == RemoveAt(q, k)
<1>1. /\ Len(r) = Len(q) - 1
      /\ \A m \in 1 .. (k - 1) : r[m] = q[m]
      /\ \A m \in k .. (Len(q) - 1) : r[m] = q[m + 1]
  BY RemoveType
<1> HIDE DEF r
<1>2. CASE i < k
  <2>1. i \in 1 .. (k - 1) /\ i \in 1 .. Len(r)
    BY <1>1, <1>2
  <2> QED BY <1>1, <2>1 DEF r
<1>3. CASE i > k
  <2>1. /\ i - 1 \in k .. (Len(q) - 1) /\ (i - 1) + 1 = i
        /\ i - 1 \in 1 .. Len(r)
    BY <1>1, <1>3
  <2>2. r[i - 1] = q[(i - 1) + 1]
    BY <1>1, <2>1
  <2> QED BY <2>1, <2>2 DEF r
<1> QED BY <1>2, <1>3

(* A removal moves nothing that comes before it. *)
LEMMA RemovePrefix ==
  ASSUME NEW S, NEW q \in Seq(S), NEW k \in 1 .. Len(q), NEW i \in 1 .. (k - 1)
  PROVE  RemoveAt(q, k)[i] = q[i]
BY RemoveType

(* Where the elements of a queue come from after a removal, and where they *)
(* go.                                                                     *)
LEMMA RemoveSource ==
  ASSUME NEW S, NEW q \in Seq(S), NEW k \in 1 .. Len(q)
  PROVE  /\ Len(RemoveAt(q, k)) = Len(q) - 1
         /\ \A i \in 1 .. (Len(q) - 1) :
              RemoveAt(q, k)[i] = q[IF i < k THEN i ELSE i + 1]
         /\ \A i \in 1 .. Len(q) : i # k =>
              RemoveAt(q, k)[IF i < k THEN i ELSE i - 1] = q[i]
<1> DEFINE r == RemoveAt(q, k)
<1>1. /\ Len(r) = Len(q) - 1
      /\ \A i \in 1 .. (k - 1) : r[i] = q[i]
      /\ \A i \in k .. (Len(q) - 1) : r[i] = q[i + 1]
  BY RemoveType
<1> HIDE DEF r
<1>2. Len(q) \in Nat
  OBVIOUS
<1>3. ASSUME NEW i \in 1 .. (Len(q) - 1) PROVE r[i] = q[IF i < k THEN i ELSE i + 1]
  <2>1. CASE i < k
    <3>1. i \in 1 .. (k - 1)
      BY <2>1
    <3> QED BY <1>1, <2>1, <3>1
  <2>2. CASE ~(i < k)
    <3>1. i \in k .. (Len(q) - 1)
      BY <1>2, <2>2
    <3> QED BY <1>1, <2>2, <3>1
  <2> QED BY <2>1, <2>2
<1>4. ASSUME NEW i \in 1 .. Len(q), i # k PROVE r[IF i < k THEN i ELSE i - 1] = q[i]
  <2>1. CASE i < k
    <3>1. i \in 1 .. (k - 1)
      BY <2>1
    <3> QED BY <1>1, <2>1, <3>1
  <2>2. CASE ~(i < k)
    <3>1. i - 1 \in k .. (Len(q) - 1) /\ (i - 1) + 1 = i
      BY <1>2, <1>4, <2>2
    <3>2. r[i - 1] = q[(i - 1) + 1]
      BY <1>1, <3>1
    <3> QED BY <2>2, <3>1, <3>2
  <2> QED BY <2>1, <2>2
<1> QED BY <1>1, <1>3, <1>4 DEF r

(* A queue of distinct elements stays one, and what is removed is no more  *)
(* in it.                                                                  *)
LEMMA RemoveDistinct ==
  ASSUME NEW S, NEW q \in Seq(S), NEW k \in 1 .. Len(q),
         \A i, m \in 1 .. Len(q) : q[i] = q[m] => i = m
  PROVE  /\ \A i, m \in 1 .. Len(RemoveAt(q, k)) :
              RemoveAt(q, k)[i] = RemoveAt(q, k)[m] => i = m
         /\ \A i \in 1 .. Len(RemoveAt(q, k)) : RemoveAt(q, k)[i] # q[k]
<1> DEFINE r == RemoveAt(q, k)
           From(i) == IF i < k THEN i ELSE i + 1
<1>1. Len(r) = Len(q) - 1 /\ \A i \in 1 .. (Len(q) - 1) : r[i] = q[From(i)]
  BY RemoveSource
<1> HIDE DEF r
<1>2. \A i \in 1 .. Len(r) : From(i) \in 1 .. Len(q) /\ From(i) # k
  BY <1>1
<1>3. \A i, m \in 1 .. Len(r) : From(i) = From(m) => i = m
  OBVIOUS
<1> HIDE DEF From
<1>4. \A i \in 1 .. Len(r) : r[i] = q[From(i)]
  BY <1>1
<1> QED BY <1>2, <1>3, <1>4 DEF r

(* So does one to which an element is added that it did not have. *)
LEMMA InsertDistinct ==
  ASSUME NEW S, NEW q \in Seq(S), NEW k \in 1 .. Len(q) + 1, NEW e \in S,
         \A i, m \in 1 .. Len(q) : q[i] = q[m] => i = m,
         \A i \in 1 .. Len(q) : q[i] # e
  PROVE  \A i, m \in 1 .. Len(InsertAt(q, k, e)) :
           InsertAt(q, k, e)[i] = InsertAt(q, k, e)[m] => i = m
<1> DEFINE r == InsertAt(q, k, e)
           From(i) == IF i < k THEN i ELSE i - 1
<1>1. /\ Len(r) = Len(q) + 1 /\ r[k] = e
      /\ \A i \in 1 .. (k - 1) : r[i] = q[i]
      /\ \A i \in k .. Len(q) : r[i + 1] = q[i]
  BY InsertType
<1> HIDE DEF r
<1>2. \A i \in 1 .. Len(r) : i # k => From(i) \in 1 .. Len(q)
  BY <1>1
<1>3. \A i, m \in 1 .. Len(r) : i # k /\ m # k /\ From(i) = From(m) => i = m
  OBVIOUS
<1>4. ASSUME NEW i \in 1 .. Len(r), i # k PROVE r[i] = q[From(i)]
  <2>1. CASE i < k
    <3>1. i \in 1 .. (k - 1)
      BY <2>1
    <3> QED BY <1>1, <2>1, <3>1
  <2>2. CASE ~(i < k)
    <3>1. i - 1 \in k .. Len(q) /\ (i - 1) + 1 = i
      BY <1>1, <1>4, <2>2
    <3>2. r[(i - 1) + 1] = q[i - 1]
      BY <1>1, <3>1
    <3> QED BY <2>2, <3>1, <3>2
  <2> QED BY <2>1, <2>2
<1> HIDE DEF From
<1>5. ASSUME NEW i \in 1 .. Len(r), NEW m \in 1 .. Len(r), r[i] = r[m]
      PROVE  i = m
  <2>1. CASE i = k \/ m = k
    BY <1>1, <1>2, <1>4, <1>5, <2>1
  <2>2. CASE i # k /\ m # k
    <3>1. q[From(i)] = q[From(m)]
      BY <1>4, <1>5, <2>2
    <3>2. From(i) = From(m)
      BY <1>2, <2>2, <3>1
    <3> QED BY <1>3, <2>2, <3>2
  <2> QED BY <2>1, <2>2
<1> QED BY <1>5 DEF r
=============================================================================
