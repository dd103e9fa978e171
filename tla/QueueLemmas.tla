----------------------------- MODULE QueueLemmas -----------------------------
(***************************************************************************)
(* Facts about sequences used as queues and lists: what is in them after   *)
(* an append, after the head is taken, after one position is removed.      *)
(***************************************************************************)
EXTENDS Naturals, Integers, SequencesExt, SequenceTheorems, TLAPS

\* What is in a queue after an append.
LEMMA AppendSet ==
    ASSUME NEW S, NEW q \in Seq(S), NEW e \in S
    PROVE  /\ Append(q, e) \in Seq(S)
           /\ ToSet(Append(q, e)) = ToSet(q) \cup {e}
<1> DEFINE a == Append(q, e)
<1>1. a \in Seq(S) /\ Len(a) = Len(q) + 1 /\ Len(q) \in Nat
  BY AppendProperties, LenProperties
<1>2. /\ \A i \in 1..Len(q) : a[i] = q[i]
      /\ a[Len(q) + 1] = e
  BY AppendProperties
<1>3. DOMAIN a = 1..(Len(q) + 1) /\ DOMAIN q = 1..Len(q)
  BY <1>1, LenProperties
<1>4. ToSet(a) \subseteq ToSet(q) \cup {e}
  BY <1>1, <1>2, <1>3 DEF ToSet
<1>5. ToSet(q) \subseteq ToSet(a)
  BY <1>1, <1>2, <1>3 DEF ToSet
<1>6. e \in ToSet(a)
  BY <1>1, <1>2, <1>3 DEF ToSet
<1> QED BY <1>1, <1>4, <1>5, <1>6

\* What is in a queue after its head was taken.
LEMMA TailSet ==
    ASSUME NEW S, NEW q \in Seq(S), q # <<>>
    PROVE  /\ Tail(q) \in Seq(S) /\ Head(q) \in S /\ Head(q) \in ToSet(q)
           /\ ToSet(Tail(q)) \subseteq ToSet(q)
           /\ ToSet(q) \subseteq {Head(q)} \cup ToSet(Tail(q))
<1>1. Tail(q) \in Seq(S) /\ Head(q) \in S /\ Head(q) = q[1]
  BY HeadTailProperties
<1>2. Len(q) \in Nat \ {0} /\ DOMAIN q = 1..Len(q)
  BY EmptySeq, LenProperties
<1>3. /\ DOMAIN Tail(q) = 1..(Len(q) - 1)
      /\ \A i \in 1..(Len(q) - 1) : Tail(q)[i] = q[i + 1]
  BY <1>1, HeadTailProperties, LenProperties
<1>4. ToSet(q) \subseteq {Head(q)} \cup ToSet(Tail(q))
  <2> SUFFICES ASSUME NEW i \in 1..Len(q), i # 1 PROVE q[i] \in ToSet(Tail(q))
    BY <1>1, <1>2 DEF ToSet
  <2>1. i - 1 \in DOMAIN Tail(q) /\ Tail(q)[i - 1] = q[i]
    BY <1>2, <1>3
  <2> QED BY <2>1 DEF ToSet
<1>5. ToSet(Tail(q)) \subseteq ToSet(q)
  BY <1>2, <1>3 DEF ToSet
<1>6. Head(q) \in ToSet(q)
  BY <1>1, <1>2 DEF ToSet
<1> QED BY <1>1, <1>4, <1>5, <1>6

\* Taking one position out of a sequence.
LEMMA RemoveAtSet ==
    ASSUME NEW S, NEW s \in Seq(S), NEW i \in DOMAIN s
    PROVE  /\ RemoveAt(s, i) \in Seq(S)
           /\ ToSet(RemoveAt(s, i)) \subseteq ToSet(s)
           /\ IsInjective(s) => /\ IsInjective(RemoveAt(s, i))
                                /\ ToSet(RemoveAt(s, i)) = ToSet(s) \ {s[i]}
           /\ Len(RemoveAt(s, i)) = Len(s) - 1
<1> DEFINE a == SubSeq(s, 1, i - 1)
           b == SubSeq(s, i + 1, Len(s))
           r == RemoveAt(s, i)
<1>1. Len(s) \in Nat /\ DOMAIN s = 1..Len(s) /\ i \in 1..Len(s)
  BY LenProperties
<1>2. \A j \in 1..Len(s) : s[j] \in S
  BY ElementOfSeq
<1>3. /\ a \in Seq(S) /\ Len(a) = i - 1
      /\ \A j \in 1..(i - 1) : a[j] = s[j]
  <2>1. \A j \in 1..(i - 1) : s[j] \in S
    BY <1>1, <1>2
  <2>2. /\ a \in Seq(S) /\ Len(a) = IF 1 <= i - 1 THEN i - 1 - 1 + 1 ELSE 0
        /\ \A j \in 1..(i - 1 - 1 + 1) : a[j] = s[1 + j - 1]
    BY <1>1, <2>1, SubSeqProperties
  <2> QED BY <1>1, <2>2
<1>4. /\ b \in Seq(S) /\ Len(b) = Len(s) - i
      /\ \A j \in 1..(Len(s) - i) : b[j] = s[i + j]
  <2>1. \A j \in (i + 1)..Len(s) : s[j] \in S
    BY <1>1, <1>2
  <2>2. /\ b \in Seq(S) /\ Len(b) = IF i + 1 <= Len(s) THEN Len(s) - (i + 1) + 1 ELSE 0
        /\ \A j \in 1..(Len(s) - (i + 1) + 1) : b[j] = s[i + 1 + j - 1]
    BY <1>1, <2>1, SubSeqProperties
  <2> QED BY <1>1, <2>2
<1>5. /\ r \in Seq(S) /\ Len(r) = Len(s) - 1
      /\ \A j \in 1..(Len(s) - 1) : r[j] = IF j <= i - 1 THEN a[j] ELSE b[j - (i - 1)]
  <2>1. r = a \o b
    BY DEF RemoveAt
  <2> HIDE DEF a, b, r
  <2>2. /\ a \o b \in Seq(S) /\ Len(a \o b) = Len(a) + Len(b)
        /\ \A j \in 1..(Len(a) + Len(b)) :
              (a \o b)[j] = IF j <= Len(a) THEN a[j] ELSE b[j - Len(a)]
    BY <1>3, <1>4, ConcatProperties
  <2>3. Len(a) + Len(b) = Len(s) - 1
    BY <1>1, <1>3, <1>4
  <2>4. \A j \in 1..(Len(s) - 1) : r[j] = IF j <= i - 1 THEN a[j] ELSE b[j - (i - 1)]
    BY <1>1, <1>3, <2>1, <2>2, <2>3
  <2> QED BY <2>1, <2>2, <2>3, <2>4
<1>6. \A j \in 1..(Len(s) - 1) : r[j] = s[IF j < i THEN j ELSE j + 1]
  <2> HIDE DEF a, b, r
  <2> SUFFICES ASSUME NEW j \in 1..(Len(s) - 1)
               PROVE  r[j] = s[IF j < i THEN j ELSE j + 1]
    OBVIOUS
  <2>1. CASE j < i
    BY <1>1, <1>3, <1>5, <2>1
  <2>2. CASE ~(j < i)
    <3>1. j - (i - 1) \in 1..(Len(s) - i) /\ i + (j - (i - 1)) = j + 1
      BY <1>1, <2>2
    <3>2. r[j] = b[j - (i - 1)]
      BY <1>1, <1>5, <2>2
    <3>3. b[j - (i - 1)] = s[i + (j - (i - 1))]
      BY <1>4, <3>1
    <3> QED BY <2>2, <3>1, <3>2, <3>3
  <2> QED BY <2>1, <2>2
<1>7. DOMAIN r = 1..(Len(s) - 1)
  BY <1>5, LenProperties
<1> HIDE DEF a, b, r
<1>8. ToSet(r) \subseteq ToSet(s)
  BY <1>1, <1>6, <1>7 DEF ToSet
<1>9. ASSUME IsInjective(s) PROVE IsInjective(r) /\ ToSet(r) = ToSet(s) \ {s[i]}
  <2>1. IsInjective(r)
    BY <1>1, <1>6, <1>7, <1>9 DEF IsInjective
  <2>2. s[i] \notin ToSet(r)
    BY <1>1, <1>6, <1>7, <1>9 DEF IsInjective, ToSet
  <2>3. ASSUME NEW k \in 1..Len(s), k # i PROVE s[k] \in ToSet(r)
    <3> DEFINE j == IF k < i THEN k ELSE k - 1
    <3>1. j \in 1..(Len(s) - 1) /\ (IF j < i THEN j ELSE j + 1) = k
      BY <1>1, <2>3
    <3>2. r[j] = s[k]
      BY <1>6, <3>1
    <3> HIDE DEF j
    <3> QED BY <1>7, <3>1, <3>2 DEF ToSet
  <2>4. ToSet(s) \ {s[i]} \subseteq ToSet(r)
    BY <1>1, <2>3 DEF ToSet
  <2> QED BY <1>8, <2>1, <2>2, <2>4
<1> QED BY <1>5, <1>8, <1>9 DEF r

\* e in front of a sequence it is not in.
LEMMA InFront ==
    ASSUME NEW S, NEW q \in Seq(S), NEW e \in S, IsInjective(q), e \notin ToSet(q)
    PROVE  /\ <<e>> \o q \in Seq(S) /\ IsInjective(<<e>> \o q)
           /\ ToSet(<<e>> \o q) = {e} \cup ToSet(q)
           /\ Len(<<e>> \o q) = Len(q) + 1 /\ (<<e>> \o q)[1] = e
<1> DEFINE s == <<e>> \o q
<1>1. /\ s \in Seq(S) /\ Len(q) \in Nat /\ Len(s) = Len(q) + 1
      /\ DOMAIN q = 1..Len(q) /\ DOMAIN s = 1..(Len(q) + 1)
  BY ConcatProperties, LenProperties
<1>2. /\ s[1] = e
      /\ \A i \in 1..Len(q) : s[i + 1] = q[i]
  BY ConcatProperties, LenProperties
<1>3. \A i \in 2..(Len(q) + 1) : i - 1 \in 1..Len(q) /\ s[i] = q[i - 1]
  <2> SUFFICES ASSUME NEW i \in 2..(Len(q) + 1) PROVE i - 1 \in 1..Len(q) /\ s[i] = q[i - 1]
    OBVIOUS
  <2>1. i - 1 \in 1..Len(q) /\ (i - 1) + 1 = i
    BY <1>1
  <2> QED BY <2>1, <1>2
<1> HIDE DEF s
<1>4. ToSet(s) = {e} \cup ToSet(q)
  <2>1. ToSet(s) \subseteq {e} \cup ToSet(q)
    BY <1>1, <1>2, <1>3 DEF ToSet
  <2>2. e \in ToSet(s)
    BY <1>1, <1>2 DEF ToSet
  <2>3. ASSUME NEW i \in 1..Len(q) PROVE q[i] \in ToSet(s)
    <3>1. i + 1 \in DOMAIN s /\ s[i + 1] = q[i]
      BY <1>1, <1>2
    <3> QED BY <3>1 DEF ToSet
  <2> QED BY <2>1, <2>2, <2>3, <1>1 DEF ToSet
<1>5. IsInjective(s)
  <2> SUFFICES ASSUME NEW i \in DOMAIN s, NEW j \in DOMAIN s, s[i] = s[j] PROVE i = j
    BY DEF IsInjective
  <2>1. \A k \in 2..(Len(q) + 1) : s[k] # e
    BY <1>1, <1>3 DEF ToSet
  <2>2. CASE i = 1 \/ j = 1
    BY <2>1, <2>2, <1>1, <1>2
  <2>3. CASE i # 1 /\ j # 1
    <3>1. i \in 2..(Len(q) + 1) /\ j \in 2..(Len(q) + 1)
      BY <2>3, <1>1
    <3>2. i - 1 = j - 1
      BY <3>1, <1>1, <1>3 DEF IsInjective
    <3> QED BY <3>1, <3>2
  <2> QED BY <2>2, <2>3
<1> QED BY <1>1, <1>2, <1>4, <1>5 DEF s

\* A sequence without its last element.
LEMMA FrontSet ==
    ASSUME NEW S, NEW s \in Seq(S), IsInjective(s), Len(s) >= 1
    PROVE  /\ Front(s) \in Seq(S) /\ IsInjective(Front(s))
           /\ Len(Front(s)) = Len(s) - 1
           /\ Last(s) \in ToSet(s) /\ ToSet(Front(s)) = ToSet(s) \ {Last(s)}
           /\ Len(s) >= 2 => Front(s)[1] = s[1]
<1> DEFINE f == Front(s)
<1>1. Len(s) \in Nat /\ DOMAIN s = 1..Len(s) /\ \A i \in DOMAIN s : s[i] \in S
  BY LenProperties, ElementOfSeq
<1>2. /\ f \in Seq(S) /\ Len(f) = Len(s) - 1
      /\ \A i \in 1..(Len(s) - 1) : f[i] = s[i]
  <2>1. 1 \in 1..(Len(s) + 1) /\ Len(s) - 1 \in 0..Len(s)
    BY <1>1
  <2> QED BY <1>1, <2>1, SubSeqProperties DEF Front
<1>3. DOMAIN f = 1..(Len(s) - 1)
  BY <1>2, LenProperties
<1> HIDE DEF f
<1>4. IsInjective(f)
  BY <1>1, <1>2, <1>3 DEF IsInjective
<1>5. Last(s) \in ToSet(s)
  BY <1>1 DEF Last, ToSet
<1>6. ToSet(f) \subseteq ToSet(s) \ {Last(s)}
  BY <1>1, <1>2, <1>3 DEF ToSet, Last, IsInjective
<1>7. ToSet(s) \ {Last(s)} \subseteq ToSet(f)
  <2> SUFFICES ASSUME NEW i \in DOMAIN s, s[i] # Last(s) PROVE s[i] \in ToSet(f)
    BY DEF ToSet
  <2>1. i \in DOMAIN f /\ f[i] = s[i]
    BY <1>1, <1>2, <1>3 DEF Last
  <2> QED BY <2>1 DEF ToSet
<1> QED BY <1>1, <1>2, <1>4, <1>5, <1>6, <1>7 DEF f

\* The elements of K occur at most once in q.
OnceIn(q, K) == \A i, j \in DOMAIN q : q[i] = q[j] /\ q[i] \in K => i = j

\* Taking the head keeps that, and the head does not come again.
LEMMA OnceTail ==
    ASSUME NEW S, NEW q \in Seq(S), q # <<>>, NEW K, OnceIn(q, K)
    PROVE  /\ OnceIn(Tail(q), K)
           /\ Head(q) \in K => Head(q) \notin ToSet(Tail(q))
<1>1. Len(q) \in Nat \ {0} /\ DOMAIN q = 1..Len(q) /\ Head(q) = q[1]
  BY EmptySeq, LenProperties
<1>2. /\ DOMAIN Tail(q) = 1..(Len(q) - 1)
      /\ \A i \in 1..(Len(q) - 1) : Tail(q)[i] = q[i + 1]
  BY HeadTailProperties, LenProperties
<1>3. OnceIn(Tail(q), K)
  <2> SUFFICES ASSUME NEW i \in 1..(Len(q) - 1), NEW j \in 1..(Len(q) - 1),
                      q[i + 1] = q[j + 1], q[i + 1] \in K
               PROVE  i = j
    BY <1>2 DEF OnceIn
  <2>1. i + 1 \in DOMAIN q /\ j + 1 \in DOMAIN q
    BY <1>1
  <2>2. i + 1 = j + 1
    BY <2>1 DEF OnceIn
  <2> QED BY <1>1, <2>2
<1>4. ASSUME Head(q) \in K, NEW i \in 1..(Len(q) - 1), Tail(q)[i] = Head(q) PROVE FALSE
  <2>1. i + 1 \in DOMAIN q /\ 1 \in DOMAIN q /\ q[i + 1] = q[1]
    BY <1>1, <1>2, <1>4
  <2>2. i + 1 = 1
    BY <1>1, <1>4, <2>1 DEF OnceIn
  <2> QED BY <1>1, <2>2
<1> QED BY <1>2, <1>3, <1>4 DEF ToSet

\* Appending something that is not in K, or not in q, keeps it too.
LEMMA OnceAppend ==
    ASSUME NEW S, NEW q \in Seq(S), NEW e \in S, NEW K, OnceIn(q, K),
           e \notin K \/ e \notin ToSet(q)
    PROVE  OnceIn(Append(q, e), K)
<1> DEFINE a == Append(q, e)
<1>1. Len(q) \in Nat /\ DOMAIN q = 1..Len(q) /\ DOMAIN a = 1..(Len(q) + 1)
  BY AppendProperties, LenProperties
<1>2. (\A i \in 1..Len(q) : a[i] = q[i]) /\ a[Len(q) + 1] = e
  BY AppendProperties
<1> HIDE DEF a
<1> SUFFICES ASSUME NEW i \in DOMAIN a, NEW j \in DOMAIN a, a[i] = a[j], a[i] \in K, i # j
             PROVE  FALSE
  BY DEF OnceIn, a
<1>3. CASE i \in DOMAIN q /\ j \in DOMAIN q
  BY <1>1, <1>2, <1>3 DEF OnceIn
<1>4. CASE i = Len(q) + 1 \/ j = Len(q) + 1
  <2>1. e \in K /\ e \in ToSet(q)
    BY <1>1, <1>2, <1>4 DEF ToSet
  <2> QED BY <2>1
<1> QED BY <1>1, <1>3, <1>4

\* A sequence without repetition stays one when it gains an end.
LEMMA InjectiveAppend ==
    ASSUME NEW S, NEW q \in Seq(S), NEW e \in S, IsInjective(q), e \notin ToSet(q)
    PROVE  IsInjective(Append(q, e))
<1>1. OnceIn(q, S)
  BY DEF OnceIn, IsInjective
<1>2. OnceIn(Append(q, e), S) /\ Append(q, e) \in Seq(S)
  BY <1>1, OnceAppend, AppendProperties
<1> QED BY <1>2, ElementOfSeq, LenProperties DEF OnceIn, IsInjective

\* It stays one without its head, which is then nowhere in it.
LEMMA InjectiveTail ==
    ASSUME NEW S, NEW q \in Seq(S), q # <<>>, IsInjective(q)
    PROVE  IsInjective(Tail(q)) /\ Head(q) \notin ToSet(Tail(q))
<1>1. OnceIn(q, S)
  BY DEF OnceIn, IsInjective
<1>2. /\ OnceIn(Tail(q), S) /\ Tail(q) \in Seq(S) /\ Head(q) \in S
      /\ Head(q) \in S => Head(q) \notin ToSet(Tail(q))
  BY <1>1, OnceTail, TailSet
<1> QED BY <1>2, ElementOfSeq, LenProperties DEF OnceIn, IsInjective
===============================================================================
