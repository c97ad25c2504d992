--------------------------- MODULE FifoLockProofs ---------------------------
(* What joining and leaving the queue of a lock preserves.                   *)
EXTENDS FifoLock, TLAPS, SequenceTheorems, WellFoundedInduction

\* A nonempty set of naturals has the least element that Min chooses.
LEMMA MinProperties ==
    ASSUME NEW I \in SUBSET Nat, I # {}
    PROVE  Min(I) \in I
<1>1. PICK x \in I : \A y \in I : ~(<<y, x>> \in OpToRel(<, Nat))
  BY NatLessThanWellFounded, WFMin
<1>2. ASSUME NEW y \in I PROVE x <= y
  <2>1. SUFFICES ASSUME y < x PROVE FALSE
    OBVIOUS
  <2>2. <<y, x>> \in {ss \in Nat \X Nat : ss[1] < ss[2]}
    BY <2>1
  <2> QED
    BY <1>1, <2>2 DEF OpToRel
<1> QED
  BY <1>2 DEF Min

\* Leaving a queue takes out one occurrence of the task, if there is one.
LEMMA WithoutShape ==
    ASSUME NEW S, NEW q \in Seq(S), NEW c
    PROVE  \/ ~In(q, c) /\ Without(q, c) = q
           \/ \E m \in 1..Len(q) :
                 /\ q[m] = c
                 /\ Without(q, c) = SubSeq(q, 1, m - 1) \o SubSeq(q, m + 1, Len(q))
<1> DEFINE I == {i \in 1..Len(q) : q[i] = c}
<1>1. CASE In(q, c)
  <2>1. I # {} /\ I \in SUBSET Nat
    BY <1>1, LenProperties DEF In
  <2>2. Min(I) \in I
    BY <2>1, MinProperties
  <2>3. Without(q, c) = RemoveAt(q, Min(I))
    BY <1>1, <2>1 DEF Without, RemoveFirst, SelectInSeq, In
  <2> QED
    BY <2>2, <2>3 DEF RemoveAt
<1>2. CASE ~In(q, c)
  BY <1>2 DEF Without, RemoveFirst, In
<1> QED
  BY <1>1, <1>2

\* A sequence without its m-th element, and what it looks like.
Cut(q, m) == SubSeq(q, 1, m - 1) \o SubSeq(q, m + 1, Len(q))
IsCut(S, r, q, m) ==
    /\ r \in Seq(S)
    /\ Len(r) = Len(q) - 1
    /\ \A i \in 1..(Len(q) - 1) : i < m => r[i] = q[i]
    /\ \A i \in 1..(Len(q) - 1) : ~(i < m) => r[i] = q[i + 1]

LEMMA CutProperties ==
    ASSUME NEW S, NEW q \in Seq(S), NEW m \in 1..Len(q)
    PROVE  IsCut(S, Cut(q, m), q, m)
<1>1. PICK u, v : u = SubSeq(q, 1, m - 1) /\ v = SubSeq(q, m + 1, Len(q))
  OBVIOUS
<1>2. u \in Seq(S) /\ Len(u) = m - 1 /\ \A i \in 1..(m - 1) : u[i] = q[i]
  BY <1>1
<1>3. v \in Seq(S) /\ Len(v) = Len(q) - m /\ \A i \in 1..(Len(q) - m) : v[i] = q[m + i]
  BY <1>1
<1>5. u \o v \in Seq(S) /\ Len(u \o v) = Len(q) - 1
  BY <1>2, <1>3
<1>6. \A i \in 1..(Len(q) - 1) : i < m => (u \o v)[i] = q[i]
  BY <1>2, <1>3
<1>7. ASSUME NEW i \in 1..(Len(q) - 1), ~(i < m) PROVE (u \o v)[i] = q[i + 1]
  <2>1. (u \o v)[i] = v[i - Len(u)]
    BY <1>2, <1>3, <1>7
  <2>2. i - Len(u) \in 1..(Len(q) - m)
    BY <1>2, <1>7
  <2>3. v[i - Len(u)] = q[m + (i - Len(u))]
    BY <1>3, <2>2
  <2>4. m + (i - Len(u)) = i + 1
    BY <1>2, <1>7
  <2> QED
    BY <2>1, <2>3, <2>4
<1>8. u \o v = Cut(q, m)
  BY <1>1, Zenon DEF Cut
<1>9. IsCut(S, u \o v, q, m)
  BY <1>5, <1>6, <1>7, Zenon DEF IsCut
<1> QED
  BY <1>8, <1>9, Zenon

\* Leaving a queue: it is still a queue of tasks; in a queue without
\* duplicates the task is gone, the others stay, and the head stays the head.
LEMMA WithoutProperties ==
    ASSUME NEW S, NEW q \in Seq(S), NEW c
    PROVE  /\ Without(q, c) \in Seq(S)
           /\ NoDup(q) =>
                 /\ NoDup(Without(q, c))
                 /\ \A d : In(Without(q, c), d) <=> In(q, d) /\ d # c
                 /\ \A d : HeadIs(q, d) /\ d # c => HeadIs(Without(q, c), d)
<1>0. PICK r : r = Without(q, c)
  OBVIOUS
<1>1. CASE ~In(q, c) /\ r = q
  BY <1>0, <1>1 DEF In
<1>2. CASE \E m \in 1..Len(q) :
              q[m] = c /\ r = SubSeq(q, 1, m - 1) \o SubSeq(q, m + 1, Len(q))
  <2>1. PICK m \in 1..Len(q) :
           q[m] = c /\ r = SubSeq(q, 1, m - 1) \o SubSeq(q, m + 1, Len(q))
    BY <1>2
  <2>2. /\ r \in Seq(S)
        /\ Len(r) = Len(q) - 1
        /\ \A i \in 1..(Len(q) - 1) : i < m => r[i] = q[i]
        /\ \A i \in 1..(Len(q) - 1) : ~(i < m) => r[i] = q[i + 1]
    <3>1. IsCut(S, Cut(q, m), q, m)
      BY CutProperties
    <3>2. IsCut(S, r, q, m)
      BY <2>1, <3>1, Zenon DEF Cut
    <3> QED
      BY <3>2 DEF IsCut
  <2>3. ASSUME NEW i \in 1..Len(r)
        PROVE  \/ i < m /\ r[i] = q[i] /\ i \in 1..Len(q) /\ i # m
               \/ ~(i < m) /\ r[i] = q[i + 1] /\ i + 1 \in 1..Len(q) /\ i + 1 # m
    BY <2>2
  <2>4. ASSUME NoDup(q), NEW i \in 1..Len(r), NEW j \in 1..Len(r), r[i] = r[j]
        PROVE  i = j
    <3>1. CASE i < m /\ j < m
      BY <2>3, <2>4, <3>1 DEF NoDup
    <3>2. CASE ~(i < m) /\ ~(j < m)
      <4>1. q[i + 1] = q[j + 1] /\ i + 1 \in 1..Len(q) /\ j + 1 \in 1..Len(q)
        BY <2>3, <2>4, <3>2
      <4>2. i + 1 = j + 1
        BY <2>4, <4>1 DEF NoDup
      <4> QED
        BY <4>2
    <3>3. CASE i < m /\ ~(j < m)
      <4>1. q[i] = q[j + 1] /\ i \in 1..Len(q) /\ j + 1 \in 1..Len(q)
        BY <2>3, <2>4, <3>3
      <4>2. i = j + 1
        BY <2>4, <4>1 DEF NoDup
      <4> QED
        BY <4>2, <3>3
    <3>4. CASE ~(i < m) /\ j < m
      <4>1. q[i + 1] = q[j] /\ i + 1 \in 1..Len(q) /\ j \in 1..Len(q)
        BY <2>3, <2>4, <3>4
      <4>2. i + 1 = j
        BY <2>4, <4>1 DEF NoDup
      <4> QED
        BY <4>2, <3>4
    <3> QED
      BY <3>1, <3>2, <3>3, <3>4
  <2>5. ASSUME NoDup(q), NEW d, In(r, d) PROVE In(q, d) /\ d # c
    <3>1. PICK i \in 1..Len(r) : r[i] = d
      BY <2>5 DEF In
    <3>2. PICK j \in 1..Len(q) : q[j] = d /\ j # m
      BY <2>3, <3>1
    <3> QED
      BY <2>1, <2>5, <3>2 DEF In, NoDup
  <2>6. ASSUME NEW d, In(q, d), d # c PROVE In(r, d)
    <3>1. PICK j \in 1..Len(q) : q[j] = d
      BY <2>6 DEF In
    <3>2. CASE j < m
      <4>1. j \in 1..Len(r) /\ r[j] = d
        BY <2>2, <3>1, <3>2
      <4> QED
        BY <4>1 DEF In
    <3>3. CASE j > m
      <4>1. j - 1 \in 1..(Len(q) - 1) /\ ~(j - 1 < m) /\ (j - 1) + 1 = j
        BY <3>3
      <4>2. r[j - 1] = q[(j - 1) + 1] /\ j - 1 \in 1..Len(r)
        BY <2>2, <4>1
      <4> QED
        BY <3>1, <4>1, <4>2 DEF In
    <3> QED
      BY <2>1, <2>6, <3>1, <3>2, <3>3
  <2>7. ASSUME NEW d, HeadIs(q, d), d # c PROVE HeadIs(r, d)
    <3>1. q[1] = d
      BY <2>7 DEF HeadIs
    <3>2. 1 < m /\ 1 \in 1..(Len(q) - 1)
      BY <2>1, <2>7, <3>1
    <3>3. r # <<>> /\ r[1] = d
      BY <2>2, <3>1, <3>2
    <3> QED
      BY <2>2, <3>3 DEF HeadIs
  <2>8. NoDup(q) => NoDup(r)
    BY <2>4 DEF NoDup
  <2> QED
    BY <1>0, <2>2, <2>5, <2>6, <2>7, <2>8
<1> QED
  BY <1>0, <1>1, <1>2, WithoutShape

\* Joining a queue: it is still a queue of tasks; without duplicates unless
\* the task was in it; its members are joined by the task; the head stays.
LEMMA JoinProperties ==
    ASSUME NEW S, NEW q \in Seq(S), NEW c \in S
    PROVE  /\ Join(q, c) \in Seq(S)
           /\ \A d : In(Join(q, c), d) <=> In(q, d) \/ d = c
           /\ NoDup(q) /\ ~In(q, c) => NoDup(Join(q, c))
           /\ \A d : HeadIs(q, d) => HeadIs(Join(q, c), d)
<1>1. PICK r : r = Append(q, c)
  OBVIOUS
<1>2. /\ r \in Seq(S) /\ r # <<>> /\ Len(r) = Len(q) + 1
      /\ \A i \in 1..Len(q) : r[i] = q[i]
      /\ r[Len(q) + 1] = c
  BY <1>1, AppendProperties
<1>3. ASSUME NEW d PROVE In(r, d) <=> In(q, d) \/ d = c
  BY <1>2 DEF In
<1>4. ASSUME NoDup(q), ~In(q, c) PROVE NoDup(r)
  <2>1. ASSUME NEW i \in 1..Len(r), NEW j \in 1..Len(r), r[i] = r[j] PROVE i = j
    <3>1. CASE i \in 1..Len(q) /\ j \in 1..Len(q)
      BY <1>2, <1>4, <2>1, <3>1 DEF NoDup
    <3>2. CASE i \in 1..Len(q) /\ j = Len(q) + 1
      BY <1>2, <1>4, <2>1, <3>2 DEF In
    <3>3. CASE i = Len(q) + 1 /\ j \in 1..Len(q)
      BY <1>2, <1>4, <2>1, <3>3 DEF In
    <3> QED
      BY <1>2, <3>1, <3>2, <3>3
  <2> QED
    BY <2>1 DEF NoDup
<1>5. ASSUME NEW d, HeadIs(q, d) PROVE HeadIs(r, d)
  BY <1>2, <1>5 DEF HeadIs
<1>6. Join(q, c) = r
  BY <1>1 DEF Join
<1> QED
  BY <1>2, <1>3, <1>4, <1>5, <1>6
=============================================================================
