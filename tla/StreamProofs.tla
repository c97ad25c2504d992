---------------------------- MODULE StreamProofs ----------------------------
(* What the application is handed of a streamed turn: every step, once and   *)
(* in order, for every number of events, turns and calls, where the          *)
(* application makes one call at a time on a turn and the server names the   *)
(* turn in its envelopes.  Under the same conditions, TurnRouting implements *)
(* TurnDelivery.                                                             *)
EXTENDS TurnRoutingProofs

-----------------------------------------------------------------------------
(* The steps of a session.                                                   *)

\* The steps of session s, of the events `events`: each is the first event of
\* its item, or one of an item without an id, and every item has one.
ShapeOf(events, s) ==
    /\ \A j \in DOMAIN s.raw : s.raw[j] \in DOMAIN events
    /\ \A k \in DOMAIN s.steps : /\ s.steps[k] \in DOMAIN s.raw
                                 /\ events[s.raw[s.steps[k]]].kind \in ItemKinds
    /\ \A j, k \in DOMAIN s.steps : j < k => s.steps[j] < s.steps[k]
    /\ \A j, k \in DOMAIN s.steps :
          events[s.raw[s.steps[j]]].item = events[s.raw[s.steps[k]]].item
             => j = k \/ events[s.raw[s.steps[j]]].item = NoId
    /\ \A j \in DOMAIN s.raw : events[s.raw[j]].kind \in ItemKinds =>
          \E k \in DOMAIN s.steps :
             events[s.raw[s.steps[k]]].item = events[s.raw[j]].item

\* Applying an event to a session: what becomes of its positions and steps.
LEMMA ApplyParts ==
    ASSUME NEW s \in Session, NEW i \in Nat
    PROVE  LET n == Len(s.raw)
               m == Len(s.steps)
               r == Apply(s, i).raw
               p == Apply(s, i).steps
           IN  /\ n \in Nat /\ m \in Nat
               /\ DOMAIN s.raw = 1..n /\ DOMAIN s.steps = 1..m
               /\ Len(r) = n + 1 /\ DOMAIN r = 1..(n + 1) /\ r[n + 1] = i
               /\ \A j \in 1..n : r[j] = s.raw[j]
               /\ ~IsNewStep(s, arrived[i]) => p = s.steps
               /\ IsNewStep(s, arrived[i]) =>
                     /\ Len(p) = m + 1 /\ DOMAIN p = 1..(m + 1) /\ p[m + 1] = n + 1
                     /\ \A k \in 1..m : p[k] = s.steps[k]
<1>1. s.raw \in Seq(Nat) /\ s.steps \in Seq(Nat)
  BY DEF Session
<1>2. /\ Apply(s, i).raw = Append(s.raw, i)
      /\ Apply(s, i).steps = IF IsNewStep(s, arrived[i])
                             THEN Append(s.steps, Len(s.raw) + 1) ELSE s.steps
  BY DEF Apply
<1>3. /\ Len(s.raw) \in Nat /\ DOMAIN s.raw = 1..Len(s.raw)
      /\ Len(s.steps) \in Nat /\ DOMAIN s.steps = 1..Len(s.steps)
  BY <1>1, LenProperties
<1>4. /\ Len(Append(s.raw, i)) = Len(s.raw) + 1
      /\ DOMAIN Append(s.raw, i) = 1..(Len(s.raw) + 1)
      /\ Append(s.raw, i)[Len(s.raw) + 1] = i
      /\ \A j \in 1..Len(s.raw) : Append(s.raw, i)[j] = s.raw[j]
  BY <1>1, <1>3, AppendProperties, LenProperties
<1>5. /\ Len(Append(s.steps, Len(s.raw) + 1)) = Len(s.steps) + 1
      /\ DOMAIN Append(s.steps, Len(s.raw) + 1) = 1..(Len(s.steps) + 1)
      /\ Append(s.steps, Len(s.raw) + 1)[Len(s.steps) + 1] = Len(s.raw) + 1
      /\ \A k \in 1..Len(s.steps) : Append(s.steps, Len(s.raw) + 1)[k] = s.steps[k]
  BY <1>1, <1>3, AppendProperties, LenProperties
<1> QED
  BY <1>2, <1>3, <1>4, <1>5

\* It keeps the shape of the session.
LEMMA ApplyShape ==
    ASSUME NEW s \in Session, NEW i \in DOMAIN arrived, i \in Nat, ShapeOf(arrived, s)
    PROVE  ShapeOf(arrived, Apply(s, i))
<1>1. PICK n, m, r, p, new :
         /\ n = Len(s.raw) /\ m = Len(s.steps)
         /\ r = Apply(s, i).raw /\ p = Apply(s, i).steps
         /\ new = IsNewStep(s, arrived[i])
  OBVIOUS
<1>2. /\ n \in Nat /\ m \in Nat
      /\ DOMAIN s.raw = 1..n /\ DOMAIN s.steps = 1..m
      /\ DOMAIN r = 1..(n + 1) /\ r[n + 1] = i
      /\ \A j \in 1..n : r[j] = s.raw[j]
      /\ ~new => p = s.steps
      /\ new => /\ DOMAIN p = 1..(m + 1) /\ p[m + 1] = n + 1
                /\ \A k \in 1..m : p[k] = s.steps[k]
  <2>1. /\ n \in Nat /\ m \in Nat
        /\ DOMAIN s.raw = 1..n /\ DOMAIN s.steps = 1..m
    BY <1>1, ApplyParts
  <2>2. /\ DOMAIN r = 1..(n + 1) /\ r[n + 1] = i
        /\ \A j \in 1..n : r[j] = s.raw[j]
    BY <1>1, ApplyParts
  <2>3. ASSUME new PROVE /\ DOMAIN p = 1..(m + 1) /\ p[m + 1] = n + 1
                         /\ \A k \in 1..m : p[k] = s.steps[k]
    <3>1. IsNewStep(s, arrived[i])
      BY <1>1, <2>3
    <3> QED BY <1>1, <3>1, ApplyParts
  <2>4. ASSUME ~new PROVE p = s.steps
    <3>1. ~IsNewStep(s, arrived[i])
      BY <1>1, <2>4
    <3> QED BY <1>1, <3>1, ApplyParts
  <2> QED BY <2>1, <2>2, <2>3, <2>4
<1>3. PICK raw, steps : raw = s.raw /\ steps = s.steps
  OBVIOUS
<1>4. /\ \A j \in 1..n : raw[j] \in DOMAIN arrived
      /\ \A k \in 1..m : steps[k] \in 1..n /\ arrived[raw[steps[k]]].kind \in ItemKinds
      /\ \A j, k \in 1..m : j < k => steps[j] < steps[k]
      /\ \A j, k \in 1..m : arrived[raw[steps[j]]].item = arrived[raw[steps[k]]].item
            => j = k \/ arrived[raw[steps[j]]].item = NoId
      /\ \A j \in 1..n : arrived[raw[j]].kind \in ItemKinds =>
            \E k \in 1..m : arrived[raw[steps[k]]].item = arrived[raw[j]].item
  <2>1. DOMAIN raw = 1..n /\ DOMAIN steps = 1..m
    BY <1>2, <1>3
  <2> QED BY <1>3, <2>1, Zenon DEF ShapeOf
<1>5. /\ \A k \in 1..m : steps[k] \in 1..n /\ r[steps[k]] = raw[steps[k]]
      /\ \A j \in 1..n : r[j] \in DOMAIN arrived
      /\ \A k \in 1..m : arrived[r[steps[k]]].kind \in ItemKinds
      /\ \A j, k \in 1..m : j < k => steps[j] < steps[k]
      /\ \A j, k \in 1..m : arrived[r[steps[j]]].item = arrived[r[steps[k]]].item
            => j = k \/ arrived[r[steps[j]]].item = NoId
      /\ \A j \in 1..n : arrived[r[j]].kind \in ItemKinds =>
            \E k \in 1..m : arrived[r[steps[k]]].item = arrived[r[j]].item
  <2>1. \A j \in 1..n : r[j] = raw[j]
    BY <1>2, <1>3
  <2>2. \A k \in 1..m : steps[k] \in 1..n /\ r[steps[k]] = raw[steps[k]]
    BY <1>4, <2>1
  <2>3. /\ \A j \in 1..n : r[j] \in DOMAIN arrived
        /\ \A k \in 1..m : arrived[r[steps[k]]].kind \in ItemKinds
    BY <1>4, <2>1, <2>2
  <2>4. \A j, k \in 1..m : arrived[r[steps[j]]].item = arrived[r[steps[k]]].item
            => j = k \/ arrived[r[steps[j]]].item = NoId
    BY <1>4, <2>2, Zenon
  <2>5. ASSUME NEW j \in 1..n, arrived[r[j]].kind \in ItemKinds
        PROVE  \E k \in 1..m : arrived[r[steps[k]]].item = arrived[r[j]].item
    <3>1. PICK k \in 1..m : arrived[raw[steps[k]]].item = arrived[raw[j]].item
      BY <1>4, <2>1, <2>5, Zenon
    <3> QED BY <2>1, <2>2, <3>1, Zenon
  <2> QED BY <1>4, <2>2, <2>3, <2>4, <2>5
<1>6. \A x : x \in StepItems(s) <=> \E k \in 1..m : x = arrived[r[steps[k]]].item
  <2>1. DOMAIN steps = 1..m /\ \A k \in 1..m : r[steps[k]] = raw[steps[k]]
    BY <1>2, <1>3, <1>5
  <2>2. RangeOf(steps) = {steps[k] : k \in 1..m}
    BY <2>1 DEF RangeOf
  <2>3. StepItems(s) = {arrived[raw[q]].item : q \in RangeOf(steps)}
    BY <1>3 DEF StepItems
  <2>4. ASSUME NEW x, x \in StepItems(s)
        PROVE  \E k \in 1..m : x = arrived[r[steps[k]]].item
    <3>1. PICK q \in RangeOf(steps) : x = arrived[raw[q]].item
      BY <2>3, <2>4
    <3>2. PICK k \in 1..m : q = steps[k]
      BY <2>2
    <3> QED BY <2>1, <3>1, <3>2
  <2>5. ASSUME NEW k \in 1..m PROVE arrived[r[steps[k]]].item \in StepItems(s)
    BY <2>1, <2>2, <2>3
  <2> QED BY <2>4, <2>5
<1>7. new <=> arrived[i].kind \in ItemKinds /\ arrived[i].item \notin StepItems(s) \ {NoId}
  BY <1>1 DEF IsNewStep
<1>8. CASE new
  <2>1. /\ DOMAIN p = 1..(m + 1) /\ p[m + 1] = n + 1 /\ r[p[m + 1]] = i
        /\ \A k \in 1..m : p[k] = steps[k]
    BY <1>2, <1>3, <1>8
  <2>2. \A j \in 1..(n + 1) : r[j] \in DOMAIN arrived
    BY <1>2, <1>5
  <2>3. \A k \in 1..(m + 1) : p[k] \in 1..(n + 1) /\ arrived[r[p[k]]].kind \in ItemKinds
    <3> SUFFICES ASSUME NEW k \in 1..(m + 1)
                 PROVE  p[k] \in 1..(n + 1) /\ arrived[r[p[k]]].kind \in ItemKinds
      OBVIOUS
    <3>1. CASE k = m + 1
      BY <1>2, <1>7, <1>8, <2>1, <3>1
    <3>2. CASE k \in 1..m
      <4>1. p[k] = steps[k] /\ steps[k] \in 1..n /\ arrived[r[steps[k]]].kind \in ItemKinds
        BY <1>5, <2>1, <3>2
      <4>2. steps[k] \in 1..(n + 1)
        BY <1>2, <4>1
      <4> QED BY <4>1, <4>2
    <3> QED BY <1>2, <3>1, <3>2
  <2>4. ASSUME NEW j \in 1..(m + 1), NEW k \in 1..(m + 1), j < k PROVE p[j] < p[k]
    <3>1. j \in 1..m /\ p[j] = steps[j] /\ steps[j] \in 1..n
      BY <1>2, <1>5, <2>1, <2>4
    <3>2. CASE k = m + 1
      BY <1>2, <2>1, <3>1, <3>2
    <3>3. CASE k \in 1..m
      BY <1>5, <2>1, <2>4, <3>1, <3>3
    <3> QED BY <1>2, <3>2, <3>3
  <2>5. ASSUME NEW j \in 1..(m + 1), NEW k \in 1..(m + 1),
               arrived[r[p[j]]].item = arrived[r[p[k]]].item
        PROVE  j = k \/ arrived[r[p[j]]].item = NoId
    <3>1. CASE j \in 1..m /\ k \in 1..m
      BY <1>5, <2>1, <2>5, <3>1
    <3>2. ASSUME NEW k1 \in 1..m, arrived[r[p[k1]]].item = arrived[i].item
          PROVE  arrived[i].item = NoId
      <4>1. arrived[i].item \in StepItems(s)
        BY <1>6, <2>1, <3>2
      <4> QED BY <1>7, <1>8, <4>1
    <3>3. CASE j = m + 1 /\ k \in 1..m
      BY <2>1, <2>5, <3>2, <3>3
    <3>4. CASE j \in 1..m /\ k = m + 1
      BY <2>1, <2>5, <3>2, <3>4
    <3>5. CASE j = m + 1 /\ k = m + 1
      BY <3>5
    <3> QED BY <1>2, <3>1, <3>3, <3>4, <3>5
  <2>6. ASSUME NEW j \in 1..(n + 1), arrived[r[j]].kind \in ItemKinds
        PROVE  \E k \in 1..(m + 1) : arrived[r[p[k]]].item = arrived[r[j]].item
    <3>1. CASE j = n + 1
      <4>1. m + 1 \in 1..(m + 1)
        BY <1>2
      <4> QED BY <1>2, <2>1, <3>1, <4>1
    <3>2. CASE j \in 1..n
      <4>1. PICK k \in 1..m : arrived[r[steps[k]]].item = arrived[r[j]].item
        BY <1>5, <2>6, <3>2
      <4>2. k \in 1..(m + 1) /\ p[k] = steps[k]
        BY <1>2, <2>1
      <4> QED BY <4>1, <4>2
    <3> QED BY <1>2, <3>1, <3>2
  <2> QED
    <3>1. DOMAIN r = 1..(n + 1) /\ DOMAIN p = 1..(m + 1)
      BY <1>2, <2>1
    <3> QED BY <1>1, <2>2, <2>3, <2>4, <2>5, <2>6, <3>1 DEF ShapeOf
<1>9. CASE ~new
  <2>1. p = steps /\ DOMAIN p = 1..m
    BY <1>2, <1>3, <1>9
  <2>2. \A j \in 1..(n + 1) : r[j] \in DOMAIN arrived
    BY <1>2, <1>5
  <2>3. \A k \in 1..m : p[k] \in 1..(n + 1) /\ arrived[r[p[k]]].kind \in ItemKinds
    BY <1>2, <1>5, <2>1
  <2>4. ASSUME NEW j \in 1..(n + 1), arrived[r[j]].kind \in ItemKinds
        PROVE  \E k \in 1..m : arrived[r[p[k]]].item = arrived[r[j]].item
    <3>1. CASE j = n + 1
      <4>1. arrived[i].item \in StepItems(s)
        BY <1>2, <1>7, <1>9, <2>4, <3>1
      <4> QED BY <1>2, <1>6, <2>1, <3>1, <4>1
    <3>2. CASE j \in 1..n
      BY <1>5, <2>1, <2>4, <3>2
    <3> QED BY <1>2, <3>1, <3>2
  <2>5. /\ DOMAIN r = 1..(n + 1)
        /\ \A j, k \in 1..m : j < k => p[j] < p[k]
        /\ \A j, k \in 1..m : arrived[r[p[j]]].item = arrived[r[p[k]]].item
              => j = k \/ arrived[r[p[j]]].item = NoId
    BY <1>2, <1>5, <2>1, Zenon
  <2>6. DOMAIN p = 1..m
    BY <2>1
  <2> QED
    BY <1>1, <2>2, <2>3, <2>4, <2>5, <2>6 DEF ShapeOf
<1> QED
  BY <1>8, <1>9

\* So does a publication.
LEMMA PublishShape ==
    ASSUME NEW S, NEW events \in Seq(S), NEW e \in S, NEW s, ShapeOf(events, s)
    PROVE  ShapeOf(Append(events, e), s)
<1>1. PICK x : x = Append(events, e)
  OBVIOUS
<1>2. \A i \in DOMAIN events : i \in DOMAIN x /\ x[i] = events[i]
  BY <1>1, AppendProperties, LenProperties
<1>3. ShapeOf(x, s)
  BY <1>2 DEF ShapeOf
<1> QED
  BY <1>1, <1>3

-----------------------------------------------------------------------------
(* What was handed out.                                                      *)

\* What was handed out is a beginning of the steps.
PrefixOf(y, steps) == Len(y) <= Len(steps) /\ \A k \in 1..Len(y) : y[k] = steps[k]

\* It is the steps before `place`, and those up to the event number `seen`.
ReadTo(y, steps, place, seen) ==
    \A k \in 1..Len(steps) : k <= Len(y) <=> k < place \/ steps[k] <= seen

\* An event that a session takes leaves what was handed out a beginning of the
\* steps, and the steps up to an earlier event the same.
LEMMA ApplyReads ==
    ASSUME NEW s \in Session, NEW i \in Nat, NEW y \in Seq(Nat), PrefixOf(y, s.steps)
    PROVE  /\ PrefixOf(y, Apply(s, i).steps)
           /\ \A seen \in Nat :
                 seen <= Len(s.raw) /\ ReadTo(y, s.steps, 0, seen) =>
                    seen <= Len(Apply(s, i).raw) /\ ReadTo(y, Apply(s, i).steps, 0, seen)
<1>1. PICK n, m, r, p, new, steps, l :
         /\ n = Len(s.raw) /\ m = Len(s.steps) /\ steps = s.steps /\ l = Len(y)
         /\ r = Apply(s, i).raw /\ p = Apply(s, i).steps
         /\ new = IsNewStep(s, arrived[i])
  OBVIOUS
<1>2. /\ n \in Nat /\ m \in Nat /\ l \in Nat
      /\ Len(r) = n + 1
      /\ ~new => p = steps
      /\ new => /\ Len(p) = m + 1 /\ p[m + 1] = n + 1
                /\ \A k \in 1..m : p[k] = steps[k]
  BY <1>1, ApplyParts, LenProperties
<1>3. l <= m /\ \A k \in 1..l : y[k] = steps[k]
  BY <1>1 DEF PrefixOf
<1>4. PrefixOf(y, p)
  <2>1. CASE new
    <3>1. \A k \in 1..l : k \in 1..m
      BY <1>2, <1>3
    <3>2. l <= Len(p) /\ \A k \in 1..l : y[k] = p[k]
      BY <1>2, <1>3, <2>1, <3>1
    <3> QED BY <1>1, <3>2 DEF PrefixOf
  <2>2. CASE ~new
    BY <1>1, <1>2, <2>2
  <2> QED BY <2>1, <2>2
<1>5. ASSUME NEW seen \in Nat, seen <= n, ReadTo(y, steps, 0, seen)
      PROVE  seen <= Len(r) /\ ReadTo(y, p, 0, seen)
  <2>1. \A k \in 1..m : k <= l <=> steps[k] <= seen
    BY <1>1, <1>2, <1>5 DEF ReadTo
  <2>2. CASE new
    <3>1. \A k \in 1..m : k <= l <=> p[k] <= seen
      BY <1>2, <2>1, <2>2
    <3>2. ~(m + 1 <= l) /\ ~(p[m + 1] <= seen)
      BY <1>2, <1>3, <1>5, <2>2
    <3>3. \A k \in 1..(m + 1) : k <= l <=> k < 0 \/ p[k] <= seen
      BY <1>2, <3>1, <3>2
    <3>4. Len(p) = m + 1
      BY <1>2, <2>2
    <3> QED BY <1>1, <1>2, <1>5, <3>3, <3>4 DEF ReadTo
  <2>3. CASE ~new
    BY <1>2, <1>5, <2>3
  <2> QED BY <2>2, <2>3
<1> QED
  BY <1>1, <1>4, <1>5

\* Handing out the next step.
LEMMA YieldPrefix ==
    ASSUME NEW p \in Seq(Nat), NEW y \in Seq(Nat), PrefixOf(y, p),
           NEW k \in 1..Len(p), k = Len(y) + 1
    PROVE  Len(y \o <<p[k]>>) = k /\ PrefixOf(y \o <<p[k]>>, p)
<1>1. PICK z : z = y \o <<p[k]>>
  OBVIOUS
<1>2. p[k] \in Nat /\ <<p[k]>> \in Seq(Nat) /\ Len(<<p[k]>>) = 1 /\ <<p[k]>>[1] = p[k]
  <2>1. p[k] \in Nat
    BY ElementOfSeq
  <2> QED BY <2>1
<1>3. /\ Len(z) = Len(y) + 1
      /\ \A j \in 1..(Len(y) + 1) : z[j] = IF j <= Len(y) THEN y[j] ELSE <<p[k]>>[j - Len(y)]
  BY <1>1, <1>2, ConcatProperties
<1>4. Len(y) \in Nat /\ Len(p) \in Nat
  BY LenProperties
<1>5. ASSUME NEW j \in 1..k PROVE z[j] = p[j]
  <2>1. CASE j <= Len(y)
    <3>1. j \in 1..Len(y) /\ j \in 1..(Len(y) + 1)
      BY <1>4, <2>1
    <3>2. z[j] = y[j]
      BY <1>3, <2>1, <3>1
    <3> QED BY <3>1, <3>2 DEF PrefixOf
  <2>2. CASE j = k
    <3>1. ~(j <= Len(y)) /\ j - Len(y) = 1 /\ j \in 1..(Len(y) + 1)
      BY <1>4, <2>2
    <3>2. z[j] = <<p[k]>>[j - Len(y)]
      BY <1>3, <3>1
    <3> QED BY <1>2, <2>2, <3>1, <3>2
  <2> QED BY <1>4, <2>1, <2>2
<1>6. Len(z) = k /\ k <= Len(p)
  BY <1>3, <1>4
<1>7. PrefixOf(z, p)
  BY <1>5, <1>6 DEF PrefixOf
<1> QED
  BY <1>1, <1>6, <1>7, Zenon

\* Handing out the step that an event has just recorded.
LEMMA YieldLast ==
    ASSUME NEW s \in Session, NEW i \in Nat, NEW y \in Seq(Nat),
           PrefixOf(y, s.steps), Len(y) = Len(s.steps), IsNewStep(s, arrived[i])
    PROVE  LET z == y \o <<Len(s.raw) + 1>>
           IN  Len(z) = Len(Apply(s, i).steps) /\ PrefixOf(z, Apply(s, i).steps)
<1>1. PICK p, k : p = Apply(s, i).steps /\ k = Len(s.steps) + 1
  OBVIOUS
<1>2. p \in Seq(Nat)
  BY <1>1, ApplyType DEF Session
<1>3. Len(s.steps) \in Nat /\ Len(p) = k /\ p[k] = Len(s.raw) + 1
  BY <1>1, ApplyParts
<1>4. PrefixOf(y, p)
  BY <1>1, ApplyReads
<1>5. k \in 1..Len(p) /\ k = Len(y) + 1
  BY <1>1, <1>3
<1>6. Len(y \o <<p[k]>>) = k /\ PrefixOf(y \o <<p[k]>>, p)
  BY <1>2, <1>4, <1>5, YieldPrefix
<1> QED
  BY <1>1, <1>3, <1>6

\* cancel hands out all that was not handed out.
LEMMA UnreadRest ==
    ASSUME TypeOK, NEW c \in Calls, NEW t \in Turns, t = turn[c],
           NEW y \in Seq(Nat), PrefixOf(y, session[t].steps),
           ReadTo(y, session[t].steps, 0, cursor[c])
    PROVE  /\ Len(y \o UnreadSteps(c)) = Len(session[t].steps)
           /\ PrefixOf(y \o UnreadSteps(c), session[t].steps)
<1>1. PICK steps, l, m : steps = session[t].steps /\ l = Len(y) /\ m = Len(steps)
  OBVIOUS
<1>2. /\ steps \in Seq(Nat) /\ l \in Nat /\ m \in Nat /\ DOMAIN steps = 1..m
      /\ l <= m /\ \A k \in 1..l : y[k] = steps[k]
  <2>1. steps \in Seq(Nat)
    BY <1>1 DEF TypeOK, Session
  <2>2. l \in Nat /\ m \in Nat /\ DOMAIN steps = 1..m
    BY <1>1, <2>1, LenProperties
  <2>3. l <= m /\ \A k \in 1..l : y[k] = steps[k]
    BY <1>1 DEF PrefixOf
  <2> QED BY <2>1, <2>2, <2>3
<1>3. \A k \in 1..m : k <= l <=> steps[k] <= cursor[c]
  BY <1>1, <1>2 DEF ReadTo
<1>4. {k \in DOMAIN steps : steps[k] <= cursor[c]} = 1..l
  BY <1>2, <1>3
<1>5. Cardinality(1..l) = l
  BY <1>2, FS_Interval
<1>6. UnreadSteps(c) = SubSeq(steps, l + 1, m)
  BY <1>1, <1>4, <1>5 DEF UnreadSteps
<1>7. PICK u : u = SubSeq(steps, l + 1, m)
  OBVIOUS
<1>8. u \in Seq(Nat) /\ Len(u) = m - l /\ \A j \in 1..(m - l) : u[j] = steps[l + j]
  <2>1. \A j \in (l + 1)..m : steps[j] \in Nat
    BY <1>2, ElementOfSeq
  <2>2. /\ u \in Seq(Nat) /\ Len(u) = IF l + 1 <= m THEN m - (l + 1) + 1 ELSE 0
        /\ \A j \in 1..(m - (l + 1) + 1) : u[j] = steps[(l + 1) + j - 1]
    BY <1>2, <1>7, <2>1, SubSeqProperties
  <2>3. m - (l + 1) + 1 = m - l /\ \A j \in 1..(m - l) : (l + 1) + j - 1 = l + j
    BY <1>2
  <2>4. Len(u) = m - l
    BY <1>2, <2>2
  <2> QED BY <2>2, <2>3, <2>4
<1>9. PICK z : z = y \o u
  OBVIOUS
<1>10. Len(z) = l + Len(u) /\ \A j \in 1..(l + Len(u)) : z[j] = IF j <= l THEN y[j] ELSE u[j - l]
  BY <1>1, <1>8, <1>9, ConcatProperties
<1>11. Len(z) = m
  BY <1>2, <1>8, <1>10
<1>12. ASSUME NEW j \in 1..m PROVE z[j] = steps[j]
  <2>1. CASE j <= l
    <3>1. j \in 1..l /\ j \in 1..(l + Len(u))
      BY <1>2, <1>8, <2>1
    <3> QED BY <1>2, <1>10, <2>1, <3>1
  <2>2. CASE ~(j <= l)
    <3>1. j - l \in 1..(m - l) /\ l + (j - l) = j /\ j \in 1..(l + Len(u))
      BY <1>2, <1>8, <2>2
    <3> QED BY <1>8, <1>10, <2>2, <3>1
  <2> QED BY <2>1, <2>2
<1>13. z = y \o UnreadSteps(c)
  BY <1>6, <1>7, <1>9
<1>14. PrefixOf(z, steps)
  BY <1>2, <1>11, <1>12 DEF PrefixOf
<1> QED
  BY <1>1, <1>11, <1>13, <1>14

-----------------------------------------------------------------------------
(* The end of a turn comes after its items.                                  *)

\* A session that has seen the end of its turn has all its items, and what is
\* published after the end of the turn adds none.
EndInv ==
    /\ link = "closed" => deferred = {}
    /\ \A i, j \in DOMAIN arrived :
          arrived[i].owner = arrived[j].owner /\ arrived[i].kind \in TerminalKinds
             /\ arrived[j].kind \in ItemKinds => j < i
    /\ \A t \in Turns : Terminal(session[t]) =>
          /\ verdict[t] \in Ended
          /\ \A i \in Own(t) : arrived[i].kind \in ItemKinds => i \in RangeOf(session[t].raw)

\* Publishing.
LEMMA PublishEnd ==
    ASSUME TypeOK, VerdictInv, EndInv, NEW t \in Turns, NEW form, NEW kind, NEW item,
           Publish(Envelope(t, form, kind, item)),
           kind \in ItemKinds => verdict[t] = "running",
           \A s \in Turns : verdict[s] \in Ended => verdict'[s] = verdict[s]
    PROVE  EndInv'
<1>1. PICK e, n : e = Envelope(t, form, kind, item) /\ n = Len(arrived) + 1
  OBVIOUS
<1>2. /\ arrived' = Append(arrived, e) /\ link = "up"
      /\ UNCHANGED <<session, link>>
  BY <1>1 DEF Publish
<1>3. e.owner = t /\ e.kind = kind
  BY <1>1 DEF Envelope
<1>4. /\ Len(arrived) \in Nat /\ DOMAIN arrived = 1..Len(arrived)
      /\ DOMAIN arrived' = 1..n /\ arrived'[n] = e
      /\ \A j \in 1..Len(arrived) : arrived'[j] = arrived[j]
  <2>1. arrived \in Seq(Event \cup {e})
    BY SeqMonotonic DEF TypeOK
  <2> QED BY <1>1, <1>2, <2>1, AppendProperties, LenProperties
<1>5. \A i \in DOMAIN arrived : arrived[i].owner = t /\ arrived[i].kind \in TerminalKinds
         => kind \notin ItemKinds
  BY VerdictKinds DEF VerdictInv, Ended
<1>6. ASSUME NEW i \in DOMAIN arrived', NEW j \in DOMAIN arrived',
             arrived'[i].owner = arrived'[j].owner, arrived'[i].kind \in TerminalKinds,
             arrived'[j].kind \in ItemKinds
      PROVE  j < i
  <2>1. CASE j = n
    <3>1. i \notin DOMAIN arrived
      BY <1>3, <1>4, <1>5, <1>6, <2>1
    <3>2. i = n
      BY <1>1, <1>4, <3>1
    <3> QED
      BY <1>3, <1>4, <1>6, <2>1, <3>2 DEF ItemKinds, TerminalKinds, CompletedKinds
  <2>2. CASE j # n /\ i = n
    BY <1>1, <1>4, <2>2
  <2>3. CASE j # n /\ i # n
    <3>1. i \in DOMAIN arrived /\ j \in DOMAIN arrived
      BY <1>1, <1>4, <2>3
    <3> QED BY <1>4, <1>6, <3>1 DEF EndInv
  <2> QED BY <2>1, <2>2, <2>3
<1>7. ASSUME NEW s \in Turns, Terminal(session'[s])
      PROVE  /\ verdict'[s] \in Ended
             /\ \A i \in Own(s)' : arrived'[i].kind \in ItemKinds
                                      => i \in RangeOf(session'[s].raw)
  <2>1. Terminal(session[s]) /\ verdict[s] \in Ended
    BY <1>2, <1>7 DEF EndInv
  <2>2. ASSUME NEW i \in DOMAIN arrived', arrived'[i].owner = s, arrived'[i].kind \in ItemKinds
        PROVE  i \in RangeOf(session[s].raw)
    <3>1. i # n
      BY <1>3, <1>4, <2>1, <2>2 DEF Ended
    <3>2. i \in DOMAIN arrived
      BY <1>1, <1>4, <3>1
    <3> QED BY <1>4, <2>1, <2>2, <3>2 DEF EndInv, Own
  <2> QED BY <1>2, <2>1, <2>2 DEF Own
<1>8. link' # "closed"
  BY <1>2
<1> QED
  BY <1>6, <1>7, <1>8 DEF EndInv

\* A call takes an event: if it is the end of its turn, all items are taken.
LEMMA TakesEnd ==
    ASSUME TypeOK, RoutingInv, VerdictInv, HeldInv, EndInv, NEW c \in Calls, Takes(c)
    PROVE  EndInv'
<1>1. PICK t \in Turns : t = turn[c]
  BY DEF Takes
<1>2. PICK i \in deferred : Take(t, i)
  BY <1>1 DEF Takes
<1>3. /\ UNCHANGED <<verdict, arrived, link>> /\ i \in Nat /\ i \in DOMAIN arrived
      /\ deferred' = deferred \ {i}
  BY <1>2, LenProperties DEF Takes, Take, TypeOK
<1>4. link # "closed" /\ Live(t)
  <2>1. link # "closed"
    BY <1>2 DEF EndInv
  <2>2. pc[c] \notin {"idle", "starting"}
    BY DEF Takes
  <2> QED BY <1>1, <2>1, <2>2 DEF HeldInv, Live
<1>5. /\ \A s \in Turns \ {t} : session'[s] = session[s]
      /\ session'[t].raw = Append(session[t].raw, i) /\ i \in Own(t)
  BY <1>2, <1>3, TakeConserves DEF RoutingInv
<1>6. Terminal(session'[t]) => Terminal(session[t]) \/ arrived[i].kind \in TerminalKinds
  <2>1. session'[t] = Apply(session[t], i)
    BY <1>2 DEF Take, TypeOK
  <2>2. PICK s, kind : s = session[t] /\ kind = arrived[i].kind
    OBVIOUS
  <2>3. /\ session'[t].completed = (s.completed \/ kind \in CompletedKinds)
        /\ session'[t].failed = IF kind \in CompletedKinds THEN kind = "completedFailed"
                                ELSE s.failed \/ kind = "turnFailed"
    BY <2>1, <2>2 DEF Apply
  <2> QED BY <2>2, <2>3, Zenon DEF Terminal, TerminalKinds
<1>7. RangeOf(session'[t].raw) = RangeOf(session[t].raw) \cup {i}
  <2>1. session[t].raw \in Seq(Nat)
    BY DEF TypeOK, Session
  <2> QED BY <1>3, <1>5, <2>1, RangeAppend
<1>8. \A s \in Turns : Own(s)' = Own(s)
  BY <1>3 DEF Own
<1>9. ASSUME Terminal(session'[t])
      PROVE  /\ verdict[t] \in Ended
             /\ \A j \in Own(t) : arrived[j].kind \in ItemKinds => j \in RangeOf(session'[t].raw)
  <2>1. CASE Terminal(session[t])
    BY <1>7, <2>1 DEF EndInv
  <2>2. CASE arrived[i].kind \in TerminalKinds
    <3>1. arrived[i].owner = t /\ arrived[i].kind \in TerminalKinds
      BY <1>5, <2>2 DEF Own
    <3>2. verdict[t] \in Ended
      <4>1. i \in Own(t)
        BY <1>5
      <4> QED BY <1>3, <3>1, <4>1, VerdictKinds DEF VerdictInv
    <3>3. ASSUME NEW j \in Own(t), arrived[j].kind \in ItemKinds
          PROVE  j \in RangeOf(session'[t].raw)
      <4>1. j \in DOMAIN arrived /\ j \in Nat /\ j < i
        BY <1>3, <3>1, <3>3, LenProperties DEF Own, EndInv, TypeOK
      <4>2. j \in RangeOf(session[t].raw) \/ j \in Own(t) \cap deferred
        BY <1>4, <3>3 DEF RoutingInv, NothingLost
      <4>3. j \notin Own(t) \cap deferred
        <5>1. \A k \in Own(t) \cap deferred : i <= k
          BY <1>2, MatchingNamed DEF RoutingInv, Take, FoundFor, TypeOK
        <5> QED BY <1>3, <4>1, <5>1
      <4> QED BY <1>7, <4>2, <4>3
    <3> QED BY <3>2, <3>3
  <2> QED BY <1>6, <1>9, <2>1, <2>2
<1>10. \A s \in Turns : Terminal(session'[s]) =>
          /\ verdict'[s] \in Ended
          /\ \A j \in Own(s)' : arrived'[j].kind \in ItemKinds => j \in RangeOf(session'[s].raw)
  BY <1>3, <1>5, <1>8, <1>9 DEF EndInv
<1> QED
  BY <1>3, <1>4, <1>10 DEF EndInv

\* Every step keeps EndInv.
LEMMA EndNext ==
    TypeOK /\ RoutingInv /\ VerdictInv /\ HeldInv /\ EndInv /\ [Next]_vars => EndInv'
<1> SUFFICES ASSUME TypeOK, RoutingInv, VerdictInv, HeldInv, EndInv, [Next]_vars
             PROVE  EndInv'
  OBVIOUS
<1>1. \A t \in Turns : verdict[t] \in Ended => verdict'[t] = verdict[t]
  BY VerdictFinal
<1>2. ASSUME NEW t \in Turns, EmitItem(t) \/ EmitTerminal(t) \/ EmitEcho(t)
      PROVE  EndInv'
  <2>1. CASE EmitItem(t)
    BY <1>1, <2>1, PublishEnd DEF EmitItem
  <2>2. CASE EmitTerminal(t)
    BY <1>1, <2>2, PublishEnd DEF EmitTerminal, ItemKinds, TerminalKinds, CompletedKinds
  <2>3. CASE EmitEcho(t)
    BY <1>1, <2>3, PublishEnd DEF EmitEcho, ItemKinds
  <2> QED BY <1>2, <2>1, <2>2, <2>3
<1>3. ASSUME UNCHANGED <<arrived, session>>, link' = "closed" => deferred' = {}
      PROVE  EndInv'
  BY <1>1, <1>3 DEF EndInv, Own
<1>4. CASE ClientStep \/ UNCHANGED vars
  BY <1>3, <1>4 DEF ClientStep, ReceiverFails, CloseBegins, CloseClears, serverVars, vars,
                    EndInv
<1>5. ASSUME NEW c \in Calls,
             (\E t \in Turns : StartTurn(c, t)) \/ TurnStarted(c) \/ Moves(c)
      PROVE  EndInv'
  BY <1>3, <1>5 DEF StartTurn, TurnStarted, Moves, serverVars, EndInv
<1>6. ASSUME NEW c \in Calls, Settles(c) PROVE EndInv'
  BY <1>3, <1>6 DEF Settles, Cleanup, EndInv
<1> QED
  BY <1>2, <1>4, <1>5, <1>6, TakesEnd, StepCases DEF ServerStep

-----------------------------------------------------------------------------
(* What was handed out of each turn, and what its call knows of it.          *)

Busy(t) == \E c \in Calls : pc[c] # "idle" /\ turn[c] = t
Settled(t) == \E r \in reports : r.turn = t
Streamed(t) == [turn |-> t, op |-> "stream", kind |-> "ok"] \in reports

\* A stream of session s that was left at event `seen` goes on where it was.
Resumes(s, y, seen) == ReadTo(y, s.steps, 0, seen) /\ seen <= Len(s.raw)

TurnInv(t) ==
    /\ ShapeOf(arrived, session[t])
    /\ PrefixOf(yielded[t], session[t].steps)
    /\ token[t].mode = "stream" /\ ~Settled(t) =>
          Resumes(session[t], yielded[t], token[t].cursor)
    /\ verdict[t] = "none" => token[t].mode = "none" /\ yielded[t] = <<>>
    /\ Settled(t) => ~Busy(t) /\ t \notin tracked /\ verdict[t] # "none"
    /\ Streamed(t) => session[t].completed /\ Len(yielded[t]) = Len(session[t].steps)

\* A call at `place`, of operation o, with its cursor `seen` and its mark
\* `next`, on a turn with session s and continuation k of which y was handed
\* out: it knows how far that is.
Knows(place, o, seen, next, k, s, y) ==
    /\ IF o = "cancel" THEN seen = k.cursor ELSE k.mode = "none"
    /\ place = "starting" => y = <<>> /\ seen = 0 /\ next = 1
    /\ place \in {"backlog", "yieldedBacklog"} =>
          o = "stream" /\ ReadTo(y, s.steps, next, seen)
    /\ place \in {"top", "waiting", "yieldedLive"} /\ o = "stream" =>
          Len(y) = Len(s.steps) /\ seen = Len(s.raw)
    /\ place = "yieldedLive" => o = "stream"
    /\ place = "reading" => o = "once"
    /\ place \notin ChatPlaces => o = "cancel"

ReaderInv(c) ==
    pc[c] # "idle" => Knows(pc[c], op[c], cursor[c], mark[c],
                            token[turn[c]], session[turn[c]], yielded[turn[c]])

StreamInv == (\A t \in Turns : TurnInv(t)) /\ \A c \in Calls : ReaderInv(c)

\* A turn with a call on it, or a session, has been started and not settled.
LEMMA Unsettled ==
    ASSUME RoutingInv, NEW t \in Turns, TurnInv(t), Busy(t) \/ t \in tracked
    PROVE  ~Settled(t) /\ verdict[t] # "none"
  BY DEF TurnInv, Busy, RoutingInv, Fresh, Untouched

\* A step that settles nothing, as the turn sees it.
LEMMA TurnHere ==
    ASSUME NEW t \in Turns, ~Settled(t), UNCHANGED reports, verdict'[t] # "none",
           ShapeOf(arrived', session'[t]), PrefixOf(yielded'[t], session'[t].steps),
           token'[t].mode = "stream" =>
              Resumes(session'[t], yielded'[t], token'[t].cursor)
    PROVE  TurnInv(t)'
  BY DEF TurnInv, Settled, Streamed

\* A stream that handed out every step has read every event.
LEMMA AllRead ==
    ASSUME NEW s \in Session, NEW y \in Seq(Nat), ShapeOf(arrived, s), Len(y) = Len(s.steps)
    PROVE  Resumes(s, y, Len(s.raw))
<1>1. /\ Len(s.raw) \in Nat /\ DOMAIN s.raw = 1..Len(s.raw)
      /\ Len(s.steps) \in Nat /\ DOMAIN s.steps = 1..Len(s.steps)
  BY LenProperties DEF Session
<1>2. \A k \in 1..Len(s.steps) : s.steps[k] \in 1..Len(s.raw)
  BY <1>1 DEF ShapeOf
<1> QED
  BY <1>1, <1>2 DEF Resumes, ReadTo

-----------------------------------------------------------------------------
(* A step of one call, as the other turns and calls see it.                  *)

\* Call c touches turn t alone, which no other call is on.
Local(c, t) ==
    /\ UNCHANGED arrived
    /\ \A s \in Turns \ {t} : /\ session'[s] = session[s] /\ yielded'[s] = yielded[s]
                              /\ token'[s] = token[s] /\ verdict'[s] = verdict[s]
    /\ tracked' \subseteq tracked \cup {t}
    /\ reports \subseteq reports' /\ \A r \in reports' \ reports : r.turn = t
    /\ \A d \in Calls \ {c} :
          /\ pc'[d] = pc[d] /\ op'[d] = op[d] /\ turn'[d] = turn[d]
          /\ cursor'[d] = cursor[d] /\ mark'[d] = mark[d]
          /\ pc[d] # "idle" => turn[d] # t
    /\ pc[c] # "idle" => turn[c] = t
    /\ pc'[c] # "idle" => turn'[c] = t

\* It leaves the other turns, and what their calls know, as they were.
LEMMA Elsewhere ==
    ASSUME TypeOK, StreamInv, NEW c \in Calls, NEW t \in Turns, Local(c, t)
    PROVE  /\ \A s \in Turns \ {t} : TurnInv(s)'
           /\ \A d \in Calls \ {c} : ReaderInv(d)'
<1>1. ASSUME NEW s \in Turns \ {t} PROVE TurnInv(s)'
  <2>1. TurnInv(s)
    BY DEF StreamInv
  <2>2. /\ session'[s] = session[s] /\ yielded'[s] = yielded[s]
        /\ token'[s] = token[s] /\ verdict'[s] = verdict[s] /\ arrived' = arrived
    BY DEF Local
  <2>3. Settled(s)' <=> Settled(s)
    BY DEF Local, Settled
  <2>4. Streamed(s)' <=> Streamed(s)
    BY DEF Local, Streamed
  <2>5. Busy(s)' <=> Busy(s)
    BY DEF Local, Busy
  <2>6. s \in tracked' => s \in tracked
    BY DEF Local
  <2> QED
    BY <2>1, <2>2, <2>3, <2>4, <2>5, <2>6 DEF TurnInv
<1>2. ASSUME NEW d \in Calls \ {c} PROVE ReaderInv(d)'
  <2>1. ReaderInv(d)
    BY DEF StreamInv
  <2>2. /\ pc'[d] = pc[d] /\ op'[d] = op[d] /\ turn'[d] = turn[d]
        /\ cursor'[d] = cursor[d] /\ mark'[d] = mark[d]
    BY DEF Local
  <2>3. pc[d] # "idle" => turn[d] \in Turns \ {t}
    BY DEF Local, TypeOK
  <2>4. pc[d] # "idle" => /\ session'[turn[d]] = session[turn[d]]
                          /\ yielded'[turn[d]] = yielded[turn[d]]
                          /\ token'[turn[d]] = token[turn[d]]
    BY <2>3 DEF Local
  <2> QED
    BY <2>1, <2>2, <2>4 DEF ReaderInv
<1> QED
  BY <1>1, <1>2

\* Every step of a call is of that kind.
LEMMA LocalOf ==
    ASSUME OneCallPerTurn, TypeOK, HeldInv, NEW c \in Calls, NEW t \in Turns,
           \/ StartTurn(c, t) \/ Resume(c, t) \/ CancelCalled(c, t)
           \/ t = turn[c] /\ pc[c] # "idle" /\ (Abandon(c) \/ TaskStep(c))
    PROVE  Local(c, t)
<1>1. CASE StartTurn(c, t) \/ Resume(c, t) \/ CancelCalled(c, t)
  <2>1. pc[c] = "idle" /\ \A d \in Calls : pc[d] # "idle" => turn[d] # t
    BY <1>1 DEF StartTurn, Resume, CancelCalled, MayCall, OnTurn, Idle
  <2>2. CASE StartTurn(c, t)
    BY <2>1, <2>2 DEF StartTurn, Suspend, Goes, history, Local, TypeOK
  <2>3. CASE Resume(c, t)
    BY <2>1, <2>3 DEF Resume, Continue, Goes, serverVars, history, Local, TypeOK
  <2>4. CASE CancelCalled(c, t)
    BY <2>1, <2>4 DEF CancelCalled, Continue, Goes, serverVars, history, Local, TypeOK
  <2> QED BY <1>1, <2>2, <2>3, <2>4
<1>2. CASE t = turn[c] /\ pc[c] # "idle" /\ (Abandon(c) \/ TaskStep(c))
  <2>0. /\ t = turn[c] /\ pc[c] # "idle"
        /\ \A d \in Calls \ {c} : pc[d] # "idle" => turn[d] # t
    BY <1>2 DEF HeldInv
  <2>1. CASE \/ Abandon(c) \/ StartFails(c) \/ ReadFails(c) \/ InterruptFails(c)
             \/ ConnectionLost(c)
    BY <2>0, <2>1 DEF Abandon, StartFails, ReadFails, InterruptFails, ConnectionLost, GiveUp,
                      Leave, Suspend, Goes, serverVars, history, Local, TypeOK
  <2>2. CASE GoesInactive(c)
    BY <2>0, <2>2 DEF GoesInactive, GiveUp, Leave, Suspend, Goes, serverVars,
                      history, Local, TypeOK
  <2>3. CASE TurnStarted(c) \/ BacklogDone(c) \/ NextRequested(c)
    BY <2>0, <2>3 DEF TurnStarted, BacklogDone, NextRequested, Suspend, Continue, Goes,
                      serverVars, history, Local, TypeOK
  <2>4. CASE \/ OnceReads(c) \/ WaitForEvent(c) \/ PumpedDry(c) \/ InterruptAcked(c)
             \/ ConfirmWaits(c)
    BY <2>0, <2>4 DEF OnceReads, WaitForEvent, ConfirmWaits, PumpedDry, InterruptAcked, Suspend,
                      Continue, Sleep, Goes, serverVars, history, Local, TypeOK
  <2>5. CASE ConfirmTimesOut(c)
    BY <2>0, <2>5 DEF ConfirmTimesOut, GiveUp, Leave, Suspend, Continue, Goes, serverVars,
                      history, Local, TypeOK
  <2>6. CASE YieldBacklog(c)
    BY <2>0, <2>6 DEF YieldBacklog, Yield, Handed, Suspend, Goes, serverVars, Local, TypeOK
  <2>7. CASE EventTaken(c)
    <3>1. \A s \in Turns \ {t} : session'[s] = session[s] /\ yielded'[s] = yielded[s]
      BY <2>0, <2>7 DEF EventTaken, Take, Yield, Handed, TypeOK
    <3>2. \A d \in Calls \ {c} : pc'[d] = pc[d] /\ cursor'[d] = cursor[d]
      BY <2>7 DEF EventTaken, Suspend, Continue, Goes, TypeOK
    <3> QED BY <2>0, <2>7, <3>1, <3>2 DEF EventTaken, serverVars, Local
  <2>8. CASE PumpOne(c) \/ ConfirmWakes(c)
    <3>1. \A s \in Turns \ {t} : session'[s] = session[s]
      BY <2>0, <2>8 DEF PumpOne, ConfirmWakes, Take, TypeOK
    <3> QED
      BY <2>0, <2>8, <3>1 DEF PumpOne, ConfirmWakes, Continue, Goes, serverVars, callVars,
                              history, Local, TypeOK
  <2>9. CASE \/ RaiseFailed(c) \/ StreamEnds(c) \/ OnceResolves(c) \/ ReadAnswered(c)
             \/ CancelReturns(c)
    <3>1. PICK kind : Settle(c, kind)
      BY <2>9 DEF RaiseFailed, StreamEnds, OnceResolves, ReadAnswered, CancelReturns
    <3>2. \A s \in Turns \ {t} : yielded'[s] = yielded[s]
      BY <2>0, <2>9 DEF RaiseFailed, StreamEnds, OnceResolves, ReadAnswered, CancelReturns,
                        Handed, TypeOK
    <3> QED
      BY <2>0, <3>1, <3>2 DEF Settle, Cleanup, Leave, Suspend, Goes, serverVars, Local, TypeOK
  <2> QED
    BY <1>2, <2>1, <2>2, <2>3, <2>4, <2>5, <2>6, <2>7, <2>8, <2>9 DEF TaskStep, Progress
<1> QED
  BY <1>1, <1>2

-----------------------------------------------------------------------------
(* A step of one call, as its own turn sees it.                              *)

\* What holds of a turn and the call on it.
LEMMA HereFacts ==
    ASSUME TypeOK, RoutingInv, StreamInv, NEW c \in Calls, NEW t \in Turns,
           t = turn[c], pc[c] # "idle"
    PROVE  /\ session[t] \in Session /\ yielded[t] \in Seq(Nat)
           /\ session[t].raw \in Seq(Nat) /\ session[t].steps \in Seq(Nat)
           /\ ShapeOf(arrived, session[t]) /\ PrefixOf(yielded[t], session[t].steps)
           /\ token[t].mode = "stream" =>
                 Resumes(session[t], yielded[t], token[t].cursor)
           /\ ~Settled(t) /\ verdict[t] # "none"
           /\ Knows(pc[c], op[c], cursor[c], mark[c], token[t], session[t], yielded[t])
<1>1. Busy(t)
  BY DEF Busy
<1>2. TurnInv(t) /\ ReaderInv(c)
  BY <1>1 DEF StreamInv
<1>3. ~Settled(t) /\ verdict[t] # "none"
  BY <1>1, <1>2, Unsettled
<1>4. session[t] \in Session /\ yielded[t] \in Seq(Nat)
  BY DEF TypeOK
<1>5. session[t].raw \in Seq(Nat) /\ session[t].steps \in Seq(Nat)
  BY <1>4 DEF Session
<1> QED
  BY <1>2, <1>3, <1>4, <1>5 DEF TurnInv, ReaderInv

\* A call leaves, or stays where it is; an inactivity timeout hands out a
\* continuation that goes on where the stream was.
LEMMA LeavesHere ==
    ASSUME TypeOK, RoutingInv, StreamInv, NEW c \in Calls, NEW t \in Turns,
           t = turn[c], pc[c] # "idle",
           \/ Abandon(c) \/ StartFails(c) \/ ReadFails(c) \/ InterruptFails(c)
           \/ ConnectionLost(c) \/ GoesInactive(c) \/ ConfirmTimesOut(c)
    PROVE  TurnInv(t)' /\ ReaderInv(c)'
<1>1. UNCHANGED <<verdict, arrived, session, yielded, reports>>
  BY DEF Abandon, StartFails, ReadFails, InterruptFails, ConnectionLost, GoesInactive,
         ConfirmTimesOut, GiveUp, serverVars, history
<1>2. token'[t].mode = "stream" => Resumes(session[t], yielded[t], token'[t].cursor)
  <2>1. CASE GoesInactive(c)
    <3>1. /\ pc[c] = "waiting" /\ token'[t].mode = op[c] /\ token'[t].cursor = cursor[c]
      BY <2>1 DEF GoesInactive, TypeOK
    <3>2. op[c] = "stream" =>
             Len(yielded[t]) = Len(session[t].steps) /\ cursor[c] = Len(session[t].raw)
      BY <3>1, HereFacts DEF Knows
    <3> QED BY <3>1, <3>2, HereFacts, AllRead
  <2>2. CASE ~GoesInactive(c)
    <3>1. UNCHANGED token
      BY <2>2 DEF Abandon, StartFails, ReadFails, InterruptFails, ConnectionLost,
                  ConfirmTimesOut
    <3> QED BY <3>1, HereFacts
  <2> QED BY <2>1, <2>2
<1>3. TurnInv(t)'
  BY <1>1, <1>2, HereFacts, TurnHere
<1>4. ReaderInv(c)'
  <2>1. CASE ConfirmTimesOut(c) /\ Terminal(session[t])
    <3>1. /\ pc[c] = "confirming" /\ pc'[c] = "confirm"
          /\ UNCHANGED <<op, turn, cursor, mark, token>>
      BY <2>1 DEF ConfirmTimesOut, Continue, Goes, TypeOK
    <3>2. Knows(pc'[c], op[c], cursor[c], mark[c], token[t], session[t], yielded[t])
      BY <3>1, HereFacts DEF Knows, ChatPlaces
    <3> QED BY <1>1, <3>1, <3>2 DEF ReaderInv
  <2>2. CASE ~(ConfirmTimesOut(c) /\ Terminal(session[t]))
    <3>1. pc'[c] = "idle"
      BY <2>2 DEF Abandon, StartFails, ReadFails, InterruptFails, ConnectionLost,
                  GoesInactive, ConfirmTimesOut, GiveUp, Leave, Suspend, Goes, TypeOK
    <3> QED BY <3>1 DEF ReaderInv
  <2> QED BY <2>1, <2>2
<1> QED
  BY <1>3, <1>4

\* A call goes on without handing anything out.
LEMMA GoesOnHere ==
    ASSUME TypeOK, RoutingInv, StreamInv, NEW c \in Calls, NEW t \in Turns,
           t = turn[c], pc[c] # "idle",
           \/ TurnStarted(c) \/ BacklogDone(c) \/ NextRequested(c) \/ OnceReads(c)
           \/ WaitForEvent(c) \/ PumpedDry(c) \/ InterruptAcked(c) \/ ConfirmWaits(c)
    PROVE  TurnInv(t)' /\ ReaderInv(c)'
<1>1. UNCHANGED <<verdict, arrived, session, yielded, reports, token, op, turn>>
  BY DEF TurnStarted, BacklogDone, NextRequested, OnceReads, WaitForEvent, PumpedDry,
         InterruptAcked, ConfirmWaits, serverVars, history
<1>2. TurnInv(t)'
  BY <1>1, HereFacts, TurnHere
<1>3. PICK s, y : s = session[t] /\ y = yielded[t]
  OBVIOUS
<1>4. /\ Len(s.raw) \in Nat /\ DOMAIN s.raw = 1..Len(s.raw)
      /\ Len(s.steps) \in Nat /\ DOMAIN s.steps = 1..Len(s.steps) /\ Len(y) \in Nat
  BY <1>3, HereFacts, LenProperties
<1>5. /\ ShapeOf(arrived, s) /\ PrefixOf(y, s.steps)
      /\ Knows(pc[c], op[c], cursor[c], mark[c], token[t], s, y)
  BY <1>3, HereFacts
<1>6. Knows(pc'[c], op[c], cursor'[c], mark'[c], token[t], s, y)
  <2>1. CASE TurnStarted(c)
    <3>1. /\ pc[c] = "starting" /\ UNCHANGED <<cursor, mark>>
          /\ pc'[c] = IF op[c] = "stream" THEN "backlog" ELSE "top"
      BY <2>1 DEF TurnStarted, Continue, Goes, TypeOK
    <3>2. y = <<>> /\ cursor[c] = 0 /\ mark[c] = 1
      BY <1>5, <3>1 DEF Knows
    <3>3. \A k \in 1..Len(s.steps) : s.steps[k] \in 1..Len(s.raw)
      BY <1>4, <1>5 DEF ShapeOf
    <3>4. Len(y) = 0
      BY <3>2
    <3>5. ReadTo(y, s.steps, mark[c], cursor[c])
      BY <1>4, <3>2, <3>3, <3>4 DEF ReadTo
    <3> QED BY <1>5, <3>1, <3>5 DEF Knows, ChatPlaces
  <2>2. CASE BacklogDone(c)
    <3>1. /\ pc[c] = "backlog" /\ pc'[c] = "top" /\ Unyielded(c) = {}
          /\ cursor'[c] = Len(s.raw)
      BY <1>3, <2>2 DEF BacklogDone, Continue, Goes, TypeOK
    <3>2. ReadTo(y, s.steps, mark[c], cursor[c])
      BY <1>5, <3>1 DEF Knows
    <3>3. ASSUME NEW k \in 1..Len(s.steps) PROVE k <= Len(y)
      <4>1. ~(k >= mark[c] /\ s.steps[k] > cursor[c])
        BY <1>3, <1>4, <3>1 DEF Unyielded
      <4>2. s.steps[k] \in Nat /\ cursor[c] \in Nat /\ mark[c] \in Nat
        BY <1>3, <1>4, HereFacts, ElementOfSeq DEF TypeOK
      <4> QED BY <3>2, <4>1, <4>2 DEF ReadTo
    <3>4. Len(y) = Len(s.steps)
      <4>1. Len(y) <= Len(s.steps)
        BY <1>5 DEF PrefixOf
      <4>2. CASE Len(s.steps) = 0
        BY <1>4, <4>1, <4>2
      <4>3. CASE Len(s.steps) # 0
        <5>1. Len(s.steps) <= Len(y)
          BY <1>4, <3>3, <4>3
        <5> QED BY <1>4, <4>1, <5>1
      <4> QED BY <4>2, <4>3
    <3> QED BY <1>5, <3>1, <3>4 DEF Knows, ChatPlaces
  <2>3. CASE NextRequested(c)
    BY <1>5, <2>3 DEF NextRequested, Continue, Goes, Knows, ChatPlaces, TypeOK
  <2>4. CASE OnceReads(c) \/ WaitForEvent(c)
    BY <1>5, <2>4 DEF OnceReads, WaitForEvent, Looks, AtTop, Suspend, Sleep, Goes, Knows,
                      ChatPlaces, TypeOK
  <2>5. CASE PumpedDry(c) \/ InterruptAcked(c) \/ ConfirmWaits(c)
    BY <1>5, <2>5 DEF PumpedDry, InterruptAcked, ConfirmWaits, LooksForEnd, Suspend, Continue,
                      Sleep, Goes, Knows, ChatPlaces, TypeOK
  <2> QED BY <2>1, <2>2, <2>3, <2>4, <2>5
<1>7. ReaderInv(c)'
  BY <1>1, <1>3, <1>6 DEF ReaderInv
<1> QED
  BY <1>2, <1>7

\* chat yields a recorded step.
LEMMA YieldHere ==
    ASSUME OneCallPerTurn, TypeOK, RoutingInv, StreamInv, NEW c \in Calls, NEW t \in Turns,
           t = turn[c], YieldBacklog(c)
    PROVE  TurnInv(t)' /\ ReaderInv(c)'
<1>1. /\ pc[c] = "backlog" /\ pc'[c] = "yieldedBacklog"
      /\ UNCHANGED <<verdict, arrived, session, reports, token, op, turn, cursor>>
  BY DEF YieldBacklog, Suspend, Goes, serverVars, TypeOK
<1>2. PICK s, y, m, seen : s = session[t] /\ y = yielded[t] /\ m = mark[c] /\ seen = cursor[c]
  OBVIOUS
<1>3. PICK k \in Unyielded(c) :
         /\ \A j \in Unyielded(c) : k <= j
         /\ mark' = [mark EXCEPT ![c] = k + 1] /\ Yield(t, s.steps[k])
  BY <1>2 DEF YieldBacklog
<1>4. /\ Len(s.steps) \in Nat /\ DOMAIN s.steps = 1..Len(s.steps) /\ Len(y) \in Nat
      /\ s.steps \in Seq(Nat) /\ y \in Seq(Nat) /\ m \in Nat /\ seen \in Nat
      /\ \A j \in 1..Len(s.steps) : s.steps[j] \in Nat
  BY <1>1, <1>2, HereFacts, LenProperties, ElementOfSeq DEF TypeOK
<1>5. /\ ShapeOf(arrived, s) /\ PrefixOf(y, s.steps)
      /\ Knows("backlog", op[c], seen, m, token[t], s, y)
  BY <1>1, <1>2, HereFacts
<1>6. op[c] = "stream" /\ token[t].mode = "none" /\ ReadTo(y, s.steps, m, seen)
  BY <1>5 DEF Knows
<1>7. k \in 1..Len(s.steps) /\ k >= m /\ s.steps[k] > seen
  BY <1>2, <1>3, <1>4 DEF Unyielded
<1>8. \A j \in 1..Len(s.steps) : j >= m /\ s.steps[j] > seen => k <= j
  BY <1>2, <1>3, <1>4 DEF Unyielded
<1>9. \A j \in 1..Len(s.steps) : j <= Len(y) <=> j < m \/ s.steps[j] <= seen
  BY <1>6 DEF ReadTo
<1>10. k = Len(y) + 1
  <2>1. ~(k <= Len(y))
    BY <1>4, <1>7, <1>9
  <2>2. k - 1 <= Len(y)
    <3>1. CASE k = 1
      BY <1>4, <3>1
    <3>2. CASE k # 1
      <4>1. k - 1 \in 1..Len(s.steps) /\ ~(k <= k - 1)
        BY <1>4, <1>7, <3>2
      <4>2. ~(k - 1 >= m /\ s.steps[k - 1] > seen)
        BY <1>8, <4>1
      <4>3. s.steps[k - 1] \in Nat /\ k - 1 \in Nat
        BY <1>4, <4>1
      <4> QED BY <1>4, <1>9, <4>1, <4>2, <4>3
    <3> QED BY <3>1, <3>2
  <2> QED BY <1>4, <1>7, <2>1, <2>2
<1>11. PICK z : z = y \o <<s.steps[k]>>
  OBVIOUS
<1>12. Len(z) = k /\ PrefixOf(z, s.steps)
  BY <1>4, <1>5, <1>7, <1>10, <1>11, YieldPrefix
<1>13. yielded'[t] = z /\ mark'[c] = k + 1
  BY <1>2, <1>3, <1>11 DEF Yield, Handed, TypeOK
<1>14. ReadTo(z, s.steps, k + 1, seen)
  <2>1. ASSUME NEW j \in 1..Len(s.steps), s.steps[j] <= seen PROVE j <= k
    <3>1. k < j => s.steps[k] < s.steps[j]
      BY <1>4, <1>5, <1>7 DEF ShapeOf
    <3>2. s.steps[j] \in Nat /\ s.steps[k] \in Nat
      <4>1. k \in 1..Len(s.steps)
        BY <1>4, <1>7
      <4> QED BY <1>4, <4>1
    <3>3. seen \in Nat /\ k \in Nat
      BY <1>4, <1>7
    <3> QED BY <1>7, <2>1, <3>1, <3>2, <3>3
  <2>2. Len(z) = k /\ k + 1 - 1 = k /\ k \in Nat
    BY <1>4, <1>7, <1>12
  <2> QED BY <1>4, <1>7, <2>1, <2>2 DEF ReadTo
<1>15. TurnInv(t)'
  BY <1>1, <1>2, <1>6, <1>12, <1>13, HereFacts, TurnHere
<1>16. Knows("yieldedBacklog", op[c], seen, k + 1, token[t], s, z)
  BY <1>6, <1>14 DEF Knows, ChatPlaces
<1>17. ReaderInv(c)'
  BY <1>1, <1>2, <1>13, <1>16 DEF ReaderInv
<1> QED
  BY <1>15, <1>17

\* chat, or chat_once, takes an event; chat yields the step it recorded.
LEMMA EventHere ==
    ASSUME OneCallPerTurn, TypeOK, RoutingInv, StreamInv, NEW c \in Calls, NEW t \in Turns,
           t = turn[c], EventTaken(c)
    PROVE  TurnInv(t)' /\ ReaderInv(c)'
<1>1. /\ pc[c] \in {"top", "waiting"} /\ cursor'[c] = Len(session[t].raw) + 1
      /\ UNCHANGED <<verdict, arrived, reports, token, op, turn, mark>>
  BY DEF EventTaken, Looks, AtTop, serverVars, TypeOK
<1>2. PICK i \in deferred :
         /\ Take(t, i)
         /\ IF op[c] = "stream" /\ IsNewStep(session[t], arrived[i])
            THEN Yield(t, Len(session[t].raw) + 1) /\ Suspend(c, "yieldedLive")
            ELSE Continue(c, "top") /\ UNCHANGED yielded
  BY DEF EventTaken
<1>3. PICK s, y, a : s = session[t] /\ y = yielded[t] /\ a = Apply(s, i)
  OBVIOUS
<1>4. i \in DOMAIN arrived /\ i \in Nat /\ session'[t] = a
  BY <1>2, <1>3, LenProperties DEF Take, TypeOK
<1>5. /\ s \in Session /\ y \in Seq(Nat) /\ ShapeOf(arrived, s) /\ PrefixOf(y, s.steps)
      /\ Knows(pc[c], op[c], cursor[c], mark[c], token[t], s, y)
  BY <1>1, <1>3, HereFacts
<1>6. op[c] \in {"once", "stream"} /\ token[t].mode = "none"
  BY <1>1, <1>5 DEF Knows, TypeOK, ChatPlaces
<1>7. ShapeOf(arrived, a) /\ PrefixOf(y, a.steps) /\ Len(a.raw) = Len(s.raw) + 1
  <2>1. ShapeOf(arrived, a)
    BY <1>3, <1>4, <1>5, ApplyShape
  <2>2. PrefixOf(y, a.steps)
    BY <1>3, <1>4, <1>5, ApplyReads
  <2>3. Len(a.raw) = Len(s.raw) + 1
    BY <1>3, <1>4, <1>5, ApplyParts
  <2> QED BY <2>1, <2>2, <2>3
<1>8. CASE op[c] = "stream" /\ IsNewStep(s, arrived[i])
  <2>1. PICK z : z = y \o <<Len(s.raw) + 1>>
    OBVIOUS
  <2>2. Len(y) = Len(s.steps)
    BY <1>1, <1>5, <1>8 DEF Knows
  <2>3. Len(z) = Len(a.steps) /\ PrefixOf(z, a.steps)
    BY <1>3, <1>4, <1>5, <1>8, <2>1, <2>2, YieldLast
  <2>4. yielded'[t] = z /\ pc'[c] = "yieldedLive"
    BY <1>2, <1>3, <1>8, <2>1 DEF Yield, Handed, Suspend, Goes, TypeOK
  <2>5. TurnInv(t)'
    BY <1>1, <1>4, <1>6, <1>7, <2>3, <2>4, HereFacts, TurnHere
  <2>6. Knows("yieldedLive", op[c], Len(s.raw) + 1, mark[c], token[t], a, z)
    BY <1>6, <1>7, <1>8, <2>3 DEF Knows, ChatPlaces
  <2>7. ReaderInv(c)'
    BY <1>1, <1>3, <1>4, <2>4, <2>6 DEF ReaderInv
  <2> QED BY <2>5, <2>7
<1>9. CASE ~(op[c] = "stream" /\ IsNewStep(s, arrived[i]))
  <2>1. yielded'[t] = y /\ pc'[c] = "top"
    BY <1>2, <1>3, <1>9 DEF Continue, Goes, TypeOK
  <2>2. op[c] = "stream" => Len(y) = Len(a.steps)
    <3>1. op[c] = "stream" => Len(y) = Len(s.steps)
      BY <1>1, <1>5 DEF Knows
    <3>2. ~IsNewStep(s, arrived[i]) => a.steps = s.steps
      BY <1>3, <1>4, <1>5, ApplyParts
    <3> QED BY <1>9, <3>1, <3>2
  <2>3. TurnInv(t)'
    BY <1>1, <1>4, <1>6, <1>7, <2>1, HereFacts, TurnHere
  <2>4. Knows("top", op[c], Len(s.raw) + 1, mark[c], token[t], a, y)
    BY <1>6, <1>7, <2>2 DEF Knows, ChatPlaces
  <2>5. ReaderInv(c)'
    BY <1>1, <1>3, <1>4, <2>1, <2>4 DEF ReaderInv
  <2> QED BY <2>3, <2>5
<1> QED
  BY <1>3, <1>8, <1>9

\* cancel takes an event and hands nothing out yet.
LEMMA PumpHere ==
    ASSUME TypeOK, RoutingInv, StreamInv, NEW c \in Calls, NEW t \in Turns,
           t = turn[c], pc[c] # "idle", PumpOne(c) \/ ConfirmWakes(c)
    PROVE  TurnInv(t)' /\ ReaderInv(c)'
<1>1. /\ pc[c] \notin ChatPlaces /\ pc'[c] \in {"draining", "confirm"}
      /\ UNCHANGED <<verdict, arrived, reports, token, op, turn, cursor, mark, yielded>>
  BY DEF PumpOne, Pumping, ConfirmWakes, Continue, Goes, serverVars, callVars, history,
         ChatPlaces, TypeOK
<1>2. PICK i \in deferred : Take(t, i)
  BY DEF PumpOne, ConfirmWakes
<1>3. PICK s, y, a : s = session[t] /\ y = yielded[t] /\ a = Apply(s, i)
  OBVIOUS
<1>4. i \in DOMAIN arrived /\ i \in Nat /\ session'[t] = a
  BY <1>2, <1>3, LenProperties DEF Take, TypeOK
<1>5. /\ s \in Session /\ y \in Seq(Nat) /\ ShapeOf(arrived, s) /\ PrefixOf(y, s.steps)
      /\ token[t].mode = "stream" => Resumes(s, y, token[t].cursor)
      /\ Knows(pc[c], op[c], cursor[c], mark[c], token[t], s, y)
  BY <1>3, HereFacts
<1>6. op[c] = "cancel" /\ cursor[c] = token[t].cursor /\ token[t].cursor \in Nat
  BY <1>1, <1>5 DEF Knows, TypeOK
<1>7. ShapeOf(arrived, a) /\ PrefixOf(y, a.steps)
  <2>1. ShapeOf(arrived, a)
    BY <1>3, <1>4, <1>5, ApplyShape
  <2>2. PrefixOf(y, a.steps)
    BY <1>3, <1>4, <1>5, ApplyReads
  <2> QED BY <2>1, <2>2
<1>8. token[t].mode = "stream" => Resumes(a, y, token[t].cursor)
  BY <1>3, <1>4, <1>5, <1>6, ApplyReads DEF Resumes
<1>9. TurnInv(t)'
  BY <1>1, <1>3, <1>4, <1>7, <1>8, HereFacts, TurnHere
<1>10. Knows(pc'[c], op[c], cursor[c], mark[c], token[t], a, y)
  BY <1>1, <1>6 DEF Knows, ChatPlaces
<1>11. ReaderInv(c)'
  BY <1>1, <1>3, <1>4, <1>10 DEF ReaderInv
<1> QED
  BY <1>9, <1>11

\* A call on a turn begins: a start, a continuation that is resumed, a cancel.
LEMMA BeginsHere ==
    ASSUME OneCallPerTurn, TypeOK, RoutingInv, StreamInv, NEW c \in Calls, NEW t \in Turns,
           StartTurn(c, t) \/ Resume(c, t) \/ CancelCalled(c, t)
    PROVE  TurnInv(t)' /\ ReaderInv(c)'
<1>1. UNCHANGED <<arrived, session, yielded, reports>> /\ turn'[c] = t /\ mark'[c] = 1
  BY DEF StartTurn, Resume, CancelCalled, serverVars, history, TypeOK
<1>2. PICK s, y, k : s = session[t] /\ y = yielded[t] /\ k = token[t]
  OBVIOUS
<1>3. /\ ShapeOf(arrived, s) /\ PrefixOf(y, s.steps)
      /\ k.mode = "stream" /\ ~Settled(t) => Resumes(s, y, k.cursor)
      /\ verdict[t] = "none" => k.mode = "none" /\ y = <<>>
      /\ Settled(t) => t \notin tracked /\ verdict[t] # "none"
  BY <1>2 DEF StreamInv, TurnInv
<1>4. k.mode \in {"none", "once", "stream"} /\ k.cursor \in Nat
  BY <1>2 DEF TypeOK
<1>5. CASE StartTurn(c, t)
  <2>1. /\ verdict[t] = "none" /\ verdict'[t] = "running" /\ UNCHANGED token
        /\ op'[c] \in {"once", "stream"} /\ cursor'[c] = 0 /\ pc'[c] = "starting"
    BY <1>5 DEF StartTurn, Suspend, Goes, TypeOK
  <2>2. TurnInv(t)'
    BY <1>1, <1>2, <1>3, <2>1, TurnHere
  <2>3. Knows(pc'[c], op'[c], cursor'[c], mark'[c], k, s, y)
    BY <1>1, <1>3, <2>1 DEF Knows, ChatPlaces
  <2> QED BY <1>1, <1>2, <2>1, <2>2, <2>3 DEF ReaderInv
<1>6. CASE Resume(c, t)
  <2>1. /\ t \in tracked /\ k.mode # "none" /\ UNCHANGED verdict /\ token'[t] = NoToken
        /\ op'[c] = k.mode /\ cursor'[c] = k.cursor
        /\ pc'[c] = IF k.mode = "stream" THEN "backlog" ELSE "top"
    BY <1>2, <1>6 DEF Resume, Continue, Goes, serverVars, TypeOK
  <2>2. ~Settled(t) /\ verdict[t] # "none"
    BY <1>2, <1>3, <2>1
  <2>3. TurnInv(t)'
    BY <1>1, <1>2, <1>3, <2>1, <2>2, TurnHere DEF NoToken
  <2>4. k.mode = "stream" => ReadTo(y, s.steps, 1, k.cursor)
    BY <1>3, <2>2 DEF Resumes, ReadTo
  <2>5. Knows(pc'[c], op'[c], cursor'[c], mark'[c], NoToken, s, y)
    BY <1>1, <1>4, <2>1, <2>4 DEF Knows, ChatPlaces, NoToken
  <2> QED BY <1>1, <1>2, <2>1, <2>3, <2>5 DEF ReaderInv
<1>7. CASE CancelCalled(c, t)
  <2>1. /\ t \in tracked /\ UNCHANGED <<verdict, token>>
        /\ op'[c] = "cancel" /\ cursor'[c] = k.cursor /\ pc'[c] = "draining"
    BY <1>2, <1>7 DEF CancelCalled, Continue, Goes, serverVars, TypeOK
  <2>2. ~Settled(t) /\ verdict[t] # "none"
    BY <1>3, <2>1, Unsettled DEF StreamInv
  <2>3. TurnInv(t)'
    BY <1>1, <1>2, <1>3, <2>1, <2>2, TurnHere
  <2>4. Knows(pc'[c], op'[c], cursor'[c], mark'[c], k, s, y)
    BY <1>1, <2>1 DEF Knows, ChatPlaces
  <2> QED BY <1>1, <1>2, <2>1, <2>3, <2>4 DEF ReaderInv
<1> QED
  BY <1>5, <1>6, <1>7

\* A call settles its turn; a stream that ends has handed out every step.
LEMMA SettlesHere ==
    ASSUME OneCallPerTurn, TypeOK, RoutingInv, StreamInv, NEW c \in Calls, NEW t \in Turns,
           t = turn[c], pc[c] # "idle", Local(c, t),
           \/ RaiseFailed(c) \/ StreamEnds(c) \/ OnceResolves(c) \/ ReadAnswered(c)
           \/ CancelReturns(c)
    PROVE  TurnInv(t)' /\ ReaderInv(c)'
<1>1. PICK kind : Settle(c, kind) /\ (~StreamEnds(c) => op[c] # "stream" \/ kind # "ok")
  <2>1. ReadAnswered(c) \/ OnceResolves(c) \/ CancelReturns(c) => op[c] # "stream"
    BY HereFacts DEF ReadAnswered, OnceResolves, CancelReturns, Pumping, Knows, ChatPlaces
  <2> QED
    BY <2>1 DEF RaiseFailed, StreamEnds, OnceResolves, ReadAnswered, CancelReturns
<1>2. /\ UNCHANGED <<verdict, arrived, session, token>> /\ pc'[c] = "idle"
      /\ t \notin tracked' /\ reports' = reports \cup {[turn |-> t, op |-> op[c], kind |-> kind]}
  BY <1>1 DEF Settle, Cleanup, Leave, Suspend, Goes, serverVars, TypeOK
<1>3. Settled(t)' /\ ~Busy(t)'
  <2>1. \A d \in Calls : pc'[d] # "idle" => turn'[d] # t
    BY <1>2 DEF Local
  <2>2. \E r \in reports' : r.turn = t
    <3>1. PICK r : r = [turn |-> t, op |-> op[c], kind |-> kind]
      OBVIOUS
    <3>2. r \in reports' /\ r.turn = t
      BY <1>2, <3>1
    <3> QED BY <3>2
  <2> QED BY <2>1, <2>2 DEF Settled, Busy
<1>4. PrefixOf(yielded'[t], session[t].steps)
  <2>1. CASE yielded'[t] = yielded[t]
    BY <2>1, HereFacts
  <2>2. CASE yielded'[t] # yielded[t]
    <3>1. /\ CancelReturns(c) /\ token[t].mode = "stream" /\ Handed(t, UnreadSteps(c))
      BY <2>2 DEF RaiseFailed, StreamEnds, OnceResolves, ReadAnswered, CancelReturns
    <3>2. yielded'[t] = yielded[t] \o UnreadSteps(c)
      BY <3>1 DEF Handed, TypeOK
    <3>3. op[c] = "cancel" /\ cursor[c] = token[t].cursor
      BY <3>1, HereFacts DEF CancelReturns, Pumping, Knows, ChatPlaces
    <3>4. ReadTo(yielded[t], session[t].steps, 0, cursor[c])
      BY <3>1, <3>3, HereFacts DEF Resumes
    <3> QED BY <3>2, <3>4, HereFacts, UnreadRest
  <2> QED BY <2>1, <2>2
<1>5. Streamed(t)' => session[t].completed /\ Len(yielded'[t]) = Len(session[t].steps)
  <2>1. ~Streamed(t)
    BY HereFacts DEF Streamed, Settled
  <2>2. Streamed(t)' => op[c] = "stream" /\ kind = "ok"
    BY <1>2, <2>1 DEF Streamed
  <2>3. StreamEnds(c) => /\ session[t].completed /\ UNCHANGED yielded
                         /\ Len(yielded[t]) = Len(session[t].steps)
    BY HereFacts DEF StreamEnds, AtTop, Knows
  <2> QED BY <1>1, <2>2, <2>3
<1>6. TurnInv(t)'
  BY <1>2, <1>3, <1>4, <1>5, HereFacts DEF TurnInv
<1>7. ReaderInv(c)'
  BY <1>2 DEF ReaderInv
<1> QED
  BY <1>6, <1>7

-----------------------------------------------------------------------------
(* Every step.                                                               *)

\* The server and the client keep StreamInv.
LEMMA OtherSteps ==
    ASSUME TypeOK, StreamInv, ServerStep \/ ClientStep \/ UNCHANGED vars
    PROVE  StreamInv'
<1>1. /\ UNCHANGED <<session, token, yielded, reports, pc, op, turn, cursor, mark>>
      /\ tracked' \subseteq tracked
      /\ \A t \in Turns : verdict'[t] = "none" <=> verdict[t] = "none"
  <2>1. CASE ServerStep
    <3>1. PICK t \in Turns : EmitItem(t) \/ EmitTerminal(t) \/ EmitEcho(t)
      BY <2>1 DEF ServerStep
    <3>2. UNCHANGED <<session, token, yielded, reports, pc, op, turn, cursor, mark, tracked>>
      BY <3>1 DEF EmitItem, EmitTerminal, EmitEcho, Publish, callVars, history
    <3>3. \/ UNCHANGED verdict
          \/ /\ verdict[t] = "running"
             /\ \E kind \in TerminalKinds : verdict' = [verdict EXCEPT ![t] = VerdictOf(kind)]
      BY <3>1 DEF EmitItem, EmitTerminal, EmitEcho
    <3>4. \A kind \in TerminalKinds : VerdictOf(kind) # "none"
      BY DEF VerdictOf, TerminalKinds, CompletedKinds
    <3> QED BY <3>2, <3>3, <3>4 DEF TypeOK
  <2>2. CASE ClientStep \/ UNCHANGED vars
    BY <2>2 DEF ClientStep, ReceiverFails, CloseBegins, CloseClears, serverVars, callVars,
                history, vars
  <2> QED BY <2>1, <2>2
<1>2. ASSUME NEW t \in Turns PROVE ShapeOf(arrived', session[t])
  <2>1. ShapeOf(arrived, session[t])
    BY DEF StreamInv, TurnInv
  <2>2. CASE UNCHANGED arrived
    BY <2>1, <2>2
  <2>3. CASE arrived' # arrived
    <3>1. PICK e : arrived' = Append(arrived, e)
      BY <2>3 DEF ServerStep, EmitItem, EmitTerminal, EmitEcho, Publish, ClientStep,
                  ReceiverFails, CloseBegins, CloseClears, serverVars, vars
    <3>2. arrived \in Seq(Event \cup {e})
      BY SeqMonotonic DEF TypeOK
    <3> QED BY <2>1, <3>1, <3>2, PublishShape
  <2> QED BY <2>2, <2>3
<1>3. ASSUME NEW t \in Turns PROVE TurnInv(t)'
  BY <1>1, <1>2 DEF StreamInv, TurnInv, Settled, Streamed, Busy
<1>4. ASSUME NEW c \in Calls PROVE ReaderInv(c)'
  BY <1>1 DEF StreamInv, ReaderInv
<1> QED
  BY <1>3, <1>4 DEF StreamInv

\* Every step keeps StreamInv.
LEMMA StreamNext ==
    ASSUME OneCallPerTurn
    PROVE  TypeOK /\ RoutingInv /\ HeldInv /\ StreamInv /\ [Next]_vars => StreamInv'
<1> SUFFICES ASSUME TypeOK, RoutingInv, HeldInv, StreamInv, [Next]_vars PROVE StreamInv'
  OBVIOUS
<1>1. ASSUME NEW c \in Calls, NEW t \in Turns, Local(c, t), TurnInv(t)' /\ ReaderInv(c)'
      PROVE  StreamInv'
  BY <1>1, Elsewhere DEF StreamInv
<1>2. ASSUME NEW c \in Calls, NEW t \in Turns,
             StartTurn(c, t) \/ Resume(c, t) \/ CancelCalled(c, t)
      PROVE  StreamInv'
  BY <1>1, <1>2, LocalOf, BeginsHere
<1>3. ASSUME NEW c \in Calls, Abandon(c) \/ TaskStep(c) PROVE StreamInv'
  <2>1. pc[c] # "idle"
    BY <1>3 DEF Abandon, Idle, TaskStep, Progress, TurnStarted, StartFails, YieldBacklog,
                BacklogDone, NextRequested, RaiseFailed, StreamEnds, OnceResolves,
                OnceReads, ReadAnswered, ReadFails, WaitForEvent, EventTaken, GoesInactive,
                ConnectionLost, AtTop, PumpOne, PumpedDry, Pumping, InterruptAcked,
                InterruptFails, ConfirmWakes, ConfirmWaits, ConfirmTimesOut, CancelReturns,
                Looks, LooksForEnd
  <2>2. PICK t \in Turns : t = turn[c]
    BY <2>1 DEF TypeOK
  <2>3. Local(c, t)
    BY <1>3, <2>1, <2>2, LocalOf
  <2>4. TurnInv(t)' /\ ReaderInv(c)'
    BY <1>3, <2>1, <2>2, <2>3, LeavesHere, GoesOnHere, YieldHere, EventHere, PumpHere,
       SettlesHere DEF TaskStep, Progress
  <2> QED BY <1>1, <2>3, <2>4
<1> QED
  BY <1>2, <1>3, OtherSteps DEF Next, AppStep

\* Nothing was handed out in the initial state.
LEMMA StreamInit == Init => StreamInv /\ EndInv /\ HeldInv
<1> SUFFICES ASSUME Init PROVE StreamInv /\ EndInv /\ HeldInv
  OBVIOUS
<1>1. DOMAIN <<>> = {} /\ Len(<<>>) = 0
  BY EmptySeq
<1>2. ASSUME NEW t \in Turns PROVE TurnInv(t)
  BY <1>1 DEF Init, TurnInv, NewSession, NoToken, ShapeOf, PrefixOf, Settled, Streamed, Busy
<1> QED
  BY <1>1, <1>2 DEF Init, StreamInv, ReaderInv, EndInv, HeldInv, NewSession, Terminal

-----------------------------------------------------------------------------
(* What the application is handed.                                           *)

\* A beginning of the steps has no repetition; all of them are all the items.
LEMMA StepsSuffice ==
    ASSUME TypeOK, OwnEventsOnly, EndInv, StreamInv
    PROVE  StreamExactlyOnce
<1> SUFFICES ASSUME NEW t \in Turns
             PROVE  /\ \A j, k \in DOMAIN yielded[t] : j < k => yielded[t][j] < yielded[t][k]
                    /\ \A j, k \in DOMAIN yielded[t] :
                          YieldedItems(t)[j] = YieldedItems(t)[k]
                             => j = k \/ YieldedItems(t)[j] = NoId
                    /\ Streamed(t) => RangeOf(YieldedItems(t)) = ToldItems(t)
  BY DEF StreamExactlyOnce, YieldedItems, Streamed
<1>1. PICK raw, steps, y, n, m, l, items :
         /\ raw = session[t].raw /\ steps = session[t].steps /\ y = yielded[t]
         /\ n = Len(raw) /\ m = Len(steps) /\ l = Len(y) /\ items = YieldedItems(t)
  OBVIOUS
<1>2. /\ n \in Nat /\ m \in Nat /\ l \in Nat
      /\ DOMAIN raw = 1..n /\ DOMAIN steps = 1..m /\ DOMAIN y = 1..l
  <2>1. raw \in Seq(Nat) /\ steps \in Seq(Nat) /\ y \in Seq(Nat)
    BY <1>1 DEF TypeOK, Session
  <2> QED BY <1>1, <2>1, LenProperties
<1>3. /\ \A k \in 1..m : steps[k] \in 1..n /\ arrived[raw[steps[k]]].kind \in ItemKinds
      /\ \A j, k \in 1..m : j < k => steps[j] < steps[k]
      /\ \A j, k \in 1..m : arrived[raw[steps[j]]].item = arrived[raw[steps[k]]].item
            => j = k \/ arrived[raw[steps[j]]].item = NoId
      /\ \A j \in 1..n : arrived[raw[j]].kind \in ItemKinds =>
            \E k \in 1..m : arrived[raw[steps[k]]].item = arrived[raw[j]].item
  <2>1. ShapeOf(arrived, session[t])
    BY DEF StreamInv, TurnInv
  <2>2. DOMAIN raw = 1..n /\ DOMAIN steps = 1..m
    BY <1>2
  <2>3. /\ \A k \in DOMAIN steps : /\ steps[k] \in DOMAIN raw
                                    /\ arrived[raw[steps[k]]].kind \in ItemKinds
        /\ \A j, k \in DOMAIN steps : j < k => steps[j] < steps[k]
    BY <1>1, <2>1 DEF ShapeOf
  <2>4. \A j, k \in DOMAIN steps :
           arrived[raw[steps[j]]].item = arrived[raw[steps[k]]].item
              => j = k \/ arrived[raw[steps[j]]].item = NoId
    BY <1>1, <2>1 DEF ShapeOf
  <2>5. \A j \in DOMAIN raw : arrived[raw[j]].kind \in ItemKinds =>
           \E k \in DOMAIN steps : arrived[raw[steps[k]]].item = arrived[raw[j]].item
    BY <1>1, <2>1 DEF ShapeOf
  <2> QED BY <2>2, <2>3, <2>4, <2>5, Zenon
<1>4. l <= m /\ \A k \in 1..l : k \in 1..m /\ y[k] = steps[k]
  BY <1>1, <1>2 DEF StreamInv, TurnInv, PrefixOf
<1>5. DOMAIN items = 1..l /\ \A k \in 1..l : items[k] = arrived[raw[steps[k]]].item
  BY <1>1, <1>2, <1>4 DEF YieldedItems
<1>6. \A j, k \in 1..l : j < k => y[j] < y[k]
  BY <1>3, <1>4
<1>7. \A j, k \in 1..l : items[j] = items[k] => j = k \/ items[j] = NoId
  BY <1>3, <1>4, <1>5
<1>8. ASSUME Streamed(t) PROVE RangeOf(items) = ToldItems(t)
  <2>1. session[t].completed /\ l = m
    BY <1>1, <1>8 DEF StreamInv, TurnInv
  <2>2. ASSUME NEW x \in RangeOf(items) PROVE x \in ToldItems(t)
    <3>1. PICK k \in 1..l : x = items[k]
      BY <1>5 DEF RangeOf
    <3>2. steps[k] \in 1..n /\ arrived[raw[steps[k]]].kind \in ItemKinds
      BY <1>3, <1>4, <3>1
    <3>3. raw[steps[k]] \in Own(t)
      BY <1>1, <1>2, <3>2 DEF OwnEventsOnly, RangeOf
    <3> QED BY <1>5, <3>1, <3>2, <3>3 DEF ToldItems, ItemEvents
  <2>3. ASSUME NEW x \in ToldItems(t) PROVE x \in RangeOf(items)
    <3>1. PICK i \in Own(t) : arrived[i].kind \in ItemKinds /\ x = arrived[i].item
      BY DEF ToldItems, ItemEvents
    <3>2. PICK j \in 1..n : i = raw[j]
      BY <1>1, <1>2, <2>1, <3>1 DEF EndInv, RangeOf, Terminal
    <3>3. PICK k \in 1..m : arrived[raw[steps[k]]].item = x
      BY <1>3, <3>1, <3>2
    <3>4. k \in 1..l /\ items[k] = x
      BY <1>5, <2>1, <3>3
    <3> QED BY <1>5, <3>4 DEF RangeOf
  <2> QED BY <2>2, <2>3
<1> QED
  BY <1>1, <1>2, <1>6, <1>7, <1>8

\* A streamed turn hands each step out once and in order, across inactivity
\* timeouts, resumed continuations and cancel, and a stream that ends has
\* handed out every item the server completed (StreamExactlyOnce), for every
\* number of events, where the server names the turn in its envelopes and the
\* application makes one call at a time on a turn.
THEOREM StreamsExactlyOnce ==
    ASSUME NamesTurns, OneCallPerTurn
    PROVE  Spec => []StreamExactlyOnce
<1> DEFINE Inv == TypeOK /\ RoutingInv /\ VerdictInv /\ HeldInv /\ EndInv /\ StreamInv
<1>1. Init => Inv
  BY TypeInit, RoutingInit, VerdictInit, StreamInit
<1>2. Inv /\ [Next]_vars => Inv'
  BY TypeNext, RoutingNext, VerdictNext, HeldNext, EndNext, StreamNext
<1>3. Inv => StreamExactlyOnce
  BY StepsSuffice DEF RoutingInv
<1> QED
  BY <1>1, <1>2, <1>3, PTL DEF Spec
-----------------------------------------------------------------------------
(* Sessions and what the server told.                                        *)

\* The events of a session are a beginning of those of its turn, `own`.
Begins(own, raw) ==
    /\ RangeOf(raw) \subseteq own
    /\ \A j, k \in DOMAIN raw : j < k => raw[j] < raw[k]
    /\ \A i \in own, j \in DOMAIN raw : i < raw[j] => i \in RangeOf(raw)

\* Event j of a session is an item, and none of the events before it is the
\* same item.
FirstIn(events, raw, j) ==
    /\ events[raw[j]].kind \in ItemKinds
    /\ \A k \in DOMAIN raw :
          k < j /\ events[raw[k]].kind \in ItemKinds
             => \/ events[raw[k]].item # events[raw[j]].item
                \/ events[raw[j]].item = NoId

\* The steps of a session are these events, all of them.
StepsAreFirst(events, s) ==
    \A j \in DOMAIN s.raw :
       FirstIn(events, s.raw, j) <=> \E k \in DOMAIN s.steps : s.steps[k] = j

BeginsInv ==
    \A t \in Turns : /\ Begins(Own(t), session[t].raw)
                     /\ StepsAreFirst(arrived, session[t])

\* An event records a step if it is the first of its item.
LEMMA ApplyFirst ==
    ASSUME NEW s \in Session, NEW i \in DOMAIN arrived, i \in Nat,
           ShapeOf(arrived, s), StepsAreFirst(arrived, s)
    PROVE  StepsAreFirst(arrived, Apply(s, i))
<1>1. PICK n, m, r, p, new :
         /\ n = Len(s.raw) /\ m = Len(s.steps)
         /\ r = Apply(s, i).raw /\ p = Apply(s, i).steps
         /\ new = IsNewStep(s, arrived[i])
  OBVIOUS
<1>2. PICK raw, steps : raw = s.raw /\ steps = s.steps
  OBVIOUS
<1>3. /\ n \in Nat /\ m \in Nat
      /\ DOMAIN raw = 1..n /\ DOMAIN steps = 1..m
      /\ DOMAIN r = 1..(n + 1) /\ r[n + 1] = i
      /\ \A j \in 1..n : r[j] = raw[j]
      /\ ~new => p = steps
      /\ new => /\ DOMAIN p = 1..(m + 1) /\ p[m + 1] = n + 1
                /\ \A k \in 1..m : p[k] = steps[k]
  <2>1. ASSUME new PROVE /\ DOMAIN p = 1..(m + 1) /\ p[m + 1] = n + 1
                         /\ \A k \in 1..m : p[k] = s.steps[k]
    <3>1. IsNewStep(s, arrived[i])
      BY <1>1, <2>1
    <3> QED BY <1>1, <3>1, ApplyParts
  <2>2. ASSUME ~new PROVE p = s.steps
    <3>1. ~IsNewStep(s, arrived[i])
      BY <1>1, <2>2
    <3> QED BY <1>1, <3>1, ApplyParts
  <2>3. /\ n \in Nat /\ m \in Nat
        /\ DOMAIN s.raw = 1..n /\ DOMAIN s.steps = 1..m
        /\ DOMAIN r = 1..(n + 1) /\ r[n + 1] = i
        /\ \A j \in 1..n : r[j] = s.raw[j]
    BY <1>1, ApplyParts
  <2> QED BY <1>2, <2>1, <2>2, <2>3
<1>4. /\ \A k \in 1..m : steps[k] \in 1..n /\ arrived[raw[steps[k]]].kind \in ItemKinds
      /\ \A j \in 1..n : arrived[raw[j]].kind \in ItemKinds =>
            \E k \in 1..m : arrived[raw[steps[k]]].item = arrived[raw[j]].item
  <2>1. DOMAIN raw = 1..n /\ DOMAIN steps = 1..m
    BY <1>3
  <2> QED BY <1>2, <2>1, Zenon DEF ShapeOf
<1>5. \A j \in 1..n : FirstIn(arrived, raw, j) <=> \E k \in 1..m : steps[k] = j
  <2>1. DOMAIN raw = 1..n /\ DOMAIN steps = 1..m
    BY <1>3
  <2> QED BY <1>2, <2>1, Zenon DEF StepsAreFirst
<1>6. \A j \in 1..n : FirstIn(arrived, r, j) <=> FirstIn(arrived, raw, j)
  <2>1. ASSUME NEW j \in 1..n
        PROVE  /\ j \in 1..(n + 1) /\ r[j] = raw[j] /\ ~(n + 1 < j)
               /\ \A k \in 1..(n + 1) : (k \in 1..n /\ r[k] = raw[k]) \/ k = n + 1
    BY <1>3
  <2>2. \A k \in 1..n : k \in 1..(n + 1)
    BY <1>3
  <2> QED BY <1>3, <2>1, <2>2 DEF FirstIn
<1>7. FirstIn(arrived, r, n + 1) <=> new
  <2>1. new <=> arrived[i].kind \in ItemKinds /\ arrived[i].item \notin StepItems(s) \ {NoId}
    BY <1>1 DEF IsNewStep
  <2>2. \A x : x \in StepItems(s) <=> \E k \in 1..m : x = arrived[raw[steps[k]]].item
    <3>1. RangeOf(steps) = {steps[k] : k \in 1..m}
      BY <1>3 DEF RangeOf
    <3>2. StepItems(s) = {arrived[raw[q]].item : q \in RangeOf(steps)}
      BY <1>2 DEF StepItems
    <3> QED BY <3>1, <3>2
  <2>3. \A x : x \in StepItems(s) <=>
                  \E j \in 1..n : arrived[raw[j]].kind \in ItemKinds /\ x = arrived[raw[j]].item
    BY <1>4, <2>2
  <2>4. FirstIn(arrived, r, n + 1) <=>
           /\ arrived[i].kind \in ItemKinds
           /\ \A k \in 1..n : arrived[raw[k]].kind \in ItemKinds
                => arrived[raw[k]].item # arrived[i].item \/ arrived[i].item = NoId
    <3>1. \A k \in 1..(n + 1) : k < n + 1 <=> k \in 1..n
      BY <1>3
    <3>2. \A k \in 1..n : k \in 1..(n + 1) /\ r[k] = raw[k]
      BY <1>3
    <3> QED BY <1>3, <3>1, <3>2 DEF FirstIn
  <2> QED BY <2>1, <2>3, <2>4
<1>8. ASSUME NEW j \in 1..(n + 1)
      PROVE  FirstIn(arrived, r, j) <=> \E k \in DOMAIN p : p[k] = j
  <2>1. CASE new /\ j \in 1..n
    <3>1. DOMAIN p = 1..(m + 1) /\ p[m + 1] # j /\ \A k \in 1..m : p[k] = steps[k]
      BY <1>3, <2>1
    <3>2. \A k \in 1..(m + 1) : k \in 1..m \/ k = m + 1
      BY <1>3
    <3>3. \A k \in 1..m : k \in 1..(m + 1)
      BY <1>3
    <3>4. (\E k \in DOMAIN p : p[k] = j) <=> \E k \in 1..m : steps[k] = j
      BY <3>1, <3>2, <3>3
    <3> QED BY <1>5, <1>6, <2>1, <3>4
  <2>2. CASE new /\ j = n + 1
    <3>1. m + 1 \in DOMAIN p /\ p[m + 1] = j
      BY <1>3, <2>2
    <3> QED BY <1>7, <2>2, <3>1
  <2>3. CASE ~new /\ j \in 1..n
    <3>1. p = steps /\ DOMAIN p = 1..m
      BY <1>3, <2>3
    <3> QED BY <1>5, <1>6, <2>3, <3>1
  <2>4. CASE ~new /\ j = n + 1
    <3>1. p = steps /\ DOMAIN p = 1..m
      BY <1>3, <2>4
    <3>2. \A k \in 1..m : steps[k] # n + 1
      BY <1>3, <1>4
    <3> QED BY <1>7, <2>4, <3>1, <3>2
  <2> QED BY <1>3, <2>1, <2>2, <2>3, <2>4
<1>9. DOMAIN r = 1..(n + 1)
  BY <1>3
<1> QED
  BY <1>1, <1>8, <1>9 DEF StepsAreFirst

\* A publication changes nothing of that.
LEMMA PublishFirst ==
    ASSUME NEW S, NEW events \in Seq(S), NEW e \in S, NEW s,
           ShapeOf(events, s), StepsAreFirst(events, s)
    PROVE  StepsAreFirst(Append(events, e), s)
<1>1. PICK x : x = Append(events, e)
  OBVIOUS
<1>2. \A j \in DOMAIN s.raw : x[s.raw[j]] = events[s.raw[j]]
  BY <1>1, AppendProperties, LenProperties DEF ShapeOf
<1>3. \A j \in DOMAIN s.raw : FirstIn(x, s.raw, j) <=> FirstIn(events, s.raw, j)
  BY <1>2 DEF FirstIn
<1>4. StepsAreFirst(x, s)
  BY <1>3 DEF StepsAreFirst
<1> QED
  BY <1>1, <1>4

\* What is published of a turn comes after all that its session has.
LEMMA PublishBegins ==
    ASSUME NEW raw, NEW own, NEW n \in Nat, NEW new, new \subseteq {n},
           \A i \in own : i \in Nat /\ i < n, Begins(own, raw)
    PROVE  Begins(own \cup new, raw)
<1>1. ASSUME NEW i \in own \cup new, NEW j \in DOMAIN raw, i < raw[j]
      PROVE  i \in RangeOf(raw)
  <2>1. raw[j] \in own
    BY DEF Begins, RangeOf
  <2>2. i # n
    BY <1>1, <2>1
  <2> QED BY <1>1, <2>2 DEF Begins
<1> QED
  BY <1>1 DEF Begins

\* The event that a call takes is the next of its turn.
LEMMA TakeBegins ==
    ASSUME TypeOK, RoutingInv, HeldInv, EndInv, BeginsInv, NEW c \in Calls, Takes(c)
    PROVE  \A t \in Turns : Begins(Own(t), session'[t].raw)
<1>1. PICK t \in Turns : t = turn[c]
  BY DEF Takes
<1>2. PICK i \in deferred : Take(t, i)
  BY <1>1 DEF Takes
<1>3. UNCHANGED <<arrived, link>> /\ i \in Nat /\ i \in DOMAIN arrived
  BY <1>2, LenProperties DEF Takes, TypeOK
<1>4. link # "closed" /\ Live(t)
  <2>1. link # "closed"
    BY <1>2 DEF EndInv
  <2>2. pc[c] \notin {"idle", "starting"}
    BY DEF Takes
  <2> QED BY <1>1, <2>1, <2>2 DEF HeldInv, Live
<1>5. /\ \A s \in Turns \ {t} : session'[s] = session[s]
      /\ session'[t].raw = Append(session[t].raw, i) /\ i \in Own(t)
  BY <1>2, <1>3, TakeConserves DEF RoutingInv
<1>6. PICK raw, r, n : raw = session[t].raw /\ r = session'[t].raw /\ n = Len(raw)
  OBVIOUS
<1>7. raw \in Seq(Nat) /\ n \in Nat /\ DOMAIN raw = 1..n
  BY <1>6, LenProperties DEF TypeOK, Session
<1>8. /\ DOMAIN r = 1..(n + 1) /\ r[n + 1] = i /\ \A j \in 1..n : r[j] = raw[j]
      /\ RangeOf(r) = RangeOf(raw) \cup {i}
  BY <1>3, <1>5, <1>6, <1>7, AppendProperties, LenProperties, RangeAppend
<1>9. /\ Own(t) \subseteq RangeOf(raw) \cup (Own(t) \cap deferred)
      /\ \A j \in DOMAIN raw : \A k \in Own(t) \cap deferred : raw[j] < k
  BY <1>4, <1>6 DEF RoutingInv, NothingLost
<1>10. \A k \in Own(t) \cap deferred : i <= k
  BY <1>2, MatchingNamed DEF RoutingInv, Take, FoundFor, TypeOK
<1>11. Begins(Own(t), raw)
  BY <1>6 DEF BeginsInv
<1>12. \A j \in 1..n : raw[j] \in Nat /\ raw[j] < i
  <2>1. \A j \in 1..n : raw[j] \in Nat
    BY <1>7, ElementOfSeq
  <2>2. i \in Own(t) \cap deferred
    BY <1>2, <1>5
  <2> QED BY <1>7, <1>9, <2>1, <2>2
<1>13. \A j, k \in 1..(n + 1) : j < k => r[j] < r[k]
  <2> SUFFICES ASSUME NEW j \in 1..(n + 1), NEW k \in 1..(n + 1), j < k PROVE r[j] < r[k]
    OBVIOUS
  <2>1. j \in 1..n /\ (k \in 1..n \/ k = n + 1)
    BY <1>7
  <2> QED BY <1>7, <1>8, <1>11, <1>12, <2>1 DEF Begins
<1>14. ASSUME NEW q \in Own(t), NEW j \in 1..(n + 1), q < r[j] PROVE q \in RangeOf(r)
  <2>1. CASE q \in RangeOf(raw)
    BY <1>8, <2>1
  <2>2. CASE q \notin RangeOf(raw)
    <3>1. q \in deferred /\ i <= q
      BY <1>9, <1>10, <2>2
    <3>2. q \in Nat
      BY LenProperties DEF Own, TypeOK
    <3>3. r[j] <= i
      BY <1>3, <1>7, <1>8, <1>12
    <3>4. r[j] \in Nat
      BY <1>3, <1>7, <1>8, <1>12
    <3> QED BY <1>3, <1>14, <3>1, <3>2, <3>3, <3>4
  <2> QED BY <2>1, <2>2
<1>15. Begins(Own(t), r)
  BY <1>5, <1>8, <1>11, <1>13, <1>14 DEF Begins
<1> QED
  BY <1>5, <1>6, <1>15 DEF BeginsInv

\* Every step keeps BeginsInv.
LEMMA BeginsNext ==
    TypeOK /\ RoutingInv /\ HeldInv /\ EndInv /\ StreamInv /\ BeginsInv /\ [Next]_vars
       => BeginsInv'
<1> SUFFICES ASSUME TypeOK, RoutingInv, HeldInv, EndInv, StreamInv, BeginsInv, [Next]_vars
             PROVE  BeginsInv'
  OBVIOUS
<1>1. \A t \in Turns : ShapeOf(arrived, session[t])
  BY DEF StreamInv, TurnInv
<1>2. ASSUME NEW t \in Turns, NEW e, e.owner = t, Publish(e) PROVE BeginsInv'
  <2>1. PICK n : n = Len(arrived) + 1
    OBVIOUS
  <2>2. arrived' = Append(arrived, e) /\ UNCHANGED session
    BY <1>2 DEF Publish
  <2>3. arrived \in Seq(Event \cup {e})
    BY SeqMonotonic DEF TypeOK
  <2>4. /\ n \in Nat /\ DOMAIN arrived = 1..Len(arrived) /\ Len(arrived) \in Nat
        /\ DOMAIN arrived' = 1..n /\ arrived'[n] = e
        /\ \A j \in 1..Len(arrived) : arrived'[j] = arrived[j]
    BY <2>1, <2>2, <2>3, AppendProperties, LenProperties
  <2>5. ASSUME NEW s \in Turns
        PROVE  \E new : new \subseteq {n} /\ Own(s)' = Own(s) \cup new
    <3>1. PICK new : new = {i \in {n} : e.owner = s}
      OBVIOUS
    <3>2. Own(s)' = {i \in 1..n : arrived'[i].owner = s}
      BY <2>4 DEF Own
    <3>3. Own(s) = {i \in 1..Len(arrived) : arrived[i].owner = s}
      BY <2>4 DEF Own
    <3>4. \A i : i \in 1..n <=> i \in 1..Len(arrived) \/ i = n
      BY <2>1, <2>4
    <3>5. Own(s)' = Own(s) \cup new
      BY <2>4, <3>1, <3>2, <3>3, <3>4
    <3> QED BY <3>1, <3>5
  <2>6. ASSUME NEW s \in Turns
        PROVE  Begins(Own(s)', session'[s].raw) /\ StepsAreFirst(arrived', session'[s])
    <3>1. \A i \in Own(s) : i \in Nat /\ i < n
      BY <2>1, <2>4 DEF Own
    <3>2. Begins(Own(s)', session[s].raw)
      <4>1. PICK new : new \subseteq {n} /\ Own(s)' = Own(s) \cup new
        BY <2>5
      <4>2. Begins(Own(s), session[s].raw)
        BY DEF BeginsInv
      <4>3. Begins(Own(s) \cup new, session[s].raw)
        BY <2>4, <3>1, <4>1, <4>2, PublishBegins
      <4> QED BY <4>1, <4>3
    <3>3. StepsAreFirst(arrived', session[s])
      BY <1>1, <2>2, <2>3, PublishFirst DEF BeginsInv
    <3> QED BY <2>2, <3>2, <3>3
  <2> QED BY <2>6 DEF BeginsInv
<1>3. CASE ServerStep
  <2>1. PICK t \in Turns : EmitItem(t) \/ EmitTerminal(t) \/ EmitEcho(t)
    BY <1>3 DEF ServerStep
  <2>2. \E form, kind, item : Publish(Envelope(t, form, kind, item))
    BY <2>1 DEF EmitItem, EmitTerminal, EmitEcho
  <2> QED BY <1>2, <2>2 DEF Envelope
<1>4. CASE UNCHANGED <<arrived, session>>
  BY <1>4 DEF BeginsInv, Own
<1>5. CASE ClientStep \/ UNCHANGED vars
  BY <1>4, <1>5 DEF ClientStep, ReceiverFails, CloseBegins, CloseClears, serverVars, vars
<1>6. ASSUME NEW c \in Calls, Takes(c) PROVE BeginsInv'
  <2>1. PICK t \in Turns, i \in deferred : Take(t, i) /\ UNCHANGED arrived
    BY <1>6 DEF Takes
  <2>2. /\ \A s \in Turns \ {t} : session'[s] = session[s]
        /\ session'[t] = Apply(session[t], i) /\ session[t] \in Session
    BY <2>1 DEF Take, TypeOK
  <2>3. i \in DOMAIN arrived /\ i \in Nat
    BY LenProperties DEF TypeOK
  <2>4. StepsAreFirst(arrived, session'[t])
    BY <1>1, <2>2, <2>3, ApplyFirst DEF BeginsInv
  <2>5. \A s \in Turns : Own(s)' = Own(s)
    BY <2>1 DEF Own
  <2>6. \A s \in Turns : Begins(Own(s), session'[s].raw)
    BY <1>6, TakeBegins
  <2>7. \A s \in Turns : StepsAreFirst(arrived, session'[s])
    BY <2>2, <2>4 DEF BeginsInv
  <2> QED BY <2>1, <2>5, <2>6, <2>7 DEF BeginsInv
<1>7. ASSUME NEW c \in Calls,
             \/ \E t \in Turns : StartTurn(c, t)
             \/ TurnStarted(c) \/ Moves(c) \/ Settles(c)
      PROVE  BeginsInv'
  BY <1>4, <1>7 DEF StartTurn, TurnStarted, Moves, Settles, serverVars
<1> QED
  BY <1>3, <1>5, <1>6, <1>7, StepCases

\* chat_once hands out no steps, and a cancel has a continuation.
ModeInv ==
    /\ \A t \in Turns : token[t].mode = "once" => yielded[t] = <<>>
    /\ \A c \in Calls : pc[c] # "idle" =>
          /\ op[c] = "once" => yielded[turn[c]] = <<>>
          /\ op[c] = "cancel" => token[turn[c]].mode # "none"

\* A step of a call, as its own turn sees it.
LEMMA ModeHere ==
    ASSUME TypeOK, RoutingInv, StreamInv, ModeInv, NEW c \in Calls, NEW t \in Turns,
           \/ StartTurn(c, t) \/ Resume(c, t) \/ CancelCalled(c, t)
           \/ t = turn[c] /\ pc[c] # "idle" /\ (Abandon(c) \/ TaskStep(c))
    PROVE  /\ token'[t].mode = "once" => yielded'[t] = <<>>
           /\ pc'[c] # "idle" /\ op'[c] = "once" => yielded'[t] = <<>>
           /\ pc'[c] # "idle" /\ op'[c] = "cancel" => token'[t].mode # "none"
<1>1. CASE StartTurn(c, t)
  <2>1. verdict[t] = "none" /\ UNCHANGED <<token, yielded>> /\ op'[c] # "cancel"
    BY <1>1 DEF StartTurn, history, TypeOK
  <2> QED BY <2>1 DEF StreamInv, TurnInv
<1>2. CASE Resume(c, t)
  <2>1. /\ op'[c] = token[t].mode /\ op'[c] # "cancel" /\ UNCHANGED yielded
        /\ token'[t] = NoToken \/ UNCHANGED token
    BY <1>2 DEF Resume, history, TypeOK
  <2> QED BY <2>1 DEF ModeInv, NoToken
<1>3. CASE CancelCalled(c, t)
  <2>1. /\ op'[c] = "cancel" /\ token[t].mode # "none"
        /\ UNCHANGED <<token, yielded>>
    BY <1>3 DEF CancelCalled, history, TypeOK
  <2> QED BY <2>1 DEF ModeInv
<1>4. CASE t = turn[c] /\ pc[c] # "idle" /\ (Abandon(c) \/ TaskStep(c))
  <2>0. /\ t = turn[c] /\ pc[c] # "idle"
        /\ token[t].mode = "once" => yielded[t] = <<>>
        /\ op[c] = "once" => yielded[t] = <<>>
        /\ op[c] = "cancel" => token[t].mode # "none"
    BY <1>4 DEF ModeInv
  <2>1. CASE YieldBacklog(c)
    <3>1. pc[c] = "backlog" /\ UNCHANGED <<token, op>>
      BY <2>1 DEF YieldBacklog
    <3> QED BY <2>0, <3>1, HereFacts DEF Knows
  <2>2. CASE EventTaken(c)
    <3>1. pc[c] \in {"top", "waiting"} /\ UNCHANGED <<token, op>>
      BY <2>2 DEF EventTaken, Looks, AtTop
    <3>3. op[c] = "stream" \/ UNCHANGED yielded
      BY <2>2, Zenon DEF EventTaken
    <3>2. op[c] = "stream" => token[t].mode = "none"
      BY <2>0, <3>1, HereFacts DEF Knows
    <3> QED BY <2>0, <3>1, <3>2, <3>3
  <2>3. CASE CancelReturns(c)
    <3>1. pc'[c] = "idle" /\ UNCHANGED token
      BY <2>0, <2>3 DEF CancelReturns, Settle, Leave, Suspend, Goes, TypeOK
    <3>2. token[t].mode = "stream" \/ UNCHANGED yielded
      BY <2>0, <2>3 DEF CancelReturns
    <3> QED BY <2>0, <3>1, <3>2
  <2>4. CASE GoesInactive(c)
    <3>1. token'[t].mode = op[c] /\ pc'[c] = "idle" /\ UNCHANGED yielded
      BY <2>0, <2>4 DEF GoesInactive, GiveUp, Leave, Suspend, Goes, history, TypeOK
    <3> QED BY <2>0, <3>1
  <2>5. CASE \/ Abandon(c) \/ StartFails(c) \/ ReadFails(c) \/ InterruptFails(c)
             \/ ConnectionLost(c) \/ ConfirmTimesOut(c)
    <3>1. UNCHANGED <<token, yielded>> /\ (pc'[c] = "idle" \/ UNCHANGED op)
      BY <2>5 DEF Abandon, StartFails, ReadFails, InterruptFails, ConnectionLost,
                  ConfirmTimesOut, GiveUp, Leave, Suspend, Goes, history, TypeOK
    <3> QED BY <2>0, <3>1
  <2>6. CASE RaiseFailed(c) \/ StreamEnds(c) \/ OnceResolves(c) \/ ReadAnswered(c)
    <3>1. UNCHANGED <<token, yielded>> /\ pc'[c] = "idle"
      BY <2>6 DEF RaiseFailed, StreamEnds, OnceResolves, ReadAnswered, Settle, Leave, Suspend,
                  Goes, TypeOK
    <3> QED BY <2>0, <3>1
  <2>7. CASE \/ TurnStarted(c) \/ BacklogDone(c) \/ NextRequested(c) \/ OnceReads(c)
             \/ WaitForEvent(c) \/ PumpOne(c) \/ PumpedDry(c) \/ InterruptAcked(c)
             \/ ConfirmWaits(c) \/ ConfirmWakes(c)
    <3>1. UNCHANGED <<token, yielded, op>>
      BY <2>7 DEF TurnStarted, BacklogDone, NextRequested, OnceReads, WaitForEvent, PumpOne,
                  PumpedDry, InterruptAcked, ConfirmWaits, ConfirmWakes, callVars, history
    <3> QED BY <2>0, <3>1
  <2> QED
    BY <1>4, <2>1, <2>2, <2>3, <2>4, <2>5, <2>6, <2>7 DEF TaskStep, Progress
<1> QED
  BY <1>1, <1>2, <1>3, <1>4

\* The steps of a call, each on its turn.
LEMMA CallSteps ==
    ASSUME OneCallPerTurn, TypeOK, HeldInv, [Next]_vars
    PROVE  \/ ServerStep \/ ClientStep \/ UNCHANGED vars
           \/ \E c \in Calls, t \in Turns :
                 /\ Local(c, t)
                 /\ \/ StartTurn(c, t) \/ Resume(c, t) \/ CancelCalled(c, t)
                    \/ t = turn[c] /\ pc[c] # "idle" /\ (Abandon(c) \/ TaskStep(c))
<1>1. ASSUME NEW c \in Calls, Abandon(c) \/ TaskStep(c)
      PROVE  \E t \in Turns : t = turn[c] /\ pc[c] # "idle"
  <2>1. pc[c] # "idle"
    BY <1>1 DEF Abandon, Idle, TaskStep, Progress, TurnStarted, StartFails, YieldBacklog,
                BacklogDone, NextRequested, RaiseFailed, StreamEnds, OnceResolves,
                OnceReads, ReadAnswered, ReadFails, WaitForEvent, EventTaken, GoesInactive,
                ConnectionLost, AtTop, PumpOne, PumpedDry, Pumping, InterruptAcked,
                InterruptFails, ConfirmWakes, ConfirmWaits, ConfirmTimesOut, CancelReturns,
                Looks, LooksForEnd
  <2> QED BY <2>1 DEF TypeOK
<1> QED
  BY <1>1, LocalOf DEF Next, AppStep

\* Every step keeps ModeInv.
LEMMA ModeNext ==
    ASSUME OneCallPerTurn
    PROVE  TypeOK /\ RoutingInv /\ HeldInv /\ StreamInv /\ ModeInv /\ [Next]_vars
              => ModeInv'
<1> SUFFICES ASSUME TypeOK, RoutingInv, HeldInv, StreamInv, ModeInv, [Next]_vars
             PROVE  ModeInv'
  OBVIOUS
<1>1. CASE ServerStep \/ ClientStep \/ UNCHANGED vars
  <2>1. UNCHANGED <<token, yielded, pc, op, turn>>
    BY <1>1 DEF ServerStep, EmitItem, EmitTerminal, EmitEcho, Publish, ClientStep,
                ReceiverFails, CloseBegins, CloseClears, callVars, history, vars
  <2> QED BY <2>1 DEF ModeInv
<1>2. ASSUME NEW c \in Calls, NEW t \in Turns, Local(c, t),
             \/ StartTurn(c, t) \/ Resume(c, t) \/ CancelCalled(c, t)
             \/ t = turn[c] /\ pc[c] # "idle" /\ (Abandon(c) \/ TaskStep(c))
      PROVE  ModeInv'
  <2>1. /\ token'[t].mode = "once" => yielded'[t] = <<>>
        /\ pc'[c] # "idle" /\ op'[c] = "once" => yielded'[t] = <<>>
        /\ pc'[c] # "idle" /\ op'[c] = "cancel" => token'[t].mode # "none"
    BY <1>2, ModeHere
  <2>2. ASSUME NEW s \in Turns, token'[s].mode = "once" PROVE yielded'[s] = <<>>
    BY <1>2, <2>1, <2>2 DEF Local, ModeInv
  <2>3. ASSUME NEW d \in Calls, pc'[d] # "idle"
        PROVE  /\ op'[d] = "once" => yielded'[turn'[d]] = <<>>
               /\ op'[d] = "cancel" => token'[turn'[d]].mode # "none"
    <3>1. CASE d = c
      BY <1>2, <2>1, <2>3, <3>1 DEF Local
    <3>2. CASE d # c
      <4>1. /\ pc[d] # "idle" /\ op'[d] = op[d] /\ turn'[d] = turn[d]
            /\ turn[d] \in Turns \ {t}
        BY <1>2, <2>3, <3>2 DEF Local, TypeOK
      <4> QED BY <1>2, <4>1 DEF Local, ModeInv
    <3> QED BY <3>1, <3>2
  <2> QED BY <2>2, <2>3 DEF ModeInv
<1> QED
  BY <1>1, <1>2, CallSteps

-----------------------------------------------------------------------------
(* A step that changes what one turn has become, as TurnDelivery has it.     *)

\* Nothing of turn s is begun, told, ended, handed out or reported.
Keeps(s) ==
    /\ verdict'[s] = verdict[s] /\ ToldSteps(s)' = ToldSteps(s)
    /\ HandedSteps(s)' = HandedSteps(s) /\ OutcomesOf(s)' = OutcomesOf(s)

KeepsOthers(t) ==
    /\ \A s \in Turns \ {t} : Keeps(s)
    /\ \E V, W : verdict \in [Turns -> V] /\ verdict' \in [Turns -> W]

\* What is told, handed out and reported stays, and the verdict becomes v.
LEMMA MapsVerdict ==
    ASSUME NEW t \in Turns, KeepsOthers(t), ToldSteps(t)' = ToldSteps(t),
           HandedSteps(t)' = HandedSteps(t), OutcomesOf(t)' = OutcomesOf(t)
    PROVE  /\ verdict[t] = "none" /\ verdict'[t] = "running" => Delivery!Begin(t)
           /\ verdict[t] = "running" /\ verdict'[t] \in Ended => Delivery!End(t)
           /\ verdict'[t] = verdict[t] => UNCHANGED Delivery!vars
<1>1. UNCHANGED <<[s \in Turns |-> ToldSteps(s)], [s \in Turns |-> HandedSteps(s)],
                  [s \in Turns |-> OutcomesOf(s)]>>
  BY DEF KeepsOthers, Keeps
<1>2. PICK v, w : v = verdict /\ w = verdict'
  OBVIOUS
<1>3. PICK V, W : v \in [Turns -> V] /\ w \in [Turns -> W]
  BY <1>2 DEF KeepsOthers
<1>4. \A s \in Turns \ {t} : w[s] = v[s]
  BY <1>2 DEF KeepsOthers, Keeps
<1>5. w = [v EXCEPT ![t] = w[t]]
  BY <1>3, <1>4
<1>6. verdict' = [verdict EXCEPT ![t] = verdict'[t]]
  BY <1>2, <1>5
<1>7. verdict'[t] = verdict[t] => verdict' = verdict
  BY <1>2, <1>3, <1>4
<1>8. ASSUME verdict'[t] = verdict[t] PROVE UNCHANGED Delivery!vars
  BY <1>1, <1>7, <1>8 DEF Delivery!vars
<1>9. ASSUME verdict[t] = "none", verdict'[t] = "running" PROVE Delivery!Begin(t)
  BY <1>1, <1>6, <1>9 DEF Delivery!Begin
<1>10. ASSUME verdict[t] = "running", verdict'[t] \in Ended PROVE Delivery!End(t)
  BY <1>1, <1>6, <1>10 DEF Delivery!End, Ended
<1> QED
  BY <1>8, <1>9, <1>10

\* The server tells a step.
LEMMA MapsTell ==
    ASSUME NEW t \in Turns, KeepsOthers(t), UNCHANGED verdict, verdict[t] = "running",
           NEW i \in 1 .. MaxEvents, \A j \in ToldSteps(t) : j < i,
           ToldSteps(t)' = ToldSteps(t) \cup {i},
           HandedSteps(t)' = HandedSteps(t), OutcomesOf(t)' = OutcomesOf(t)
    PROVE  Delivery!Tell(t)
<1>1. PICK told, told1 : /\ told = [s \in Turns |-> ToldSteps(s)]
                         /\ told1 = [s \in Turns |-> ToldSteps(s)']
  OBVIOUS
<1>2. told1 = [told EXCEPT ![t] = @ \cup {i}] /\ told[t] = ToldSteps(t)
  BY <1>1 DEF KeepsOthers, Keeps
<1>3. UNCHANGED <<verdict, [s \in Turns |-> HandedSteps(s)], [s \in Turns |-> OutcomesOf(s)]>>
  BY DEF KeepsOthers, Keeps
<1> QED
  BY <1>1, <1>2, <1>3 DEF Delivery!Tell

\* What is left to hand out of a turn.
LEMMA RestOf ==
    ASSUME NEW t \in Turns
    PROVE  Delivery!Rest(t) = ToldSteps(t) \ RangeOf(HandedSteps(t))
  BY DEF Delivery!Rest, RangeOf

\* The application gets a step.
LEMMA MapsHandOut ==
    ASSUME NEW t \in Turns, KeepsOthers(t), UNCHANGED verdict, OutcomesOf(t) = {},
           NEW i \in ToldSteps(t) \ RangeOf(HandedSteps(t)),
           \A j \in ToldSteps(t) \ RangeOf(HandedSteps(t)) : i <= j,
           HandedSteps(t)' = Append(HandedSteps(t), i),
           ToldSteps(t)' = ToldSteps(t), OutcomesOf(t)' = OutcomesOf(t)
    PROVE  Delivery!HandOut(t)
<1>1. PICK handed, handed1 : /\ handed = [s \in Turns |-> HandedSteps(s)]
                             /\ handed1 = [s \in Turns |-> HandedSteps(s)']
  OBVIOUS
<1>2. handed1 = [handed EXCEPT ![t] = Append(@, i)]
  BY <1>1 DEF KeepsOthers, Keeps
<1>3. UNCHANGED <<verdict, [s \in Turns |-> ToldSteps(s)], [s \in Turns |-> OutcomesOf(s)]>>
  BY DEF KeepsOthers, Keeps
<1>4. i \in Delivery!Rest(t) /\ \A j \in Delivery!Rest(t) : i <= j
  BY RestOf
<1>5. \E k \in Delivery!Rest(t) : /\ \A j \in Delivery!Rest(t) : k <= j
                                 /\ handed1 = [handed EXCEPT ![t] = Append(@, k)]
  BY <1>2, <1>4
<1>6. [s \in Turns |-> OutcomesOf(s)][t] = {}
  OBVIOUS
<1> QED
  BY <1>1, <1>3, <1>5, <1>6, Zenon DEF Delivery!HandOut

\* The outcome of a turn is reported.
LEMMA MapsReport ==
    ASSUME NEW t \in Turns, KeepsOthers(t), UNCHANGED verdict, OutcomesOf(t) = {},
           NEW o, NEW kind, OutcomesOf(t)' = {[op |-> o, kind |-> kind]},
           \/ verdict[t] = "success" /\ kind \in {"ok", "unresolved", "completed"}
           \/ verdict[t] = "failed" /\ kind \in {"failed", "neither"}
           \/ verdict[t] = "interrupted" /\ kind \in {"failed", "interrupted"},
           ToldSteps(t)' = ToldSteps(t)
    PROVE  \A kinds : kind \in kinds => Delivery!Report(t, o, kinds)
<1>1. PICK outcome, outcome1 : /\ outcome = [s \in Turns |-> OutcomesOf(s)]
                               /\ outcome1 = [s \in Turns |-> OutcomesOf(s)']
  OBVIOUS
<1>2. outcome1 = [outcome EXCEPT ![t] = {[op |-> o, kind |-> kind]}] /\ outcome[t] = {}
  BY <1>1 DEF KeepsOthers, Keeps
<1>3. UNCHANGED <<verdict, [s \in Turns |-> ToldSteps(s)]>>
  BY DEF KeepsOthers, Keeps
<1>4. verdict[t] \in DOMAIN Delivery!Reports /\ kind \in Delivery!Reports[verdict[t]]
  BY DEF Delivery!Reports
<1> QED
  BY <1>1, <1>2, <1>3, <1>4 DEF Delivery!Report

\* ... by a call that hands nothing out then.
LEMMA MapsQuietEnd ==
    ASSUME NEW t \in Turns, KeepsOthers(t), HandedSteps(t)' = HandedSteps(t)
    PROVE  /\ Delivery!Report(t, "stream", {"ok", "failed"})
                 /\ ToldSteps(t) \subseteq RangeOf(HandedSteps(t)) => Delivery!StreamEnds(t)
           /\ Delivery!Report(t, "once", {"ok", "unresolved", "failed"})
                 /\ HandedSteps(t) = <<>> => Delivery!OnceEnds(t)
           /\ Delivery!Report(t, "cancel", {"completed", "interrupted", "neither"})
                 /\ HandedSteps(t) = <<>> => Delivery!CancelEnds(t)
<1>1. UNCHANGED [s \in Turns |-> HandedSteps(s)]
  BY DEF KeepsOthers, Keeps
<1>2. PICK h : h = [s \in Turns |-> HandedSteps(s)]
  OBVIOUS
<1>3. h[t] = HandedSteps(t)
  BY <1>2
<1>4. ToldSteps(t) \subseteq RangeOf(HandedSteps(t)) => Delivery!Rest(t) = {}
  BY RestOf
<1> QED
  BY <1>1, <1>2, <1>3, <1>4 DEF Delivery!StreamEnds, Delivery!OnceEnds, Delivery!CancelEnds

\* ... by a cancel, with what was left of the stream.
LEMMA MapsCancelEnd ==
    ASSUME NEW t \in Turns, KeepsOthers(t),
           Delivery!Report(t, "cancel", {"completed", "interrupted", "neither"}),
           NEW q \in Delivery!InOrder(ToldSteps(t) \ RangeOf(HandedSteps(t))),
           HandedSteps(t)' = HandedSteps(t) \o q
    PROVE  Delivery!CancelEnds(t)
<1>1. PICK handed, handed1 : /\ handed = [s \in Turns |-> HandedSteps(s)]
                             /\ handed1 = [s \in Turns |-> HandedSteps(s)']
  OBVIOUS
<1>2. handed1 = [handed EXCEPT ![t] = @ \o q]
  BY <1>1 DEF KeepsOthers, Keeps
<1>3. q \in Delivery!InOrder(Delivery!Rest(t))
  BY RestOf
<1> QED
  BY <1>1, <1>2, <1>3 DEF Delivery!CancelEnds

-----------------------------------------------------------------------------
(* The steps of a session, as the notifications that told them.              *)

Mapped(raw, y) == [k \in DOMAIN y |-> raw[y[k]]]

\* It has as many elements.
LEMMA MappedParts ==
    ASSUME NEW raw \in Seq(Nat), NEW y \in Seq(Nat), \A k \in 1..Len(y) : y[k] \in DOMAIN raw
    PROVE  LET h == Mapped(raw, y)
           IN  /\ h \in Seq(Nat) /\ Len(h) = Len(y) /\ DOMAIN h = 1..Len(y)
               /\ \A k \in 1..Len(y) : h[k] = raw[y[k]]
<1>1. PICK h : h = Mapped(raw, y)
  OBVIOUS
<1>2. Len(y) \in Nat /\ DOMAIN y = 1..Len(y)
  BY LenProperties
<1>3. /\ h = [k \in 1..Len(y) |-> raw[y[k]]]
      /\ DOMAIN h = 1..Len(y) /\ \A k \in 1..Len(y) : h[k] = raw[y[k]]
  BY <1>1, <1>2 DEF Mapped
<1>4. \A k \in 1..Len(y) : raw[y[k]] \in Nat
  BY ElementOfSeq, LenProperties
<1>5. h \in Seq(Nat) /\ Len(h) = Len(y)
  BY <1>2, <1>3, <1>4, IsASeq, LenProperties
<1> QED
  BY <1>1, <1>3, <1>5

\* The notifications of `own` that tell a step.
FirstTold(events, own) ==
    LET items == {i \in own : events[i].kind \in ItemKinds}
    IN  {i \in items : \/ events[i].item = NoId
                       \/ \A j \in items : ~(j < i /\ events[j].item = events[i].item)}

\* The sequence `steps` is a beginning of the set T of positions.
Tells(T, steps) ==
    /\ \A j, k \in DOMAIN steps : j < k => steps[j] < steps[k]
    /\ \A k \in DOMAIN steps : steps[k] \in T
    /\ \A i \in T : i \in RangeOf(steps) \/ \A k \in DOMAIN steps : steps[k] < i

\* An event of a session told a step if it is the first of its item there.
LEMMA FirstTells ==
    ASSUME NEW events, NEW own, own \subseteq Nat, NEW raw \in Seq(Nat), Begins(own, raw),
           NEW j \in DOMAIN raw
    PROVE  raw[j] \in FirstTold(events, own) <=> FirstIn(events, raw, j)
<1>1. DOMAIN raw = 1..Len(raw) /\ Len(raw) \in Nat
  BY LenProperties
<1>2. PICK i : i = raw[j]
  OBVIOUS
<1>3. i \in own /\ i \in Nat
  BY <1>2 DEF Begins, RangeOf
<1>4. ASSUME FirstIn(events, raw, j) PROVE i \in FirstTold(events, own)
  <2>1. ASSUME NEW q \in own, events[q].kind \in ItemKinds, q < i, events[i].item # NoId
        PROVE  events[q].item # events[i].item
    <3>1. PICK k \in DOMAIN raw : raw[k] = q
      BY <1>2, <2>1 DEF Begins, RangeOf
    <3>2. k < j
      <4>1. ~(j < k) /\ k # j
        BY <1>1, <1>2, <1>3, <2>1, <3>1 DEF Begins
      <4> QED BY <1>1, <4>1
    <3> QED BY <1>2, <1>4, <2>1, <3>1, <3>2 DEF FirstIn
  <2> QED BY <1>2, <1>3, <1>4, <2>1 DEF FirstTold, FirstIn
<1>5. ASSUME i \in FirstTold(events, own) PROVE FirstIn(events, raw, j)
  <2>1. ASSUME NEW k \in DOMAIN raw, k < j, events[raw[k]].kind \in ItemKinds,
               events[i].item # NoId
        PROVE  events[raw[k]].item # events[i].item
    <3>1. raw[k] \in own /\ raw[k] < i
      BY <1>2, <2>1 DEF Begins, RangeOf
    <3> QED BY <1>5, <2>1, <3>1 DEF FirstTold
  <2> QED BY <1>2, <1>5, <2>1 DEF FirstTold, FirstIn
<1> QED
  BY <1>2, <1>4, <1>5

\* The steps of a session are a beginning of those told.
LEMMA SessionTells ==
    ASSUME NEW events, NEW own, own \subseteq Nat, NEW s \in Session, ShapeOf(events, s),
           Begins(own, s.raw), StepsAreFirst(events, s)
    PROVE  /\ Mapped(s.raw, s.steps) \in Seq(Nat)
           /\ Len(Mapped(s.raw, s.steps)) = Len(s.steps)
           /\ Tells(FirstTold(events, own), Mapped(s.raw, s.steps))
           /\ FirstTold(events, own) \subseteq RangeOf(s.raw)
                 => FirstTold(events, own) \subseteq RangeOf(Mapped(s.raw, s.steps))
<1>1. PICK raw, steps, n, m, h, T :
         /\ raw = s.raw /\ steps = s.steps /\ n = Len(raw) /\ m = Len(steps)
         /\ h = Mapped(raw, steps) /\ T = FirstTold(events, own)
  OBVIOUS
<1>2. /\ raw \in Seq(Nat) /\ steps \in Seq(Nat) /\ n \in Nat /\ m \in Nat
      /\ DOMAIN raw = 1..n /\ DOMAIN steps = 1..m
  <2>1. raw \in Seq(Nat) /\ steps \in Seq(Nat)
    BY <1>1 DEF Session
  <2> QED BY <1>1, <2>1, LenProperties
<1>3. /\ \A k \in 1..m : steps[k] \in 1..n
      /\ \A j, k \in 1..m : j < k => steps[j] < steps[k]
  BY <1>1, <1>2 DEF ShapeOf
<1>4. h \in Seq(Nat) /\ Len(h) = m /\ DOMAIN h = 1..m /\ \A k \in 1..m : h[k] = raw[steps[k]]
  <2>1. \A k \in 1..Len(steps) : steps[k] \in DOMAIN raw
    BY <1>1, <1>2, <1>3
  <2>2. PICK g : g = Mapped(raw, steps)
    OBVIOUS
  <2>3. /\ g \in Seq(Nat) /\ Len(g) = Len(steps) /\ DOMAIN g = 1..Len(steps)
        /\ \A k \in 1..Len(steps) : g[k] = raw[steps[k]]
    BY <1>2, <2>1, <2>2, MappedParts
  <2> QED BY <1>1, <2>2, <2>3
<1>5. \A j \in 1..n : raw[j] \in T <=> \E k \in 1..m : steps[k] = j
  <2>1. \A j \in DOMAIN raw : raw[j] \in T <=> FirstIn(events, raw, j)
    BY <1>1, <1>2, FirstTells
  <2>2. \A j \in DOMAIN raw : FirstIn(events, raw, j) <=> \E k \in DOMAIN steps : steps[k] = j
    BY <1>1 DEF StepsAreFirst
  <2> QED BY <1>2, <2>1, <2>2, Zenon
<1>6. /\ \A j \in 1..n : raw[j] \in own
      /\ \A j, k \in 1..n : j < k => raw[j] < raw[k]
      /\ \A i \in own, j \in 1..n : i < raw[j] => i \in RangeOf(raw)
  BY <1>1, <1>2 DEF Begins, RangeOf
<1>7. T \subseteq own
  BY <1>1 DEF FirstTold
<1>8. \A j, k \in 1..m : j < k => h[j] < h[k]
  BY <1>3, <1>4, <1>6
<1>9. \A k \in 1..m : h[k] \in T
  BY <1>3, <1>4, <1>5
<1>10. ASSUME NEW i \in T, i \in RangeOf(raw) PROVE i \in RangeOf(h)
  <2>1. PICK j \in 1..n : i = raw[j]
    BY <1>2, <1>10 DEF RangeOf
  <2>2. PICK k \in 1..m : steps[k] = j
    BY <1>5, <1>10, <2>1
  <2> QED BY <1>4, <2>1, <2>2 DEF RangeOf
<1>11. ASSUME NEW i \in T, i \notin RangeOf(raw), NEW k \in 1..m PROVE h[k] < i
  <2>1. i \in Nat /\ h[k] \in Nat
    BY <1>4, <1>7, ElementOfSeq
  <2>2. ~(i < h[k])
    BY <1>3, <1>4, <1>6, <1>7, <1>11
  <2>3. i # h[k]
    BY <1>2, <1>3, <1>4, <1>11 DEF RangeOf
  <2> QED BY <2>1, <2>2, <2>3
<1>12. Tells(T, h)
  <2>1. \A i \in T : i \in RangeOf(h) \/ \A k \in 1..m : h[k] < i
    BY <1>10, <1>11
  <2> QED BY <1>4, <1>8, <1>9, <2>1 DEF Tells
<1>13. T \subseteq RangeOf(raw) => T \subseteq RangeOf(h)
  BY <1>10
<1> QED
  BY <1>1, <1>4, <1>12, <1>13

\* Of what was told, T, and handed out, h, the first that is left leads to z.
HandsOne(T, h, z) == \E i \in T \ RangeOf(h) : /\ \A j \in T \ RangeOf(h) : i <= j
                                              /\ z = Append(h, i)

\* The next step of a session is the first that was not handed out.
LEMMA NextTold ==
    ASSUME NEW T, T \subseteq Nat, NEW steps \in Seq(Nat), Tells(T, steps),
           NEW h \in Seq(Nat), PrefixOf(h, steps), NEW z \in Seq(Nat), PrefixOf(z, steps),
           Len(z) = Len(h) + 1
    PROVE  HandsOne(T, h, z)
<1>1. PICK l, m, i : l = Len(h) /\ m = Len(steps) /\ i = steps[l + 1]
  OBVIOUS
<1>2. /\ l \in Nat /\ m \in Nat /\ l + 1 <= m
      /\ DOMAIN h = 1..l /\ DOMAIN z = 1..(l + 1) /\ DOMAIN steps = 1..m
      /\ \A k \in 1..l : h[k] = steps[k]
      /\ \A k \in 1..(l + 1) : z[k] = steps[k]
  BY <1>1, LenProperties DEF PrefixOf
<1>3. l + 1 \in 1..m /\ (\A k \in 1..l : k \in 1..m /\ k < l + 1) /\ i \in Nat
  <2>1. l + 1 \in 1..m
    BY <1>2
  <2> QED BY <1>1, <1>2, <2>1, ElementOfSeq
<1>4. i \in T
  BY <1>1, <1>2, <1>3 DEF Tells
<1>5. \A k \in 1..l : h[k] < i
  BY <1>1, <1>2, <1>3 DEF Tells
<1>6. i \notin RangeOf(h)
  <2>1. ASSUME NEW k \in 1..l PROVE h[k] # i
    BY <1>3, <1>5
  <2> QED BY <1>2, <2>1 DEF RangeOf
<1>7. ASSUME NEW j \in T, j \notin RangeOf(h) PROVE i <= j
  <2>1. j \in Nat
    OBVIOUS
  <2>2. CASE j \in RangeOf(steps)
    <3>1. PICK k \in 1..m : j = steps[k]
      BY <1>2, <2>2 DEF RangeOf
    <3>2. ~(k <= l)
      <4>1. ASSUME k \in 1..l PROVE FALSE
        <5>1. h[k] = j /\ k \in DOMAIN h
          BY <1>2, <3>1, <4>1
        <5> QED BY <1>7, <5>1 DEF RangeOf
      <4> QED BY <1>2, <4>1
    <3>3. k = l + 1 \/ l + 1 < k
      BY <1>2, <3>2
    <3>4. l + 1 < k => i < j
      BY <1>1, <1>2, <1>3, <3>1 DEF Tells
    <3> QED BY <1>1, <1>3, <2>1, <3>1, <3>3, <3>4
  <2>3. CASE j \notin RangeOf(steps)
    <3>1. i < j
      BY <1>1, <1>2, <1>3, <1>7, <2>3 DEF Tells
    <3> QED BY <1>3, <2>1, <3>1
  <2> QED BY <2>2, <2>3
<1>8. z = Append(h, i)
  <2>1. PICK a : a = Append(h, i)
    OBVIOUS
  <2>2. /\ a \in Seq(Nat) /\ Len(a) = l + 1 /\ a[l + 1] = i
        /\ \A k \in 1..l : a[k] = h[k]
    BY <1>1, <1>2, <1>3, <2>1, AppendProperties
  <2>3. ASSUME NEW k \in 1..(l + 1) PROVE z[k] = a[k]
    <3>1. k \in 1..l \/ k = l + 1
      BY <1>2
    <3> QED BY <1>1, <1>2, <2>2, <3>1
  <2>4. Len(z) = l + 1
    BY <1>1
  <2> QED BY <2>1, <2>2, <2>3, <2>4, SeqEqual
<1> QED
  BY <1>4, <1>6, <1>7, <1>8 DEF HandsOne

\* Of what was told, T, and handed out, h: all the rest of `steps` is all the
\* rest of T, in order.
RestIn(T, steps, h) ==
    /\ Len(h) = Len(steps) => T \subseteq RangeOf(h)
    /\ \A z \in Seq(Nat) : PrefixOf(z, steps) /\ Len(z) = Len(steps) =>
          \E q \in Delivery!InOrder(T \ RangeOf(h)) : z = h \o q

\* All that was not handed out, when all that was told is a step of the session.
LEMMA RestTold ==
    ASSUME NEW T, T \subseteq Nat, NEW steps \in Seq(Nat), Tells(T, steps),
           T \subseteq RangeOf(steps), NEW h \in Seq(Nat), PrefixOf(h, steps)
    PROVE  RestIn(T, steps, h)
<1>1. PICK l, m, S : l = Len(h) /\ m = Len(steps) /\ S = T \ RangeOf(h)
  OBVIOUS
<1>2. /\ l \in Nat /\ m \in Nat /\ l <= m /\ DOMAIN h = 1..l /\ DOMAIN steps = 1..m
      /\ \A k \in 1..l : k \in 1..m /\ h[k] = steps[k]
  <2>1. /\ l \in Nat /\ m \in Nat /\ l <= m /\ DOMAIN h = 1..l /\ DOMAIN steps = 1..m
        /\ \A k \in 1..l : h[k] = steps[k]
    BY <1>1, LenProperties DEF PrefixOf
  <2> QED BY <2>1
<1>3. /\ \A j, k \in 1..m : j < k => steps[j] < steps[k]
      /\ \A k \in 1..m : steps[k] \in T /\ steps[k] \in Nat
  BY <1>2, ElementOfSeq DEF Tells
<1>4. ASSUME l = m PROVE T \subseteq RangeOf(h)
  <2>1. \A k \in 1..m : k \in DOMAIN h /\ h[k] = steps[k]
    BY <1>2, <1>4
  <2> QED BY <1>2, <2>1 DEF RangeOf
<1>5. \A j, k \in 1..m : steps[j] = steps[k] => j = k
  <2> SUFFICES ASSUME NEW j \in 1..m, NEW k \in 1..m, j # k PROVE steps[j] # steps[k]
    OBVIOUS
  <2>1. j < k \/ k < j
    BY <1>2
  <2> QED BY <1>3, <2>1
<1>6. PICK q : q = [k \in 1..(m - l) |-> steps[l + k]]
  OBVIOUS
<1>7. \A k \in 1..(m - l) : l + k \in 1..m /\ ~(l + k <= l)
  BY <1>2
<1>8. \A k \in 1..(m - l) : q[k] \in S
  <2> SUFFICES ASSUME NEW k \in 1..(m - l) PROVE q[k] \in S
    OBVIOUS
  <2>1. q[k] = steps[l + k] /\ l + k \in 1..m
    BY <1>6, <1>7
  <2>2. ASSUME NEW j \in 1..l PROVE h[j] # q[k]
    <3>1. j \in 1..m /\ j # l + k
      BY <1>2, <1>7
    <3> QED BY <1>2, <1>5, <2>1, <3>1
  <2> QED BY <1>1, <1>2, <1>3, <2>1, <2>2 DEF RangeOf
<1>9. \A i \in S : \E k \in 1..(m - l) : q[k] = i
  <2> SUFFICES ASSUME NEW i \in S PROVE \E k \in 1..(m - l) : q[k] = i
    OBVIOUS
  <2>1. PICK j \in 1..m : i = steps[j]
    BY <1>1, <1>2 DEF RangeOf
  <2>2. ~(j \in 1..l)
    BY <1>1, <1>2, <2>1 DEF RangeOf
  <2>3. j - l \in 1..(m - l) /\ l + (j - l) = j
    BY <1>2, <2>2
  <2> QED BY <1>6, <2>1, <2>3
<1>10. q \in Bijection(1..(m - l), S)
  <2>1. q \in [1..(m - l) -> S]
    BY <1>6, <1>8
  <2>2. \A j, k \in 1..(m - l) : q[j] = q[k] => j = k
    <3> SUFFICES ASSUME NEW j \in 1..(m - l), NEW k \in 1..(m - l), q[j] = q[k] PROVE j = k
      OBVIOUS
    <3>1. l + j = l + k
      BY <1>5, <1>6, <1>7
    <3> QED BY <1>2, <3>1
  <2>3. PICK D : D = 1..(m - l)
    OBVIOUS
  <2>4. q \in [D -> S] /\ \A j, k \in D : q[j] = q[k] => j = k
    BY <2>1, <2>2, <2>3
  <2>5. q \in Injection(D, S)
    BY <2>4 DEF Injection, IsInjective
  <2>6. \A i \in S : \E k \in D : q[k] = i
    BY <1>9, <2>3
  <2>7. q \in Surjection(D, S)
    BY <2>4, <2>6 DEF Surjection
  <2> QED BY <2>3, <2>5, <2>7 DEF Bijection
<1>11. Cardinality(S) = m - l
  <2>1. IsFiniteSet(1..(m - l)) /\ Cardinality(1..(m - l)) = m - l
    <3>1. m - l \in Nat /\ m - l \in Int /\ 1 \in Int
      BY <1>2
    <3>2. /\ IsFiniteSet(1..(m - l))
          /\ Cardinality(1..(m - l)) = IF 1 > m - l THEN 0 ELSE (m - l) - 1 + 1
      BY <3>1, FS_Interval
    <3> QED BY <3>1, <3>2
  <2>2. ExistsBijection(1..(m - l), S)
    BY <1>10 DEF ExistsBijection
  <2> QED BY <2>1, <2>2, FS_Bijection
<1>12. q \in Delivery!InOrder(S)
  <2>1. q \in [1..Cardinality(S) -> S] /\ DOMAIN q = 1..(m - l)
    BY <1>6, <1>8, <1>11
  <2>2. \A j, k \in 1..(m - l) : j < k => q[j] < q[k]
    <3> SUFFICES ASSUME NEW j \in 1..(m - l), NEW k \in 1..(m - l), j < k PROVE q[j] < q[k]
      OBVIOUS
    <3>1. l + j < l + k
      BY <1>2
    <3>2. q[j] = steps[l + j] /\ q[k] = steps[l + k] /\ l + j \in 1..m /\ l + k \in 1..m
      BY <1>6, <1>7
    <3> QED BY <1>3, <3>1, <3>2
  <2>3. \A j, k \in DOMAIN q : j < k => q[j] < q[k]
    BY <2>1, <2>2, Zenon
  <2>4. PICK N : N = Cardinality(S) /\ N = Delivery!Cardinality(S)
    BY DEF Cardinality, Delivery!Cardinality
  <2>5. q \in {f \in [1..N -> S] : \A j, k \in DOMAIN f : j < k => f[j] < f[k]}
    BY <2>1, <2>3, <2>4
  <2> QED BY <2>4, <2>5 DEF Delivery!InOrder
<1>13. ASSUME NEW z \in Seq(Nat), PrefixOf(z, steps), Len(z) = m PROVE z = h \o q
  <2>1. q \in Seq(Nat) /\ Len(q) = m - l
    <3>1. \A k \in 1..(m - l) : steps[l + k] \in Nat
      BY <1>3, <1>7
    <3>2. m - l \in Nat /\ DOMAIN q = 1..(m - l)
      BY <1>2, <1>6
    <3>3. q \in Seq(Nat)
      <4>1. PICK d : d = m - l
        OBVIOUS
      <4>2. d \in Nat /\ q = [k \in 1..d |-> steps[l + k]] /\ \A k \in 1..d : steps[l + k] \in Nat
        BY <1>6, <3>1, <3>2, <4>1
      <4> QED BY <4>2
    <3> QED BY <3>2, <3>3, LenProperties
  <2>2. PICK a : a = h \o q
    OBVIOUS
  <2>3. /\ a \in Seq(Nat) /\ Len(a) = l + Len(q)
        /\ \A k \in 1..(l + Len(q)) : a[k] = IF k <= l THEN h[k] ELSE q[k - l]
    BY <1>1, <2>1, <2>2, ConcatProperties
  <2>4. Len(a) = m /\ l + Len(q) = m /\ \A k \in 1..m : a[k] = IF k <= l THEN h[k] ELSE q[k - l]
    <3>1. l + (m - l) = m
      BY <1>2
    <3> QED BY <2>1, <2>3, <3>1
  <2>5. ASSUME NEW k \in 1..m PROVE z[k] = a[k]
    <3>1. z[k] = steps[k]
      BY <1>13 DEF PrefixOf
    <3>2. CASE k <= l
      <4>1. k \in 1..l
        BY <1>2, <3>2
      <4> QED BY <1>2, <2>4, <3>1, <3>2, <4>1
    <3>3. CASE ~(k <= l)
      <4>1. k - l \in 1..(m - l) /\ l + (k - l) = k
        BY <1>2, <3>3
      <4> QED BY <1>6, <2>4, <3>1, <3>3, <4>1
    <3> QED BY <3>2, <3>3
  <2> QED BY <1>13, <2>2, <2>3, <2>4, <2>5, SeqEqual
<1> QED
  BY <1>1, <1>4, <1>12, <1>13 DEF RestIn
-----------------------------------------------------------------------------
(* What a step hands out.                                                    *)

\* What a session s, of which y was handed out, has of the notifications `own`
\* of its turn among `events`.
Story(events, own, s, y) ==
    /\ s \in Session /\ y \in Seq(Nat) /\ own \subseteq Nat
    /\ ShapeOf(events, s) /\ Begins(own, s.raw) /\ StepsAreFirst(events, s)
    /\ PrefixOf(y, s.steps)

\* What the sequence s has, r has too.
Extends(s, r) == \A j \in DOMAIN s : j \in DOMAIN r /\ r[j] = s[j]

\* The notifications handed out are the first of those that the session has.
LEMMA HandedPrefix ==
    ASSUME NEW events, NEW own, NEW s, NEW y, Story(events, own, s, y)
    PROVE  /\ Mapped(s.raw, y) \in Seq(Nat) /\ Len(Mapped(s.raw, y)) = Len(y)
           /\ PrefixOf(Mapped(s.raw, y), Mapped(s.raw, s.steps))
<1>1. PICK raw, steps : raw = s.raw /\ steps = s.steps
  OBVIOUS
<1>2. /\ raw \in Seq(Nat) /\ steps \in Seq(Nat) /\ y \in Seq(Nat)
      /\ Len(y) \in Nat /\ Len(steps) \in Nat /\ DOMAIN steps = 1..Len(steps)
  <2>1. raw \in Seq(Nat) /\ steps \in Seq(Nat) /\ y \in Seq(Nat)
    BY <1>1 DEF Story, Session
  <2> QED BY <2>1, LenProperties
<1>3. \A k \in 1..Len(steps) : steps[k] \in DOMAIN raw
  BY <1>1, <1>2 DEF Story, ShapeOf
<1>4. Len(y) <= Len(steps) /\ \A k \in 1..Len(y) : k \in 1..Len(steps) /\ y[k] = steps[k]
  <2>1. Len(y) <= Len(steps) /\ \A k \in 1..Len(y) : y[k] = steps[k]
    BY <1>1 DEF Story, PrefixOf
  <2> QED BY <1>2, <2>1
<1>5. PICK h, g : h = Mapped(raw, y) /\ g = Mapped(raw, steps)
  OBVIOUS
<1>6. h \in Seq(Nat) /\ Len(h) = Len(y) /\ \A k \in 1..Len(y) : h[k] = raw[y[k]]
  <2>1. \A k \in 1..Len(y) : y[k] \in DOMAIN raw
    BY <1>3, <1>4
  <2> QED BY <1>2, <1>5, <2>1, MappedParts
<1>7. Len(g) = Len(steps) /\ \A k \in 1..Len(steps) : g[k] = raw[steps[k]]
  BY <1>2, <1>3, <1>5, MappedParts
<1>8. PrefixOf(h, g)
  BY <1>4, <1>6, <1>7 DEF PrefixOf
<1> QED
  BY <1>1, <1>5, <1>6, <1>8

\* A session that takes events does not change what was handed out.
LEMMA HandedStays ==
    ASSUME NEW events, NEW own, NEW s, NEW y, Story(events, own, s, y),
           NEW a \in Session, Extends(s.raw, a.raw)
    PROVE  Mapped(a.raw, y) = Mapped(s.raw, y)
<1>1. PICK raw, steps : raw = s.raw /\ steps = s.steps
  OBVIOUS
<1>2. steps \in Seq(Nat) /\ DOMAIN steps = 1..Len(steps) /\ Len(steps) \in Nat
      /\ DOMAIN y = 1..Len(y) /\ Len(y) \in Nat
  <2>1. steps \in Seq(Nat) /\ y \in Seq(Nat)
    BY <1>1 DEF Story, Session
  <2> QED BY <2>1, LenProperties
<1>3. \A k \in 1..Len(steps) : steps[k] \in DOMAIN raw
  BY <1>1, <1>2 DEF Story, ShapeOf
<1>4. \A k \in 1..Len(y) : k \in 1..Len(steps) /\ y[k] = steps[k]
  <2>1. Len(y) <= Len(steps) /\ \A k \in 1..Len(y) : y[k] = steps[k]
    BY <1>1 DEF Story, PrefixOf
  <2> QED BY <1>2, <2>1
<1>5. \A k \in DOMAIN y : a.raw[y[k]] = raw[y[k]]
  BY <1>1, <1>2, <1>3, <1>4 DEF Extends
<1> QED
  BY <1>1, <1>5 DEF Mapped

\* A step that hands out one more hands out the next that was told.
LEMMA HandsNext ==
    ASSUME NEW events, NEW own, NEW s, NEW y, Story(events, own, s, y),
           NEW a, NEW z, Story(events, own, a, z), Extends(s.raw, a.raw),
           PrefixOf(y, a.steps), Len(z) = Len(y) + 1
    PROVE  HandsOne(FirstTold(events, own), Mapped(s.raw, y), Mapped(a.raw, z))
<1>1. PICK T, h, g, steps :
         /\ T = FirstTold(events, own) /\ h = Mapped(a.raw, y) /\ g = Mapped(a.raw, z)
         /\ steps = Mapped(a.raw, a.steps)
  OBVIOUS
<1>2. h = Mapped(s.raw, y)
  <2>1. a \in Session
    BY DEF Story
  <2> QED BY <1>1, <2>1, HandedStays
<1>3. Story(events, own, a, y)
  BY DEF Story
<1>4. /\ h \in Seq(Nat) /\ Len(h) = Len(y) /\ PrefixOf(h, steps)
      /\ g \in Seq(Nat) /\ Len(g) = Len(z) /\ PrefixOf(g, steps)
  BY <1>1, <1>3, HandedPrefix
<1>5. steps \in Seq(Nat) /\ Tells(T, steps)
  BY <1>1, SessionTells DEF Story
<1>6. T \subseteq Nat
  BY <1>1 DEF FirstTold, Story
<1>7. HandsOne(T, h, g)
  <2>1. h \in Seq(Nat) /\ PrefixOf(h, steps) /\ g \in Seq(Nat) /\ PrefixOf(g, steps)
    BY <1>4
  <2>2. Len(g) = Len(h) + 1
    BY <1>4
  <2>3. T \subseteq Nat /\ steps \in Seq(Nat) /\ Tells(T, steps)
    BY <1>5, <1>6
  <2> QED BY <2>1, <2>2, <2>3, NextTold
<1> QED
  BY <1>1, <1>2, <1>7

\* Of what was told, T, and of what was handed out of session s, y: all steps
\* of s lead to all of T, in order.
HandsAll(T, s, y) ==
    LET h == Mapped(s.raw, y) IN
    /\ Len(y) = Len(s.steps) => T \subseteq RangeOf(h)
    /\ \A z \in Seq(Nat) : PrefixOf(z, s.steps) /\ Len(z) = Len(s.steps) =>
          \E q \in Delivery!InOrder(T \ RangeOf(h)) : Mapped(s.raw, z) = h \o q

\* A step that hands out all steps of a session that has all that was told
\* hands out the rest of it.
LEMMA HandsRest ==
    ASSUME NEW events, NEW own, NEW s, NEW y, Story(events, own, s, y),
           \A i \in own : events[i].kind \in ItemKinds => i \in RangeOf(s.raw)
    PROVE  HandsAll(FirstTold(events, own), s, y)
<1>1. PICK T, h, steps :
         T = FirstTold(events, own) /\ h = Mapped(s.raw, y) /\ steps = Mapped(s.raw, s.steps)
  OBVIOUS
<1>2. h \in Seq(Nat) /\ Len(h) = Len(y) /\ PrefixOf(h, steps)
  BY <1>1, HandedPrefix
<1>3. T \subseteq RangeOf(s.raw) /\ T \subseteq Nat
  BY <1>1 DEF FirstTold, Story
<1>4. /\ steps \in Seq(Nat) /\ Len(steps) = Len(s.steps) /\ Tells(T, steps)
      /\ T \subseteq RangeOf(steps)
  BY <1>1, <1>3, SessionTells DEF Story
<1>5. RestIn(T, steps, h)
  <2>1. /\ T \subseteq Nat /\ steps \in Seq(Nat) /\ Tells(T, steps)
        /\ T \subseteq RangeOf(steps) /\ h \in Seq(Nat) /\ PrefixOf(h, steps)
    BY <1>2, <1>3, <1>4
  <2> QED BY <2>1, RestTold
<1>6. ASSUME NEW z \in Seq(Nat), PrefixOf(z, s.steps), Len(z) = Len(s.steps)
      PROVE  \E q \in Delivery!InOrder(T \ RangeOf(h)) : Mapped(s.raw, z) = h \o q
  <2>1. PICK g : g = Mapped(s.raw, z)
    OBVIOUS
  <2>2. Story(events, own, s, z)
    BY <1>6 DEF Story
  <2>3. g \in Seq(Nat) /\ Len(g) = Len(z) /\ PrefixOf(g, steps)
    BY <1>1, <2>1, <2>2, HandedPrefix
  <2>4. \E q \in Delivery!InOrder(T \ RangeOf(h)) : g = h \o q
    BY <1>4, <1>5, <1>6, <2>3 DEF RestIn
  <2> QED BY <2>1, <2>4
<1>7. Len(y) = Len(s.steps) => T \subseteq RangeOf(h)
  BY <1>2, <1>4, <1>5 DEF RestIn
<1>8. HandsAll(T, s, y)
  BY <1>1, <1>6, <1>7 DEF HandsAll
<1> QED
  BY <1>1, <1>8
\* What the sessions have, and what was handed out of them.
LEMMA StoryHere ==
    ASSUME TypeOK, StreamInv, BeginsInv, NEW t \in Turns
    PROVE  /\ Story(arrived, Own(t), session[t], yielded[t])
           /\ ToldSteps(t) = FirstTold(arrived, Own(t))
           /\ HandedSteps(t) = Mapped(session[t].raw, yielded[t])
<1>1. Own(t) \subseteq Nat
  BY LenProperties DEF Own, TypeOK
<1>2. session[t] \in Session /\ yielded[t] \in Seq(Nat)
  BY DEF TypeOK
<1>3. ShapeOf(arrived, session[t]) /\ PrefixOf(yielded[t], session[t].steps)
  BY DEF StreamInv, TurnInv
<1>4. Story(arrived, Own(t), session[t], yielded[t])
  BY <1>1, <1>2, <1>3 DEF Story, BeginsInv
<1> QED
  BY <1>4 DEF ToldSteps, FirstTold, ItemEvents, HandedSteps, Mapped

\* And what they have after a step that publishes nothing.
LEMMA StoryThen ==
    ASSUME TypeOK', StreamInv', BeginsInv', UNCHANGED arrived, NEW t \in Turns
    PROVE  /\ Story(arrived, Own(t), session'[t], yielded'[t])
           /\ ToldSteps(t)' = ToldSteps(t)
           /\ HandedSteps(t)' = Mapped(session'[t].raw, yielded'[t])
<1>1. Own(t)' = Own(t)
  BY DEF Own
<1>2. Own(t) \subseteq Nat
  <2>1. arrived \in Seq(Event)
    BY DEF TypeOK
  <2> QED BY <2>1, LenProperties DEF Own
<1>3. session'[t] \in Session /\ yielded'[t] \in Seq(Nat)
  BY DEF TypeOK
<1>4. ShapeOf(arrived, session'[t]) /\ PrefixOf(yielded'[t], session'[t].steps)
  BY DEF StreamInv, TurnInv
<1>5. Begins(Own(t), session'[t].raw) /\ StepsAreFirst(arrived, session'[t])
  BY <1>1 DEF BeginsInv
<1>6. Story(arrived, Own(t), session'[t], yielded'[t])
  BY <1>2, <1>3, <1>4, <1>5 DEF Story
<1>7. ToldSteps(t)' = ToldSteps(t)
  BY <1>1 DEF ToldSteps, ItemEvents
<1> QED
  BY <1>6, <1>7 DEF HandedSteps, Mapped

-----------------------------------------------------------------------------
(* The server's steps, and the client's, as TurnDelivery has them.           *)

\* `more` has the notifications `all`: those of `events`, `own`, and maybe the
\* next one, n.
Grows(events, own, more, all, n) ==
    /\ \A i \in own : i \in Nat /\ i < n /\ i \in all /\ more[i] = events[i]
    /\ \A i \in all : i \in own \/ i = n

OneMore(S, T, n) == \A i : i \in T <=> i \in S \/ (i = n /\ i \in T)

\* One more notification tells one step or none.
LEMMA AppendTold ==
    ASSUME NEW events, NEW own, NEW more, NEW all, NEW n \in Nat,
           Grows(events, own, more, all, n)
    PROVE  OneMore(FirstTold(events, own), FirstTold(more, all), n)
<1>1. PICK T, U : T = FirstTold(events, own) /\ U = FirstTold(more, all)
  OBVIOUS
<1>2. ASSUME NEW i \in own PROVE i \in U <=> i \in T
  <2>1. i \in Nat /\ ~(n < i) /\ i \in all
    BY DEF Grows
  <2>2. ASSUME i \in U PROVE i \in T
    BY <1>1, <2>2 DEF FirstTold, Grows
  <2>3. ASSUME i \in T PROVE i \in U
    <3>1. ASSUME NEW j \in all, more[j].kind \in ItemKinds, j < i,
                 more[i].item # NoId
          PROVE  more[j].item # more[i].item
      <4>1. j \in own
        BY <2>1, <3>1 DEF Grows
      <4> QED BY <1>1, <2>3, <3>1, <4>1 DEF FirstTold, Grows
    <3> QED BY <1>1, <2>1, <2>3, <3>1 DEF FirstTold, Grows
  <2> QED BY <2>2, <2>3
<1>3. T \subseteq own /\ U \subseteq all
  BY <1>1 DEF FirstTold
<1>4. OneMore(T, U, n)
  BY <1>2, <1>3 DEF OneMore, Grows
<1> QED
  BY <1>1, <1>4

\* Publishing changes nothing else.
LEMMA PublishMaps ==
    ASSUME TypeOK, NEW t \in Turns, NEW e, e.owner = t, Publish(e)
    PROVE  /\ Len(arrived) + 1 \in 1 .. MaxEvents
           /\ \A s \in Turns : /\ HandedSteps(s)' = HandedSteps(s)
                               /\ OutcomesOf(s)' = OutcomesOf(s)
                               /\ \A j \in ToldSteps(s) : j < Len(arrived) + 1
           /\ \A s \in Turns \ {t} : ToldSteps(s)' = ToldSteps(s)
           /\ \/ ToldSteps(t)' = ToldSteps(t)
              \/ /\ ToldSteps(t)' = ToldSteps(t) \cup {Len(arrived) + 1}
                 /\ e.kind \in ItemKinds
<1>1. PICK n : n = Len(arrived) + 1
  OBVIOUS
<1>2. arrived' = Append(arrived, e) /\ UNCHANGED <<session, yielded, reports>>
      /\ Len(arrived) < MaxEvents
  BY DEF Publish, history
<1>3. arrived \in Seq(Event \cup {e})
  BY SeqMonotonic DEF TypeOK
<1>4. /\ n \in Nat /\ DOMAIN arrived = 1..Len(arrived) /\ Len(arrived) \in Nat
      /\ DOMAIN arrived' = 1..n /\ arrived'[n] = e
      /\ \A j \in 1..Len(arrived) : arrived'[j] = arrived[j]
  BY <1>1, <1>2, <1>3, AppendProperties, LenProperties
<1>5. n \in 1 .. MaxEvents
  BY <1>1, <1>2, <1>4, BoundAssumption
<1>6. ASSUME NEW s \in Turns
      PROVE  /\ HandedSteps(s)' = HandedSteps(s) /\ OutcomesOf(s)' = OutcomesOf(s)
             /\ \A j \in ToldSteps(s) : j < n
             /\ \/ ToldSteps(s)' = ToldSteps(s)
                \/ s = t /\ e.kind \in ItemKinds /\ ToldSteps(s)' = ToldSteps(s) \cup {n}
  <2>1. HandedSteps(s)' = HandedSteps(s) /\ OutcomesOf(s)' = OutcomesOf(s)
    BY <1>2 DEF HandedSteps, OutcomesOf
  <2>2. PICK own, new, all, more : /\ own = Own(s) /\ new = {i \in {n} : e.owner = s}
                                   /\ all = Own(s)' /\ more = arrived'
    OBVIOUS
  <2>3. own \subseteq Nat /\ \A i \in own : i < n /\ more[i] = arrived[i]
    BY <1>1, <1>4, <2>2 DEF Own
  <2>4. \A i : i \in all <=> i \in own \/ i \in new
    <3>1. all = {i \in 1..n : more[i].owner = s}
      BY <1>4, <2>2 DEF Own
    <3>2. own = {i \in 1..Len(arrived) : arrived[i].owner = s}
      BY <1>4, <2>2 DEF Own
    <3>3. \A i : i \in 1..n <=> i \in 1..Len(arrived) \/ i = n
      BY <1>1, <1>4
    <3> QED BY <1>4, <2>2, <3>1, <3>2, <3>3
  <2>5. PICK T, U, z : T = FirstTold(arrived, own) /\ U = FirstTold(more, all) /\ z = new \cap U
    OBVIOUS
  <2>6. ToldSteps(s) = T
    BY <2>2, <2>5 DEF ToldSteps, FirstTold, ItemEvents
  <2>7. ToldSteps(s)' = U
    BY <2>2, <2>5 DEF ToldSteps, FirstTold, ItemEvents
  <2>8. \A j \in ToldSteps(s) : j < n
    BY <2>2, <2>3 DEF ToldSteps, ItemEvents
  <2>9. z = {} \/ (z = {n} /\ s = t /\ e.kind \in ItemKinds)
    <3>1. \A i \in z : i = n /\ e.owner = s /\ more[i].kind \in ItemKinds
      BY <2>2, <2>5 DEF FirstTold
    <3> QED BY <1>4, <2>2, <3>1
  <2>10. U = T \cup z
    <3>1. Grows(arrived, own, more, all, n)
      BY <2>3, <2>4, <2>2 DEF Grows
    <3>2. OneMore(T, U, n)
      BY <1>4, <2>5, <3>1, AppendTold
    <3>3. T \subseteq own /\ n \notin own /\ U \subseteq all
      BY <1>1, <1>4, <2>3, <2>5 DEF FirstTold
    <3>4. \A i : i \in z <=> i = n /\ i \in U
      BY <2>2, <2>4, <2>5, <3>3
    <3> QED BY <3>2, <3>4 DEF OneMore
  <2> QED BY <2>1, <2>6, <2>7, <2>8, <2>9, <2>10
<1> QED
  BY <1>1, <1>5, <1>6

\* The server begins no turn by itself; it tells its steps and ends it.
LEMMA ServerMaps ==
    ASSUME TypeOK, TypeOK', NEW t \in Turns, EmitItem(t) \/ EmitTerminal(t) \/ EmitEcho(t)
    PROVE  Delivery!Tell(t) \/ Delivery!End(t) \/ UNCHANGED Delivery!vars
<1>1. PICK n : n = Len(arrived) + 1
  OBVIOUS
<1>2. ASSUME NEW e, e.owner = t, Publish(e), \A s \in Turns \ {t} : verdict'[s] = verdict[s]
      PROVE  /\ KeepsOthers(t) /\ n \in 1 .. MaxEvents /\ \A j \in ToldSteps(t) : j < n
             /\ HandedSteps(t)' = HandedSteps(t) /\ OutcomesOf(t)' = OutcomesOf(t)
             /\ \/ ToldSteps(t)' = ToldSteps(t)
                \/ ToldSteps(t)' = ToldSteps(t) \cup {n} /\ e.kind \in ItemKinds
  <2>1. \E V, W : verdict \in [Turns -> V] /\ verdict' \in [Turns -> W]
    BY DEF TypeOK
  <2> QED BY <1>1, <1>2, <2>1, PublishMaps DEF KeepsOthers, Keeps
<1>3. CASE EmitItem(t)
  <2>1. PICK e : Publish(e) /\ e.owner = t /\ verdict[t] = "running" /\ UNCHANGED verdict
    BY <1>3 DEF EmitItem, Envelope
  <2>2. CASE ToldSteps(t)' = ToldSteps(t)
    BY <1>2, <2>1, <2>2, MapsVerdict
  <2>3. CASE ToldSteps(t)' # ToldSteps(t)
    BY <1>2, <2>1, <2>3, MapsTell
  <2> QED BY <2>2, <2>3
<1>4. CASE EmitTerminal(t)
  <2>1. PICK form \in Forms, kind \in TerminalKinds :
           /\ Publish(Envelope(t, form, kind, NoId)) /\ verdict[t] = "running"
           /\ verdict' = [verdict EXCEPT ![t] = VerdictOf(kind)]
    BY <1>4 DEF EmitTerminal
  <2>2. PICK e : e = Envelope(t, form, kind, NoId)
    OBVIOUS
  <2>3. e.owner = t /\ e.kind \notin ItemKinds /\ Publish(e)
    BY <2>1, <2>2 DEF Envelope, TerminalKinds, CompletedKinds, ItemKinds
  <2>4. verdict'[t] \in Ended /\ \A s \in Turns \ {t} : verdict'[s] = verdict[s]
    BY <2>1, VerdictKinds DEF TypeOK
  <2> QED BY <1>2, <2>1, <2>3, <2>4, MapsVerdict
<1>5. CASE EmitEcho(t)
  <2>1. PICK form : Publish(Envelope(t, form, "completedFailed", NoId)) /\ UNCHANGED verdict
    BY <1>5 DEF EmitEcho
  <2>2. PICK e : e = Envelope(t, form, "completedFailed", NoId)
    OBVIOUS
  <2>3. e.owner = t /\ e.kind \notin ItemKinds /\ Publish(e)
    BY <2>1, <2>2 DEF Envelope, ItemKinds
  <2> QED BY <1>2, <2>1, <2>3, MapsVerdict
<1> QED
  BY <1>3, <1>4, <1>5


-----------------------------------------------------------------------------
(* The steps of a call, as TurnDelivery has them.                            *)

\* A call leaves the other turns as they are, in TurnDelivery too.
LEMMA LocalKeeps ==
    ASSUME TypeOK, TypeOK', NEW c \in Calls, NEW t \in Turns, Local(c, t)
    PROVE  KeepsOthers(t)
<1>1. ASSUME NEW s \in Turns \ {t} PROVE Keeps(s)
  <2>1. ToldSteps(s)' = ToldSteps(s)
    BY DEF Local, ToldSteps, ItemEvents, Own
  <2>2. HandedSteps(s)' = HandedSteps(s)
    <3>1. session'[s] = session[s] /\ yielded'[s] = yielded[s]
      BY DEF Local
    <3> QED BY <3>1 DEF HandedSteps
  <2>3. OutcomesOf(s)' = OutcomesOf(s)
    <3>1. {q \in reports' : q.turn = s} = {q \in reports : q.turn = s}
      BY DEF Local
    <3> QED BY <3>1 DEF OutcomesOf
  <2> QED BY <2>1, <2>2, <2>3 DEF Keeps, Local
<1>2. \E V, W : verdict \in [Turns -> V] /\ verdict' \in [Turns -> W]
  BY DEF TypeOK
<1> QED
  BY <1>1, <1>2 DEF KeepsOthers

\* A turn has an outcome once it is settled.
LEMMA OutcomeIfSettled ==
    ASSUME NEW t \in Turns
    PROVE  /\ ~Settled(t) => OutcomesOf(t) = {}
           /\ UNCHANGED reports => OutcomesOf(t)' = OutcomesOf(t)
           /\ \A o, kind :
                 ~Settled(t) /\ reports' = reports \cup {[turn |-> t, op |-> o, kind |-> kind]}
                    => OutcomesOf(t)' = {[op |-> o, kind |-> kind]}
<1>1. ASSUME ~Settled(t) PROVE {q \in reports : q.turn = t} = {}
  BY <1>1 DEF Settled
<1>2. ASSUME NEW o, NEW kind, ~Settled(t),
             reports' = reports \cup {[turn |-> t, op |-> o, kind |-> kind]}
      PROVE  OutcomesOf(t)' = {[op |-> o, kind |-> kind]}
  <2>1. PICK r : r = [turn |-> t, op |-> o, kind |-> kind]
    OBVIOUS
  <2>2. r.turn = t /\ r.op = o /\ r.kind = kind
    BY <2>1
  <2>3. {q \in reports' : q.turn = t} = {r}
    BY <1>1, <1>2, <2>1, <2>2
  <2>4. OutcomesOf(t)' = {[op |-> q.op, kind |-> q.kind] : q \in {r}}
    BY <2>3 DEF OutcomesOf
  <2> QED BY <2>2, <2>4
<1> QED
  BY <1>1, <1>2 DEF OutcomesOf

\* A step of a call that hands nothing out and reports nothing.
LEMMA QuietMaps ==
    ASSUME TypeOK, TypeOK', StreamInv, StreamInv', BeginsInv, BeginsInv',
           NEW c \in Calls, NEW t \in Turns, Local(c, t), UNCHANGED reports,
           yielded'[t] = yielded[t], Extends(session[t].raw, session'[t].raw),
           \/ verdict'[t] = verdict[t]
           \/ verdict[t] = "none" /\ verdict'[t] = "running"
    PROVE  Delivery!Begin(t) \/ UNCHANGED Delivery!vars
<1>1. KeepsOthers(t)
  BY LocalKeeps
<1>2. UNCHANGED arrived
  BY DEF Local
<1>3. /\ Story(arrived, Own(t), session[t], yielded[t])
      /\ HandedSteps(t) = Mapped(session[t].raw, yielded[t])
  BY StoryHere
<1>4. /\ ToldSteps(t)' = ToldSteps(t)
      /\ HandedSteps(t)' = Mapped(session'[t].raw, yielded'[t])
  BY <1>2, StoryThen
<1>5. HandedSteps(t)' = HandedSteps(t)
  <2>1. session'[t] \in Session
    BY DEF TypeOK
  <2>2. Mapped(session'[t].raw, yielded[t]) = Mapped(session[t].raw, yielded[t])
    BY <1>3, <2>1, HandedStays
  <2> QED BY <1>3, <1>4, <2>2
<1>6. OutcomesOf(t)' = OutcomesOf(t)
  BY OutcomeIfSettled
<1> QED
  BY <1>1, <1>4, <1>5, <1>6, MapsVerdict

\* A step of a call that hands out one step of its turn.
LEMMA HandMaps ==
    ASSUME TypeOK, TypeOK', StreamInv, StreamInv', BeginsInv, BeginsInv',
           NEW c \in Calls, NEW t \in Turns, Local(c, t), UNCHANGED <<verdict, reports>>,
           ~Settled(t), Len(yielded'[t]) = Len(yielded[t]) + 1,
           PrefixOf(yielded[t], session'[t].steps),
           Extends(session[t].raw, session'[t].raw)
    PROVE  Delivery!HandOut(t)
<1>1. KeepsOthers(t) /\ UNCHANGED arrived
  BY LocalKeeps DEF Local
<1>2. PICK s, y, a, z, own : /\ s = session[t] /\ y = yielded[t] /\ own = Own(t)
                             /\ a = session'[t] /\ z = yielded'[t]
  OBVIOUS
<1>3. /\ Story(arrived, own, s, y) /\ ToldSteps(t) = FirstTold(arrived, own)
      /\ HandedSteps(t) = Mapped(s.raw, y)
  BY <1>2, StoryHere
<1>4. /\ Story(arrived, own, a, z) /\ ToldSteps(t)' = ToldSteps(t)
      /\ HandedSteps(t)' = Mapped(a.raw, z)
  BY <1>1, <1>2, StoryThen
<1>5. Extends(s.raw, a.raw) /\ PrefixOf(y, a.steps) /\ Len(z) = Len(y) + 1
  BY <1>2
<1>6. HandsOne(FirstTold(arrived, own), Mapped(s.raw, y), Mapped(a.raw, z))
  BY <1>3, <1>4, <1>5, HandsNext
<1>7. HandsOne(ToldSteps(t), HandedSteps(t), HandedSteps(t)')
  BY <1>3, <1>4, <1>6
<1>8. PICK i \in ToldSteps(t) \ RangeOf(HandedSteps(t)) :
         /\ \A j \in ToldSteps(t) \ RangeOf(HandedSteps(t)) : i <= j
         /\ HandedSteps(t)' = Append(HandedSteps(t), i)
  BY <1>7 DEF HandsOne
<1>9. OutcomesOf(t) = {} /\ OutcomesOf(t)' = OutcomesOf(t)
  BY OutcomeIfSettled
<1> QED
  BY <1>1, <1>4, <1>8, <1>9, MapsHandOut

\* A step of a call that reports the outcome of its turn.
LEMMA SettleMaps ==
    ASSUME OneCallPerTurn, TypeOK, TypeOK', FlagsInv, RoutingInv, VerdictInv, EndInv,
           StreamInv, StreamInv', BeginsInv, BeginsInv', ModeInv,
           NEW c \in Calls, NEW t \in Turns, t = turn[c], pc[c] # "idle", Local(c, t),
           \/ RaiseFailed(c) \/ StreamEnds(c) \/ OnceResolves(c) \/ ReadAnswered(c)
           \/ CancelReturns(c)
    PROVE  Delivery!StreamEnds(t) \/ Delivery!OnceEnds(t) \/ Delivery!CancelEnds(t)
<1>1. PICK s, y, own, v : s = session[t] /\ y = yielded[t] /\ own = Own(t) /\ v = verdict[t]
  OBVIOUS
<1>2. /\ v \in {"none", "running"} \cup Ended /\ s \in Session
      /\ s.completed /\ ~Unsuccessful(s) => v = "success"
      /\ s.failed => v = "failed"
      /\ s.interrupted => v = "interrupted" /\ s.completed
      /\ pc[c] = "reading" => v = "success" /\ s.completed
  <2>1. v \in {"none", "running"} \cup Ended /\ s \in Session
    BY <1>1 DEF TypeOK
  <2>2. /\ s.completed /\ ~Unsuccessful(s) => v = "success"
        /\ s.failed => v = "failed"
        /\ s.interrupted => v = "interrupted"
    BY <1>1, Zenon DEF VerdictInv, FlagsSay
  <2>3. s.interrupted => s.completed
    BY <1>1, Zenon DEF FlagsInv
  <2>4. pc[c] = "reading" => v = "success" /\ s.completed
    BY <1>1, Zenon DEF VerdictInv, FlagsInv
  <2> QED BY <2>1, <2>2, <2>3, <2>4
<1>3. /\ ~Settled(t) /\ Knows(pc[c], op[c], cursor[c], mark[c], token[t], s, y)
      /\ y \in Seq(Nat) /\ PrefixOf(y, s.steps)
      /\ token[t].mode = "stream" => Resumes(s, y, token[t].cursor)
  BY <1>1, HereFacts
<1>4. PICK kind : /\ Settle(c, kind)
                  /\ \/ v = "success" /\ kind \in {"ok", "unresolved", "completed"}
                     \/ v = "failed" /\ kind \in {"failed", "neither"}
                     \/ v = "interrupted" /\ kind \in {"failed", "interrupted"}
                  /\ \/ RaiseFailed(c) /\ kind = "failed"
                     \/ StreamEnds(c) /\ kind = "ok"
                     \/ (OnceResolves(c) \/ ReadAnswered(c)) /\ kind \in {"ok", "unresolved"}
                     \/ CancelReturns(c) /\ kind \in {"completed", "interrupted", "neither"}
  <2>1. CASE RaiseFailed(c)
    BY <1>1, <1>2, <2>1 DEF RaiseFailed, Unsuccessful
  <2>2. CASE StreamEnds(c)
    BY <1>1, <1>2, <2>2 DEF StreamEnds
  <2>3. CASE OnceResolves(c)
    BY <1>1, <1>2, <2>3 DEF OnceResolves
  <2>4. CASE ReadAnswered(c)
    BY <1>2, <2>4 DEF ReadAnswered
  <2>5. CASE CancelReturns(c)
    <3>1. Terminal(s) /\ Settle(c, CancelOutcome(s))
      BY <1>1, <2>5 DEF CancelReturns
    <3>2. \/ v = "success" /\ CancelOutcome(s) = "completed"
          \/ v = "failed" /\ CancelOutcome(s) = "neither"
          \/ v = "interrupted" /\ CancelOutcome(s) = "interrupted"
      BY <1>2, <3>1 DEF CancelOutcome, Terminal, Unsuccessful
    <3> QED BY <2>5, <3>1, <3>2
  <2> QED BY <2>1, <2>2, <2>3, <2>4, <2>5
<1>5. /\ Terminal(s) /\ UNCHANGED <<verdict, session>>
      /\ reports' = reports \cup {[turn |-> t, op |-> op[c], kind |-> kind]}
  <2>1. Terminal(s)
    BY <1>1, <1>2, <1>4 DEF RaiseFailed, StreamEnds, OnceResolves, ReadAnswered, CancelReturns,
                            Terminal, Unsuccessful
  <2> QED BY <1>4, <2>1 DEF Settle, serverVars
<1>6. KeepsOthers(t) /\ UNCHANGED arrived
  BY LocalKeeps DEF Local
<1>7. /\ Story(arrived, own, s, y) /\ ToldSteps(t) = FirstTold(arrived, own)
      /\ HandedSteps(t) = Mapped(s.raw, y)
  BY <1>1, StoryHere
<1>8. /\ Story(arrived, own, s, yielded'[t]) /\ ToldSteps(t)' = ToldSteps(t)
      /\ HandedSteps(t)' = Mapped(s.raw, yielded'[t])
  <2>1. session'[t] = s
    BY <1>1, <1>5
  <2> QED BY <1>1, <1>6, <2>1, StoryThen
<1>9. \A kinds : kind \in kinds => Delivery!Report(t, op[c], kinds)
  <2>1. OutcomesOf(t) = {} /\ OutcomesOf(t)' = {[op |-> op[c], kind |-> kind]}
    BY <1>3, <1>5, OutcomeIfSettled
  <2>2. PICK o : o = op[c]
    OBVIOUS
  <2>3. OutcomesOf(t)' = {[op |-> o, kind |-> kind]}
    BY <2>1, <2>2
  <2>4. \/ verdict[t] = "success" /\ kind \in {"ok", "unresolved", "completed"}
        \/ verdict[t] = "failed" /\ kind \in {"failed", "neither"}
        \/ verdict[t] = "interrupted" /\ kind \in {"failed", "interrupted"}
    BY <1>1, <1>4
  <2>5. \A kinds : kind \in kinds => Delivery!Report(t, o, kinds)
    BY <1>5, <1>6, <1>8, <2>1, <2>3, <2>4, MapsReport
  <2> QED BY <2>2, <2>5
<1>10. PICK T, h : T = ToldSteps(t) /\ h = HandedSteps(t)
  OBVIOUS
<1>11. /\ Len(y) = Len(s.steps) => T \subseteq RangeOf(h)
       /\ \A z \in Seq(Nat) : PrefixOf(z, s.steps) /\ Len(z) = Len(s.steps) =>
             \E q \in Delivery!InOrder(T \ RangeOf(h)) : Mapped(s.raw, z) = h \o q
  <2>1. \A i \in own : arrived[i].kind \in ItemKinds => i \in RangeOf(s.raw)
    BY <1>1, <1>5 DEF EndInv
  <2>2. T = FirstTold(arrived, own) /\ h = Mapped(s.raw, y)
    BY <1>7, <1>10
  <2>3. HandsAll(T, s, y)
    BY <1>7, <2>1, <2>2, HandsRest
  <2> QED BY <2>2, <2>3 DEF HandsAll
<1>12. y = <<>> => h = <<>>
  BY <1>7, <1>10 DEF Mapped
<1>13. UNCHANGED yielded => HandedSteps(t)' = HandedSteps(t)
  BY <1>1, <1>7, <1>8
<1>14. CASE RaiseFailed(c) \/ StreamEnds(c) \/ OnceResolves(c) \/ ReadAnswered(c)
  <2>1. UNCHANGED yielded /\ kind \in {"ok", "unresolved", "failed"}
    BY <1>4, <1>14 DEF RaiseFailed, StreamEnds, OnceResolves, ReadAnswered, CancelReturns,
                       Pumping, AtTop
  <2>2. pc[c] \in {"top", "reading"}
    BY <1>14 DEF RaiseFailed, StreamEnds, OnceResolves, ReadAnswered, AtTop
  <2>3. op[c] \in {"once", "stream"}
    BY <2>2 DEF TypeOK, ChatPlaces
  <2>4. CASE op[c] = "stream"
    <3>1. kind \in {"ok", "failed"}
      BY <1>3, <1>4, <1>14, <2>4 DEF OnceResolves, ReadAnswered, Knows, CancelReturns, Pumping,
                                    RaiseFailed, StreamEnds, AtTop
    <3>2. Len(y) = Len(s.steps)
      BY <1>3, <2>2, <2>4 DEF Knows
    <3>3. Delivery!Report(t, "stream", {"ok", "failed"})
      BY <1>9, <2>4, <3>1
    <3> QED BY <1>6, <1>10, <1>11, <1>13, <2>1, <3>2, <3>3, MapsQuietEnd
  <2>5. CASE op[c] = "once"
    <3>1. Delivery!Report(t, "once", {"ok", "unresolved", "failed"})
      BY <1>9, <2>1, <2>5
    <3>2. h = <<>>
      BY <1>1, <1>12, <2>5 DEF ModeInv
    <3> QED BY <1>6, <1>10, <1>13, <2>1, <3>1, <3>2, MapsQuietEnd
  <2> QED BY <2>3, <2>4, <2>5
<1>15. CASE CancelReturns(c)
  <2>1. pc[c] \in {"draining", "confirm"} /\ kind \in {"completed", "interrupted", "neither"}
    BY <1>4, <1>15 DEF RaiseFailed, StreamEnds, OnceResolves, ReadAnswered, CancelReturns,
                       Pumping, AtTop
  <2>2. op[c] = "cancel" /\ cursor[c] = token[t].cursor
    BY <1>3, <2>1 DEF Knows, ChatPlaces
  <2>3. token[t].mode \in {"once", "stream"}
    BY <2>2 DEF ModeInv, TypeOK
  <2>4. Delivery!Report(t, "cancel", {"completed", "interrupted", "neither"})
    BY <1>9, <2>1, <2>2
  <2>5. CASE token[t].mode = "once"
    <3>1. UNCHANGED yielded /\ y = <<>>
      BY <1>1, <1>15, <2>5 DEF CancelReturns, ModeInv
    <3> QED BY <1>6, <1>10, <1>12, <1>13, <2>4, <3>1, MapsQuietEnd
  <2>6. CASE token[t].mode = "stream"
    <3>1. PICK z : z = yielded'[t]
      OBVIOUS
    <3>2. z = y \o UnreadSteps(c)
      BY <1>1, <1>15, <2>6, <3>1 DEF CancelReturns, Handed, TypeOK
    <3>3. ReadTo(y, s.steps, 0, cursor[c])
      BY <1>3, <2>2, <2>6 DEF Resumes
    <3>4. z \in Seq(Nat) /\ PrefixOf(z, s.steps) /\ Len(z) = Len(s.steps)
      <4>1. z \in Seq(Nat)
        BY <3>1 DEF TypeOK
      <4> QED BY <1>1, <1>3, <3>2, <3>3, <4>1, UnreadRest
    <3>5. PICK q \in Delivery!InOrder(T \ RangeOf(h)) : Mapped(s.raw, z) = h \o q
      BY <1>11, <3>4
    <3>6. HandedSteps(t)' = h \o q
      BY <1>8, <3>1, <3>5
    <3>7. /\ q \in Delivery!InOrder(ToldSteps(t) \ RangeOf(HandedSteps(t)))
          /\ HandedSteps(t)' = HandedSteps(t) \o q
      BY <1>10, <3>5, <3>6
    <3> QED BY <1>6, <2>4, <3>7, MapsCancelEnd
  <2> QED BY <2>3, <2>5, <2>6
<1> QED
  BY <1>14, <1>15

\* A call that takes an event adds it to what its session has.
LEMMA TakesHere ==
    ASSUME TypeOK, RoutingInv, StreamInv, NEW c \in Calls, NEW t \in Turns, t = turn[c],
           pc[c] # "idle", NEW i \in deferred, Take(t, i)
    PROVE  /\ Extends(session[t].raw, session'[t].raw)
           /\ PrefixOf(yielded[t], session'[t].steps)
<1>1. PICK s, a, y : s = session[t] /\ a = Apply(session[t], i) /\ y = yielded[t]
  OBVIOUS
<1>2. s \in Session /\ i \in Nat /\ y \in Seq(Nat) /\ PrefixOf(y, s.steps)
  <2>1. i \in Nat
    BY LenProperties DEF TypeOK
  <2> QED BY <1>1, <2>1, HereFacts
<1>3. a = session'[t]
  BY <1>1 DEF Take, TypeOK
<1>4. PrefixOf(y, a.steps)
  BY <1>1, <1>2, ApplyReads
<1>5. PICK n, r : n = Len(s.raw) /\ r = Apply(s, i).raw
  OBVIOUS
<1>6. /\ n \in Nat /\ DOMAIN s.raw = 1..n /\ DOMAIN r = 1..(n + 1)
      /\ \A j \in 1..n : r[j] = s.raw[j]
  BY <1>2, <1>5, ApplyParts
<1>7. Extends(s.raw, r) /\ r = a.raw
  BY <1>1, <1>5, <1>6 DEF Extends
<1> QED
  BY <1>1, <1>3, <1>4, <1>7

\* A yield hands out one step.
LEMMA YieldOne ==
    ASSUME OneCallPerTurn, TypeOK, NEW t \in Turns, NEW x \in Nat, Yield(t, x)
    PROVE  Len(yielded'[t]) = Len(yielded[t]) + 1
<1>1. PICK y, u : y = yielded[t] /\ u = <<x>>
  OBVIOUS
<1>2. y \in Seq(Nat) /\ u \in Seq(Nat) /\ Len(u) = 1
  BY <1>1 DEF TypeOK
<1>3. yielded'[t] = y \o u
  BY <1>1 DEF Yield, Handed, TypeOK
<1> QED
  BY <1>1, <1>2, <1>3, ConcatProperties

\* Every step of a call is one of TurnDelivery, or none.
LEMMA CallMaps ==
    ASSUME OneCallPerTurn, TypeOK, TypeOK', FlagsInv, RoutingInv, VerdictInv, EndInv,
           StreamInv, StreamInv', BeginsInv, BeginsInv', ModeInv,
           NEW c \in Calls, NEW t \in Turns, Local(c, t),
           \/ StartTurn(c, t) \/ Resume(c, t) \/ CancelCalled(c, t)
           \/ t = turn[c] /\ pc[c] # "idle" /\ (Abandon(c) \/ TaskStep(c))
    PROVE  Delivery!Next \/ UNCHANGED Delivery!vars
<1>1. Extends(session[t].raw, session[t].raw)
  BY DEF Extends
<1>2. ASSUME UNCHANGED <<reports, session, yielded>>,
             \/ verdict'[t] = verdict[t]
             \/ verdict[t] = "none" /\ verdict'[t] = "running"
      PROVE  Delivery!Next \/ UNCHANGED Delivery!vars
  <2>1. Delivery!Begin(t) \/ UNCHANGED Delivery!vars
    BY <1>1, <1>2, QuietMaps
  <2> QED BY <2>1 DEF Delivery!Next
<1>3. CASE StartTurn(c, t) \/ Resume(c, t) \/ CancelCalled(c, t)
  <2>1. /\ UNCHANGED <<reports, session, yielded>>
        /\ \/ verdict'[t] = verdict[t]
           \/ verdict[t] = "none" /\ verdict'[t] = "running"
    BY <1>3 DEF StartTurn, Resume, CancelCalled, serverVars, history, TypeOK
  <2> QED BY <1>2, <2>1
<1>4. CASE t = turn[c] /\ pc[c] # "idle" /\ (Abandon(c) \/ TaskStep(c))
  <2>1. t = turn[c] /\ pc[c] # "idle"
    BY <1>4
  <2>2. CASE \/ Abandon(c) \/ StartFails(c) \/ ReadFails(c) \/ InterruptFails(c)
             \/ ConnectionLost(c) \/ GoesInactive(c) \/ ConfirmTimesOut(c)
             \/ TurnStarted(c) \/ BacklogDone(c) \/ NextRequested(c) \/ OnceReads(c)
             \/ WaitForEvent(c) \/ PumpedDry(c) \/ InterruptAcked(c) \/ ConfirmWaits(c)
    <3>1. UNCHANGED <<reports, session, yielded, verdict>>
      BY <2>2 DEF Abandon, StartFails, ReadFails, InterruptFails, ConnectionLost, GoesInactive,
                  ConfirmTimesOut, GiveUp, TurnStarted, BacklogDone, NextRequested, OnceReads,
                  WaitForEvent, PumpedDry, InterruptAcked, ConfirmWaits, serverVars, history
    <3> QED BY <1>2, <3>1
  <2>3. CASE YieldBacklog(c)
    <3>1. UNCHANGED <<session, verdict, reports>>
      BY <2>3 DEF YieldBacklog, serverVars
    <3>2. PICK x \in Nat : Yield(t, x)
      <4>1. PICK k \in Unyielded(c) : Yield(t, session[t].steps[k])
        BY <2>1, <2>3 DEF YieldBacklog
      <4>2. session[t].steps[k] \in Nat
        BY <2>1, <4>1, HereFacts, ElementOfSeq, LenProperties DEF Unyielded
      <4> QED BY <4>1, <4>2
    <3>3. Len(yielded'[t]) = Len(yielded[t]) + 1
      BY <3>2, YieldOne
    <3>4. ~Settled(t) /\ PrefixOf(yielded[t], session[t].steps)
      BY <2>1, HereFacts
    <3>5. Delivery!HandOut(t)
      BY <1>1, <3>1, <3>3, <3>4, HandMaps
    <3> QED BY <3>5 DEF Delivery!Next
  <2>4. CASE EventTaken(c)
    <3>1. UNCHANGED <<verdict, reports>>
      BY <2>4 DEF EventTaken, serverVars
    <3>2. PICK i \in deferred : /\ Take(t, i)
                                /\ Yield(t, Len(session[t].raw) + 1) \/ UNCHANGED yielded
      BY <2>1, <2>4, Zenon DEF EventTaken
    <3>3. /\ Extends(session[t].raw, session'[t].raw)
          /\ PrefixOf(yielded[t], session'[t].steps)
      BY <2>1, <3>2, TakesHere
    <3>4. CASE UNCHANGED yielded
      <4>1. Delivery!Begin(t) \/ UNCHANGED Delivery!vars
        BY <3>1, <3>3, <3>4, QuietMaps
      <4> QED BY <4>1 DEF Delivery!Next
    <3>5. CASE Yield(t, Len(session[t].raw) + 1)
      <4>1. Len(session[t].raw) + 1 \in Nat /\ ~Settled(t)
        BY <2>1, HereFacts, LenProperties
      <4>2. PICK x \in Nat : Yield(t, x)
        BY <3>5, <4>1
      <4>3. Len(yielded'[t]) = Len(yielded[t]) + 1
        BY <4>2, YieldOne
      <4>4. Delivery!HandOut(t)
        BY <3>1, <3>3, <4>1, <4>3, HandMaps
      <4> QED BY <4>4 DEF Delivery!Next
    <3> QED BY <3>2, <3>4, <3>5
  <2>5. CASE PumpOne(c) \/ ConfirmWakes(c)
    <3>1. UNCHANGED <<verdict, reports, yielded>>
      BY <2>5 DEF PumpOne, ConfirmWakes, serverVars, history
    <3>2. PICK i \in deferred : Take(t, i)
      BY <2>1, <2>5 DEF PumpOne, ConfirmWakes
    <3>3. Extends(session[t].raw, session'[t].raw)
      BY <2>1, <3>2, TakesHere
    <3>4. Delivery!Begin(t) \/ UNCHANGED Delivery!vars
      BY <3>1, <3>3, QuietMaps
    <3> QED BY <3>4 DEF Delivery!Next
  <2>6. CASE \/ RaiseFailed(c) \/ StreamEnds(c) \/ OnceResolves(c) \/ ReadAnswered(c)
             \/ CancelReturns(c)
    <3>1. Delivery!StreamEnds(t) \/ Delivery!OnceEnds(t) \/ Delivery!CancelEnds(t)
      BY <2>1, <2>6, SettleMaps
    <3> QED BY <3>1 DEF Delivery!Next
  <2> QED BY <1>4, <2>2, <2>3, <2>4, <2>5, <2>6 DEF TaskStep, Progress
<1> QED
  BY <1>3, <1>4

\* The client's own steps deliver nothing.
LEMMA ClientMaps == ClientStep \/ UNCHANGED vars => UNCHANGED Delivery!vars
<1> SUFFICES ASSUME ClientStep \/ UNCHANGED vars PROVE UNCHANGED Delivery!vars
  OBVIOUS
<1>1. UNCHANGED <<verdict, arrived, session, yielded, reports>>
  BY DEF ClientStep, ReceiverFails, CloseBegins, CloseClears, serverVars, history, vars
<1> QED
  BY <1>1 DEF Delivery!vars, ToldSteps, ItemEvents, Own, HandedSteps, OutcomesOf

\* Nothing was told and nothing handed out in the initial state.
LEMMA DeliveryInit == Init => Delivery!Init /\ BeginsInv /\ ModeInv
<1> SUFFICES ASSUME Init PROVE Delivery!Init /\ BeginsInv /\ ModeInv
  OBVIOUS
<1>1. DOMAIN <<>> = {}
  BY EmptySeq
<1>2. \A t \in Turns : Own(t) = {} /\ session[t] = NewSession /\ yielded[t] = <<>>
  BY <1>1 DEF Init, Own
<1>3. BeginsInv
  BY <1>1, <1>2 DEF BeginsInv, Begins, StepsAreFirst, NewSession, RangeOf
<1>4. ModeInv
  BY DEF Init, ModeInv, NoToken
<1>5. \A t \in Turns : ToldSteps(t) = {} /\ HandedSteps(t) = <<>> /\ OutcomesOf(t) = {}
  <2> SUFFICES ASSUME NEW t \in Turns
               PROVE  ToldSteps(t) = {} /\ HandedSteps(t) = <<>> /\ OutcomesOf(t) = {}
    OBVIOUS
  <2>1. ToldSteps(t) = {}
    BY <1>2 DEF ToldSteps, ItemEvents
  <2>2. HandedSteps(t) = <<>>
    BY <1>1, <1>2 DEF HandedSteps
  <2>3. OutcomesOf(t) = {}
    BY DEF Init, OutcomesOf
  <2> QED BY <2>1, <2>2, <2>3
<1>6. Delivery!Init
  BY <1>5 DEF Init, Delivery!Init
<1> QED
  BY <1>3, <1>4, <1>6

\* The delivery of turns keeps what TurnDelivery promises (Delivers): across
\* timeouts, continuations, cancel, lost connections and close, the steps that
\* the server told of a turn are handed out once and in its order, and the turn
\* is reported once, as it ended, after the last of its steps.  The server
\* names the turn in its envelopes and the application makes one call at a time
\* on a turn.
THEOREM DeliversTurns ==
    ASSUME NamesTurns, OneCallPerTurn
    PROVE  Spec => Delivers
<1> DEFINE Inv == /\ TypeOK /\ FlagsInv /\ RoutingInv /\ VerdictInv /\ HeldInv /\ EndInv
                  /\ StreamInv /\ BeginsInv /\ ModeInv
<1>1. Init => Inv /\ Delivery!Init
  BY TypeInit, FlagsInit, RoutingInit, VerdictInit, StreamInit, DeliveryInit
<1>2. Inv /\ [Next]_vars => Inv'
  BY TypeNext, FlagsNext, RoutingNext, VerdictNext, HeldNext, EndNext, StreamNext, BeginsNext,
     ModeNext
<1>3. Inv /\ Inv' /\ [Next]_vars => [Delivery!Next]_(Delivery!vars)
  <2> SUFFICES ASSUME Inv, Inv', [Next]_vars PROVE Delivery!Next \/ UNCHANGED Delivery!vars
    OBVIOUS
  <2>1. CASE ServerStep
    <3>1. PICK t \in Turns : EmitItem(t) \/ EmitTerminal(t) \/ EmitEcho(t)
      BY <2>1 DEF ServerStep
    <3>2. Delivery!Tell(t) \/ Delivery!End(t) \/ UNCHANGED Delivery!vars
      BY <3>1, ServerMaps
    <3> QED BY <3>2 DEF Delivery!Next
  <2>2. CASE ClientStep \/ UNCHANGED vars
    BY <2>2, ClientMaps
  <2>3. ASSUME NEW c \in Calls, NEW t \in Turns, Local(c, t),
               \/ StartTurn(c, t) \/ Resume(c, t) \/ CancelCalled(c, t)
               \/ t = turn[c] /\ pc[c] # "idle" /\ (Abandon(c) \/ TaskStep(c))
        PROVE  Delivery!Next \/ UNCHANGED Delivery!vars
    BY <2>3, CallMaps
  <2> QED BY <2>1, <2>2, <2>3, CallSteps
<1> QED
  BY <1>1, <1>2, <1>3, PTL DEF Spec, Delivers, Delivery!Spec
=============================================================================
