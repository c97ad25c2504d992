------------------------ MODULE ThreadHandlesProofs ------------------------
(* Merging configurations, and what the handles guarantee for every set of  *)
(* fields, values, calls, handles and threads.                              *)
EXTENDS ThreadHandles, FifoLockProofs

-----------------------------------------------------------------------------
(* Merging.                                                                  *)

\* Merging configurations gives a configuration.
LEMMA MergeType ==
    ASSUME NEW a \in Config, NEW b \in Config
    PROVE  Merge(a, b) \in Config
  BY DEF Merge, Config

\* A server that is sent two configurations one after the other ends up where
\* it would if it were sent their merge: the merged defaults of a handle stand
\* for the sequence of its updates.
THEOREM MergeIsSequence ==
    ASSUME NEW s \in Config, NEW a \in Config, NEW b \in Config
    PROVE  ServerSets(ServerSets(s, Params(a)), Params(b))
             = ServerSets(s, Params(Merge(a, b)))
<1>1. ASSUME NEW f \in Fields
      PROVE  ServerSets(ServerSets(s, Params(a)), Params(b))[f]
               = ServerSets(s, Params(Merge(a, b)))[f]
  BY <1>1, UnsetAssumption DEF ServerSets, Params, Named, Merge, Config
<1> QED
  BY <1>1 DEF ServerSets

\* Merging is associative, and the empty configuration is neutral.
THEOREM MergeLaws ==
    ASSUME NEW a \in Config, NEW b \in Config, NEW c \in Config
    PROVE  /\ Merge(Merge(a, b), c) = Merge(a, Merge(b, c))
           /\ Merge(Empty, a) = a /\ Merge(a, Empty) = a
<1>1. Merge(Merge(a, b), c) = Merge(a, Merge(b, c))
  BY DEF Merge, Config
<1>2. Merge(Empty, a) = a /\ Merge(a, Empty) = a
  BY DEF Merge, Empty, Config
<1> QED
  BY <1>1, <1>2

\* What the server then holds: the fields it was sent, and the others as before.
LEMMA SetsShape ==
    ASSUME NEW s \in Config, NEW a \in Config
    PROVE  ServerSets(s, Params(a)) = Merge(s, a)
  BY DEF ServerSets, Params, Named, Merge, Config

-----------------------------------------------------------------------------
(* No update is lost.                                                        *)

\* What a call sends contains what it was passed; only a fork sends more.
Sends ==
    \A c \in Calls :
        /\ \A f \in Named(passed[c]) : sent[c][f] = passed[c][f]
        /\ op[c] \in {"resume", "update"} => sent[c] = passed[c]

\* The types, and that only a start has no thread to name.
Shape ==
    /\ settings \in [Threads -> Config] /\ latest \in [Threads -> Config]
    /\ thread \in [Handles -> Threads \cup {NoThread}]
    /\ defaults \in [Handles -> Config]
    /\ sent \in [Calls -> Config] /\ passed \in [Calls -> Config]
    /\ target \in [Calls -> Threads \cup {NoThread}]
    /\ op \in [Calls -> Ops]
    /\ exists \subseteq Threads
    /\ \A c \in Calls : op[c] \in {"resume", "update", "fork"} => target[c] \in Threads

\* NoLostUpdate of every thread, also of one that does not exist yet.
Kept == \A t \in Threads : \A f \in Named(latest[t]) : settings[t][f] = latest[t][f]

HandlesInv == Shape /\ Sends /\ Kept

\* The empty configuration is one.
LEMMA EmptyType == Empty \in Config
  BY DEF Empty, Config

\* Asking for something sends what was passed.
LEMMA AskKeeps ==
    ASSUME HandlesInv, NEW c \in Calls, NEW h \in Handles, NEW what \in Ops,
           NEW t \in Threads \cup {NoThread}, NEW o \in Config, NEW s \in Config,
           Ask(c, what, h, t, o, s),
           \A f \in Named(o) : s[f] = o[f],
           what \in {"resume", "update"} => s = o,
           what \in {"resume", "update", "fork"} => t \in Threads
    PROVE  HandlesInv'
<1> USE DEF Ask
<1>1. Shape'
  BY DEF HandlesInv, Shape
<1>2. Sends'
  BY DEF HandlesInv, Shape, Sends, Named
<1>3. Kept'
  BY DEF HandlesInv, Kept, Named
<1> QED
  BY <1>1, <1>2, <1>3 DEF HandlesInv

\* A thread whose settings and whose history are both merged with what a call
\* sent and was passed keeps its last updates.
LEMMA MergeKeeps ==
    ASSUME NEW base \in Config, NEW asked \in Config, NEW s \in Config, NEW o \in Config,
           \A f \in Named(o) : s[f] = o[f],
           \/ asked = Empty
           \/ s = o /\ \A f \in Named(asked) : base[f] = asked[f]
    PROVE  \A f \in Named(Merge(asked, o)) : Merge(base, s)[f] = Merge(asked, o)[f]
  BY DEF Named, Merge, Empty, Config

\* Serving a request.
LEMMA AppliesKeeps ==
    ASSUME HandlesInv, NEW c \in Calls, NEW t \in Threads,
           NEW base \in Config, NEW asked \in Config,
           Applies(c, t, base, asked), UNCHANGED <<thread, defaults, op, passed, sent>>,
           \/ asked = Empty
           \/ sent[c] = passed[c] /\ \A f \in Named(asked) : base[f] = asked[f]
    PROVE  HandlesInv'
<1> DEFINE s == Merge(base, sent[c])
           l == Merge(asked, passed[c])
<1>1. sent[c] \in Config /\ passed[c] \in Config
  BY DEF HandlesInv, Shape
<1>2. s \in Config /\ l \in Config
  BY <1>1, MergeType
<1>3. /\ settings' = [settings EXCEPT ![t] = s]
      /\ latest' = [latest EXCEPT ![t] = l]
  BY <1>1, SetsShape DEF Applies
<1>4. \A f \in Named(passed[c]) : sent[c][f] = passed[c][f]
  BY DEF HandlesInv, Sends
<1>5. \A f \in Named(l) : s[f] = l[f]
  BY <1>1, <1>4, MergeKeeps
<1> HIDE DEF s, l
<1>6. Shape'
  BY <1>2, <1>3 DEF HandlesInv, Shape, Applies
<1>7. Sends'
  BY DEF HandlesInv, Sends, Named
<1>8. Kept'
  BY <1>3, <1>5 DEF HandlesInv, Shape, Kept, Named
<1> QED
  BY <1>6, <1>7, <1>8 DEF HandlesInv

\* Every step keeps HandlesInv.
LEMMA HandlesNext == HandlesInv /\ [Next]_vars => HandlesInv'
<1> SUFFICES ASSUME HandlesInv, [Next]_vars
             PROVE  HandlesInv'
  OBVIOUS
<1>1. ASSUME NEW c \in Calls, AppStep(c)
      PROVE  HandlesInv'
  <2>1. PICK h \in Handles, o \in Overrides :
           \/ StartThread(c, h, o)
           \/ \E t \in Threads : ResumeThread(c, h, t, o)
           \/ \E g \in Handles : Fork(c, g, h, o)
           \/ UpdateDefaults(c, h, o)
    BY <1>1 DEF AppStep
  <2>2. o \in Config
    BY OverridesAssumption
  <2>3. CASE StartThread(c, h, o)
    BY <2>2, <2>3, AskKeeps DEF StartThread, Ops
  <2>4. ASSUME NEW t \in Threads, ResumeThread(c, h, t, o)
        PROVE  HandlesInv'
    BY <2>2, <2>4, AskKeeps DEF ResumeThread, Ops
  <2>5. ASSUME NEW g \in Handles, Fork(c, g, h, o)
        PROVE  HandlesInv'
    <3>1. thread[g] \in Threads /\ defaults[g] \in Config
      BY <2>5 DEF Fork, HandlesInv, Shape
    <3>2. PICK m \in Config : m = Merge(defaults[g], o)
      BY <2>2, <3>1, MergeType
    <3>3. \A f \in Named(o) : m[f] = o[f]
      BY <2>2, <3>2 DEF Merge, Named, Config
    <3> QED
      BY <2>2, <2>5, <3>1, <3>2, <3>3, AskKeeps DEF Fork, Ops
  <2>6. CASE UpdateDefaults(c, h, o)
    <3>1. thread[h] \in Threads
      BY <2>6 DEF UpdateDefaults, HandlesInv, Shape
    <3> QED
      BY <2>2, <2>6, <3>1, AskKeeps DEF UpdateDefaults, Ops
  <2> QED
    BY <2>1, <2>3, <2>4, <2>5, <2>6
<1>2. ASSUME NEW c \in Calls, Serve(c)
      PROVE  HandlesInv'
  <2>1. UNCHANGED <<thread, defaults, op, passed, sent>>
    BY <1>2 DEF Serve
  <2>2. CASE op[c] \in {"resume", "update"}
             /\ Applies(c, target[c], settings[target[c]], latest[target[c]])
    <3>1. PICK t \in Threads : t = target[c]
      BY <2>2 DEF HandlesInv, Shape
    <3>2. settings[t] \in Config /\ latest[t] \in Config
      BY DEF HandlesInv, Shape
    <3>3. sent[c] = passed[c] /\ \A f \in Named(latest[t]) : settings[t][f] = latest[t][f]
      BY <2>2 DEF HandlesInv, Sends, Kept
    <3> QED
      BY <2>1, <2>2, <3>1, <3>2, <3>3, AppliesKeeps
  <2>3. ASSUME NEW t \in Threads \ exists, op[c] = "start", Applies(c, t, Empty, Empty)
        PROVE  HandlesInv'
    BY <2>1, <2>3, EmptyType, AppliesKeeps
  <2>4. ASSUME NEW t \in Threads \ exists, op[c] = "fork",
               Applies(c, t, settings[target[c]], Empty)
        PROVE  HandlesInv'
    <3>1. settings[target[c]] \in Config
      BY <2>4 DEF HandlesInv, Shape
    <3> QED
      BY <2>1, <2>4, <3>1, EmptyType, AppliesKeeps
  <2> QED
    BY <1>2, <2>2, <2>3, <2>4 DEF Serve
<1>3. ASSUME NEW c \in Calls, Leave(c), UNCHANGED <<settings, exists, latest>>,
             thread' \in [Handles -> Threads \cup {NoThread}],
             defaults' \in [Handles -> Config]
      PROVE  HandlesInv'
  <2>1. Shape'
    BY <1>3, EmptyType DEF HandlesInv, Shape, Leave, Ops
  <2>2. Sends'
    BY <1>3 DEF HandlesInv, Shape, Sends, Leave, Named, Empty
  <2>3. Kept'
    BY <1>3 DEF HandlesInv, Kept, Named
  <2> QED
    BY <2>1, <2>2, <2>3 DEF HandlesInv
<1>4. ASSUME NEW c \in Calls, Returns(c)
      PROVE  HandlesInv'
  <2>1. sent[c] \in Config /\ target[c] \in Threads \cup {NoThread}
    BY DEF HandlesInv, Shape
  <2>2. \A h \in Handles : Merge(defaults[h], sent[c]) \in Config
    BY <2>1, MergeType DEF HandlesInv, Shape
  <2>3. /\ thread' \in [Handles -> Threads \cup {NoThread}]
        /\ defaults' \in [Handles -> Config]
    BY <1>4, <2>1, <2>2 DEF Returns, HandlesInv, Shape
  <2> QED
    BY <1>3, <1>4, <2>3 DEF Returns
<1>5. ASSUME NEW c \in Calls, Raises(c)
      PROVE  HandlesInv'
  <2>1. /\ thread' \in [Handles -> Threads \cup {NoThread}]
        /\ defaults' \in [Handles -> Config]
    BY <1>5 DEF Raises, HandlesInv, Shape
  <2> QED
    BY <1>3, <1>5, <2>1 DEF Raises
<1>6. CASE UNCHANGED vars
  BY <1>6 DEF vars, callVars, HandlesInv, Shape, Sends, Kept, Named
<1> QED
  BY <1>1, <1>2, <1>4, <1>5, <1>6 DEF Next

\* The initial states.
LEMMA HandlesInit == Init => HandlesInv
<1> SUFFICES ASSUME Init PROVE HandlesInv
  OBVIOUS
<1>1. /\ settings \in [Threads -> Config] /\ latest \in [Threads -> Config]
      /\ thread \in [Handles -> Threads \cup {NoThread}]
      /\ defaults \in [Handles -> Config]
      /\ sent \in [Calls -> Config] /\ passed \in [Calls -> Config]
      /\ target \in [Calls -> Threads \cup {NoThread}]
      /\ exists \subseteq Threads
  BY EmptyType DEF Init
<1>2. op \in [Calls -> Ops] /\ \A c \in Calls : op[c] = "none"
  BY DEF Init, Ops
<1>3. Shape
  BY <1>1, <1>2 DEF Shape
<1>4. \A c \in Calls : sent[c] = passed[c]
  BY DEF Init
<1>5. Sends
  BY <1>4 DEF Sends
<1>6. \A t \in Threads : settings[t] = latest[t]
  BY DEF Init
<1>7. Kept
  BY <1>6 DEF Kept
<1> QED
  BY <1>3, <1>5, <1>7 DEF HandlesInv

\* Concurrent updates are merged and never replace one another: on every
\* thread, each field has the value that the last served call naming it passed
\* (NoLostUpdate), for all sets of calls, handles, threads and fields.
THEOREM NoUpdateLost == Spec => []NoLostUpdate
<1>1. HandlesInv => NoLostUpdate
  BY DEF HandlesInv, Shape, Kept, NoLostUpdate
<1> QED
  BY <1>1, HandlesInit, HandlesNext, PTL DEF Spec

-----------------------------------------------------------------------------
(* The answers on their way, in their order.                                 *)

Before(q, c, d) == \E i, j \in 1..Len(q) : i < j /\ q[i] = c /\ q[j] = d

\* Taking out one answer keeps the order of the others.
LEMMA CutOrder ==
    ASSUME NEW S, NEW q \in Seq(S), NEW c, NEW d, NEW e,
           Before(q, d, e), d # c, e # c
    PROVE  Before(RemoveFirst(q, c), d, e)
<1>1. PICK r : r = Without(q, c)
  OBVIOUS
<1>2. PICK i \in 1..Len(q), j \in 1..Len(q) : i < j /\ q[i] = d /\ q[j] = e
  BY DEF Before
<1>3. CASE r = q
  BY <1>1, <1>3 DEF Without
<1>4. CASE \E m \in 1..Len(q) :
              q[m] = c /\ r = SubSeq(q, 1, m - 1) \o SubSeq(q, m + 1, Len(q))
  <2>1. PICK m \in 1..Len(q) :
           q[m] = c /\ r = SubSeq(q, 1, m - 1) \o SubSeq(q, m + 1, Len(q))
    BY <1>4
  <2>2. /\ r \in Seq(S) /\ Len(r) = Len(q) - 1
        /\ \A k \in 1..(Len(q) - 1) : k < m => r[k] = q[k]
        /\ \A k \in 1..(Len(q) - 1) : ~(k < m) => r[k] = q[k + 1]
    <3>1. IsCut(S, Cut(q, m), q, m)
      BY CutProperties
    <3>2. IsCut(S, r, q, m)
      BY <2>1, <3>1, Zenon DEF Cut
    <3> QED
      BY <3>2 DEF IsCut
  <2>3. ASSUME NEW k \in 1..Len(q), k # m
        PROVE  LET n == IF k < m THEN k ELSE k - 1
               IN  n \in 1..Len(r) /\ r[n] = q[k]
    <3>1. CASE k < m
      BY <2>2, <3>1
    <3>2. CASE k > m
      <4>1. k - 1 \in 1..(Len(q) - 1) /\ ~(k - 1 < m) /\ (k - 1) + 1 = k
        BY <3>2
      <4> QED
        BY <2>2, <3>2, <4>1
    <3> QED
      BY <2>3, <3>1, <3>2
  <2>4. i # m /\ j # m
    BY <1>2, <2>1
  <2>5. PICK k \in 1..Len(r), n \in 1..Len(r) : k < n /\ r[k] = q[i] /\ r[n] = q[j]
    <3>1. (IF i < m THEN i ELSE i - 1) < (IF j < m THEN j ELSE j - 1)
      BY <1>2, <2>4
    <3> QED
      BY <2>3, <2>4, <3>1
  <2> QED
    BY <1>1, <1>2, <2>5 DEF Before, Without
<1> QED
  BY <1>1, <1>3, <1>4, WithoutShape

\* A new answer comes after all others, which keep their order.
LEMMA AppendOrder ==
    ASSUME NEW S, NEW q \in Seq(S), NEW c \in S, NEW d
    PROVE  /\ \A e : Before(q, d, e) => Before(Append(q, c), d, e)
           /\ In(q, d) => Before(Append(q, c), d, c)
<1>1. PICK r : r = Append(q, c)
  OBVIOUS
<1>2. /\ Len(r) = Len(q) + 1 /\ Len(q) \in Nat
      /\ \A i \in 1..Len(q) : r[i] = q[i]
      /\ r[Len(q) + 1] = c
  BY <1>1, AppendProperties
<1>3. ASSUME NEW e, Before(q, d, e) PROVE Before(r, d, e)
  BY <1>2, <1>3 DEF Before
<1>4. ASSUME In(q, d) PROVE Before(r, d, c)
  <2>1. PICK i \in 1..Len(q) : q[i] = d
    BY <1>4 DEF In
  <2> QED
    BY <1>2, <2>1 DEF Before
<1> QED
  BY <1>1, <1>3, <1>4

\* The first answer comes before all others and after none.
LEMMA HeadOrder ==
    ASSUME NEW S, NEW q \in Seq(S), NEW c, NEW d, HeadIs(q, c), NoDup(q)
    PROVE  /\ ~Before(q, d, c)
           /\ In(q, d) /\ d # c => Before(q, c, d)
<1>1. 1 \in 1..Len(q) /\ q[1] = c
  BY DEF HeadIs
<1>2. ~Before(q, d, c)
  BY <1>1 DEF Before, NoDup
<1>3. ASSUME In(q, d), d # c PROVE Before(q, c, d)
  <2>1. PICK j \in 1..Len(q) : q[j] = d
    BY <1>3 DEF In
  <2> QED
    BY <1>1, <1>3, <2>1 DEF Before
<1> QED
  BY <1>2, <1>3

-----------------------------------------------------------------------------
(* Where the calls are.                                                      *)

\* The answers on their way are those of the answered calls, once each.
QueueInv ==
    /\ answers \in Seq(Calls) /\ NoDup(answers)
    /\ \A c \in Calls : In(answers, c) <=> pc[c] = "answered"

Making == {"start", "resume", "fork"}

\* A call has a handle; an update has one that is made, and nobody else has the
\* handle that a call is making.
CallInv ==
    /\ pc \in [Calls -> {"idle", "asked", "answered"}]
    /\ handle \in [Calls -> Handles \cup {NoHandle}]
    /\ \A c \in Calls :
          /\ pc[c] = "idle" => handle[c] = NoHandle /\ op[c] = "none"
          /\ pc[c] # "idle" => handle[c] \in Handles /\ op[c] # "none"
          /\ pc[c] = "answered" => target[c] \in exists
          /\ op[c] \in {"resume", "update"} => target[c] \in exists
          /\ op[c] = "update" => thread[handle[c]] = target[c]
          /\ op[c] \in Making => /\ thread[handle[c]] = NoThread
                                 /\ \A d \in Calls : handle[d] = handle[c] => d = c

\* A thread exists once some handle has changed it.
ThreadInv ==
    /\ doubtful \subseteq Threads \cup {NoThread}
    /\ writers \in [Threads -> SUBSET Handles]
    /\ \A t \in Threads : t \in exists <=> writers[t] # {}
    /\ \A h \in Handles : thread[h] # NoThread => thread[h] \in exists

PlaceInv == QueueInv /\ CallInv /\ ThreadInv

\* Asking.
LEMMA AskPlaces ==
    ASSUME HandlesInv, PlaceInv, NEW c \in Calls, NEW h \in Handles,
           NEW what \in Ops \ {"none"},
           NEW t \in Threads \cup {NoThread}, NEW o, NEW s,
           Ask(c, what, h, t, o, s),
           what \in Making => Unmade(h),
           what \in {"resume", "update"} => t \in exists,
           what = "update" => t = thread[h]
    PROVE  PlaceInv'
<1>1. /\ pc[c] = "idle" /\ handle[c] = NoHandle
      /\ pc' = [pc EXCEPT ![c] = "asked"] /\ op' = [op EXCEPT ![c] = what]
      /\ handle' = [handle EXCEPT ![c] = h] /\ target' = [target EXCEPT ![c] = t]
      /\ UNCHANGED <<thread, answers, exists, writers, doubtful>>
  BY DEF Ask, PlaceInv, CallInv
<1>2. /\ pc \in [Calls -> {"idle", "asked", "answered"}]
      /\ handle \in [Calls -> Handles \cup {NoHandle}]
      /\ op \in [Calls -> Ops] /\ target \in [Calls -> Threads \cup {NoThread}]
  BY DEF PlaceInv, CallInv, HandlesInv, Shape
<1>3. QueueInv'
  BY <1>1, <1>2 DEF PlaceInv, QueueInv, In, NoDup
<1>4. ASSUME NEW d \in Calls
      PROVE  /\ pc'[d] = "idle" => handle'[d] = NoHandle /\ op'[d] = "none"
             /\ pc'[d] # "idle" => handle'[d] \in Handles /\ op'[d] # "none"
             /\ pc'[d] = "answered" => target'[d] \in exists'
             /\ op'[d] \in {"resume", "update"} => target'[d] \in exists'
             /\ op'[d] = "update" => thread'[handle'[d]] = target'[d]
  BY <1>1, <1>2, <1>4 DEF PlaceInv, CallInv
<1>5. ASSUME NEW d \in Calls, op'[d] \in Making
      PROVE  /\ thread'[handle'[d]] = NoThread
             /\ \A e \in Calls : handle'[e] = handle'[d] => e = d
  <2>1. CASE d = c
    BY <1>1, <1>2, <1>5, <2>1 DEF Unmade
  <2>2. CASE d # c
    <3>1. op[d] \in Making /\ handle'[d] = handle[d] /\ handle[d] \in Handles
      BY <1>1, <1>2, <1>5, <2>2 DEF PlaceInv, CallInv, Making
    <3>2. thread[handle[d]] = NoThread /\ \A e \in Calls : handle[e] = handle[d] => e = d
      BY <3>1 DEF PlaceInv, CallInv
    <3>3. handle[d] # h
      <4>1. CASE what \in Making
        BY <4>1 DEF Unmade
      <4>2. CASE what = "update"
        <5>1. thread[h] \in Threads
          BY <4>2 DEF HandlesInv, Shape
        <5> QED
          BY <3>2, <5>1, NamesAssumption
      <4> QED
        BY <4>1, <4>2 DEF Ops, Making
    <3> QED
      BY <1>1, <1>2, <3>1, <3>2, <3>3
  <2> QED
    BY <2>1, <2>2
<1>6. /\ pc' \in [Calls -> {"idle", "asked", "answered"}]
      /\ handle' \in [Calls -> Handles \cup {NoHandle}]
  BY <1>1, <1>2
<1>7. CallInv'
  BY <1>4, <1>5, <1>6 DEF CallInv
<1>8. ThreadInv'
  BY <1>1 DEF PlaceInv, ThreadInv
<1> QED
  BY <1>3, <1>7, <1>8 DEF PlaceInv

\* What Serve does, whatever the call asks for.
LEMMA ServeShape ==
    ASSUME HandlesInv, PlaceInv, NEW c \in Calls, Serve(c)
    PROVE  \E t \in Threads, base \in Config :
              /\ Applies(c, t, base, Empty) \/ Applies(c, t, base, latest[t])
              /\ \/ /\ op[c] \in {"resume", "update"} /\ t = target[c] /\ t \in exists
                    /\ base = settings[t]
                 \/ op[c] \in {"start", "fork"} /\ t \notin exists
<1>1. CASE op[c] \in {"resume", "update"}
           /\ Applies(c, target[c], settings[target[c]], latest[target[c]])
  <2>1. target[c] \in exists /\ target[c] \in Threads
    BY <1>1 DEF PlaceInv, CallInv, HandlesInv, Shape
  <2>2. settings[target[c]] \in Config
    BY <2>1 DEF HandlesInv, Shape
  <2> QED
    BY <1>1, <2>1, <2>2
<1>2. ASSUME NEW t \in Threads \ exists, op[c] = "start", Applies(c, t, Empty, Empty)
      PROVE  \E base \in Config :
                Applies(c, t, base, Empty) /\ op[c] \in {"start", "fork"} /\ t \notin exists
  BY <1>2, EmptyType
<1>3. ASSUME NEW t \in Threads \ exists, op[c] = "fork",
             Applies(c, t, settings[target[c]], Empty)
      PROVE  \E base \in Config :
                Applies(c, t, base, Empty) /\ op[c] \in {"start", "fork"} /\ t \notin exists
  <2>1. settings[target[c]] \in Config
    BY <1>3 DEF HandlesInv, Shape
  <2> QED
    BY <1>3, <2>1
<1> QED
  BY <1>1, <1>2, <1>3 DEF Serve

\* What a step of a served call leaves: who wrote what, and where the call is.
Served(c, t, base) ==
    /\ pc[c] = "asked" /\ pc' = [pc EXCEPT ![c] = "answered"]
    /\ answers' = Append(answers, c)
    /\ settings' = [settings EXCEPT ![t] = Merge(base, sent[c])]
    /\ target' = [target EXCEPT ![c] = t]
    /\ writers' = [writers EXCEPT ![t] = @ \cup {handle[c]}]
    /\ exists' = exists \cup {t}
    /\ UNCHANGED <<thread, defaults, op, handle, passed, sent, doubtful>>
    /\ \/ op[c] \in {"resume", "update"} /\ t = target[c] /\ t \in exists /\ base = settings[t]
       \/ op[c] \in {"start", "fork"} /\ t \notin exists

LEMMA ServeServed ==
    ASSUME HandlesInv, PlaceInv, NEW c \in Calls, Serve(c)
    PROVE  \E t \in Threads, base \in Config : Served(c, t, base)
<1>1. PICK t \in Threads, base \in Config :
              /\ Applies(c, t, base, Empty) \/ Applies(c, t, base, latest[t])
              /\ \/ /\ op[c] \in {"resume", "update"} /\ t = target[c] /\ t \in exists
                    /\ base = settings[t]
                 \/ op[c] \in {"start", "fork"} /\ t \notin exists
  BY ServeShape
<1>2. sent[c] \in Config
  BY DEF HandlesInv, Shape
<1>3. ServerSets(base, Params(sent[c])) = Merge(base, sent[c])
  BY <1>2, SetsShape
<1>4. /\ settings' = [settings EXCEPT ![t] = Merge(base, sent[c])]
      /\ target' = [target EXCEPT ![c] = t]
      /\ writers' = [writers EXCEPT ![t] = @ \cup {handle[c]}]
      /\ exists' = exists \cup {t}
  BY <1>1, <1>3 DEF Applies
<1>5. /\ pc[c] = "asked" /\ pc' = [pc EXCEPT ![c] = "answered"]
      /\ answers' = Append(answers, c)
      /\ UNCHANGED <<thread, defaults, op, handle, passed, sent, doubtful>>
  BY DEF Serve
<1> QED
  BY <1>1, <1>4, <1>5 DEF Served

\* Serving.
LEMMA ServePlaces ==
    ASSUME HandlesInv, PlaceInv, NEW c \in Calls, NEW t \in Threads, NEW base,
           Served(c, t, base)
    PROVE  PlaceInv'
<1>1. /\ pc \in [Calls -> {"idle", "asked", "answered"}]
      /\ handle \in [Calls -> Handles \cup {NoHandle}]
      /\ target \in [Calls -> Threads \cup {NoThread}]
      /\ writers \in [Threads -> SUBSET Handles] /\ handle[c] \in Handles
      /\ exists \subseteq Threads
  BY DEF PlaceInv, CallInv, ThreadInv, HandlesInv, Shape, Served
<1>2. QueueInv'
  <2>1. ~In(answers, c) /\ answers \in Seq(Calls) /\ NoDup(answers)
    BY DEF PlaceInv, QueueInv, Served
  <2>2. /\ answers' \in Seq(Calls) /\ NoDup(answers')
        /\ \A d \in Calls : In(answers', d) <=> In(answers, d) \/ d = c
    BY <2>1, JoinProperties DEF Served, Join
  <2>3. \A d \in Calls : pc'[d] = "answered" <=> pc[d] = "answered" \/ d = c
    BY <1>1 DEF Served
  <2> QED
    BY <2>2, <2>3 DEF PlaceInv, QueueInv
<1>3. CallInv'
  <2>1. /\ pc' \in [Calls -> {"idle", "asked", "answered"}]
        /\ handle' \in [Calls -> Handles \cup {NoHandle}]
    BY <1>1 DEF Served
  <2>2. ASSUME NEW d \in Calls
        PROVE  /\ pc'[d] = "idle" => handle'[d] = NoHandle /\ op'[d] = "none"
               /\ pc'[d] # "idle" => handle'[d] \in Handles /\ op'[d] # "none"
               /\ pc'[d] = "answered" => target'[d] \in exists'
               /\ op'[d] \in {"resume", "update"} => target'[d] \in exists'
               /\ op'[d] = "update" => thread'[handle'[d]] = target'[d]
               /\ op'[d] \in Making =>
                     /\ thread'[handle'[d]] = NoThread
                     /\ \A e \in Calls : handle'[e] = handle'[d] => e = d
    BY <1>1, <2>2 DEF PlaceInv, CallInv, Served
  <2> QED
    BY <2>1, <2>2 DEF CallInv
<1>4. ThreadInv'
  BY <1>1 DEF PlaceInv, ThreadInv, Served
<1> QED
  BY <1>2, <1>3, <1>4 DEF PlaceInv

\* Leaving, with the answer taken or without.
LEMMA LeavePlaces ==
    ASSUME HandlesInv, PlaceInv, NEW c \in Calls, pc[c] # "idle", Leave(c),
           answers' = RemoveFirst(answers, c),
           UNCHANGED <<exists, writers>>,
           doubtful' \subseteq Threads \cup {NoThread},
           \/ thread' = thread
           \/ pc[c] = "answered" /\ thread' = [thread EXCEPT ![handle[c]] = target[c]]
    PROVE  PlaceInv'
<1>1. /\ pc \in [Calls -> {"idle", "asked", "answered"}]
      /\ handle \in [Calls -> Handles \cup {NoHandle}]
      /\ op \in [Calls -> Ops]
      /\ target \in [Calls -> Threads \cup {NoThread}]
      /\ thread \in [Handles -> Threads \cup {NoThread}]
      /\ handle[c] \in Handles
  BY DEF PlaceInv, CallInv, HandlesInv, Shape
<1>2. QueueInv'
  <2>1. answers \in Seq(Calls) /\ NoDup(answers)
    BY DEF PlaceInv, QueueInv
  <2>2. /\ answers' \in Seq(Calls) /\ NoDup(answers')
        /\ \A d \in Calls : In(answers', d) <=> In(answers, d) /\ d # c
    BY <2>1, WithoutProperties DEF Without
  <2>3. \A d \in Calls : pc'[d] = "answered" <=> pc[d] = "answered" /\ d # c
    BY <1>1 DEF Leave
  <2> QED
    BY <2>2, <2>3 DEF PlaceInv, QueueInv
<1>3. ASSUME NEW h \in Handles, h # handle[c] \/ op[c] = "update" PROVE thread'[h] = thread[h]
  BY <1>1, <1>3 DEF PlaceInv, CallInv
<1>4. CallInv'
  <2>1. /\ pc' \in [Calls -> {"idle", "asked", "answered"}]
        /\ handle' \in [Calls -> Handles \cup {NoHandle}]
    BY <1>1 DEF Leave
  <2>2. ASSUME NEW d \in Calls, d # c
        PROVE  /\ pc'[d] = pc[d] /\ handle'[d] = handle[d] /\ op'[d] = op[d]
               /\ target'[d] = target[d]
               /\ op[d] \in Making \cup {"update"} => thread'[handle[d]] = thread[handle[d]]
    <3>1. pc'[d] = pc[d] /\ handle'[d] = handle[d] /\ op'[d] = op[d] /\ target'[d] = target[d]
      BY <1>1, <2>2 DEF Leave
    <3>2. ASSUME op[d] \in Making PROVE handle[d] \in Handles /\ handle[d] # handle[c]
      BY <1>1, <2>2, <3>2 DEF PlaceInv, CallInv, Making
    <3>3. ASSUME op[d] = "update", handle[d] = handle[c]
          PROVE  op[c] = "update"
      BY <1>1, <2>2, <3>3 DEF PlaceInv, CallInv, Making, Ops
    <3>4. ASSUME op[d] = "update" PROVE handle[d] \in Handles
      BY <3>4 DEF PlaceInv, CallInv
    <3> QED
      BY <1>3, <3>1, <3>2, <3>3, <3>4
  <2>3. ASSUME NEW d \in Calls
        PROVE  /\ pc'[d] = "idle" => handle'[d] = NoHandle /\ op'[d] = "none"
               /\ pc'[d] # "idle" => handle'[d] \in Handles /\ op'[d] # "none"
               /\ pc'[d] = "answered" => target'[d] \in exists'
               /\ op'[d] \in {"resume", "update"} => target'[d] \in exists'
               /\ op'[d] = "update" => thread'[handle'[d]] = target'[d]
    <3>1. CASE d = c
      BY <1>1, <3>1 DEF Leave
    <3>2. CASE d # c
      BY <2>2, <3>2 DEF PlaceInv, CallInv
    <3> QED
      BY <3>1, <3>2
  <2>4. ASSUME NEW d \in Calls, op'[d] \in Making
        PROVE  /\ thread'[handle'[d]] = NoThread
               /\ \A e \in Calls : handle'[e] = handle'[d] => e = d
    <3>1. d # c /\ handle'[c] = NoHandle
      BY <1>1, <2>4 DEF Leave, Making
    <3>2. /\ op[d] \in Making /\ handle[d] \in Handles /\ thread[handle[d]] = NoThread
          /\ \A e \in Calls : handle[e] = handle[d] => e = d
      BY <2>2, <2>4, <3>1 DEF PlaceInv, CallInv, Making
    <3> QED
      BY <2>2, <3>1, <3>2, NamesAssumption
  <2> QED
    BY <2>1, <2>3, <2>4 DEF CallInv
<1>5. ThreadInv'
  <2>1. pc[c] = "answered" => target[c] \in exists
    BY DEF PlaceInv, CallInv
  <2>2. \A h \in Handles : thread'[h] # NoThread => thread'[h] \in exists
    BY <1>1, <2>1 DEF PlaceInv, ThreadInv
  <2> QED
    BY <2>2 DEF PlaceInv, ThreadInv
<1> QED
  BY <1>2, <1>4, <1>5 DEF PlaceInv

\* The call whose answer is taken in has been answered.
LEMMA HeadAnswered ==
    ASSUME PlaceInv, NEW c \in Calls, answers # <<>>, Head(answers) = c
    PROVE  pc[c] = "answered" /\ HeadIs(answers, c)
<1>1. 1 \in 1..Len(answers) /\ answers[1] = c
  BY DEF PlaceInv, QueueInv
<1> QED
  BY <1>1 DEF PlaceInv, QueueInv, In, HeadIs

\* Every step keeps PlaceInv.
LEMMA PlaceNext == HandlesInv /\ PlaceInv /\ [Next]_vars => PlaceInv'
<1> SUFFICES ASSUME HandlesInv, PlaceInv, [Next]_vars
             PROVE  PlaceInv'
  OBVIOUS
<1>1. ASSUME NEW c \in Calls, AppStep(c)
      PROVE  PlaceInv'
  <2>1. PICK h \in Handles, o \in Overrides :
           \/ StartThread(c, h, o)
           \/ \E t \in Threads : ResumeThread(c, h, t, o)
           \/ \E g \in Handles : Fork(c, g, h, o)
           \/ UpdateDefaults(c, h, o)
    BY <1>1 DEF AppStep
  <2>2. CASE StartThread(c, h, o)
    BY <2>2, AskPlaces DEF StartThread, Ops
  <2>3. ASSUME NEW t \in Threads, ResumeThread(c, h, t, o)
        PROVE  PlaceInv'
    BY <2>3, AskPlaces DEF ResumeThread, Ops
  <2>4. ASSUME NEW g \in Handles, Fork(c, g, h, o)
        PROVE  PlaceInv'
    <3>1. thread[g] \in Threads \cup {NoThread}
      BY DEF HandlesInv, Shape
    <3> QED
      BY <2>4, <3>1, AskPlaces DEF Fork, Ops
  <2>5. CASE UpdateDefaults(c, h, o)
    <3>1. thread[h] \in Threads \cup {NoThread} /\ thread[h] \in exists
      BY <2>5 DEF UpdateDefaults, HandlesInv, Shape, PlaceInv, ThreadInv
    <3> QED
      BY <2>5, <3>1, AskPlaces DEF UpdateDefaults, Ops, Making
  <2> QED
    BY <2>1, <2>2, <2>3, <2>4, <2>5
<1>2. ASSUME NEW c \in Calls, Serve(c)
      PROVE  PlaceInv'
  BY <1>2, ServeServed, ServePlaces
<1>3. ASSUME NEW c \in Calls, Returns(c)
      PROVE  PlaceInv'
  <2>1. pc[c] = "answered"
    BY <1>3, HeadAnswered DEF Returns
  <2>2. doubtful' \subseteq Threads \cup {NoThread}
    BY <1>3 DEF Returns, PlaceInv, ThreadInv
  <2> QED
    BY <1>3, <2>1, <2>2, LeavePlaces DEF Returns
<1>4. ASSUME NEW c \in Calls, Raises(c)
      PROVE  PlaceInv'
  <2>1. doubtful' \subseteq Threads \cup {NoThread}
    BY <1>4 DEF Raises, PlaceInv, ThreadInv, HandlesInv, Shape
  <2> QED
    BY <1>4, <2>1, LeavePlaces DEF Raises
<1>5. CASE UNCHANGED vars
  BY <1>5 DEF vars, callVars, PlaceInv, QueueInv, CallInv, ThreadInv
<1> QED
  BY <1>1, <1>2, <1>3, <1>4, <1>5 DEF Next

\* The initial states.
LEMMA PlaceInit == Init => PlaceInv
<1> SUFFICES ASSUME Init PROVE PlaceInv
  OBVIOUS
<1>1. QueueInv
  BY DEF Init, QueueInv, In, NoDup
<1>2. CallInv
  BY DEF Init, CallInv, Making
<1>3. ThreadInv
  BY DEF Init, ThreadInv
<1> QED
  BY <1>1, <1>2, <1>3 DEF PlaceInv

\* The variables keep their types, and the answers on their way are those of
\* the answered calls (TypeOK), for all sets of calls, handles, threads and
\* fields.
THEOREM TypeCorrect == Spec => []TypeOK
<1>1. HandlesInv /\ PlaceInv => TypeOK
  <2> SUFFICES ASSUME HandlesInv, PlaceInv PROVE TypeOK
    OBVIOUS
  <2>1. answers \in Seq(Calls) /\ DOMAIN answers = 1..Len(answers)
    BY DEF PlaceInv, QueueInv
  <2>2. \A c \in Calls : (\E k \in DOMAIN answers : answers[k] = c) <=> pc[c] = "answered"
    BY <2>1 DEF PlaceInv, QueueInv, In
  <2> QED
    BY <2>1, <2>2 DEF TypeOK, PlaceInv, CallInv, ThreadInv, HandlesInv, Shape
<1> QED
  BY <1>1, HandlesInit, HandlesNext, PlaceInit, PlaceNext, PTL DEF Spec

-----------------------------------------------------------------------------
(* What a handle believes, with its answers still on their way.              *)

\* An answer on its way to handle h names field f; it decides f when no later
\* one does.
Naming(c, h, f) == In(answers, c) /\ handle[c] = h /\ f \in Named(sent[c])
Decides(c, h, f) ==
    /\ Naming(c, h, f)
    /\ \A d \in Calls : Before(answers, c, d) => ~Naming(d, h, f)

\* Once the answers on their way are taken in, the defaults of h that are set
\* are the settings of t.
Follows(h, t) ==
    /\ thread[h] = t
    /\ \A f \in Fields :
          /\ \A c \in Calls : Decides(c, h, f) => settings[t][f] = sent[c][f]
          /\ f \in Named(defaults[h]) /\ (\A c \in Calls : ~Naming(c, h, f)) =>
                settings[t][f] = defaults[h][f]

\* The answer that makes h the handle of t is on its way.
Began(h, t) ==
    \E c \in Calls :
       /\ pc[c] = "answered" /\ handle[c] = h /\ target[c] = t
       /\ op[c] \in {"start", "fork"}
       /\ \A f \in Named(sent[c]) : settings[t][f] = sent[c][f]

\* This holds where one handle alone changed a thread, and missed no answer.
SnapshotInv ==
    \A t \in Threads, h \in Handles :
        writers[t] = {h} /\ t \notin doubtful => Follows(h, t) \/ Began(h, t)

\* The step leaves the answers on their way to h as they are, in their order.
To(c, h) == In(answers, c) /\ handle[c] = h
Undisturbed(h) ==
    /\ \A c \in Calls : To(c, h)' <=> To(c, h)
    /\ \A c \in Calls : To(c, h) => sent'[c] = sent[c]
    /\ \A c, d \in Calls : To(c, h) /\ To(d, h) /\ Before(answers, c, d)
                              => Before(answers', c, d)

\* Such a step keeps what h believes.
LEMMA FollowsKept ==
    ASSUME NEW h \in Handles, NEW t \in Threads, Follows(h, t), Undisturbed(h),
           thread'[h] = thread[h], defaults'[h] = defaults[h], settings'[t] = settings[t]
    PROVE  Follows(h, t)'
<1>1. ASSUME NEW c \in Calls, NEW f \in Fields
      PROVE  Naming(c, h, f)' <=> Naming(c, h, f)
  BY DEF Naming, To, Undisturbed, Named
<1>2. ASSUME NEW c \in Calls, NEW f \in Fields, Decides(c, h, f)'
      PROVE  Decides(c, h, f)
  <2>1. Naming(c, h, f)
    BY <1>1, <1>2 DEF Decides
  <2>2. ASSUME NEW d \in Calls, Before(answers, c, d), Naming(d, h, f) PROVE FALSE
    <3>1. Before(answers', c, d)
      BY <2>1, <2>2 DEF Naming, To, Undisturbed
    <3>2. Naming(d, h, f)'
      BY <1>1, <2>2
    <3> QED
      BY <1>2, <3>1, <3>2 DEF Decides
  <2> QED
    BY <2>1, <2>2 DEF Decides
<1>3. ASSUME NEW c \in Calls, NEW f \in Fields, Naming(c, h, f) PROVE sent'[c] = sent[c]
  BY <1>3 DEF Naming, To, Undisturbed
<1>4. ASSUME NEW f \in Fields, NEW c \in Calls, Decides(c, h, f)'
      PROVE  settings'[t][f] = sent'[c][f]
  BY <1>2, <1>3, <1>4 DEF Decides, Follows
<1>5. ASSUME NEW f \in Fields, f \in Named(defaults'[h]),
             \A c \in Calls : ~Naming(c, h, f)'
      PROVE  settings'[t][f] = defaults'[h][f]
  BY <1>1, <1>5 DEF Follows
<1>6. thread'[h] = t
  BY DEF Follows
<1> QED
  BY <1>4, <1>5, <1>6 DEF Follows

\* So does one that leaves alone the call that begins t.
LEMMA BeganKept ==
    ASSUME NEW h \in Handles, NEW t \in Threads, NEW c \in Calls,
           pc[c] = "answered" /\ handle[c] = h /\ target[c] = t,
           op[c] \in {"start", "fork"},
           \A f \in Named(sent[c]) : settings[t][f] = sent[c][f],
           pc'[c] = pc[c], handle'[c] = handle[c], target'[c] = target[c],
           op'[c] = op[c], sent'[c] = sent[c], settings'[t] = settings[t]
    PROVE  Began(h, t)'
  BY DEF Began, Named

\* Who has a thread makes no handle, and who makes one has no thread.
LEMMA OneMaker ==
    ASSUME HandlesInv, PlaceInv, NEW h \in Handles, NEW c \in Calls, handle[c] = h
    PROVE  /\ op[c] = "update" \/ op[c] \in Making
           /\ op[c] = "update" => thread[h] = target[c] /\ thread[h] \in Threads
           /\ op[c] \in Making => thread[h] \notin Threads
           /\ \A d \in Calls : handle[d] = h /\ op[d] \in Making => d = c
<1>1. pc[c] # "idle" /\ op[c] # "none"
  BY NamesAssumption DEF PlaceInv, CallInv
<1>2. op[c] = "update" \/ op[c] \in Making
  BY <1>1 DEF HandlesInv, Shape, Ops, Making
<1>3. op[c] = "update" => thread[h] = target[c] /\ thread[h] \in Threads
  BY DEF PlaceInv, CallInv, HandlesInv, Shape
<1>4. op[c] \in Making => thread[h] \notin Threads
  BY NamesAssumption DEF PlaceInv, CallInv
<1>5. \A d \in Calls : handle[d] = h /\ op[d] \in Making => d = c
  BY DEF PlaceInv, CallInv
<1> QED
  BY <1>2, <1>3, <1>4, <1>5

\* Asking.
LEMMA AskSnapshot ==
    ASSUME HandlesInv, PlaceInv, SnapshotInv, NEW c \in Calls, NEW what, NEW h0,
           NEW t0, NEW o, NEW s, Ask(c, what, h0, t0, o, s)
    PROVE  SnapshotInv'
<1>1. ~In(answers, c) /\ pc[c] # "answered"
  BY DEF PlaceInv, QueueInv, Ask
<1>2. UNCHANGED <<settings, thread, defaults, answers, writers, doubtful>>
  BY DEF Ask
<1>3. ASSUME NEW d \in Calls, d # c
      PROVE  /\ pc'[d] = pc[d] /\ op'[d] = op[d] /\ handle'[d] = handle[d]
             /\ target'[d] = target[d] /\ sent'[d] = sent[d]
  BY <1>3 DEF Ask, HandlesInv, Shape, PlaceInv, CallInv
<1>4. ASSUME NEW t \in Threads, NEW h \in Handles, Follows(h, t)
      PROVE  Follows(h, t)'
  <2>1. Undisturbed(h)
    BY <1>1, <1>2, <1>3 DEF Undisturbed, To
  <2> QED
    BY <1>2, <1>4, <2>1, FollowsKept
<1>5. ASSUME NEW t \in Threads, NEW h \in Handles, Began(h, t)
      PROVE  Began(h, t)'
  <2>1. PICK d \in Calls :
           /\ pc[d] = "answered" /\ handle[d] = h /\ target[d] = t
           /\ op[d] \in {"start", "fork"}
           /\ \A f \in Named(sent[d]) : settings[t][f] = sent[d][f]
    BY <1>5 DEF Began
  <2> QED
    BY <1>1, <1>2, <1>3, <2>1, BeganKept
<1> QED
  BY <1>2, <1>4, <1>5 DEF SnapshotInv

\* Serving: the handle whose call changed the thread has an answer more, which
\* decides the fields it names; no other answer of its own is behind it.
LEMMA ServeSnapshot ==
    ASSUME HandlesInv, PlaceInv, SnapshotInv, NEW c \in Calls, NEW t0 \in Threads,
           NEW base \in Config, Served(c, t0, base)
    PROVE  SnapshotInv'
<1>1. /\ ~In(answers, c) /\ pc[c] = "asked" /\ answers \in Seq(Calls)
      /\ pc'[c] = "answered" /\ target'[c] = t0
  BY DEF PlaceInv, QueueInv, CallInv, Served, HandlesInv, Shape
<1>2. UNCHANGED <<thread, defaults, op, handle, passed, sent, doubtful>>
  BY DEF Served
<1>3. ASSUME NEW d \in Calls, d # c
      PROVE  pc'[d] = pc[d] /\ target'[d] = target[d]
  BY <1>3 DEF Served, HandlesInv, Shape, PlaceInv, CallInv
<1>4. /\ \A d : In(answers', d) <=> In(answers, d) \/ d = c
      /\ \A d, e : Before(answers, d, e) => Before(answers', d, e)
      /\ \A d : In(answers, d) => Before(answers', d, c)
  <2>1. answers' = Append(answers, c)
    BY DEF Served
  <2>2. \A d : In(Append(answers, c), d) <=> In(answers, d) \/ d = c
    BY <1>1, AppendProperties DEF In
  <2>3. \A d, e : Before(answers, d, e) => Before(Append(answers, c), d, e)
    BY <1>1, AppendOrder
  <2>4. \A d : In(answers, d) => Before(Append(answers, c), d, c)
    BY <1>1, AppendOrder
  <2> QED
    BY <2>1, <2>2, <2>3, <2>4
<1>5. /\ \A t \in Threads : t # t0 => settings'[t] = settings[t] /\ writers'[t] = writers[t]
      /\ settings'[t0] = Merge(base, sent[c])
      /\ writers'[t0] = writers[t0] \cup {handle[c]}
  BY DEF Served, HandlesInv, Shape, PlaceInv, ThreadInv
<1>6. sent[c] \in Config
  BY DEF HandlesInv, Shape
<1>7. ASSUME NEW t \in Threads, NEW h \in Handles, t # t0, Follows(h, t)
      PROVE  Follows(h, t)'
  <2>1. handle[c] # h
    BY <1>1, <1>7, OneMaker, NamesAssumption DEF Follows, Served, Making
  <2>2. Undisturbed(h)
    BY <1>2, <1>4, <2>1 DEF Undisturbed, To
  <2> QED
    BY <1>2, <1>5, <1>7, <2>2, FollowsKept
<1>8. ASSUME NEW t \in Threads, NEW h \in Handles, t # t0, Began(h, t)
      PROVE  Began(h, t)'
  <2>1. PICK d \in Calls :
           /\ pc[d] = "answered" /\ handle[d] = h /\ target[d] = t
           /\ op[d] \in {"start", "fork"}
           /\ \A f \in Named(sent[d]) : settings[t][f] = sent[d][f]
    BY <1>8 DEF Began
  <2> QED
    BY <1>1, <1>2, <1>3, <1>5, <1>8, <2>1, BeganKept
<1>9. ASSUME NEW h \in Handles, writers'[t0] = {h}, t0 \notin doubtful
      PROVE  Follows(h, t0)' \/ Began(h, t0)'
  <2>1. handle[c] = h
    BY <1>5, <1>9
  <2>2. CASE op[c] \in {"start", "fork"}
    <3>1. \A f \in Named(sent[c]) : settings'[t0][f] = sent[c][f]
      BY <1>5 DEF Merge, Named
    <3> QED
      BY <1>1, <1>2, <2>1, <2>2, <3>1 DEF Began
  <2>3. CASE op[c] \in {"resume", "update"} /\ t0 \in exists /\ base = settings[t0]
    <3>1. writers[t0] = {h}
      BY <1>5, <1>9, <2>3 DEF PlaceInv, ThreadInv
    <3>2. ~Began(h, t0)
      <4>1. ASSUME NEW d \in Calls, pc[d] = "answered", handle[d] = h, op[d] \in {"start", "fork"}
            PROVE  FALSE
        <5>1. op[d] \in Making /\ thread[h] \notin Threads
          BY <4>1, OneMaker DEF Making
        <5>2. op[c] \in Making
          BY <2>1, <5>1, OneMaker
        <5>3. c = d
          BY <2>1, <4>1, <5>2, OneMaker
        <5> QED
          BY <1>1, <4>1, <5>3
      <4> QED
        BY <4>1 DEF Began
    <3>3. Follows(h, t0)
      BY <1>9, <3>1, <3>2 DEF SnapshotInv
    <3>4. \A f \in Fields : settings'[t0][f] = IF f \in Named(sent[c]) THEN sent[c][f]
                                                                    ELSE settings[t0][f]
      BY <1>5, <2>3 DEF Merge, Named
    <3>5. \A d \in Calls : \A f \in Fields :
             Naming(d, h, f)' <=> Naming(d, h, f) \/ (d = c /\ f \in Named(sent[c]))
      BY <1>1, <1>2, <1>4, <2>1 DEF Naming
    <3>6. ASSUME NEW f \in Fields, NEW d \in Calls, Decides(d, h, f)'
          PROVE  settings'[t0][f] = sent'[d][f]
      <4>1. Naming(d, h, f)' /\ \A e \in Calls : Before(answers', d, e) => ~Naming(e, h, f)'
        BY <3>6 DEF Decides
      <4>2. CASE d = c
        BY <1>2, <3>4, <4>1, <4>2 DEF Naming
      <4>3. CASE d # c
        <5>1. Naming(d, h, f) /\ In(answers, d)
          BY <3>5, <4>1, <4>3 DEF Naming
        <5>2. f \notin Named(sent[c])
          BY <1>4, <3>5, <4>1, <5>1
        <5>3. \A e \in Calls : Before(answers, d, e) => ~Naming(e, h, f)
          BY <1>4, <3>5, <4>1
        <5>4. settings[t0][f] = sent[d][f]
          BY <3>3, <5>1, <5>3 DEF Follows, Decides
        <5> QED
          BY <1>2, <3>4, <5>2, <5>4
      <4> QED
        BY <4>2, <4>3
    <3>7. ASSUME NEW f \in Fields, f \in Named(defaults'[h]),
                 \A d \in Calls : ~Naming(d, h, f)'
          PROVE  settings'[t0][f] = defaults'[h][f]
      <4>1. f \notin Named(sent[c]) /\ \A d \in Calls : ~Naming(d, h, f)
        BY <3>5, <3>7
      <4>2. settings[t0][f] = defaults[h][f]
        BY <1>2, <3>3, <3>7, <4>1 DEF Follows, Named
      <4> QED
        BY <1>2, <3>4, <4>1, <4>2
    <3>8. thread'[h] = t0
      BY <1>2, <3>3 DEF Follows
    <3> QED
      BY <3>6, <3>7, <3>8 DEF Follows
  <2> QED
    BY <2>2, <2>3 DEF Served
<1> QED
  BY <1>2, <1>5, <1>7, <1>8, <1>9 DEF SnapshotInv

\* Leaving, for the handles whose answers the call is none of, or that it lets
\* down.
LEMMA LeaveOthers ==
    ASSUME HandlesInv, PlaceInv, NEW c \in Calls, Leave(c),
           answers' = RemoveFirst(answers, c), UNCHANGED settings,
           NEW h \in Handles, NEW t \in Threads
    PROVE  /\ Follows(h, t) /\ handle[c] # h /\ UNCHANGED <<thread[h], defaults[h]>>
                => Follows(h, t)'
           /\ Began(h, t) /\ (handle[c] # h \/ target[c] # t) => Began(h, t)'
<1>1. \A d \in Calls : d # c => /\ pc'[d] = pc[d] /\ op'[d] = op[d] /\ handle'[d] = handle[d]
                                /\ target'[d] = target[d] /\ sent'[d] = sent[d]
  BY DEF Leave, HandlesInv, Shape, PlaceInv, CallInv
<1>2. handle'[c] # h
  BY NamesAssumption DEF Leave, PlaceInv, CallInv
<1>3. /\ \A d \in Calls : In(answers', d) <=> In(answers, d) /\ d # c
      /\ \A d, e \in Calls : Before(answers, d, e) /\ d # c /\ e # c => Before(answers', d, e)
  <2>1. answers \in Seq(Calls) /\ NoDup(answers)
    BY DEF PlaceInv, QueueInv
  <2>2. \A d \in Calls : In(RemoveFirst(answers, c), d) <=> In(answers, d) /\ d # c
    BY <2>1, WithoutProperties DEF Without
  <2>3. \A d, e \in Calls : Before(answers, d, e) /\ d # c /\ e # c
                              => Before(RemoveFirst(answers, c), d, e)
    BY <2>1, CutOrder
  <2> QED
    BY <2>2, <2>3
<1>4. ASSUME Follows(h, t), handle[c] # h, UNCHANGED <<thread[h], defaults[h]>>
      PROVE  Follows(h, t)'
  <2>1. Undisturbed(h)
    BY <1>1, <1>2, <1>3, <1>4 DEF Undisturbed, To
  <2> QED
    BY <1>4, <2>1, FollowsKept
<1>5. ASSUME Began(h, t), handle[c] # h \/ target[c] # t
      PROVE  Began(h, t)'
  <2>1. PICK d \in Calls :
           /\ pc[d] = "answered" /\ handle[d] = h /\ target[d] = t
           /\ op[d] \in {"start", "fork"}
           /\ \A f \in Named(sent[d]) : settings[t][f] = sent[d][f]
    BY <1>5 DEF Began
  <2>2. d # c
    BY <1>5, <2>1
  <2> QED
    BY <1>1, <2>1, <2>2, BeganKept
<1> QED
  BY <1>4, <1>5

\* A call that gives up leaves its thread in doubt.
LEMMA RaisesSnapshot ==
    ASSUME HandlesInv, PlaceInv, SnapshotInv, NEW c \in Calls, Raises(c)
    PROVE  SnapshotInv'
<1> SUFFICES ASSUME NEW t \in Threads, NEW h \in Handles,
                    writers'[t] = {h}, t \notin doubtful'
             PROVE  Follows(h, t)' \/ Began(h, t)'
  BY DEF SnapshotInv
<1>1. /\ answers' = RemoveFirst(answers, c) /\ Leave(c)
      /\ UNCHANGED <<settings, thread, defaults, writers>>
      /\ target[c] # t /\ t \notin doubtful
  BY DEF Raises
<1>2. Follows(h, t) \/ Began(h, t)
  BY <1>1 DEF SnapshotInv
<1>3. Follows(h, t) => handle[c] # h
  <2>1. ASSUME Follows(h, t), handle[c] = h PROVE FALSE
    BY <1>1, <2>1, OneMaker DEF Follows
  <2> QED
    BY <2>1
<1> QED
  BY <1>1, <1>2, <1>3, LeaveOthers

\* Taking in the first answer: what it decides moves into the defaults.
LEMMA ReturnsSnapshot ==
    ASSUME HandlesInv, PlaceInv, SnapshotInv, NEW c \in Calls, Returns(c)
    PROVE  SnapshotInv'
<1> SUFFICES ASSUME NEW t \in Threads, NEW h \in Handles,
                    writers'[t] = {h}, t \notin doubtful'
             PROVE  Follows(h, t)' \/ Began(h, t)'
  BY DEF SnapshotInv
<1>1. /\ answers' = RemoveFirst(answers, c) /\ Leave(c)
      /\ UNCHANGED <<settings, writers, doubtful>>
      /\ thread' = [thread EXCEPT ![handle[c]] = target[c]]
      /\ defaults' = [defaults EXCEPT ![handle[c]] =
                        IF op[c] = "update" THEN Merge(@, sent[c]) ELSE sent[c]]
  BY DEF Returns
<1>2. Follows(h, t) \/ Began(h, t)
  BY <1>1 DEF SnapshotInv
<1>3. pc[c] = "answered" /\ HeadIs(answers, c) /\ answers \in Seq(Calls) /\ NoDup(answers)
  BY HeadAnswered DEF Returns, PlaceInv, QueueInv
<1>4. thread \in [Handles -> Threads \cup {NoThread}] /\ defaults \in [Handles -> Config]
  BY DEF HandlesInv, Shape
<1>5. CASE handle[c] # h
  <2>1. UNCHANGED <<thread[h], defaults[h]>>
    BY <1>1, <1>4, <1>5
  <2> QED
    BY <1>1, <1>2, <1>5, <2>1, LeaveOthers
<1>6. ASSUME handle[c] = h
      PROVE  Follows(h, t)'
  <2>1. /\ thread'[h] = target[c]
        /\ defaults'[h] = IF op[c] = "update" THEN Merge(defaults[h], sent[c]) ELSE sent[c]
    BY <1>1, <1>4, <1>6
  <2>2. /\ \A d \in Calls : d # c => handle'[d] = handle[d] /\ sent'[d] = sent[d]
        /\ handle'[c] # h
    BY <1>1, NamesAssumption DEF Leave, HandlesInv, Shape, PlaceInv, CallInv
  <2>3. /\ \A d \in Calls : In(answers', d) <=> In(answers, d) /\ d # c
        /\ \A d, e \in Calls : Before(answers, d, e) /\ d # c /\ e # c => Before(answers', d, e)
    <3>1. \A d \in Calls : In(RemoveFirst(answers, c), d) <=> In(answers, d) /\ d # c
      BY <1>3, WithoutProperties DEF Without
    <3>2. \A d, e \in Calls : Before(answers, d, e) /\ d # c /\ e # c
                                => Before(RemoveFirst(answers, c), d, e)
      BY <1>3, CutOrder
    <3> QED
      BY <1>1, <3>1, <3>2
  <2>4. \A d \in Calls : \A f \in Fields : Naming(d, h, f)' <=> Naming(d, h, f) /\ d # c
    BY <2>2, <2>3 DEF Naming
  <2>5. CASE op[c] \in Making
    <3>1. PICK d \in Calls :
             /\ pc[d] = "answered" /\ handle[d] = h /\ target[d] = t
             /\ op[d] \in {"start", "fork"}
             /\ \A f \in Named(sent[d]) : settings[t][f] = sent[d][f]
      BY <1>2, <1>6, <2>5, OneMaker DEF Follows, Began
    <3>2. d = c
      BY <1>6, <2>5, <3>1, OneMaker
    <3>3. \A e \in Calls : \A f \in Fields : ~Naming(e, h, f)'
      BY <1>6, <2>4, <2>5, OneMaker DEF Naming
    <3>4. thread'[h] = t /\ defaults'[h] = sent[c]
      BY <2>1, <2>5, <3>1, <3>2 DEF Making
    <3>5. \A f \in Named(sent[c]) : settings'[t][f] = sent[c][f]
      BY <1>1, <3>1, <3>2
    <3> QED
      BY <3>3, <3>4, <3>5 DEF Follows, Decides, Named
  <2>6. CASE op[c] = "update"
    <3>1. thread[h] = target[c] /\ thread[h] \in Threads
      BY <1>6, <2>6, OneMaker
    <3>2. ~Began(h, t)
      <4>1. ASSUME NEW d \in Calls, handle[d] = h, op[d] \in {"start", "fork"}
            PROVE  FALSE
        BY <3>1, <4>1, OneMaker DEF Making
      <4> QED
        BY <4>1 DEF Began
    <3>3. Follows(h, t) /\ thread'[h] = t
      BY <1>2, <2>1, <3>1, <3>2 DEF Follows
    <3>4. \A d \in Calls : ~Before(answers, d, c)
      BY <1>3, HeadOrder
    <3>5. ASSUME NEW f \in Fields, NEW d \in Calls, Decides(d, h, f)'
          PROVE  settings'[t][f] = sent'[d][f]
      <4>1. Naming(d, h, f) /\ d # c
        BY <2>4, <3>5 DEF Decides
      <4>2. ASSUME NEW e \in Calls, Before(answers, d, e), Naming(e, h, f) PROVE FALSE
        <5>1. e # c
          BY <3>4, <4>2
        <5>2. Before(answers', d, e) /\ Naming(e, h, f)'
          BY <2>3, <2>4, <4>1, <4>2, <5>1
        <5> QED
          BY <3>5, <5>2 DEF Decides
      <4>3. settings[t][f] = sent[d][f]
        BY <3>3, <4>1, <4>2 DEF Follows, Decides
      <4> QED
        BY <1>1, <2>2, <4>1, <4>3
    <3>6. ASSUME NEW f \in Fields, f \in Named(defaults'[h]),
                 \A d \in Calls : ~Naming(d, h, f)'
          PROVE  settings'[t][f] = defaults'[h][f]
      <4>1. \A d \in Calls : d # c => ~Naming(d, h, f)
        BY <2>4, <3>6
      <4>2. defaults'[h][f] = IF f \in Named(sent[c]) THEN sent[c][f] ELSE defaults[h][f]
        BY <2>1, <2>6 DEF Merge, Named
      <4>3. CASE f \in Named(sent[c])
        <5>1. Naming(c, h, f)
          BY <1>3, <1>6, <4>3 DEF Naming, PlaceInv, QueueInv
        <5>2. Decides(c, h, f)
          BY <3>4, <4>1, <5>1 DEF Decides
        <5> QED
          BY <1>1, <3>3, <4>2, <4>3, <5>2 DEF Follows
      <4>4. CASE f \notin Named(sent[c])
        <5>1. \A d \in Calls : ~Naming(d, h, f)
          BY <4>1, <4>4 DEF Naming
        <5>2. f \in Named(defaults[h])
          BY <3>6, <4>2, <4>4 DEF Named
        <5> QED
          BY <1>1, <3>3, <4>2, <4>4, <5>1, <5>2 DEF Follows
      <4> QED
        BY <4>3, <4>4
    <3> QED
      BY <3>3, <3>5, <3>6 DEF Follows
  <2> QED
    BY <1>6, <2>5, <2>6, OneMaker
<1> QED
  BY <1>5, <1>6

\* Every step keeps SnapshotInv.
LEMMA SnapshotNext ==
    HandlesInv /\ PlaceInv /\ SnapshotInv /\ [Next]_vars => SnapshotInv'
<1> SUFFICES ASSUME HandlesInv, PlaceInv, SnapshotInv, [Next]_vars
             PROVE  SnapshotInv'
  OBVIOUS
<1>1. ASSUME NEW c \in Calls, AppStep(c)
      PROVE  SnapshotInv'
  BY <1>1, AskSnapshot DEF AppStep, StartThread, ResumeThread, Fork, UpdateDefaults
<1>2. ASSUME NEW c \in Calls, Serve(c)
      PROVE  SnapshotInv'
  BY <1>2, ServeServed, ServeSnapshot
<1>3. CASE UNCHANGED vars
  BY <1>3 DEF vars, callVars, SnapshotInv, Follows, Began, Decides, Naming, Named
<1> QED
  BY <1>1, <1>2, <1>3, RaisesSnapshot, ReturnsSnapshot DEF Next

\* The initial states.
LEMMA SnapshotInit == Init => SnapshotInv
  BY DEF Init, SnapshotInv

\* A handle that alone changed its thread, and missed no answer, believes what
\* the server holds, whenever it has taken in its answers: also with several
\* updates in flight at once (SnapshotTrue), for all sets of calls, handles,
\* threads and fields.
THEOREM SnapshotsAreTrue == Spec => []SnapshotTrue
<1>1. HandlesInv /\ PlaceInv /\ SnapshotInv => SnapshotTrue
  <2> SUFFICES ASSUME HandlesInv, PlaceInv, SnapshotInv, NEW h \in Handles,
                      thread[h] # NoThread, writers[thread[h]] = {h},
                      thread[h] \notin doubtful, Settled(h),
                      NEW f \in Named(defaults[h])
               PROVE  settings[thread[h]][f] = defaults[h][f]
    BY DEF SnapshotTrue
  <2>1. thread[h] \in Threads /\ f \in Fields
    BY DEF HandlesInv, Shape, Named
  <2>2. ~Began(h, thread[h])
    BY DEF Began, Settled
  <2>3. Follows(h, thread[h])
    BY <2>1, <2>2 DEF SnapshotInv
  <2>4. \A c \in Calls : ~Naming(c, h, f)
    BY DEF Naming, Settled, PlaceInv, QueueInv
  <2> QED
    BY <2>1, <2>3, <2>4 DEF Follows
<1> QED
  BY <1>1, HandlesInit, HandlesNext, PlaceInit, PlaceNext, SnapshotInit, SnapshotNext,
     PTL DEF Spec
=============================================================================
