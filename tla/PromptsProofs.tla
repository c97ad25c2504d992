---------------------------- MODULE PromptsProofs ----------------------------
(* What Prompts guarantees for every set of callers and of requests.         *)
EXTENDS Prompts, FifoLockProofs

InLock == {"queued", "draining"}
Places == {"idle", "spawnedHandler", "spawnedAuto", "handling", "sleeping"} \cup InLock

\* The part of TypeOK about the workers.
WorkersOK ==
    /\ pc \in [Workers -> Places]
    /\ on \in [Workers -> Prompts \cup {NoPrompt}]
    /\ saying \in [Workers -> Sayings \cup {"none", "mismatch"}]
    /\ sendLock \in Seq(Workers) /\ NoDup(sendLock)
    /\ \A w \in Workers :
          /\ In(sendLock, w) <=> pc[w] \in InLock
          /\ In(sendLock, w) <=> on[w] # NoPrompt

\* The part of TypeOK about the prompts.
PromptsOK ==
    /\ autoMode \in BOOLEAN /\ handlers \subseteq {"approval", "input"}
    /\ asked \subseteq Prompts /\ settled \subseteq asked
    /\ pending \subseteq asked \ Others
    /\ replies \in [Prompts -> Seq(Sayings)]
    /\ gaveUp \subseteq asked
    /\ link \in {"up", "failed", "closing", "closed"}

LEMMA TypeParts == TypeOK <=> WorkersOK /\ PromptsOK
  BY DEF TypeOK, WorkersOK, PromptsOK, Places, InLock

\* The three kinds of requests.
LEMMA Kinds ==
    /\ Approvals \subseteq Prompts /\ Inputs \subseteq Prompts
    /\ Approvals \cap Inputs = {}
    /\ Others = Prompts \ (Approvals \cup Inputs)
  BY DEF Approvals, Inputs, Others, Parsed

\* Who responds to which prompt, with what, at which place of the lock.
ResponderInv ==
    /\ \A w \in Workers :
          /\ pc[w] = "draining" => HeadIs(sendLock, w) /\ replies[on[w]] # <<>>
          /\ on[w] \in asked \cup {NoPrompt}
          /\ pc[w] \in InLock => /\ saying[w] \in Sayings \cup {"mismatch"}
                                 /\ saying[w] = "mismatch" => on[w] \in Approvals
    /\ \A p \in Prompts : pc[p] # "idle" => p \in asked \ Others

-----------------------------------------------------------------------------
(* The moves of one worker.                                                  *)

\* The worker that leaves, and nobody else, is out of the lock.
LEMMA LeaveMoves ==
    ASSUME WorkersOK, NEW w \in Workers, Leave(w)
    PROVE  /\ WorkersOK'
           /\ pc'[w] = "idle" /\ on'[w] = NoPrompt
           /\ \A v \in Workers : v # w =>
                 pc'[v] = pc[v] /\ on'[v] = on[v] /\ saying'[v] = saying[v]
           /\ \A v \in Workers : v # w /\ HeadIs(sendLock, v) => HeadIs(sendLock', v)
<1>1. /\ sendLock' \in Seq(Workers) /\ NoDup(sendLock')
      /\ \A v : In(sendLock', v) <=> In(sendLock, v) /\ v # w
      /\ \A v : HeadIs(sendLock, v) /\ v # w => HeadIs(sendLock', v)
  <2>1. sendLock \in Seq(Workers) /\ NoDup(sendLock) /\ sendLock' = Without(sendLock, w)
    BY DEF WorkersOK, Leave
  <2> QED
    BY <2>1, WithoutProperties, Zenon
<1>2. /\ pc' \in [Workers -> Places]
      /\ on' \in [Workers -> Prompts \cup {NoPrompt}]
      /\ saying' \in [Workers -> Sayings \cup {"none", "mismatch"}]
  BY DEF WorkersOK, Leave, Places
<1>3. /\ pc'[w] = "idle" /\ on'[w] = NoPrompt
      /\ \A v \in Workers : v # w =>
            pc'[v] = pc[v] /\ on'[v] = on[v] /\ saying'[v] = saying[v]
  BY DEF WorkersOK, Leave
<1>4. \A v \in Workers : /\ In(sendLock', v) <=> pc'[v] \in InLock
                         /\ In(sendLock', v) <=> on'[v] # NoPrompt
  <2> TAKE v \in Workers
  <2>1. CASE v = w
    BY <2>1, <1>1, <1>3 DEF InLock
  <2>2. CASE v # w
    BY <2>2, <1>1, <1>3 DEF WorkersOK
  <2> QED
    BY <2>1, <2>2
<1> QED
  BY <1>1, <1>2, <1>3, <1>4 DEF WorkersOK

\* The worker that queues is behind everybody who is in the lock.
LEMMA QueueMoves ==
    ASSUME WorkersOK, NEW w \in Workers, NEW p \in Prompts,
           NEW reply \in Sayings \cup {"mismatch"},
           pc[w] \notin InLock, Queue(w, p, reply)
    PROVE  /\ WorkersOK'
           /\ pc'[w] = "queued" /\ on'[w] = p /\ saying'[w] = reply
           /\ \A v \in Workers : v # w =>
                 pc'[v] = pc[v] /\ on'[v] = on[v] /\ saying'[v] = saying[v]
           /\ \A v \in Workers : HeadIs(sendLock, v) => HeadIs(sendLock', v)
<1>1. /\ sendLock' \in Seq(Workers) /\ NoDup(sendLock')
      /\ \A v : In(sendLock', v) <=> In(sendLock, v) \/ v = w
      /\ \A v : HeadIs(sendLock, v) => HeadIs(sendLock', v)
  <2>1. /\ sendLock \in Seq(Workers) /\ NoDup(sendLock) /\ ~In(sendLock, w)
        /\ sendLock' = Join(sendLock, w)
    BY DEF WorkersOK, Queue
  <2> QED
    BY <2>1, JoinProperties, Zenon
<1>2. /\ pc' \in [Workers -> Places]
      /\ on' \in [Workers -> Prompts \cup {NoPrompt}]
      /\ saying' \in [Workers -> Sayings \cup {"none", "mismatch"}]
  BY DEF WorkersOK, Queue, Places, InLock
<1>3. /\ pc'[w] = "queued" /\ on'[w] = p /\ saying'[w] = reply
      /\ \A v \in Workers : v # w =>
            pc'[v] = pc[v] /\ on'[v] = on[v] /\ saying'[v] = saying[v]
  BY DEF WorkersOK, Queue
<1>4. \A v \in Workers : /\ In(sendLock', v) <=> pc'[v] \in InLock
                         /\ In(sendLock', v) <=> on'[v] # NoPrompt
  <2> TAKE v \in Workers
  <2>1. CASE v = w
    BY <2>1, <1>1, <1>3, WorkersAssumption DEF InLock
  <2>2. CASE v # w
    BY <2>2, <1>1, <1>3 DEF WorkersOK
  <2> QED
    BY <2>1, <2>2
<1> QED
  BY <1>1, <1>2, <1>3, <1>4 DEF WorkersOK

\* A worker outside the lock goes from one place to another.
LEMMA PlaceMoves ==
    ASSUME WorkersOK, NEW w \in Workers, NEW place \in Places \ InLock,
           pc[w] \notin InLock, pc' = [pc EXCEPT ![w] = place],
           UNCHANGED <<on, saying, sendLock>>
    PROVE  /\ WorkersOK'
           /\ pc'[w] = place
           /\ \A v \in Workers : v # w => pc'[v] = pc[v]
<1>1. pc' \in [Workers -> Places] /\ pc'[w] = place
  BY DEF WorkersOK
<1>2. \A v \in Workers : v # w => pc'[v] = pc[v]
  BY DEF WorkersOK
<1>3. \A v \in Workers : pc'[v] \in InLock <=> pc[v] \in InLock
  <2> TAKE v \in Workers
  <2> QED
    BY <1>1, <1>2 DEF WorkersOK
<1> QED
  BY <1>1, <1>2, <1>3 DEF WorkersOK

\* Nobody moves.
LEMMA NobodyMoves ==
    ASSUME WorkersOK, UNCHANGED <<workVars, sendLock>> PROVE WorkersOK'
  BY DEF WorkersOK, workVars

-----------------------------------------------------------------------------
(* Types and responders.                                                     *)

BaseInv == TypeOK /\ ResponderInv

LEMMA BaseNext ==
    ASSUME WorkersOK', PromptsOK', ResponderInv' PROVE BaseInv'
  BY DEF BaseInv, TypeOK, WorkersOK, PromptsOK, Places, InLock

\* A worker that leaves disturbs nobody's place.
LEMMA LeaveBase ==
    ASSUME BaseInv, NEW w \in Workers, Leave(w), UNCHANGED <<asked, replies>>
    PROVE  WorkersOK' /\ ResponderInv'
<1>1. WorkersOK
  BY TypeParts DEF BaseInv
<1>2. /\ WorkersOK'
      /\ pc'[w] = "idle" /\ on'[w] = NoPrompt
      /\ \A v \in Workers : v # w =>
            pc'[v] = pc[v] /\ on'[v] = on[v] /\ saying'[v] = saying[v]
      /\ \A v \in Workers : v # w /\ HeadIs(sendLock, v) => HeadIs(sendLock', v)
  BY <1>1, LeaveMoves
<1>3. ASSUME NEW v \in Workers
      PROVE  /\ pc'[v] = "draining" => HeadIs(sendLock', v) /\ replies'[on'[v]] # <<>>
             /\ on'[v] \in asked' \cup {NoPrompt}
             /\ pc'[v] \in InLock => /\ saying'[v] \in Sayings \cup {"mismatch"}
                                     /\ saying'[v] = "mismatch" => on'[v] \in Approvals
  <2>1. CASE v = w
    BY <2>1, <1>2 DEF InLock
  <2>2. CASE v # w
    BY <2>2, <1>2 DEF BaseInv, ResponderInv
  <2> QED
    BY <2>1, <2>2
<1>4. ASSUME NEW p \in Prompts, pc'[p] # "idle" PROVE p \in asked' \ Others
  <2>1. p \in Workers
    BY DEF Workers
  <2> QED
    BY <2>1, <1>2, <1>4 DEF BaseInv, ResponderInv
<1> QED
  BY <1>2, <1>3, <1>4 DEF ResponderInv

\* A worker that queues with a reply to a prompt that was received.
LEMMA QueueBase ==
    ASSUME BaseInv, NEW w \in Workers, NEW p \in Prompts,
           NEW reply \in Sayings \cup {"mismatch"},
           pc[w] \notin InLock, Queue(w, p, reply),
           reply = "mismatch" => p \in Approvals,
           w \in Prompts => w \in asked \ Others,
           asked' = asked \cup {p}, replies' = replies
    PROVE  WorkersOK' /\ ResponderInv'
<1>1. WorkersOK
  BY TypeParts DEF BaseInv
<1>2. /\ WorkersOK'
      /\ pc'[w] = "queued" /\ on'[w] = p /\ saying'[w] = reply
      /\ \A v \in Workers : v # w =>
            pc'[v] = pc[v] /\ on'[v] = on[v] /\ saying'[v] = saying[v]
      /\ \A v \in Workers : HeadIs(sendLock, v) => HeadIs(sendLock', v)
  BY <1>1, QueueMoves
<1>3. ASSUME NEW v \in Workers
      PROVE  /\ pc'[v] = "draining" => HeadIs(sendLock', v) /\ replies'[on'[v]] # <<>>
             /\ on'[v] \in asked' \cup {NoPrompt}
             /\ pc'[v] \in InLock => /\ saying'[v] \in Sayings \cup {"mismatch"}
                                     /\ saying'[v] = "mismatch" => on'[v] \in Approvals
  <2>1. CASE v = w
    BY <2>1, <1>2
  <2>2. CASE v # w
    BY <2>2, <1>2 DEF BaseInv, ResponderInv
  <2> QED
    BY <2>1, <2>2
<1>4. ASSUME NEW q \in Prompts, pc'[q] # "idle" PROVE q \in asked' \ Others
  <2>1. q \in Workers
    BY DEF Workers
  <2> QED
    BY <2>1, <1>2, <1>4 DEF BaseInv, ResponderInv
<1> QED
  BY <1>2, <1>3, <1>4 DEF ResponderInv

\* The task of a prompt that was received goes to another place.
LEMMA PlaceBase ==
    ASSUME BaseInv, NEW w \in Prompts \ Others, NEW place \in Places \ InLock,
           pc[w] \notin InLock, pc' = [pc EXCEPT ![w] = place],
           UNCHANGED <<on, saying, sendLock, replies>>,
           asked' = asked \cup {w}
    PROVE  WorkersOK' /\ ResponderInv'
<1>1. WorkersOK /\ w \in Workers
  BY TypeParts DEF BaseInv, Workers
<1>2. /\ WorkersOK' /\ pc'[w] = place
      /\ \A v \in Workers : v # w => pc'[v] = pc[v]
  BY <1>1, PlaceMoves
<1>3. ASSUME NEW v \in Workers
      PROVE  /\ pc'[v] = "draining" => HeadIs(sendLock', v) /\ replies'[on'[v]] # <<>>
             /\ on'[v] \in asked' \cup {NoPrompt}
             /\ pc'[v] \in InLock => /\ saying'[v] \in Sayings \cup {"mismatch"}
                                     /\ saying'[v] = "mismatch" => on'[v] \in Approvals
  <2>1. CASE v = w
    BY <2>1, <1>2 DEF BaseInv, ResponderInv, InLock
  <2>2. CASE v # w
    BY <2>2, <1>2 DEF BaseInv, ResponderInv
  <2> QED
    BY <2>1, <2>2
<1>4. ASSUME NEW q \in Prompts, pc'[q] # "idle" PROVE q \in asked' \ Others
  <2>1. q \in Workers
    BY DEF Workers
  <2> QED
    BY <2>1, <1>2, <1>4 DEF BaseInv, ResponderInv
<1> QED
  BY <1>2, <1>3, <1>4 DEF ResponderInv

\* Nobody moves.
LEMMA StayBase ==
    ASSUME BaseInv, UNCHANGED <<workVars, sendLock, asked, replies>>
    PROVE  WorkersOK' /\ ResponderInv'
<1>1. WorkersOK'
  BY NobodyMoves, TypeParts DEF BaseInv
<1>2. ResponderInv'
  BY DEF BaseInv, ResponderInv, workVars
<1> QED
  BY <1>1, <1>2

\* A responder out of the lock responds.
LEMMA RespondBase ==
    ASSUME BaseInv, NEW w \in Workers, NEW p \in asked \ Others,
           NEW reply \in Sayings, pc[w] \notin InLock, Respond(w, p, reply),
           w \in Prompts => w \in asked \ Others, UNCHANGED <<asked, replies>>
    PROVE  WorkersOK' /\ ResponderInv' /\ pending' \subseteq pending
<1>1. p \in Prompts /\ asked' = asked \cup {p} /\ reply # "mismatch"
  BY TypeParts DEF BaseInv, PromptsOK, Sayings
<1>4. (Queue(w, p, reply) \/ Leave(w)) /\ pending' \subseteq pending
  BY DEF Respond
<1>2. CASE Queue(w, p, reply)
  <2>1. reply \in Sayings \cup {"mismatch"}
    OBVIOUS
  <2> QED
    BY <1>1, <1>2, <1>4, <2>1, QueueBase
<1>3. CASE Leave(w)
  BY <1>3, <1>4, LeaveBase
<1> QED
  BY <1>2, <1>3, <1>4

LEMMA RespondWithBase ==
    ASSUME BaseInv, NEW w \in Workers, NEW p \in asked \ Others, NEW d,
           pc[w] \notin InLock, RespondWith(w, p, d),
           w \in Prompts => w \in asked \ Others, UNCHANGED <<asked, replies>>
    PROVE  /\ WorkersOK' /\ ResponderInv' /\ pending' \subseteq pending
           /\ gaveUp' \subseteq asked
<1>0. gaveUp \subseteq asked
  BY TypeParts DEF BaseInv, PromptsOK
<1>1. CASE Encodes(p, d)
  <2>1. Respond(w, p, "answer") /\ gaveUp' = gaveUp
    BY <1>1 DEF RespondWith
  <2> QED
    BY <2>1, <1>0, RespondBase DEF Sayings
<1>2. CASE ~Encodes(p, d)
  <2>1. Leave(w) /\ pending' = pending \ {p} /\ gaveUp' = gaveUp \cup ({p} \cap pending)
    BY <1>2 DEF RespondWith, RespondUnreadable
  <2> QED
    BY <2>1, <1>0, LeaveBase
<1> QED
  BY <1>1, <1>2

LEMMA GiveUpBase ==
    ASSUME BaseInv, NEW w \in Workers, GiveUp(w), UNCHANGED <<asked, replies>>
    PROVE  WorkersOK' /\ ResponderInv' /\ gaveUp' \subseteq asked
<1>1. WorkersOK' /\ ResponderInv'
  BY LeaveBase DEF GiveUp
<1>2. gaveUp' \subseteq asked
  <2>1. gaveUp \subseteq asked
    BY TypeParts DEF BaseInv, PromptsOK
  <2>2. pc[w] \in InLock => on[w] \in asked
    BY TypeParts DEF BaseInv, ResponderInv, WorkersOK
  <2> QED
    BY <2>1, <2>2 DEF GiveUp, InLock
<1> QED
  BY <1>1, <1>2

\* What a step of the server or of close, which moves no worker, changes.
LEMMA ServeBase ==
    ASSUME BaseInv, UNCHANGED <<workVars, sendLock, replies, gaveUp>>,
           asked' = asked, PromptsOK'
    PROVE  BaseInv'
  BY StayBase, BaseNext

\* The initial state.
LEMMA BaseInit == Init => BaseInv
<1> SUFFICES ASSUME Init PROVE BaseInv
  OBVIOUS
<1>1. <<>> \in Seq(Workers) /\ <<>> \in Seq(Sayings) /\ Len(<<>>) = 0
  BY EmptySeq
<1>2. \A w : ~In(sendLock, w)
  BY <1>1 DEF Init, In
<1>3. NoDup(sendLock)
  BY <1>1 DEF Init, NoDup
<1>4. \A w \in Workers : pc[w] = "idle" /\ on[w] = NoPrompt
  BY DEF Init
<1>5. WorkersOK
  BY <1>1, <1>2, <1>3, <1>4 DEF WorkersOK, Init, Places, InLock
<1>6. PromptsOK
  <2>1. autoMode \in BOOLEAN
    BY Zenon DEF Init
  <2> QED
    BY <2>1, <1>1 DEF PromptsOK, Init
<1>7. ResponderInv
  <2>1. Prompts \subseteq Workers
    BY DEF Workers
  <2> QED
    BY <1>4, <2>1 DEF ResponderInv, InLock
<1> QED
  BY <1>5, <1>6, <1>7, TypeParts DEF BaseInv

\* Every step keeps the types and the responders in their places.
LEMMA BaseStep == BaseInv /\ [Next]_vars => BaseInv'
<1> SUFFICES ASSUME BaseInv, [Next]_vars PROVE BaseInv'
  OBVIOUS
<1>1. WorkersOK /\ PromptsOK
  BY TypeParts DEF BaseInv
<1>2. Prompts \subseteq Workers /\ Callers \subseteq Workers /\ Receiver \in Workers
  BY DEF Workers
<1>3. Callers \cap Prompts = {} /\ Receiver \notin Prompts
  BY WorkersAssumption
<1>a. ASSUME NEW c \in Callers, NEW p \in Prompts, NEW d, CallRespond(c, p, d)
      PROVE  BaseInv'
  <2>1. /\ pc[c] \notin InLock /\ p \in asked \ Others /\ RespondWith(c, p, d)
        /\ c \notin Prompts
    BY <1>a, <1>3 DEF CallRespond, InLock
  <2>2. WorkersOK' /\ ResponderInv' /\ pending' \subseteq pending /\ gaveUp' \subseteq asked
    BY <1>a, <1>2, <2>1, RespondWithBase DEF CallRespond
  <2>3. PromptsOK'
    BY <1>a, <1>1, <2>2 DEF CallRespond, PromptsOK
  <2> QED
    BY <2>2, <2>3, BaseNext
<1>b. ASSUME NEW c \in Callers, NEW p \in Prompts, CallMismatched(c, p)
      PROVE  BaseInv'
  <2>1. /\ pc[c] \notin InLock /\ p \in asked \cap Approvals /\ Queue(c, p, "mismatch")
        /\ c \notin Prompts /\ asked' = asked \cup {p}
    BY <1>b, <1>3 DEF CallMismatched, InLock
  <2>2. WorkersOK' /\ ResponderInv'
    BY <1>b, <1>2, <2>1, QueueBase DEF CallMismatched
  <2>3. PromptsOK'
    BY <1>b, <1>1 DEF CallMismatched, PromptsOK
  <2> QED
    BY <2>2, <2>3, BaseNext
<1>c. ASSUME NEW w \in Workers, Write(w) PROVE BaseInv'
  <2>1. /\ on[w] \in Prompts /\ on[w] \in asked /\ saying[w] \in Sayings
        /\ pc[w] = "queued" /\ HeadIs(sendLock, w)
    <3>1. /\ pc[w] = "queued" /\ HeadIs(sendLock, w)
          /\ on[w] \in Approvals => saying[w] # "mismatch"
      BY <1>c DEF Write, MaySend
    <3>2. pc[w] \in InLock
      BY <3>1 DEF InLock
    <3> QED
      BY <1>1, <3>1, <3>2 DEF BaseInv, ResponderInv, WorkersOK
  <2>2. replies' = [replies EXCEPT ![on[w]] = Append(@, saying[w])]
    BY <1>c DEF Write
  <2>3. Append(replies[on[w]], saying[w]) \in Seq(Sayings)
    BY <2>1, <1>1, AppendProperties DEF PromptsOK
  <2>4. /\ replies' \in [Prompts -> Seq(Sayings)]
        /\ replies'[on[w]] # <<>>
        /\ \A p \in Prompts : p # on[w] => replies'[p] = replies[p]
    <3>1. Append(replies[on[w]], saying[w]) # <<>>
      BY <2>1, <1>1, AppendProperties DEF PromptsOK
    <3> QED
      BY <2>1, <2>2, <2>3, <3>1, <1>1 DEF PromptsOK
  <2>5. PromptsOK'
    BY <1>c, <1>1, <2>4 DEF Write, PromptsOK
  <2>6. /\ pc' = [pc EXCEPT ![w] = "draining"]
        /\ UNCHANGED <<on, saying, sendLock, asked>>
    BY <1>c DEF Write
  <2>7. /\ pc'[w] = "draining" /\ \A v \in Workers : v # w => pc'[v] = pc[v]
        /\ pc' \in [Workers -> Places]
    BY <2>6, <1>1 DEF WorkersOK, Places, InLock
  <2>8. WorkersOK'
    <3>1. \A v \in Workers : pc'[v] \in InLock <=> pc[v] \in InLock
      BY <2>1, <2>7 DEF InLock
    <3> QED
      BY <2>6, <2>7, <3>1, <1>1 DEF WorkersOK
  <2>9. ResponderInv'
    <3>1. ASSUME NEW v \in Workers
          PROVE  /\ pc'[v] = "draining" => HeadIs(sendLock', v) /\ replies'[on'[v]] # <<>>
                 /\ on'[v] \in asked' \cup {NoPrompt}
                 /\ pc'[v] \in InLock => /\ saying'[v] \in Sayings \cup {"mismatch"}
                                         /\ saying'[v] = "mismatch" => on'[v] \in Approvals
      <4>1. CASE v = w
        BY <4>1, <2>1, <2>4, <2>6 DEF BaseInv, ResponderInv, InLock
      <4>2. CASE v # w
        <5>1. pc[v] = "draining" => on[v] \in Prompts
          BY <1>1 DEF WorkersOK, InLock
        <5> QED
          BY <4>2, <5>1, <2>4, <2>6, <2>7 DEF BaseInv, ResponderInv
      <4> QED
        BY <4>1, <4>2
    <3>2. ASSUME NEW p \in Prompts, pc'[p] # "idle" PROVE p \in asked' \ Others
      BY <3>2, <1>2, <2>1, <2>6, <2>7 DEF BaseInv, ResponderInv
    <3> QED
      BY <3>1, <3>2 DEF ResponderInv
  <2> QED
    BY <2>5, <2>8, <2>9, BaseNext
<1>d. ASSUME NEW w \in Workers, NoLongerPending(w) \/ Drained(w) PROVE BaseInv'
  <2>1. Leave(w) /\ UNCHANGED <<asked, replies>>
    BY <1>d DEF NoLongerPending, Drained
  <2>2. PromptsOK'
    BY <1>d, <1>1 DEF NoLongerPending, Drained, PromptsOK
  <2> QED
    BY <2>1, <2>2, LeaveBase, BaseNext
<1>e. ASSUME NEW w \in Workers, SendFails(w) \/ Cancelled(w) \/ TaskCancelled(w)
      PROVE  BaseInv'
  <2>1. GiveUp(w) /\ UNCHANGED <<asked, replies>>
    BY <1>e DEF SendFails, Cancelled, TaskCancelled
  <2>2. WorkersOK' /\ ResponderInv' /\ gaveUp' \subseteq asked
    BY <2>1, GiveUpBase
  <2>3. PromptsOK'
    BY <1>e, <1>1, <2>2 DEF SendFails, Cancelled, TaskCancelled, PromptsOK
  <2> QED
    BY <2>2, <2>3, BaseNext
<1>f. ASSUME NEW p \in Prompts, ServerAsks(p) PROVE BaseInv'
  <2>1. /\ asked' = asked \cup {p} /\ p \notin asked
        /\ UNCHANGED <<autoMode, handlers, settled, replies, gaveUp, link>>
        /\ pc[Receiver] = "idle"
    BY <1>f DEF ServerAsks, Receiving
  <2>2. pc[p] = "idle"
    BY <2>1 DEF BaseInv, ResponderInv
  <2>3. CASE p \in Others
    <3>1. Queue(Receiver, p, "error") /\ pending' = pending
      BY <1>f, <2>3 DEF ServerAsks
    <3>2. WorkersOK' /\ ResponderInv'
      BY <2>1, <3>1, <1>2, <1>3, QueueBase DEF Sayings, InLock
    <3>3. PromptsOK'
      BY <1>1, <2>1, <3>1 DEF PromptsOK
    <3> QED
      BY <3>2, <3>3, BaseNext
  <2>4. CASE p \notin Others
    <3> DEFINE place == IF Handled(p) THEN "spawnedHandler"
                        ELSE IF p \in Approvals /\ ~autoMode THEN "idle"
                        ELSE "spawnedAuto"
    <3>1. /\ pending' = pending \cup {p} /\ pc' = [pc EXCEPT ![p] = place]
          /\ UNCHANGED <<on, saying, sendLock>>
      BY <1>f, <2>4 DEF ServerAsks
    <3>2. place \in Places \ InLock
      BY DEF Places, InLock
    <3> HIDE DEF place
    <3>3. WorkersOK' /\ ResponderInv'
      BY <2>1, <2>2, <2>4, <3>1, <3>2, PlaceBase DEF InLock
    <3>4. PromptsOK'
      BY <1>1, <2>1, <2>4, <3>1 DEF PromptsOK
    <3> QED
      BY <3>3, <3>4, BaseNext
  <2> QED
    BY <2>3, <2>4
<1>g. ASSUME \/ \E p \in Prompts : ServerResolves(p)
             \/ \E t \in Turns : TurnReleased(t)
             \/ \E kind \in {"approval", "input"} : SetHandler(kind)
             \/ ReceiverFails \/ CloseBegins \/ CloseEnds
      PROVE  BaseInv'
  <2>1. UNCHANGED <<workVars, sendLock, replies, gaveUp>> /\ asked' = asked
    BY <1>g DEF ServerResolves, TurnReleased, SetHandler, ReceiverFails, CloseBegins,
                CloseEnds
  <2>2. ASSUME NEW p \in Prompts, ServerResolves(p) PROVE PromptsOK'
    BY <2>2, <1>1 DEF ServerResolves, PromptsOK
  <2>3. ASSUME NEW t \in Turns, TurnReleased(t) PROVE PromptsOK'
    BY <2>3, <1>1 DEF TurnReleased, PromptsOK
  <2>4. ASSUME NEW kind \in {"approval", "input"}, SetHandler(kind) PROVE PromptsOK'
    BY <2>4, <1>1 DEF SetHandler, PromptsOK
  <2>5. ASSUME ReceiverFails \/ CloseBegins \/ CloseEnds PROVE PromptsOK'
    BY <2>5, <1>1 DEF ReceiverFails, CloseBegins, CloseEnds, PromptsOK
  <2> QED
    BY <1>g, <2>1, <2>2, <2>3, <2>4, <2>5, ServeBase
<1>h. ASSUME NEW p \in Prompts, TaskStarts(p) PROVE BaseInv'
  <2>1. /\ pc[p] \notin InLock /\ pc[p] # "idle"
        /\ UNCHANGED <<autoMode, handlers, asked, settled, pending, replies, gaveUp, link>>
    BY <1>h DEF TaskStarts, InLock
  <2>2. p \in asked \ Others /\ asked' = asked \cup {p}
    BY <2>1 DEF BaseInv, ResponderInv
  <2>3. PromptsOK'
    BY <1>1, <2>1 DEF PromptsOK
  <2>4. CASE Queue(p, p, "decline")
    <3>1. WorkersOK' /\ ResponderInv'
      BY <2>1, <2>2, <2>4, <1>2, QueueBase DEF Sayings
    <3> QED
      BY <3>1, <2>3, BaseNext
  <2>5. CASE Leave(p)
    <3>1. WorkersOK' /\ ResponderInv'
      BY <2>1, <2>5, <1>2, LeaveBase
    <3> QED
      BY <3>1, <2>3, BaseNext
  <2>6. ASSUME NEW place \in {"handling", "sleeping", "idle"},
               pc' = [pc EXCEPT ![p] = place] /\ UNCHANGED <<on, saying, sendLock>>
        PROVE  WorkersOK' /\ ResponderInv'
    BY <2>1, <2>2, <2>6, PlaceBase DEF Places, InLock
  <2>7. \/ Queue(p, p, "decline") \/ Leave(p)
        \/ \E place \in {"handling", "sleeping", "idle"} :
              pc' = [pc EXCEPT ![p] = place] /\ UNCHANGED <<on, saying, sendLock>>
    BY <1>h DEF TaskStarts
  <2> QED
    BY <2>3, <2>4, <2>5, <2>6, <2>7, BaseNext
<1>i. ASSUME NEW p \in Prompts, NEW d, HandlerReturns(p, d) PROVE BaseInv'
  <2>1. pc[p] \notin InLock /\ p \in asked \ Others
    BY <1>i DEF HandlerReturns, InLock, BaseInv, ResponderInv
  <2>2. CASE Respond(p, p, "decline") /\ gaveUp' = gaveUp
    <3>1. WorkersOK' /\ ResponderInv' /\ pending' \subseteq pending
      BY <1>i, <1>2, <2>1, <2>2, RespondBase DEF HandlerReturns, Sayings
    <3>2. PromptsOK'
      BY <1>i, <1>1, <2>2, <3>1 DEF HandlerReturns, PromptsOK
    <3> QED
      BY <3>1, <3>2, BaseNext
  <2>3. CASE RespondWith(p, p, d)
    <3>1. /\ WorkersOK' /\ ResponderInv' /\ pending' \subseteq pending
          /\ gaveUp' \subseteq asked
      BY <1>i, <1>2, <2>1, <2>3, RespondWithBase DEF HandlerReturns
    <3>2. PromptsOK'
      BY <1>i, <1>1, <3>1 DEF HandlerReturns, PromptsOK
    <3> QED
      BY <3>1, <3>2, BaseNext
  <2> QED
    BY <1>i, <2>2, <2>3 DEF HandlerReturns
<1>j. ASSUME NEW p \in Prompts, HandlerRaises(p) PROVE BaseInv'
  <2>1. /\ pc[p] \notin InLock /\ p \in asked \ Others /\ asked' = asked \cup {p}
        /\ Queue(p, p, "decline") \/ Queue(p, p, "failed")
    BY <1>j DEF HandlerRaises, InLock, BaseInv, ResponderInv
  <2>2. WorkersOK' /\ ResponderInv'
    BY <1>j, <1>2, <2>1, QueueBase DEF HandlerRaises, Sayings
  <2>3. PromptsOK'
    BY <1>j, <1>1 DEF HandlerRaises, PromptsOK
  <2> QED
    BY <2>2, <2>3, BaseNext
<1>k. ASSUME NEW p \in Prompts, TimesOut(p) PROVE BaseInv'
  <2>1. pc[p] \notin InLock /\ p \in asked \ Others /\ Respond(p, p, "expired")
    BY <1>k DEF TimesOut, InLock, BaseInv, ResponderInv
  <2>2. WorkersOK' /\ ResponderInv' /\ pending' \subseteq pending
    BY <1>k, <1>2, <2>1, RespondBase DEF TimesOut, Sayings
  <2>3. PromptsOK'
    BY <1>k, <1>1, <2>2 DEF TimesOut, PromptsOK
  <2> QED
    BY <2>2, <2>3, BaseNext
<1>l. CASE UNCHANGED vars
  <2>1. UNCHANGED <<workVars, sendLock, replies, gaveUp, asked>> /\ PromptsOK'
    BY <1>l, <1>1 DEF vars, PromptsOK
  <2> QED
    BY <2>1, ServeBase
<1> QED
  BY <1>2, <1>a, <1>b, <1>c, <1>d, <1>e, <1>f, <1>g, <1>h, <1>i, <1>j, <1>k, <1>l
  DEF Next, TaskStep, AppStep, ServerStep, CloseStep

\* The variables of Prompts keep their types, and a worker is in the queue of
\* the send lock exactly while it has a reply in its hand.
THEOREM TypeCorrect == Spec => []TypeOK
<1>1. BaseInv => TypeOK
  BY DEF BaseInv
<1> QED
  BY <1>1, BaseInit, BaseStep, PTL DEF Spec

-----------------------------------------------------------------------------
(* Settled prompts and prompts that were answered.                           *)

\* Nothing is written about a prompt that was not received, and what is settled
\* is in no table.
TableInv ==
    /\ \A p \in Prompts : replies[p] # <<>> => p \in asked
    /\ settled \cap pending = {}

LEMMA TableInit == Init => TableInv
  BY DEF Init, TableInv

\* What a write does to the replies.
LEMMA WriteReplies ==
    ASSUME BaseInv, NEW w \in Workers, Write(w)
    PROVE  /\ on[w] \in asked /\ on[w] \in Prompts
           /\ replies[on[w]] \in Seq(Sayings) /\ saying[w] \in Sayings
           /\ replies'[on[w]] = Append(replies[on[w]], saying[w])
           /\ replies'[on[w]] # <<>>
           /\ \A p \in Prompts : p # on[w] => replies'[p] = replies[p]
           /\ on[w] \in Approvals => on[w] \in pending
           /\ pc[w] = "queued" /\ HeadIs(sendLock, w)
           /\ pc' = [pc EXCEPT ![w] = "draining"]
           /\ UNCHANGED <<asked, settled, pending, gaveUp, on, saying, link>>
<1>1. /\ pc[w] = "queued" /\ HeadIs(sendLock, w)
      /\ on[w] \in Approvals => on[w] \in pending /\ saying[w] # "mismatch"
      /\ replies' = [replies EXCEPT ![on[w]] = Append(@, saying[w])]
      /\ pc' = [pc EXCEPT ![w] = "draining"]
      /\ UNCHANGED <<asked, settled, pending, gaveUp, on, saying, link>>
  BY DEF Write, MaySend
<1>2. on[w] \in Prompts /\ on[w] \in asked /\ saying[w] \in Sayings
  <2>1. WorkersOK /\ pc[w] \in InLock
    BY <1>1, TypeParts DEF BaseInv, InLock
  <2> QED
    BY <1>1, <2>1 DEF BaseInv, ResponderInv, WorkersOK
<1>3. replies \in [Prompts -> Seq(Sayings)]
  BY TypeParts DEF BaseInv, PromptsOK
<1>4. Append(replies[on[w]], saying[w]) # <<>>
  BY <1>2, <1>3, AppendProperties
<1> QED
  BY <1>1, <1>2, <1>3, <1>4

\* Only a write writes.
LEMMA RepliesStay ==
    ASSUME [Next]_vars, \A w \in Workers : ~Write(w)
    PROVE  replies' = replies
  BY DEF Next, TaskStep, AppStep, ServerStep, CloseStep, vars, NoLongerPending, Drained,
         SendFails, TaskStarts, TimesOut, SetHandler, Cancelled, CallMismatched,
         CallRespond, HandlerRaises, HandlerReturns, ServerAsks, ServerResolves,
         TurnReleased, ReceiverFails, CloseBegins, CloseEnds, TaskCancelled

\* What may become pending, settled and received in a step.
LEMMA TableStays ==
    ASSUME BaseInv, [Next]_vars
    PROVE  /\ \A p \in pending' : p \in pending \/ (p \in Prompts /\ ServerAsks(p))
           /\ \A p \in settled' : p \in settled \/ p \notin pending'
           /\ asked \subseteq asked' /\ settled \subseteq settled'
           /\ gaveUp \subseteq gaveUp'
<1>1. \A w \in Workers : /\ Respond(w, w, "expired") => pending' \subseteq pending
                         /\ Respond(w, w, "decline") => pending' \subseteq pending
  BY DEF Respond
<1>2. \A w, p, d : RespondWith(w, p, d) => pending' \subseteq pending /\ gaveUp \subseteq gaveUp'
  BY DEF RespondWith, Respond, RespondUnreadable
<1>3. \A w : GiveUp(w) => gaveUp \subseteq gaveUp'
  BY DEF GiveUp
<1>4. Prompts \subseteq Workers
  BY DEF Workers
<1>a. ASSUME NEW w \in Workers,
             Write(w) \/ NoLongerPending(w) \/ Drained(w) \/ SendFails(w) \/ TaskCancelled(w)
      PROVE  /\ pending' \subseteq pending /\ asked' = asked /\ settled' = settled
             /\ gaveUp \subseteq gaveUp'
  BY <1>a, <1>3 DEF Write, NoLongerPending, Drained, SendFails, TaskCancelled
<1>b. ASSUME NEW p \in Prompts, TaskStarts(p) \/ TimesOut(p) \/ HandlerRaises(p)
      PROVE  /\ pending' \subseteq pending /\ asked' = asked /\ settled' = settled
             /\ gaveUp \subseteq gaveUp'
  BY <1>b, <1>1, <1>4 DEF TaskStarts, TimesOut, HandlerRaises
<1>c. ASSUME NEW p \in Prompts, NEW d, HandlerReturns(p, d)
      PROVE  /\ pending' \subseteq pending /\ asked' = asked /\ settled' = settled
             /\ gaveUp \subseteq gaveUp'
  BY <1>c, <1>1, <1>2, <1>4 DEF HandlerReturns
<1>d. ASSUME NEW c \in Callers, NEW p \in Prompts, NEW d,
             CallRespond(c, p, d) \/ CallMismatched(c, p) \/ Cancelled(c)
      PROVE  /\ pending' \subseteq pending /\ asked' = asked /\ settled' = settled
             /\ gaveUp \subseteq gaveUp'
  BY <1>d, <1>2, <1>3 DEF CallRespond, CallMismatched, Cancelled
<1>e. ASSUME NEW p \in Prompts, ServerAsks(p)
      PROVE  /\ pending' \subseteq pending \cup {p} /\ asked' = asked \cup {p}
             /\ settled' = settled /\ gaveUp \subseteq gaveUp' /\ p \notin settled
  BY <1>e, TypeParts DEF ServerAsks, BaseInv, PromptsOK
<1>f. ASSUME NEW p \in Prompts, ServerResolves(p)
      PROVE  /\ pending' = pending \ {p} /\ asked' = asked
             /\ settled' = settled \cup {p} /\ gaveUp \subseteq gaveUp'
  BY <1>f DEF ServerResolves
<1>g. ASSUME NEW t \in Turns, TurnReleased(t)
      PROVE  \E P : /\ pending' = pending \ P /\ asked' = asked
                    /\ settled' = settled \cup P /\ gaveUp \subseteq gaveUp'
  BY <1>g DEF TurnReleased
<1>h. ASSUME \/ ReceiverFails \/ CloseBegins \/ CloseEnds
             \/ \E kind \in {"approval", "input"} : SetHandler(kind)
             \/ UNCHANGED vars
      PROVE  /\ pending' \subseteq pending /\ asked' = asked /\ settled' = settled
             /\ gaveUp \subseteq gaveUp'
  BY <1>h DEF ReceiverFails, CloseBegins, CloseEnds, SetHandler, vars
<1>i. CASE \E c \in Callers : Cancelled(c)
  BY <1>i, <1>3 DEF Cancelled
<1> QED
  BY <1>a, <1>b, <1>c, <1>d, <1>e, <1>f, <1>g, <1>h, <1>i, <1>4
  DEF Next, TaskStep, AppStep, ServerStep, CloseStep

LEMMA TableStep == BaseInv /\ TableInv /\ [Next]_vars => TableInv'
<1> SUFFICES ASSUME BaseInv, TableInv, [Next]_vars PROVE TableInv'
  OBVIOUS
<1>1. ASSUME NEW p \in Prompts, replies'[p] # <<>> PROVE p \in asked'
  <2>1. CASE \E w \in Workers : Write(w)
    BY <1>1, <2>1, WriteReplies, TableStays DEF TableInv
  <2>2. CASE \A w \in Workers : ~Write(w)
    BY <1>1, <2>2, RepliesStay, TableStays DEF TableInv
  <2> QED
    BY <2>1, <2>2
<1>2. ASSUME NEW p \in settled', p \in pending' PROVE FALSE
  <2>1. p \in settled
    BY <1>2, TableStays
  <2>2. p \notin pending
    BY <2>1 DEF TableInv
  <2>3. ServerAsks(p)
    BY <1>2, <2>2, TableStays
  <2> QED
    BY <2>1, <2>3, TypeParts DEF ServerAsks, BaseInv, PromptsOK
<1> QED
  BY <1>1, <1>2 DEF TableInv

\* "A server-cleared prompt must not accept a stale manual decision": no decision
\* is written about an approval that the server resolved or whose turn ended,
\* even while the decision was waiting for the send lock.
THEOREM SettledIsFinal == Spec => NoStaleDecision
<1>1. ASSUME BaseInv, TableInv, [Next]_vars, NEW p \in Approvals \cap settled
      PROVE  replies'[p] = replies[p]
  <2>1. p \notin pending /\ p \in Prompts
    BY <1>1, Kinds DEF TableInv
  <2>2. CASE \E w \in Workers : Write(w)
    BY <1>1, <2>1, <2>2, WriteReplies
  <2>3. CASE \A w \in Workers : ~Write(w)
    BY <1>1, <2>3, RepliesStay
  <2> QED
    BY <2>2, <2>3
<1>2. BaseInv /\ TableInv /\ [Next]_vars =>
         [\A p \in Approvals \cap settled : replies'[p] = replies[p]]_vars
  BY <1>1
<1> QED
  BY <1>2, BaseInit, BaseStep, TableInit, TableStep, PTL DEF Spec, NoStaleDecision

\* "requests then remain pending until you answer them or the server resolves
\* them": nothing else takes an approval out of the table, close apart, whatever
\* responders fail.
THEOREM ApprovalsStay == Spec => KeptUntilAnswered
<1>1. ASSUME BaseInv, [Next]_vars, NEW p \in Approvals \cap (pending \ pending')
      PROVE  replies'[p] # <<>> \/ p \in settled' \/ link' = "closed"
  <2>0. p \in Prompts /\ p \notin Inputs /\ Prompts \subseteq Workers
    BY <1>1, Kinds DEF Workers
  <2>1. \A w, q, r : Respond(w, q, r) => p \in pending'
    BY <1>1, <2>0, Kinds DEF Respond
  <2>2. \A w, q, d : RespondWith(w, q, d) => p \in pending'
    BY <1>1, <2>0, <2>1 DEF RespondWith, RespondUnreadable
  <2>3. ASSUME NEW w \in Workers, Drained(w) PROVE replies'[p] # <<>>
    BY <1>1, <2>3 DEF Drained, BaseInv, ResponderInv
  <2>4. ASSUME NEW w \in Workers,
               Write(w) \/ NoLongerPending(w) \/ SendFails(w) \/ TaskCancelled(w)
        PROVE  FALSE
    BY <1>1, <2>4 DEF Write, NoLongerPending, SendFails, TaskCancelled
  <2>5. ASSUME NEW q \in Prompts, TaskStarts(q) \/ TimesOut(q) \/ HandlerRaises(q)
        PROVE  FALSE
    BY <1>1, <2>0, <2>1, <2>5 DEF TaskStarts, TimesOut, HandlerRaises
  <2>6. ASSUME NEW q \in Prompts, NEW d, HandlerReturns(q, d) PROVE FALSE
    BY <1>1, <2>1, <2>2, <2>6 DEF HandlerReturns
  <2>7. ASSUME NEW c \in Callers, NEW q \in Prompts, NEW d,
               CallRespond(c, q, d) \/ CallMismatched(c, q)
        PROVE  FALSE
    BY <1>1, <2>2, <2>7 DEF CallRespond, CallMismatched
  <2>8. ASSUME NEW c \in Callers, Cancelled(c) PROVE FALSE
    BY <1>1, <2>8 DEF Cancelled
  <2>9. ASSUME \/ ReceiverFails \/ CloseBegins \/ UNCHANGED vars
               \/ \E q \in Prompts : ServerAsks(q)
               \/ \E kind \in {"approval", "input"} : SetHandler(kind)
        PROVE  FALSE
    BY <1>1, <2>9 DEF ReceiverFails, CloseBegins, SetHandler, ServerAsks, vars
  <2>10. ASSUME \/ \E q \in Prompts : ServerResolves(q)
                \/ \E t \in Turns : TurnReleased(t)
                \/ CloseEnds
         PROVE  p \in settled' \/ link' = "closed"
    BY <1>1, <2>10 DEF ServerResolves, TurnReleased, CloseEnds
  <2> QED
    BY <1>1, <2>0, <2>3, <2>4, <2>5, <2>6, <2>7, <2>8, <2>9, <2>10
    DEF Next, TaskStep, AppStep, ServerStep, CloseStep
<1>2. BaseInv /\ [Next]_vars =>
         [\A p \in Approvals \cap (pending \ pending') :
             replies'[p] # <<>> \/ p \in settled' \/ link' = "closed"]_vars
  BY <1>1
<1> QED
  BY <1>2, BaseInit, BaseStep, PTL DEF Spec, KeptUntilAnswered

-----------------------------------------------------------------------------
(* One response to each prompt.                                              *)

\* A worker that waits with a response that will count.
Holds(w, p) == pc[w] = "queued" /\ on[w] = p /\ saying[w] # "failed"

\* A prompt that got its response is in no table, except for an approval between
\* the write and its removal, under the lock; what is not an approval leaves the
\* table with the only worker that will respond.
AnswerInv ==
    /\ \A p \in Approvals \ gaveUp :
          Counted(p) # {} =>
             p \notin pending \/ \E w \in Workers : pc[w] = "draining" /\ on[w] = p
    /\ \A p \in Prompts \ Approvals : Counted(p) # {} => p \notin pending
    /\ \A w \in Workers, p \in Prompts \ Approvals :
          Holds(w, p) => /\ p \notin pending /\ Counted(p) = {}
                         /\ \A v \in Workers : Holds(v, p) => v = w
    /\ OneReply

LEMMA AnswerInit == Init => AnswerInv
<1> SUFFICES ASSUME Init PROVE AnswerInv
  OBVIOUS
<1>1. \A p \in Prompts : Counted(p) = {}
  BY DEF Init, Counted
<1>2. \A w \in Workers : \A p : ~Holds(w, p)
  BY DEF Init, Holds
<1> QED
  BY <1>1, <1>2, Kinds DEF AnswerInv, OneReply

\* A step in which nothing is written, at most the worker x gets a response, to
\* a prompt q that nobody else will respond to, and nobody who has written about
\* an approval leaves it in the table without having failed.
LEMMA AnswersStand ==
    ASSUME AnswerInv, NEW x, NEW q,
           replies' = replies, pending' \subseteq pending, gaveUp \subseteq gaveUp',
           \A w \in Workers, p \in Prompts \ Approvals :
              Holds(w, p)' => Holds(w, p) \/ (w = x /\ p = q),
           (\E p \in Prompts \ Approvals : Holds(x, p)' /\ ~Holds(x, p)) =>
              q \notin pending' /\ Counted(q) = {} /\ \A v \in Workers : ~Holds(v, q),
           \A w \in Workers : pc[w] = "draining" =>
              \/ pc'[w] = "draining" /\ on'[w] = on[w]
              \/ on[w] \notin pending' \cap Approvals \/ on[w] \in gaveUp'
    PROVE  AnswerInv'
<1>1. \A p : Counted(p)' = Counted(p)
  BY DEF Counted
<1>2. OneReply'
  BY <1>1 DEF OneReply, AnswerInv
<1>3. ASSUME NEW p \in Approvals \ gaveUp', Counted(p)' # {}
      PROVE  p \notin pending' \/ \E w \in Workers : pc'[w] = "draining" /\ on'[w] = p
  BY <1>1, <1>3 DEF AnswerInv
<1>4. ASSUME NEW p \in Prompts \ Approvals, Counted(p)' # {} PROVE p \notin pending'
  BY <1>1, <1>4 DEF AnswerInv
<1>5. ASSUME NEW w \in Workers, NEW p \in Prompts \ Approvals, Holds(w, p)'
      PROVE  /\ p \notin pending' /\ Counted(p)' = {}
             /\ \A v \in Workers : Holds(v, p)' => v = w
  <2>1. CASE Holds(w, p)
    <3>1. p \notin pending /\ Counted(p) = {} /\ \A v \in Workers : Holds(v, p) => v = w
      BY <2>1 DEF AnswerInv
    <3>2. ASSUME NEW v \in Workers, Holds(v, p)', ~Holds(v, p) PROVE FALSE
      BY <2>1, <3>2
    <3> QED
      BY <3>1, <3>2, <1>1
  <2>2. CASE ~Holds(w, p)
    BY <1>1, <1>5, <2>2
  <2> QED
    BY <2>1, <2>2
<1> QED
  BY <1>2, <1>3, <1>4, <1>5 DEF AnswerInv

\* Who holds what after a worker has left, queued or gone elsewhere.
LEMMA LeaveHolds ==
    ASSUME BaseInv, NEW w \in Workers, Leave(w)
    PROVE  \A v \in Workers, p \in Prompts :
              /\ Holds(v, p)' => Holds(v, p)
              /\ v # w /\ pc[v] = "draining" => pc'[v] = "draining" /\ on'[v] = on[v]
  BY LeaveMoves, TypeParts DEF BaseInv, Holds

LEMMA QueueHolds ==
    ASSUME BaseInv, NEW w \in Workers, NEW q \in Prompts,
           NEW reply \in Sayings \cup {"mismatch"}, pc[w] \notin InLock, Queue(w, q, reply)
    PROVE  \A v \in Workers, p \in Prompts :
              /\ Holds(v, p)' => Holds(v, p) \/ (v = w /\ p = q /\ reply # "failed")
              /\ pc[v] = "draining" => pc'[v] = "draining" /\ on'[v] = on[v]
<1>1. /\ pc'[w] = "queued" /\ on'[w] = q /\ saying'[w] = reply
      /\ \A v \in Workers : v # w =>
            pc'[v] = pc[v] /\ on'[v] = on[v] /\ saying'[v] = saying[v]
  BY QueueMoves, TypeParts DEF BaseInv
<1> QED
  BY <1>1 DEF Holds, InLock

LEMMA RespondAnswers ==
    ASSUME BaseInv, AnswerInv, NEW w \in Workers, NEW p \in asked \ Others,
           NEW reply \in Sayings, pc[w] \notin InLock, Respond(w, p, reply),
           replies' = replies, gaveUp' = gaveUp
    PROVE  AnswerInv'
<1>1. p \in Prompts /\ reply \in Sayings \cup {"mismatch"}
  BY TypeParts DEF BaseInv, PromptsOK
<1>2. CASE Leave(w)
  <2>1. pending' \subseteq pending /\ pc[w] # "draining"
    BY DEF Respond, InLock
  <2> QED
    BY <1>2, <2>1, LeaveHolds, AnswersStand, Kinds
<1>3. CASE Queue(w, p, reply)
  <2>1. /\ pending' \subseteq pending
        /\ p \notin Approvals /\ pc'[w] = "queued" => p \notin pending' /\ p \in pending
    <3>1. Leave(w) => pc'[w] = "idle"
      BY LeaveMoves, TypeParts DEF BaseInv
    <3> QED
      BY <3>1 DEF Respond
  <2>2. ASSUME p \notin Approvals
        PROVE  p \notin pending' /\ Counted(p) = {} /\ \A v \in Workers : ~Holds(v, p)
    <3>1. pc'[w] = "queued"
      BY <1>1, <1>3, QueueMoves, TypeParts DEF BaseInv
    <3> QED
      BY <1>1, <2>1, <2>2, <3>1 DEF AnswerInv
  <2>3. /\ \A v \in Workers, q \in Prompts : Holds(v, q)' => Holds(v, q) \/ (v = w /\ q = p)
        /\ \A v \in Workers : pc[v] = "draining" => pc'[v] = "draining" /\ on'[v] = on[v]
    BY <1>1, <1>3, QueueHolds
  <2> QED
    BY <1>1, <2>1, <2>2, <2>3, AnswersStand, Kinds
<1> QED
  BY <1>2, <1>3 DEF Respond

LEMMA RespondWithAnswers ==
    ASSUME BaseInv, AnswerInv, NEW w \in Workers, NEW p \in asked \ Others, NEW d,
           pc[w] \notin InLock, RespondWith(w, p, d), replies' = replies
    PROVE  AnswerInv'
<1>1. CASE Encodes(p, d)
  BY <1>1, RespondAnswers DEF RespondWith, Sayings
<1>2. CASE ~Encodes(p, d)
  <2>1. /\ Leave(w) /\ pending' \subseteq pending /\ gaveUp \subseteq gaveUp'
        /\ pc[w] # "draining"
    BY <1>2 DEF RespondWith, RespondUnreadable, InLock
  <2> QED
    BY <2>1, LeaveHolds, AnswersStand, Kinds
<1> QED
  BY <1>1, <1>2

\* A failed responder excuses the approval that it wrote about.
LEMMA GiveUpAnswers ==
    ASSUME BaseInv, AnswerInv, NEW w \in Workers, GiveUp(w),
           replies' = replies, pending' = pending
    PROVE  AnswerInv'
<1>1. /\ Leave(w) /\ gaveUp \subseteq gaveUp'
      /\ pc[w] = "draining" => on[w] \in gaveUp'
  BY DEF GiveUp
<1>2. \A v \in Workers, p \in Prompts :
         /\ Holds(v, p)' => Holds(v, p)
         /\ v # w /\ pc[v] = "draining" => pc'[v] = "draining" /\ on'[v] = on[v]
  BY <1>1, LeaveHolds
<1>3. \A v \in Workers : pc[v] = "draining" =>
         \/ pc'[v] = "draining" /\ on'[v] = on[v]
         \/ on[v] \notin pending' \cap Approvals \/ on[v] \in gaveUp'
  BY <1>1, <1>2, Kinds
<1> QED
  BY <1>1, <1>2, <1>3, AnswersStand

LEMMA StayAnswers ==
    ASSUME AnswerInv, UNCHANGED <<workVars, replies>>, gaveUp' = gaveUp,
           pending' \subseteq pending
    PROVE  AnswerInv'
<1>1. /\ \A w, p : Holds(w, p)' = Holds(w, p)
      /\ UNCHANGED <<pc, on>>
  BY DEF Holds, workVars
<1> QED
  BY <1>1, AnswersStand

\* A write adds a response to a prompt that had none that counts.
LEMMA WriteAnswers ==
    ASSUME BaseInv, AnswerInv, NEW w \in Workers, Write(w)
    PROVE  AnswerInv'
<1>0. PICK p : p = on[w]
  OBVIOUS
<1>1. /\ p \in Prompts
      /\ replies[p] \in Seq(Sayings) /\ saying[w] \in Sayings
      /\ replies'[p] = Append(replies[p], saying[w])
      /\ \A q \in Prompts : q # p => replies'[q] = replies[q]
      /\ p \in Approvals => p \in pending
      /\ pc[w] = "queued" /\ HeadIs(sendLock, w)
      /\ pc' = [pc EXCEPT ![w] = "draining"]
      /\ UNCHANGED <<pending, gaveUp, on, saying>>
  BY <1>0, WriteReplies
<1>2. \A q \in Prompts : q # p => Counted(q)' = Counted(q)
  BY <1>1 DEF Counted
<1>3. /\ saying[w] = "failed" => Counted(p)' = Counted(p)
      /\ Counted(p)' \subseteq Counted(p) \cup {Len(replies[p]) + 1}
  <2> DEFINE r == replies[p]  s == saying[w]
  <2>1. /\ DOMAIN Append(r, s) = 1..(Len(r) + 1) /\ DOMAIN r = 1..Len(r) /\ Len(r) \in Nat
        /\ \A k \in 1..Len(r) : Append(r, s)[k] = r[k]
        /\ Append(r, s)[Len(r) + 1] = s
    BY <1>1, AppendProperties, LenProperties
  <2>2. /\ Counted(p) = {k \in DOMAIN r : r[k] # "failed"}
        /\ Counted(p)' = {k \in DOMAIN Append(r, s) : Append(r, s)[k] # "failed"}
    BY <1>1 DEF Counted
  <2>3. \A k \in 1..(Len(r) + 1) : k \in 1..Len(r) \/ k = Len(r) + 1
    BY <2>1
  <2> QED
    BY <2>1, <2>2, <2>3
<1>4. /\ pc \in [Workers -> Places] /\ pc'[w] = "draining"
      /\ \A v \in Workers : v # w => pc'[v] = pc[v]
  <2>1. pc \in [Workers -> Places]
    BY TypeParts DEF BaseInv, WorkersOK
  <2> QED
    BY <1>1, <2>1
<1>5. \A v \in Workers : \A q : Holds(v, q)' => Holds(v, q) /\ v # w
  BY <1>1, <1>4 DEF Holds
<1>6. \A v \in Workers : pc[v] = "draining" => v = w
  BY <1>1 DEF BaseInv, ResponderInv, HeadIs
<1>7. \A v \in Workers : pc[v] # "draining"
  BY <1>1, <1>6
<1>8. p \in Approvals \ gaveUp => Counted(p) = {}
  BY <1>1, <1>7 DEF AnswerInv
<1>9. p \notin Approvals /\ saying[w] # "failed" =>
         /\ Counted(p) = {} /\ p \notin pending
         /\ \A v \in Workers : Holds(v, p) => v = w
  <2>1. saying[w] # "failed" => Holds(w, p)
    BY <1>0, <1>1 DEF Holds
  <2> QED
    BY <1>1, <2>1 DEF AnswerInv
<1>10. ASSUME NEW q \in Prompts
       PROVE  q \in Approvals \cap gaveUp' \/ \A j, k \in Counted(q)' : j = k
  <2>0. q \in Approvals \cap gaveUp \/ \A j, k \in Counted(q) : j = k
    BY DEF AnswerInv, OneReply
  <2>1. CASE q # p
    BY <2>0, <2>1, <1>1, <1>2
  <2>2. CASE q = p /\ saying[w] = "failed"
    <3>1. Counted(q)' = Counted(q)
      BY <2>2, <1>1, <1>3 DEF Counted
    <3> QED
      BY <2>0, <3>1, <1>1
  <2>3. CASE q = p /\ saying[w] # "failed" /\ q \notin Approvals \cap gaveUp
    <3>1. Counted(p)' \subseteq {Len(replies[p]) + 1}
      BY <2>3, <1>1, <1>3, <1>8, <1>9
    <3>2. Counted(q)' \subseteq {Len(replies[p]) + 1}
      BY <2>3, <3>1 DEF Counted
    <3> QED
      BY <3>2
  <2>4. CASE q \in Approvals \cap gaveUp
    BY <2>4, <1>1
  <2> QED
    BY <2>1, <2>2, <2>3, <2>4
<1>11. OneReply'
  BY <1>10 DEF OneReply
<1>12. ASSUME NEW q \in Approvals \ gaveUp', Counted(q)' # {}
       PROVE  q \notin pending' \/ \E v \in Workers : pc'[v] = "draining" /\ on'[v] = q
  <2>1. CASE q = p
    BY <2>1, <1>0, <1>1, <1>4
  <2>2. CASE q # p
    BY <2>2, <1>12, <1>1, <1>2, <1>7, Kinds DEF AnswerInv
  <2> QED
    BY <2>1, <2>2
<1>13. ASSUME NEW q \in Prompts \ Approvals, Counted(q)' # {} PROVE q \notin pending'
  <2>1. CASE q = p /\ saying[w] # "failed"
    BY <2>1, <1>1, <1>9
  <2>2. CASE q # p \/ saying[w] = "failed"
    <3>1. Counted(q)' = Counted(q)
      BY <2>2, <1>1, <1>2, <1>3 DEF Counted
    <3> QED
      BY <3>1, <1>13, <1>1 DEF AnswerInv
  <2> QED
    BY <2>1, <2>2
<1>14. ASSUME NEW v \in Workers, NEW q \in Prompts \ Approvals, Holds(v, q)'
       PROVE  /\ q \notin pending' /\ Counted(q)' = {}
              /\ \A u \in Workers : Holds(u, q)' => u = v
  <2>1. /\ Holds(v, q) /\ v # w /\ q \notin pending /\ Counted(q) = {}
        /\ \A u \in Workers : Holds(u, q) => u = v
    BY <1>5, <1>14 DEF AnswerInv
  <2>2. q # p \/ saying[w] = "failed"
    BY <2>1, <1>9
  <2>3. Counted(q)' = Counted(q)
    BY <2>2, <1>1, <1>2, <1>3 DEF Counted
  <2>4. \A u \in Workers : Holds(u, q)' => u = v
    BY <2>1, <1>5
  <2> QED
    BY <2>1, <2>3, <2>4, <1>1
<1> QED
  BY <1>11, <1>12, <1>13, <1>14 DEF AnswerInv

LEMMA AnswerStep == BaseInv /\ TableInv /\ AnswerInv /\ [Next]_vars => AnswerInv'
<1> SUFFICES ASSUME BaseInv, TableInv, AnswerInv, [Next]_vars PROVE AnswerInv'
  OBVIOUS
<1>1. Prompts \subseteq Workers /\ Callers \subseteq Workers /\ Receiver \in Workers
  BY DEF Workers
<1>2. \A p \in Prompts : pc[p] # "idle" => p \in asked \ Others
  BY DEF BaseInv, ResponderInv
<1>a. ASSUME NEW w \in Workers, Write(w) PROVE AnswerInv'
  BY <1>a, WriteAnswers
<1>b. ASSUME NEW w \in Workers, NoLongerPending(w) PROVE AnswerInv'
  <2>1. /\ Leave(w) /\ UNCHANGED <<replies, pending, gaveUp>> /\ pc[w] # "draining"
    BY <1>b DEF NoLongerPending
  <2> QED
    BY <2>1, LeaveHolds, AnswersStand, Kinds
<1>c. ASSUME NEW w \in Workers, Drained(w) PROVE AnswerInv'
  <2>1. /\ Leave(w) /\ UNCHANGED <<replies, gaveUp>> /\ pending' \subseteq pending
        /\ on[w] \in Approvals => on[w] \notin pending'
    BY <1>c DEF Drained
  <2>2. \A v \in Workers, p \in Prompts :
           /\ Holds(v, p)' => Holds(v, p)
           /\ v # w /\ pc[v] = "draining" => pc'[v] = "draining" /\ on'[v] = on[v]
    BY <2>1, LeaveHolds
  <2>3. \A v \in Workers : pc[v] = "draining" =>
           \/ pc'[v] = "draining" /\ on'[v] = on[v]
           \/ on[v] \notin pending' \cap Approvals \/ on[v] \in gaveUp'
    BY <2>1, <2>2, Kinds
  <2> QED
    BY <2>1, <2>2, <2>3, AnswersStand
<1>d. ASSUME NEW w \in Workers, SendFails(w) \/ Cancelled(w) \/ TaskCancelled(w)
      PROVE  AnswerInv'
  <2>1. GiveUp(w) /\ UNCHANGED <<replies, pending>>
    BY <1>d DEF SendFails, Cancelled, TaskCancelled
  <2> QED
    BY <2>1, GiveUpAnswers
<1>e. ASSUME NEW p \in Prompts, TimesOut(p) PROVE AnswerInv'
  BY <1>e, <1>1, <1>2, RespondAnswers DEF TimesOut, Sayings, InLock
<1>f. ASSUME NEW p \in Prompts, TaskStarts(p) PROVE AnswerInv'
  <2>1. /\ UNCHANGED <<replies, pending, gaveUp>> /\ pc[p] \notin InLock
        /\ pc[p] # "draining" /\ p \in Workers
    BY <1>f, <1>1 DEF TaskStarts, InLock
  <2>2. CASE Leave(p)
    BY <2>1, <2>2, LeaveHolds, AnswersStand, Kinds
  <2>3. CASE Queue(p, p, "decline") /\ p \in Approvals
    <3>1. \A v \in Workers, q \in Prompts :
             /\ Holds(v, q)' => Holds(v, q) \/ (v = p /\ q = p)
             /\ pc[v] = "draining" => pc'[v] = "draining" /\ on'[v] = on[v]
      BY <2>1, <2>3, QueueHolds DEF Sayings
    <3> QED
      BY <2>1, <2>3, <3>1, AnswersStand, Kinds
  <2>4. CASE \E place \in {"handling", "sleeping", "idle"} :
                pc' = [pc EXCEPT ![p] = place] /\ UNCHANGED <<on, saying, sendLock>>
    <3>1. \A v \in Workers : /\ pc'[v] = "queued" => pc[v] = "queued"
                             /\ pc[v] = "draining" => pc'[v] = "draining"
                             /\ on'[v] = on[v] /\ saying'[v] = saying[v]
      BY <2>1, <2>4, TypeParts DEF BaseInv, WorkersOK
    <3>2. \A v \in Workers : \A q : Holds(v, q)' => Holds(v, q)
      BY <3>1 DEF Holds
    <3> QED
      BY <2>1, <3>1, <3>2, AnswersStand
  <2> QED
    BY <1>f, <2>2, <2>3, <2>4 DEF TaskStarts
<1>g. ASSUME NEW p \in Prompts, NEW d, HandlerReturns(p, d) PROVE AnswerInv'
  <2>1. CASE RespondWith(p, p, d)
    BY <1>g, <1>1, <1>2, <2>1, RespondWithAnswers DEF HandlerReturns, InLock
  <2>2. CASE Respond(p, p, "decline") /\ gaveUp' = gaveUp
    BY <1>g, <1>1, <1>2, <2>2, RespondAnswers DEF HandlerReturns, InLock, Sayings
  <2> QED
    BY <1>g, <2>1, <2>2 DEF HandlerReturns
<1>h. ASSUME NEW p \in Prompts, HandlerRaises(p) PROVE AnswerInv'
  <2>1. /\ UNCHANGED <<replies, gaveUp>> /\ pc[p] \notin InLock /\ p \in Workers
        /\ pending' \subseteq pending
        /\ \/ p \in Approvals /\ Queue(p, p, "decline")
           \/ p \notin Approvals /\ Queue(p, p, "failed")
    BY <1>h, <1>1 DEF HandlerRaises, InLock
  <2>2. /\ \A v \in Workers, q \in Prompts \ Approvals : Holds(v, q)' => Holds(v, q)
        /\ \A v \in Workers : pc[v] = "draining" => pc'[v] = "draining" /\ on'[v] = on[v]
    <3>1. CASE p \in Approvals /\ Queue(p, p, "decline")
      BY <2>1, <3>1, QueueHolds DEF Sayings
    <3>2. CASE p \notin Approvals /\ Queue(p, p, "failed")
      BY <2>1, <3>2, QueueHolds DEF Sayings
    <3> QED
      BY <2>1, <3>1, <3>2
  <2> QED
    BY <2>1, <2>2, AnswersStand
<1>i. ASSUME NEW c \in Callers, NEW p \in Prompts, NEW d, CallRespond(c, p, d)
      PROVE  AnswerInv'
  BY <1>i, <1>1, RespondWithAnswers DEF CallRespond, InLock
<1>j. ASSUME NEW c \in Callers, NEW p \in Prompts, CallMismatched(c, p) PROVE AnswerInv'
  <2>1. /\ UNCHANGED <<replies, pending, gaveUp>> /\ pc[c] \notin InLock
        /\ p \in Approvals /\ Queue(c, p, "mismatch")
    BY <1>j DEF CallMismatched, InLock
  <2>2. \A v \in Workers, q \in Prompts :
           /\ Holds(v, q)' => Holds(v, q) \/ (v = c /\ q = p)
           /\ pc[v] = "draining" => pc'[v] = "draining" /\ on'[v] = on[v]
    BY <2>1, <1>1, QueueHolds
  <2>3. \A v \in Workers, q \in Prompts \ Approvals : Holds(v, q)' => Holds(v, q)
    BY <2>1, <2>2
  <2> QED
    BY <2>1, <2>2, <2>3, <1>1, AnswersStand
<1>k. ASSUME NEW p \in Prompts, ServerAsks(p) PROVE AnswerInv'
  <2>1. /\ UNCHANGED <<replies, gaveUp>> /\ p \notin asked /\ pc[Receiver] = "idle"
    BY <1>k DEF ServerAsks, Receiving
  <2>2. /\ replies[p] = <<>> /\ pc[p] = "idle" /\ p \notin pending
        /\ \A v \in Workers : on[v] # p
    <3>1. \A v \in Workers : on[v] \in asked \cup {NoPrompt}
      BY DEF BaseInv, ResponderInv
    <3> QED
      BY <2>1, <3>1, TypeParts, WorkersAssumption
      DEF BaseInv, ResponderInv, TableInv, PromptsOK
  <2>3. Counted(p) = {} /\ \A v \in Workers : ~Holds(v, p)
    BY <2>2 DEF Counted, Holds
  <2>4. CASE p \in Others
    <3>1. Queue(Receiver, p, "error") /\ pending' = pending
      BY <1>k, <2>4 DEF ServerAsks
    <3>2. \A v \in Workers, q \in Prompts :
             /\ Holds(v, q)' => Holds(v, q) \/ (v = Receiver /\ q = p)
             /\ pc[v] = "draining" => pc'[v] = "draining" /\ on'[v] = on[v]
      BY <1>1, <2>1, <3>1, QueueHolds DEF Sayings, InLock
    <3>3. p \notin pending' /\ pending' \subseteq pending /\ gaveUp \subseteq gaveUp'
      BY <2>1, <2>2, <3>1
    <3>4. \A v \in Workers, q \in Prompts \ Approvals :
             Holds(v, q)' => Holds(v, q) \/ (v = Receiver /\ q = p)
      BY <3>2
    <3>5. \A v \in Workers : pc[v] = "draining" => pc'[v] = "draining" /\ on'[v] = on[v]
      BY <2>4, <3>2
    <3> QED
      BY <2>1, <2>3, <3>3, <3>4, <3>5, AnswersStand
  <2>5. CASE p \notin Others
    <3>1. /\ pending' = pending \cup {p} /\ UNCHANGED <<on, saying>>
          /\ \A v \in Workers : v # p => pc'[v] = pc[v]
          /\ pc'[p] \notin InLock
      <4>1. pc \in [Workers -> Places] /\ p \in Workers
        BY <1>1, TypeParts DEF BaseInv, WorkersOK
      <4> QED
        BY <1>k, <2>5, <4>1 DEF ServerAsks, InLock
    <3>2. \A v \in Workers : \A q :
             /\ (Holds(v, q)' <=> Holds(v, q))
             /\ (pc[v] = "draining" => pc'[v] = "draining")
      BY <2>2, <3>1 DEF Holds, InLock
    <3>3. \A q : Counted(q)' = Counted(q)
      BY <2>1 DEF Counted
    <3>4. OneReply'
      BY <2>1, <3>3 DEF OneReply, AnswerInv
    <3>5. ASSUME NEW q \in Approvals \ gaveUp', Counted(q)' # {}
          PROVE  q \notin pending' \/ \E w \in Workers : pc'[w] = "draining" /\ on'[w] = q
      BY <2>1, <2>3, <3>1, <3>2, <3>3, <3>5 DEF AnswerInv
    <3>6. ASSUME NEW q \in Prompts \ Approvals, Counted(q)' # {} PROVE q \notin pending'
      BY <2>3, <3>1, <3>3, <3>6 DEF AnswerInv
    <3>7. ASSUME NEW w \in Workers, NEW q \in Prompts \ Approvals, Holds(w, q)'
          PROVE  /\ q \notin pending' /\ Counted(q)' = {}
                 /\ \A v \in Workers : Holds(v, q)' => v = w
      BY <2>3, <3>1, <3>2, <3>3, <3>7 DEF AnswerInv
    <3> QED
      BY <3>4, <3>5, <3>6, <3>7 DEF AnswerInv
  <2> QED
    BY <2>4, <2>5
<1>l. ASSUME \/ \E p \in Prompts : ServerResolves(p)
             \/ \E t \in Turns : TurnReleased(t)
             \/ \E kind \in {"approval", "input"} : SetHandler(kind)
             \/ ReceiverFails \/ CloseBegins \/ CloseEnds \/ UNCHANGED vars
      PROVE  AnswerInv'
  <2>1. UNCHANGED <<workVars, replies, gaveUp>> /\ pending' \subseteq pending
    BY <1>l DEF ServerResolves, TurnReleased, SetHandler, ReceiverFails, CloseBegins,
                CloseEnds, vars
  <2> QED
    BY <2>1, StayAnswers
<1> QED
  BY <1>1, <1>a, <1>b, <1>c, <1>d, <1>e, <1>f, <1>g, <1>h, <1>i, <1>j, <1>k, <1>l
  DEF Next, TaskStep, AppStep, ServerStep, CloseStep

\* A request gets one response, whichever handlers, timeouts and calls respond to
\* it at once: what the handler of a user input that raises sends, and what
\* follows the failure of a responder of the same approval, is not counted.
THEOREM OneResponse == Spec => []OneReply
<1>1. AnswerInv => OneReply
  BY DEF AnswerInv
<1> QED
  BY <1>1, BaseInit, BaseStep, TableInit, TableStep, AnswerInit, AnswerStep, PTL DEF Spec

-----------------------------------------------------------------------------
(* No user input is forgotten while its responders do not fail.              *)

LEMMA KeptInit == Init => InputKept
  BY DEF Init, InputKept

\* A step in which a worker w at most leaves an input that was responded to or
\* given up, and what leaves the table is then in the hand of a worker.
LEMMA KeptStands ==
    ASSUME InputKept, asked' = asked, settled \subseteq settled', gaveUp \subseteq gaveUp',
           link' \in {"up", "failed"} => link \in {"up", "failed"},
           \A p \in Inputs : replies[p] # <<>> => replies'[p] # <<>>,
           \A p \in Inputs \cap pending :
              p \in pending' \cup gaveUp' \cup settled' \/ \E w \in Workers : on'[w] = p,
           \A w \in Workers : on[w] \in Inputs =>
              on'[w] = on[w] \/ on[w] \in gaveUp' \/ replies'[on[w]] # <<>>
    PROVE  InputKept'
<1>1. ASSUME NEW p \in (Inputs \cap asked') \ (settled' \cup gaveUp'),
             link' \in {"up", "failed"}
      PROVE  p \in pending' \/ replies'[p] # <<>> \/ \E w \in Workers : on'[w] = p
  <2>1. p \in pending \/ replies[p] # <<>> \/ \E w \in Workers : on[w] = p
    BY <1>1 DEF InputKept
  <2> QED
    BY <1>1, <2>1
<1> QED
  BY <1>1 DEF InputKept

LEMMA RespondKept ==
    ASSUME BaseInv, InputKept, NEW w \in Workers, NEW p \in asked \ Others,
           NEW reply \in Sayings, pc[w] \notin InLock, Respond(w, p, reply),
           UNCHANGED <<asked, settled, replies, gaveUp, link>>
    PROVE  InputKept'
<1>0. p \in Prompts /\ reply \in Sayings \cup {"mismatch"} /\ WorkersOK
  BY TypeParts DEF BaseInv, PromptsOK
<1>1. on[w] = NoPrompt /\ NoPrompt \notin Inputs
  BY <1>0, WorkersAssumption, Kinds DEF WorkersOK
<1>2. \A v \in Workers : v # w => on'[v] = on[v]
  BY <1>0, QueueMoves, LeaveMoves DEF Respond
<1>3. p \in pending \ pending' => on'[w] = p
  BY <1>0, QueueMoves, LeaveMoves DEF Respond
<1>4. \A q \in pending : q # p => q \in pending'
  BY DEF Respond
<1> QED
  BY <1>1, <1>2, <1>3, <1>4, KeptStands

LEMMA RespondWithKept ==
    ASSUME BaseInv, InputKept, NEW w \in Workers, NEW p \in asked \ Others, NEW d,
           pc[w] \notin InLock, RespondWith(w, p, d),
           UNCHANGED <<asked, settled, replies, link>>
    PROVE  InputKept'
<1>1. CASE Encodes(p, d)
  BY <1>1, RespondKept DEF RespondWith, Sayings
<1>2. CASE ~Encodes(p, d)
  <2>1. /\ Leave(w) /\ pending' = pending \ {p} /\ gaveUp' = gaveUp \cup ({p} \cap pending)
    BY <1>2 DEF RespondWith, RespondUnreadable
  <2>2. WorkersOK
    BY TypeParts DEF BaseInv
  <2>3. /\ on[w] = NoPrompt /\ NoPrompt \notin Inputs
        /\ \A v \in Workers : v # w => on'[v] = on[v]
    BY <2>1, <2>2, LeaveMoves, WorkersAssumption, Kinds DEF WorkersOK
  <2> QED
    BY <2>1, <2>3, KeptStands
<1> QED
  BY <1>1, <1>2

LEMMA KeptStep == BaseInv /\ InputKept /\ [Next]_vars => InputKept'
<1> SUFFICES ASSUME BaseInv, InputKept, [Next]_vars PROVE InputKept'
  OBVIOUS
<1>1. Prompts \subseteq Workers /\ Callers \subseteq Workers /\ Receiver \in Workers
  BY DEF Workers
<1>2. \A p \in Prompts : pc[p] # "idle" => p \in asked \ Others
  BY DEF BaseInv, ResponderInv
<1>3. WorkersOK /\ NoPrompt \notin Inputs /\ Approvals \cap Inputs = {}
  BY TypeParts, WorkersAssumption, Kinds DEF BaseInv
<1>4. \A w \in Workers : pc[w] \notin InLock => on[w] = NoPrompt
  BY <1>3 DEF WorkersOK
<1>a. ASSUME NEW w \in Workers, Write(w) PROVE InputKept'
  <2>1. /\ UNCHANGED <<asked, settled, pending, gaveUp, on, link>>
        /\ \A p \in Inputs : replies[p] # <<>> => replies'[p] # <<>>
    BY <1>a, WriteReplies, Kinds
  <2> QED
    BY <2>1, KeptStands
<1>b. ASSUME NEW w \in Workers, NoLongerPending(w) \/ Drained(w) PROVE InputKept'
  <2>1. /\ Leave(w) /\ UNCHANGED <<asked, settled, replies, gaveUp, link>>
        /\ \A p \in Inputs \cap pending : p \in pending'
        /\ on[w] \in Inputs => pc[w] = "draining"
    BY <1>b, <1>3 DEF NoLongerPending, Drained, MaySend
  <2>2. \A v \in Workers : v # w => on'[v] = on[v]
    BY <2>1, <1>3, LeaveMoves
  <2>3. on[w] \in Inputs => replies[on[w]] # <<>>
    BY <2>1 DEF BaseInv, ResponderInv
  <2> QED
    BY <2>1, <2>2, <2>3, KeptStands
<1>c. ASSUME NEW w \in Workers, SendFails(w) \/ Cancelled(w) \/ TaskCancelled(w)
      PROVE  InputKept'
  <2>1. /\ GiveUp(w) /\ UNCHANGED <<asked, settled, replies, pending>>
        /\ link' \in {"up", "failed"} => link \in {"up", "failed"}
    BY <1>c DEF SendFails, Cancelled, TaskCancelled
  <2>2. /\ Leave(w) /\ gaveUp \subseteq gaveUp'
        /\ pc[w] \in InLock => on[w] \in gaveUp'
    BY <2>1 DEF GiveUp, InLock
  <2>3. \A v \in Workers : v # w => on'[v] = on[v]
    BY <2>2, <1>3, LeaveMoves
  <2> QED
    BY <2>1, <2>2, <2>3, <1>3, <1>4, KeptStands
<1>d. ASSUME NEW p \in Prompts, TimesOut(p) PROVE InputKept'
  BY <1>d, <1>1, <1>2, RespondKept DEF TimesOut, Sayings, InLock
<1>e. ASSUME NEW p \in Prompts, TaskStarts(p) PROVE InputKept'
  <2>1. /\ UNCHANGED <<asked, settled, replies, pending, gaveUp, link>>
        /\ pc[p] \notin InLock /\ p \in Workers
    BY <1>e, <1>1 DEF TaskStarts, InLock
  <2>2. \A v \in Workers : v # p => on'[v] = on[v]
    <3>1. CASE Leave(p)
      BY <2>1, <3>1, <1>3, LeaveMoves
    <3>2. CASE Queue(p, p, "decline")
      BY <2>1, <3>2, <1>3, QueueMoves DEF Sayings
    <3> QED
      BY <1>e, <3>1, <3>2 DEF TaskStarts
  <2> QED
    BY <2>1, <2>2, <1>3, <1>4, KeptStands
<1>f. ASSUME NEW p \in Prompts, NEW d, HandlerReturns(p, d) PROVE InputKept'
  <2>1. CASE RespondWith(p, p, d)
    BY <1>f, <1>1, <1>2, <2>1, RespondWithKept DEF HandlerReturns, InLock
  <2>2. CASE Respond(p, p, "decline") /\ gaveUp' = gaveUp
    BY <1>f, <1>1, <1>2, <2>2, RespondKept DEF HandlerReturns, InLock, Sayings
  <2> QED
    BY <1>f, <2>1, <2>2 DEF HandlerReturns
<1>g. ASSUME NEW p \in Prompts, HandlerRaises(p) PROVE InputKept'
  <2>1. /\ UNCHANGED <<asked, settled, replies, gaveUp, link>>
        /\ pc[p] \notin InLock /\ p \in Workers
        /\ \A q \in pending : q # p => q \in pending'
        /\ Queue(p, p, "decline") \/ Queue(p, p, "failed")
    BY <1>g, <1>1 DEF HandlerRaises, InLock
  <2>2. on'[p] = p /\ \A v \in Workers : v # p => on'[v] = on[v]
    BY <2>1, <1>3, QueueMoves DEF Sayings
  <2> QED
    BY <2>1, <2>2, <1>3, <1>4, KeptStands
<1>h. ASSUME NEW c \in Callers, NEW p \in Prompts, NEW d, CallRespond(c, p, d)
      PROVE  InputKept'
  BY <1>h, <1>1, RespondWithKept DEF CallRespond, InLock
<1>i. ASSUME NEW c \in Callers, NEW p \in Prompts, CallMismatched(c, p) PROVE InputKept'
  <2>1. /\ UNCHANGED <<asked, settled, replies, pending, gaveUp, link>>
        /\ pc[c] \notin InLock /\ Queue(c, p, "mismatch")
    BY <1>i DEF CallMismatched, InLock
  <2>2. \A v \in Workers : v # c => on'[v] = on[v]
    BY <2>1, <1>1, <1>3, QueueMoves
  <2> QED
    BY <2>1, <2>2, <1>1, <1>3, <1>4, KeptStands
<1>j. ASSUME NEW p \in Prompts, ServerAsks(p) PROVE InputKept'
  <2>1. /\ asked' = asked \cup {p} /\ UNCHANGED <<settled, replies, gaveUp, link>>
        /\ pending \subseteq pending' /\ (p \in Inputs => p \in pending')
        /\ pc[Receiver] = "idle"
    BY <1>j, Kinds DEF ServerAsks, Receiving
  <2>2. \A v \in Workers : on[v] # NoPrompt => on'[v] = on[v]
    <3>1. CASE Queue(Receiver, p, "error")
      BY <2>1, <3>1, <1>1, <1>3, <1>4, QueueMoves DEF Sayings, InLock
    <3> QED
      BY <1>j, <3>1 DEF ServerAsks
  <2>3. ASSUME NEW q \in (Inputs \cap asked') \ (settled' \cup gaveUp'),
               link' \in {"up", "failed"}
        PROVE  q \in pending' \/ replies'[q] # <<>> \/ \E w \in Workers : on'[w] = q
    <3>1. CASE q = p
      BY <2>1, <3>1
    <3>2. CASE q # p
      <4>1. q \in pending \/ replies[q] # <<>> \/ \E w \in Workers : on[w] = q
        BY <2>1, <2>3, <3>2 DEF InputKept
      <4> QED
        BY <1>3, <2>1, <2>2, <4>1
    <3> QED
      BY <3>1, <3>2
  <2> QED
    BY <2>3 DEF InputKept
<1>k. ASSUME \/ \E p \in Prompts : ServerResolves(p)
             \/ \E t \in Turns : TurnReleased(t)
             \/ \E kind \in {"approval", "input"} : SetHandler(kind)
             \/ ReceiverFails \/ CloseBegins \/ UNCHANGED vars
      PROVE  InputKept'
  <2>1. /\ UNCHANGED <<workVars, replies, gaveUp, asked>>
        /\ link' \in {"up", "failed"} => link \in {"up", "failed"}
        /\ settled \subseteq settled'
        /\ \A q \in pending : q \in pending' \/ q \in settled'
    <3>1. ASSUME NEW t \in Turns, TurnReleased(t) PROVE pending \subseteq asked
      BY TypeParts DEF BaseInv, PromptsOK
    <3> QED
      BY <1>k, <3>1 DEF ServerResolves, TurnReleased, SetHandler, ReceiverFails, CloseBegins,
                vars, Receiving
  <2> QED
    BY <2>1, KeptStands DEF workVars
<1>l. CASE CloseEnds
  BY <1>l DEF CloseEnds, InputKept
<1> QED
  BY <1>1, <1>a, <1>b, <1>c, <1>d, <1>e, <1>f, <1>g, <1>h, <1>i, <1>j, <1>k, <1>l
  DEF Next, TaskStep, AppStep, ServerStep, CloseStep

\* While the client is open, a user input that the server waits for is pending,
\* responded to or in the hand of a responder, unless one of its responders
\* failed.
THEOREM InputsAreKept == Spec => []InputKept
  BY BaseInit, BaseStep, KeptInit, KeptStep, PTL DEF Spec
=============================================================================
