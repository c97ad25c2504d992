------------------------------ MODULE RpcProofs ------------------------------
(* What Rpc guarantees for every set of callers and every bound on requests. *)
EXTENDS Rpc, FifoLockProofs

-----------------------------------------------------------------------------
(* Types.                                                                    *)

\* Leaving and joining keep the queues of the locks sequences of callers.
LEMMA QueueTypes ==
    ASSUME NEW q \in Seq(Callers), NEW c \in Callers
    PROVE  Without(q, c) \in Seq(Callers) /\ Join(q, c) \in Seq(Callers)
  BY WithoutProperties, JoinProperties

\* The initial state has the types of TypeOK.
LEMMA TypeInit == Init => TypeOK
<1> SUFFICES ASSUME Init PROVE TypeOK
  OBVIOUS
<1>1. <<>> \in Seq(Callers) /\ <<>> \in Seq(Message)
  BY EmptySeq
<1>2. future \in [Ids -> [state : {"none", "open", "answered", "refused",
                                  "failed", "cancelled"}, reply : Nat]]
  BY DEF Init
<1>3. \A c \in Callers : pc[c] = "idle"
  BY DEF Init
<1>4. /\ pc \in [Callers -> {"idle"} \cup Busy]
      /\ want \in [Callers -> {"none"} \cup AllWants]
      /\ method \in [Callers -> {"none"} \cup Methods]
      /\ id \in [Callers -> Ids \cup {0}]
      /\ outcome \in [Ids -> {"none", "answered", "raised"}]
  BY DEF Init
<1>5. sendLock \in Seq(Callers) /\ initLock \in Seq(Callers) /\ wire \in Seq(Message)
  BY <1>1 DEF Init
<1>6. /\ nextId \in Nat \ {0} /\ pending \subseteq Ids
      /\ link \in {"up", "failed", "closing", "cleared", "closed"}
      /\ \A c \in Callers : method[c] = "none" => pc[c] \in {"idle", "entering"}
  <2>1. nextId = 1 /\ pending = {} /\ link = "up"
    BY DEF Init
  <2> QED
    BY <1>3, <2>1
<1>7. served \subseteq [at : DOMAIN wire, kind : {"answered", "refused"}]
  BY DEF Init
<1>8. initialized \in BOOLEAN
  BY Zenon DEF Init
<1> QED
  BY <1>2, <1>4, <1>5, <1>6, <1>7, <1>8 DEF TypeOK

\* Cancelling a future keeps the futures futures.
LEMMA SettledType ==
    ASSUME TypeOK, NEW i, Settled(i, "cancelled")
    PROVE  future' \in [Ids -> [state : {"none", "open", "answered", "refused",
                                        "failed", "cancelled"}, reply : Nat]]
<1>1. CASE i \in Ids
  BY <1>1, ZenonT(30) DEF Settled, TypeOK
<1>2. CASE i \notin Ids
  <2>1. DOMAIN future = Ids
    BY DEF TypeOK
  <2>2. future' = future
    BY <1>2, <2>1 DEF Settled, TypeOK
  <2> QED
    BY <2>2 DEF TypeOK
<1> QED
  BY <1>1, <1>2

\* A new request keeps the types of what it writes.
LEMMA AskType ==
    ASSUME TypeOK, NEW c \in Callers, NEW queue \in Seq(Callers),
           NEW m \in AllWants, Ask(c, m, queue)
    PROVE  /\ nextId \in Ids /\ nextId' \in Nat \ {0} /\ pending' \subseteq Ids
           /\ future' \in [Ids -> [state : {"none", "open", "answered", "refused",
                                            "failed", "cancelled"}, reply : Nat]]
           /\ pc' \in [Callers -> {"idle"} \cup Busy]
           /\ method' \in [Callers -> {"none"} \cup Methods]
           /\ id' \in [Callers -> Ids \cup {0}]
           /\ sendLock' \in Seq(Callers)
           /\ \A d \in Callers : method'[d] = "none" => pc'[d] \in {"idle", "entering"}
<1>1. nextId \in Ids
  BY RequestsAssumption DEF Ask, TypeOK, Ids
<1>2. sendLock' \in Seq(Callers)
  BY QueueTypes DEF Ask
<1> QED
  BY <1>1, <1>2 DEF Ask, TypeOK, Busy, Methods, AllWants

\* Leaving a call keeps the types of what it writes.
LEMMA LeaveType ==
    ASSUME TypeOK, NEW c \in Callers, Leave(c)
    PROVE  /\ pc' \in [Callers -> {"idle"} \cup Busy]
           /\ want' \in [Callers -> {"none"} \cup AllWants]
           /\ method' \in [Callers -> {"none"} \cup Methods]
           /\ id' \in [Callers -> Ids \cup {0}]
           /\ sendLock' \in Seq(Callers) /\ initLock' \in Seq(Callers)
           /\ \A d \in Callers : method'[d] = "none" => pc'[d] \in {"idle", "entering"}
<1>1. sendLock' \in Seq(Callers) /\ initLock' \in Seq(Callers)
  BY QueueTypes DEF Leave, TypeOK
<1> QED
  BY <1>1 DEF Leave, TypeOK

\* A call that raises keeps the types, whatever becomes of its future.
LEMMA RaisesType ==
    ASSUME TypeOK, NEW c \in Callers, Raises(c),
           UNCHANGED <<initialized, nextId, wire, served, link>>,
           pending' \subseteq pending,
           future' \in [Ids -> [state : {"none", "open", "answered", "refused",
                                         "failed", "cancelled"}, reply : Nat]]
    PROVE  TypeOK'
<1>1. outcome' \in [Ids -> {"none", "answered", "raised"}]
  BY DEF Raises, Ends, TypeOK
<1>2. Leave(c)
  BY DEF Raises
<1> QED
  BY <1>1, <1>2, LeaveType DEF TypeOK

\* Every step keeps the types.
LEMMA TypeNext == TypeOK /\ [Next]_vars => TypeOK'
<1> SUFFICES ASSUME TypeOK, [Next]_vars PROVE TypeOK'
  OBVIOUS
<1>1. ASSUME NEW c \in Callers, NEW queue \in Seq(Callers), Proceed(c, queue),
             initialized' \in BOOLEAN, UNCHANGED <<wire, served, link>>
      PROVE  TypeOK'
  <2>1. CASE /\ want[c] = "operation" /\ ~Closed
             /\ Ask(c, "operation", queue)
             /\ initLock' = Without(initLock, c)
             /\ UNCHANGED <<want, outcome>>
    <3>1. initLock' \in Seq(Callers)
      BY <2>1, QueueTypes DEF TypeOK
    <3>2. Ask(c, "operation", queue)
      BY <2>1
    <3> QED
      BY <1>1, <2>1, <3>1, <3>2, AskType DEF TypeOK, AllWants
  <2>2. CASE Returns(c) /\ UNCHANGED <<nextId, pending, future>>
    BY <1>1, <2>2, LeaveType DEF Returns, TypeOK
  <2> QED
    BY <1>1, <2>1, <2>2 DEF Proceed
<1>2. ASSUME NEW c \in Callers, AppStep(c) PROVE TypeOK'
  <2>1. ASSUME NEW w \in {"initialize", "operation"}, CallInitialize(c, w) PROVE TypeOK'
    <3>1. initLock' \in Seq(Callers)
      BY <2>1, QueueTypes DEF TypeOK, CallInitialize
    <3> QED
      BY <2>1, <3>1 DEF TypeOK, CallInitialize, Busy, AllWants
  <2>2. CASE CallRequest(c)
    <3>1. Ask(c, "request", sendLock) /\ sendLock \in Seq(Callers)
      BY <2>2 DEF CallRequest, TypeOK
    <3> QED
      BY <2>2, <3>1, AskType DEF TypeOK, CallRequest, AllWants
  <2>4. CASE CallOperation(c)
    <3>1. Ask(c, "operation", sendLock) /\ sendLock \in Seq(Callers)
      BY <2>4 DEF CallOperation, TypeOK
    <3> QED
      BY <2>4, <3>1, AskType DEF TypeOK, CallOperation, AllWants
  <2>3. CASE Cancelled(c)
    <3>1. future' \in [Ids -> [state : {"none", "open", "answered", "refused",
                                        "failed", "cancelled"}, reply : Nat]]
      <4>1. CASE pc[c] = "awaiting"
        BY <2>3, <4>1, SettledType DEF Cancelled
      <4>2. CASE pc[c] # "awaiting"
        BY <2>3, <4>2 DEF Cancelled, TypeOK
      <4> QED
        BY <4>1, <4>2
    <3> QED
      BY <2>3, <3>1, RaisesType DEF Cancelled
  <2> QED
    BY <1>2, <2>1, <2>2, <2>3, <2>4 DEF AppStep
<1>3. ASSUME NEW c \in Callers, TaskStep(c) PROVE TypeOK'
  <2>1. CASE EnterInitialize(c)
    <3>1. CASE Returns(c) /\ UNCHANGED <<nextId, pending, future>>
      BY <2>1, <3>1, LeaveType DEF Returns, TypeOK, EnterInitialize
    <3>2. CASE Proceed(c, sendLock)
      BY <2>1, <3>2, <1>1 DEF TypeOK, EnterInitialize
    <3>3. CASE Ask(c, "initialize", sendLock) /\ UNCHANGED <<want, initLock, outcome>>
      BY <2>1, <3>3, AskType DEF TypeOK, EnterInitialize, AllWants
    <3> QED
      BY <2>1, <3>1, <3>2, <3>3 DEF EnterInitialize
  <2>2. CASE Write(c)
    <3>1. PICK m : m = [method |-> method[c], id |-> id[c], by |-> c]
      OBVIOUS
    <3>2. m \in Message
      <4>1. method[c] \in Methods
        BY <2>2 DEF Write, TypeOK
      <4>2. id[c] \in Nat
        BY RequestsAssumption DEF TypeOK, Ids
      <4> QED
        BY <3>1, <4>1, <4>2 DEF Message
    <3>3. wire' = Append(wire, m)
      BY <2>2, <3>1 DEF Write
    <3>4. wire' \in Seq(Message) /\ DOMAIN wire \subseteq DOMAIN wire'
      BY <3>2, <3>3, AppendProperties, LenProperties DEF TypeOK
    <3>5. served' \subseteq [at : DOMAIN wire', kind : {"answered", "refused"}]
      BY <2>2, <3>4 DEF Write, TypeOK
    <3>6. /\ pc' \in [Callers -> {"idle"} \cup Busy]
          /\ \A d \in Callers : method'[d] = "none" => pc'[d] \in {"idle", "entering"}
      BY <2>2 DEF Write, TypeOK, Busy
    <3>7. UNCHANGED <<want, method, id, sendLock, initLock, initialized, nextId,
                      pending, future, link, outcome>>
      BY <2>2 DEF Write
    <3> QED
      BY <3>4, <3>5, <3>6, <3>7 DEF TypeOK
  <2>3. CASE SendFails(c)
    BY <2>3, RaisesType DEF SendFails, TypeOK
  <2>4. CASE Drained(c)
    <3>1. Without(sendLock, c) \in Seq(Callers)
      BY QueueTypes DEF TypeOK
    <3>2. CASE method[c] = "initialized"
      BY <2>4, <3>1, <3>2, <1>1 DEF Drained
    <3>3. CASE method[c] # "initialized"
      BY <2>4, <3>1, <3>3 DEF Drained, TypeOK, Busy
    <3> QED
      BY <3>2, <3>3
  <2>5. CASE Answered(c)
    <3>1. CASE Raises(c)
      BY <2>5, <3>1, RaisesType DEF Answered, TypeOK
    <3>2. CASE Leave(c) /\ Ends(c, "answered")
      <4>1. outcome' \in [Ids -> {"none", "answered", "raised"}]
        BY <3>2 DEF Ends, TypeOK
      <4> QED
        BY <2>5, <3>2, <4>1, LeaveType DEF Answered, TypeOK
    <3>3. CASE /\ pc' = [pc EXCEPT ![c] = "sending"]
               /\ method' = [method EXCEPT ![c] = "initialized"]
               /\ id' = [id EXCEPT ![c] = 0]
               /\ sendLock' = Join(sendLock, c)
               /\ Ends(c, "answered")
               /\ UNCHANGED <<want, initLock>>
      <4>1. outcome' \in [Ids -> {"none", "answered", "raised"}]
        BY <3>3 DEF Ends, TypeOK
      <4>2. sendLock' \in Seq(Callers)
        BY <3>3, QueueTypes DEF TypeOK
      <4> QED
        BY <2>5, <3>3, <4>1, <4>2 DEF Answered, TypeOK, Busy, Methods
    <3> QED
      BY <2>5, <3>1, <3>2, <3>3 DEF Answered
  <2>6. CASE TimesOut(c)
    <3>1. future' \in [Ids -> [state : {"none", "open", "answered", "refused",
                                        "failed", "cancelled"}, reply : Nat]]
      BY <2>6, SettledType DEF TimesOut
    <3> QED
      BY <2>6, <3>1, RaisesType DEF TimesOut
  <2> QED
    BY <1>3, <2>1, <2>2, <2>3, <2>4, <2>5, <2>6 DEF TaskStep, Progress
<1>4. CASE ServerStep
  <2>1. PICK k \in DOMAIN wire, kind \in {"answered"} \cup Refusals : Receive(k, kind)
    BY <1>4 DEF ServerStep
  <2>2. kind \in {"answered", "refused"} /\ k \in Nat
    BY <2>1, LenProperties DEF Refusals, TypeOK
  <2> QED
    BY <2>1, <2>2 DEF Receive, TypeOK, callVars
<1>5. CASE ReceiverFails
  BY <1>5 DEF ReceiverFails, FailPending, TypeOK, callVars
<1>6. CASE CloseBegins \/ CloseStep
  <2>1. CASE CloseClears
    BY <2>1 DEF CloseClears, FailPending, TypeOK, callVars
  <2>2. CASE CloseBegins \/ CloseEnds
    BY <2>2 DEF CloseBegins, CloseEnds, TypeOK, callVars
  <2> QED
    BY <1>6, <2>1, <2>2 DEF CloseStep
<1>7. CASE UNCHANGED vars
  BY <1>7 DEF vars, TypeOK, callVars
<1> QED
  BY <1>2, <1>3, <1>4, <1>5, <1>6, <1>7 DEF Next

\* Every variable of the request layer keeps its type.
THEOREM TypeCorrect == Spec => []TypeOK
  BY TypeInit, TypeNext, PTL DEF Spec

-----------------------------------------------------------------------------
(* The inductive invariant.                                                  *)

InRequest(c) == pc[c] \in {"sending", "draining", "awaiting"}

\* A message in hand belongs to a call in the request code, and its id is its
\* own; an id not handed out yet is nowhere.
IdsInv ==
    /\ \A c \in Callers :
          /\ InRequest(c) => /\ method[c] # "none"
                             /\ method[c] = "initialized" <=> id[c] = 0
          /\ ~InRequest(c) => method[c] = "none" /\ id[c] = 0
          /\ pc[c] = "awaiting" => id[c] # 0
          /\ id[c] # 0 => id[c] < nextId /\ outcome[id[c]] = "none"
    /\ \A c, d \in Callers : id[c] = id[d] => c = d \/ id[c] = 0
    /\ \A i \in Ids : i >= nextId => future[i].state = "none" /\ outcome[i] = "none"
    /\ \A i \in pending : i < nextId

\* What is on the wire: each request once, those in hand among them.
WireInv ==
    /\ \A k \in DOMAIN wire :
          /\ wire[k].id < nextId
          /\ wire[k].method = "initialized" <=> wire[k].id = 0
    /\ \A k, l \in DOMAIN wire : wire[k].id = wire[l].id => k = l \/ wire[k].id = 0
    /\ \A c \in Callers :
          /\ pc[c] = "sending" /\ id[c] # 0 =>
                \A k \in DOMAIN wire : wire[k].id # id[c]
          /\ pc[c] \in {"draining", "awaiting"} =>
                \E k \in DOMAIN wire :
                   wire[k] = [method |-> method[c], id |-> id[c], by |-> c]

\* A future is answered with what the server answered to its id, and is
\* pending while it is open.
FuturesInv ==
    /\ \A i \in Ids : future[i].state \in {"answered", "refused"} =>
          /\ [at |-> future[i].reply, kind |-> future[i].state] \in served
          /\ wire[future[i].reply].id = i
    /\ \A s \in served : wire[s.at].id # 0
    /\ \A i \in Ids : future[i].state = "open" => i \in pending
    /\ link \in {"cleared", "closed"} => pending = {}

\* `initialized` is written before _initialized is set, and it is in hand only
\* after a successful answer to `initialize`.
HandshakeInv ==
    /\ initialized => \E k \in DOMAIN wire : wire[k].method = "initialized"
    /\ \A c \in Callers : method[c] = "operation" => initialized
    /\ \A c \in Callers : method[c] = "initialized" =>
          \E s \in served : s.kind = "answered" /\ wire[s.at].method = "initialize"
    /\ HandshakeOrder

RpcInv == IdsInv /\ WireInv /\ FuturesInv /\ HandshakeInv

-----------------------------------------------------------------------------
(* IdsInv.                                                                   *)

\* Ids are positive naturals.
LEMMA IdsNat == \A i \in Ids : i \in Nat \ {0}
  BY RequestsAssumption DEF Ids

\* A call that leaves gives its id up; the ids of the others stay theirs.
LEMMA LeaveIds ==
    ASSUME TypeOK, IdsInv, NEW c \in Callers, Leave(c),
           nextId' = nextId, pending' \subseteq pending,
           \A i \in Ids : i >= nextId => future'[i].state = "none",
           \A i \in Ids : i # id[c] => outcome'[i] = outcome[i]
    PROVE  IdsInv'
<1>1. ASSUME NEW d \in Callers, d # c
      PROVE  pc'[d] = pc[d] /\ method'[d] = method[d] /\ id'[d] = id[d]
  BY <1>1 DEF Leave, TypeOK
<1>2. pc'[c] = "idle" /\ method'[c] = "none" /\ id'[c] = 0
  BY DEF Leave, TypeOK
<1>3. ASSUME NEW d \in Callers, d # c, id[d] # 0
      PROVE  outcome'[id[d]] = outcome[id[d]]
  BY <1>3 DEF TypeOK, IdsInv
<1>4. ASSUME NEW i \in Ids, i >= nextId PROVE outcome'[i] = "none"
  <2>1. id[c] # i
    BY <1>4, RequestsAssumption, SMTT(30) DEF IdsInv, TypeOK, Ids, Methods, AllWants
  <2> QED
    BY <1>4, <2>1 DEF IdsInv
<1> QED
  BY <1>1, <1>2, <1>3, <1>4 DEF IdsInv, InRequest

\* A call without an id gets the next one.
LEMMA AskIds ==
    ASSUME TypeOK, IdsInv, NEW c \in Callers, NEW queue,
           NEW m \in AllWants, Ask(c, m, queue), UNCHANGED outcome
    PROVE  IdsInv'
<1>1. ASSUME NEW d \in Callers, d # c
      PROVE  pc'[d] = pc[d] /\ method'[d] = method[d] /\ id'[d] = id[d]
  BY <1>1 DEF Ask, TypeOK
<1>2. pc'[c] = "sending" /\ method'[c] = m /\ id'[c] = nextId
  BY DEF Ask, TypeOK
<1>3. nextId \in Ids /\ nextId' = nextId + 1 /\ nextId \in Nat \ {0}
  BY RequestsAssumption DEF Ask, TypeOK, Ids
<1>4. \A i \in Ids : i # nextId => future'[i] = future[i]
  BY DEF Ask, TypeOK
<1>5. pending' = pending \cup {nextId} /\ pending \subseteq Ids /\ Ids \subseteq Nat
  BY RequestsAssumption DEF Ask, TypeOK, Ids
<1>6. ASSUME NEW d \in Callers PROVE id[d] \in Nat
  <2>1. id[d] \in Ids \cup {0}
    BY DEF TypeOK
  <2> QED
    BY <2>1, IdsNat
<1> QED
  BY <1>1, <1>2, <1>3, <1>4, <1>5, <1>6 DEF IdsInv, InRequest, Methods, AllWants

\* Raising leaves the call.
LEMMA RaisesIds ==
    ASSUME TypeOK, IdsInv, NEW c \in Callers, Raises(c),
           nextId' = nextId, pending' \subseteq pending,
           \A i \in Ids : i >= nextId => future'[i].state = "none"
    PROVE  IdsInv'
<1>1. Leave(c) /\ \A i \in Ids : i # id[c] => outcome'[i] = outcome[i]
  BY DEF Raises, Ends, TypeOK
<1> QED
  BY <1>1, LeaveIds

\* Going on to what was wanted asks a request or leaves.
LEMMA ProceedIds ==
    ASSUME TypeOK, IdsInv, NEW c \in Callers, NEW queue, Proceed(c, queue)
    PROVE  IdsInv'
<1>1. CASE Ask(c, "operation", queue) /\ UNCHANGED outcome
  BY <1>1, AskIds DEF AllWants
<1>2. CASE Returns(c) /\ UNCHANGED <<nextId, pending, future>>
  BY <1>2, LeaveIds DEF Returns, IdsInv
<1> QED
  BY <1>1, <1>2 DEF Proceed

\* A future that is cancelled was handed out.
LEMMA SettledIds ==
    ASSUME TypeOK, IdsInv, NEW c \in Callers, Settled(id[c], "cancelled")
    PROVE  \A i \in Ids : i >= nextId => future'[i].state = "none"
<1> SUFFICES ASSUME NEW i \in Ids, i >= nextId PROVE future'[i].state = "none"
  OBVIOUS
<1>1. i # id[c]
  <2>1. nextId \in Nat \ {0} /\ i \in Nat /\ i # 0
    BY RequestsAssumption DEF TypeOK, Ids
  <2>2. id[c] # 0 => id[c] < nextId
    BY DEF IdsInv
  <2> QED
    BY <2>1, <2>2
<1>2. future'[i] = future[i]
  BY <1>1 DEF Settled, TypeOK
<1> QED
  BY <1>2 DEF IdsInv

\* Every step keeps request ids unique (IdsInv).
LEMMA IdsNext == TypeOK /\ IdsInv /\ [Next]_vars => IdsInv'
<1> SUFFICES ASSUME TypeOK, IdsInv, [Next]_vars PROVE IdsInv'
  OBVIOUS
<1>1. ASSUME NEW c \in Callers, AppStep(c) PROVE IdsInv'
  <2>1. ASSUME NEW w \in {"initialize", "operation"}, CallInitialize(c, w) PROVE IdsInv'
    BY <2>1 DEF CallInitialize, IdsInv, InRequest, TypeOK
  <2>2. CASE CallRequest(c)
    BY <2>2, AskIds DEF CallRequest, AllWants
  <2>4. CASE CallOperation(c)
    BY <2>4, AskIds DEF CallOperation, AllWants
  <2>3. CASE Cancelled(c)
    <3>1. \A i \in Ids : i >= nextId => future'[i].state = "none"
      BY <2>3, SettledIds DEF Cancelled, IdsInv
    <3> QED
      BY <2>3, <3>1, RaisesIds DEF Cancelled
  <2> QED
    BY <1>1, <2>1, <2>2, <2>3, <2>4 DEF AppStep
<1>2. ASSUME NEW c \in Callers, TaskStep(c) PROVE IdsInv'
  <2>1. CASE EnterInitialize(c)
    <3>1. CASE Returns(c) /\ UNCHANGED <<nextId, pending, future>>
      BY <3>1, LeaveIds DEF Returns, IdsInv
    <3>2. CASE Proceed(c, sendLock)
      BY <3>2, ProceedIds
    <3>3. CASE Ask(c, "initialize", sendLock) /\ UNCHANGED <<want, initLock, outcome>>
      BY <3>3, AskIds DEF AllWants
    <3> QED
      BY <2>1, <3>1, <3>2, <3>3 DEF EnterInitialize
  <2>2. CASE Write(c)
    BY <2>2 DEF Write, IdsInv, InRequest, TypeOK
  <2>3. CASE SendFails(c)
    BY <2>3, RaisesIds DEF SendFails, IdsInv
  <2>4. CASE Drained(c)
    <3>1. CASE method[c] = "initialized"
      BY <2>4, <3>1, ProceedIds DEF Drained
    <3>2. CASE method[c] # "initialized"
      BY <2>4, <3>2 DEF Drained, IdsInv, InRequest, TypeOK
    <3> QED
      BY <3>1, <3>2
  <2>5. CASE Answered(c)
    <3>1. CASE Raises(c)
      BY <2>5, <3>1, RaisesIds DEF Answered, IdsInv
    <3>2. CASE Leave(c) /\ Ends(c, "answered")
      <4>1. \A i \in Ids : i # id[c] => outcome'[i] = outcome[i]
        BY <3>2 DEF Ends, TypeOK
      <4> QED
        BY <2>5, <3>2, <4>1, LeaveIds DEF Answered, IdsInv
    <3>3. CASE /\ pc' = [pc EXCEPT ![c] = "sending"]
               /\ method' = [method EXCEPT ![c] = "initialized"]
               /\ id' = [id EXCEPT ![c] = 0]
               /\ Ends(c, "answered")
      <4>1. \A i \in Ids : i # id[c] => outcome'[i] = outcome[i]
        BY <3>3 DEF Ends, TypeOK
      <4>2. \A d \in Callers : d # c =>
               pc'[d] = pc[d] /\ method'[d] = method[d] /\ id'[d] = id[d]
        BY <3>3 DEF TypeOK
      <4>3. pc'[c] = "sending" /\ method'[c] = "initialized" /\ id'[c] = 0
        BY <3>3 DEF TypeOK
      <4>4. UNCHANGED <<nextId, pending, future>>
        BY <2>5 DEF Answered
      <4>5. id[c] \in Ids
        BY <2>5 DEF Answered, IdsInv, TypeOK
      <4>6. \A d \in Callers : d # c /\ id[d] # 0 => outcome'[id[d]] = outcome[id[d]]
        BY <4>1, <4>5 DEF IdsInv, TypeOK
      <4>7. \A i \in Ids : i >= nextId => outcome'[i] = "none"
        <5>1. id[c] \in Nat /\ id[c] < nextId /\ nextId \in Nat
          BY <4>5, IdsNat DEF IdsInv, TypeOK
        <5>2. \A i \in Ids : i >= nextId => i # id[c]
          BY <5>1, IdsNat
        <5> QED
          BY <4>1, <5>2 DEF IdsInv
      <4> QED
        BY <4>2, <4>3, <4>4, <4>6, <4>7 DEF IdsInv, InRequest
    <3> QED
      BY <2>5, <3>1, <3>2, <3>3 DEF Answered
  <2>6. CASE TimesOut(c)
    BY <2>6, SettledIds, RaisesIds DEF TimesOut
  <2> QED
    BY <1>2, <2>1, <2>2, <2>3, <2>4, <2>5, <2>6 DEF TaskStep, Progress
<1>3. CASE ServerStep
  <2>1. PICK k \in DOMAIN wire, kind \in {"answered"} \cup Refusals : Receive(k, kind)
    BY <1>3 DEF ServerStep
  <2>2. \A i \in Ids : i >= nextId => future'[i].state = "none"
    BY <2>1, RequestsAssumption DEF Receive, IdsInv, TypeOK, Ids
  <2> QED
    BY <2>1, <2>2 DEF Receive, IdsInv, InRequest, callVars
<1>4. ASSUME FailPending, UNCHANGED <<callVars, nextId, outcome>> PROVE IdsInv'
  <2>1. \A i \in Ids : i >= nextId => future'[i].state = "none"
    BY <1>4, RequestsAssumption DEF FailPending, IdsInv, TypeOK, Ids
  <2> QED
    BY <1>4, <2>1 DEF FailPending, IdsInv, InRequest, callVars
<1>5. CASE ReceiverFails \/ CloseBegins \/ CloseStep
  <2>1. CASE ReceiverFails \/ CloseClears
    BY <2>1, <1>4 DEF ReceiverFails, CloseClears
  <2>2. CASE CloseBegins \/ CloseEnds
    BY <2>2 DEF CloseBegins, CloseEnds, IdsInv, InRequest, callVars
  <2> QED
    BY <1>5, <2>1, <2>2 DEF CloseStep
<1>6. CASE UNCHANGED vars
  BY <1>6 DEF vars, IdsInv, InRequest, callVars
<1> QED
  BY <1>1, <1>2, <1>3, <1>5, <1>6 DEF Next

-----------------------------------------------------------------------------
(* What a step of a call does, a write apart.                                *)

\* An `initialize` that has its successful answer.
Initializing(d) ==
    pc[d] = "awaiting" /\ method[d] = "initialize" /\ future[id[d]].state = "answered"

\* How a call that steps, or another one, may move.
Moved(d) ==
    \/ pc'[d] \in {"idle", "entering"} /\ method'[d] = "none"
    \/ /\ pc'[d] = "sending" /\ id'[d] = nextId /\ nextId' = nextId + 1
       /\ method'[d] \in AllWants
       /\ method'[d] = "operation" => initialized'
    \/ /\ pc'[d] = "sending" /\ id'[d] = 0 /\ method'[d] = "initialized"
       /\ Initializing(d)
    \/ /\ id'[d] = id[d] /\ method'[d] = method[d]
       /\ pc'[d] = pc[d] \/ {pc[d], pc'[d]} \subseteq {"draining", "awaiting"}

\* How a future may change.
Changed(i) ==
    \/ future'[i] = future[i] /\ (future[i].state = "open" /\ i \in pending => i \in pending')
    \/ future'[i].state = "cancelled"
    \/ future'[i].state = "open" /\ i \in pending'

CallMoves ==
    /\ UNCHANGED <<wire, served, link>>
    /\ nextId' \in {nextId, nextId + 1}
    /\ initialized' # initialized =>
          /\ initialized'
          /\ \E d \in Callers : pc[d] = "draining" /\ method[d] = "initialized"
    /\ \A d \in Callers : Moved(d)
    /\ \A i \in Ids : Changed(i)
    /\ Closed => pending' \subseteq pending

\* Leaving moves the call to idle and nobody else.
LEMMA LeaveMoves ==
    ASSUME TypeOK, NEW c \in Callers, Leave(c)
    PROVE  \A d \in Callers : Moved(d)
<1> SUFFICES ASSUME NEW d \in Callers PROVE Moved(d)
  OBVIOUS
<1>1. CASE d = c
  BY <1>1 DEF Leave, TypeOK, Moved
<1>2. CASE d # c
  BY <1>2 DEF Leave, TypeOK, Moved
<1> QED
  BY <1>1, <1>2

\* Asking moves the call to the send lock and opens its future.
LEMMA AskMoves ==
    ASSUME TypeOK, NEW c \in Callers, NEW queue, NEW m \in AllWants,
           Ask(c, m, queue), m = "operation" => initialized'
    PROVE  /\ \A d \in Callers : Moved(d)
           /\ \A i \in Ids : Changed(i)
           /\ nextId' = nextId + 1
<1>1. ASSUME NEW d \in Callers PROVE Moved(d)
  <2>1. CASE d = c
    BY <2>1 DEF Ask, TypeOK, Moved
  <2>2. CASE d # c
    BY <2>2 DEF Ask, TypeOK, Moved
  <2> QED
    BY <2>1, <2>2
<1>2. ASSUME NEW i \in Ids PROVE Changed(i)
  <2>1. CASE i = nextId
    BY <2>1 DEF Ask, TypeOK, Changed
  <2>2. CASE i # nextId
    BY <2>2 DEF Ask, TypeOK, Changed
  <2> QED
    BY <2>1, <2>2
<1> QED
  BY <1>1, <1>2 DEF Ask

\* Cancelling a future changes that one.
LEMMA SettledMoves ==
    ASSUME TypeOK, NEW j \in Ids, Settled(j, "cancelled"), pending \ {j} \subseteq pending'
    PROVE  \A i \in Ids : Changed(i)
<1> SUFFICES ASSUME NEW i \in Ids PROVE Changed(i)
  OBVIOUS
<1>1. CASE i = j
  BY <1>1 DEF Settled, TypeOK, Changed
<1>2. CASE i # j
  BY <1>2 DEF Settled, TypeOK, Changed
<1> QED
  BY <1>1, <1>2

\* What follows an answered initialize is a move of the one call that got it.
LEMMA ProceedMoves ==
    ASSUME TypeOK, NEW c \in Callers, NEW queue, Proceed(c, queue), initialized',
           UNCHANGED <<wire, served, link>>,
           initialized' # initialized => pc[c] = "draining" /\ method[c] = "initialized"
    PROVE  CallMoves
<1>1. CASE ~Closed /\ Ask(c, "operation", queue)
  BY <1>1, AskMoves DEF CallMoves, AllWants
<1>2. CASE Returns(c) /\ UNCHANGED <<nextId, pending, future>>
  BY <1>2, LeaveMoves DEF CallMoves, Changed, Returns
<1> QED
  BY <1>1, <1>2 DEF Proceed

\* Every step of a call but writing a message is such a move.
LEMMA CallsMove ==
    ASSUME TypeOK, IdsInv, HandshakeInv, NEW c \in Callers,
           AppStep(c) \/ (TaskStep(c) /\ ~Write(c))
    PROVE  CallMoves
<1>1. ASSUME NEW w \in {"initialize", "operation"}, CallInitialize(c, w) PROVE CallMoves
  <2>1. ASSUME NEW d \in Callers PROVE Moved(d)
    <3>1. CASE d = c
      <4>1. pc'[c] = "entering" /\ method'[c] = method[c]
        BY <1>1 DEF CallInitialize, TypeOK
      <4>2. method[c] = "none"
        BY <1>1 DEF CallInitialize, IdsInv, InRequest
      <4> QED
        BY <3>1, <4>1, <4>2 DEF Moved
    <3>2. CASE d # c
      BY <1>1, <3>2 DEF CallInitialize, TypeOK, Moved
    <3> QED
      BY <3>1, <3>2
  <2> QED
    BY <1>1, <2>1 DEF CallInitialize, CallMoves, Changed
<1>2. CASE CallRequest(c)
  BY <1>2, AskMoves DEF CallRequest, CallMoves, AllWants
<1>9. CASE CallOperation(c)
  BY <1>9, AskMoves DEF CallOperation, CallMoves, AllWants
<1>3. CASE Cancelled(c)
  <2>1. \A d \in Callers : Moved(d)
    BY <1>3, LeaveMoves DEF Cancelled, Raises
  <2>2. CASE pc[c] = "awaiting"
    <3>1. id[c] \in Ids /\ Settled(id[c], "cancelled") /\ pending' = pending
      BY <1>3, <2>2 DEF Cancelled, IdsInv, TypeOK
    <3>2. \A i \in Ids : Changed(i)
      BY <3>1, SettledMoves
    <3> QED
      BY <1>3, <2>1, <3>2 DEF Cancelled, CallMoves
  <2>3. CASE pc[c] # "awaiting"
    BY <1>3, <2>1, <2>3 DEF Cancelled, CallMoves, Changed
  <2> QED
    BY <2>2, <2>3
<1>4. CASE EnterInitialize(c)
  <2>1. CASE Returns(c) /\ UNCHANGED <<nextId, pending, future>>
    BY <1>4, <2>1, LeaveMoves DEF EnterInitialize, CallMoves, Changed, Returns
  <2>2. CASE initialized /\ Proceed(c, sendLock)
    BY <1>4, <2>2, ProceedMoves DEF EnterInitialize
  <2>3. CASE ~Closed /\ Ask(c, "initialize", sendLock)
    BY <1>4, <2>3, AskMoves DEF EnterInitialize, CallMoves, AllWants
  <2> QED
    BY <1>4, <2>1, <2>2, <2>3 DEF EnterInitialize
<1>5. CASE SendFails(c)
  BY <1>5, LeaveMoves DEF SendFails, Raises, CallMoves, Changed
<1>6. CASE Drained(c)
  <2>1. CASE method[c] = "initialized"
    BY <1>6, <2>1, ProceedMoves DEF Drained
  <2>2. CASE method[c] # "initialized"
    <3>1. ASSUME NEW d \in Callers PROVE Moved(d)
      <4>1. CASE d = c
        BY <1>6, <2>2, <4>1 DEF Drained, TypeOK, Moved
      <4>2. CASE d # c
        BY <1>6, <2>2, <4>2 DEF Drained, TypeOK, Moved
      <4> QED
        BY <4>1, <4>2
    <3> QED
      BY <1>6, <2>2, <3>1 DEF Drained, CallMoves, Changed
  <2> QED
    BY <2>1, <2>2
<1>7. CASE Answered(c)
  <2>1. CASE Leave(c)
    BY <1>7, <2>1, LeaveMoves DEF Answered, CallMoves, Changed
  <2>2. CASE /\ future[id[c]].state = "answered" /\ method[c] = "initialize"
             /\ pc' = [pc EXCEPT ![c] = "sending"]
             /\ method' = [method EXCEPT ![c] = "initialized"]
             /\ id' = [id EXCEPT ![c] = 0]
    <3>1. ASSUME NEW d \in Callers PROVE Moved(d)
      <4>1. CASE d = c
        BY <1>7, <2>2, <4>1 DEF Answered, TypeOK, Moved, Initializing
      <4>2. CASE d # c
        BY <2>2, <4>2 DEF TypeOK, Moved
      <4> QED
        BY <4>1, <4>2
    <3> QED
      BY <1>7, <3>1 DEF Answered, CallMoves, Changed
  <2> QED
    BY <1>7, <2>1, <2>2 DEF Answered, Raises
<1>8. CASE TimesOut(c)
  <2>1. \A d \in Callers : Moved(d)
    BY <1>8, LeaveMoves DEF TimesOut, Raises
  <2>2. id[c] \in Ids
    BY <1>8 DEF TimesOut, IdsInv, TypeOK
  <2>3. \A i \in Ids : Changed(i)
    BY <1>8, <2>2, SettledMoves DEF TimesOut
  <2> QED
    BY <1>8, <2>1, <2>3 DEF TimesOut, CallMoves
<1> QED
  BY <1>1, <1>2, <1>3, <1>4, <1>5, <1>6, <1>7, <1>8, <1>9 DEF AppStep, TaskStep, Progress

-----------------------------------------------------------------------------
(* The other invariants.                                                     *)

\* The answers are to messages on the wire, and no two messages share an id.
LEMMA OneMessage ==
    ASSUME TypeOK, WireInv, NEW i \in Ids, NEW k \in DOMAIN wire, wire[k].id = i,
           NEW s \in served, wire[s.at].id = i
    PROVE  s.at = k
<1>1. s.at \in DOMAIN wire
  BY DEF TypeOK
<1>2. i # 0
  BY IdsNat
<1> QED
  BY <1>1, <1>2 DEF WireInv

\* What a write appends to the wire.
LEMMA WriteShape ==
    ASSUME TypeOK, NEW c \in Callers, Write(c)
    PROVE  \E n \in Nat :
             /\ DOMAIN wire = 1..n /\ DOMAIN wire' = 1..(n + 1)
             /\ \A k \in 1..n : wire'[k] = wire[k]
             /\ wire'[n + 1] = [method |-> method[c], id |-> id[c], by |-> c]
<1>1. PICK m : m = [method |-> method[c], id |-> id[c], by |-> c]
  OBVIOUS
<1>2. m \in Message
  <2>1. method[c] \in Methods
    BY DEF Write, TypeOK
  <2>2. id[c] \in Nat
    BY IdsNat DEF TypeOK
  <2> QED
    BY <1>1, <2>1, <2>2 DEF Message
<1>3. wire' = Append(wire, m) /\ wire \in Seq(Message)
  BY <1>1 DEF Write, TypeOK
<1> QED
  BY <1>1, <1>2, <1>3, AppendProperties, LenProperties

\* Steps of a call that writes nothing keep what is said of the wire.
LEMMA WireMoves ==
    ASSUME TypeOK, IdsInv, WireInv, CallMoves
    PROVE  WireInv'
<1>1. wire' = wire /\ nextId \in Nat /\ nextId' \in {nextId, nextId + 1}
  BY DEF CallMoves, TypeOK
<1>2. ASSUME NEW k \in DOMAIN wire PROVE wire[k].id \in Nat /\ wire[k].id < nextId
  <2>1. wire[k] \in Message
    BY ElementOfSeq, LenProperties DEF TypeOK
  <2> QED
    BY <2>1 DEF Message, WireInv
<1>3. \A k \in DOMAIN wire' : /\ wire'[k].id < nextId'
                              /\ wire'[k].method = "initialized" <=> wire'[k].id = 0
  BY <1>1, <1>2 DEF WireInv
<1>4. ASSUME NEW d \in Callers
      PROVE  /\ pc'[d] = "sending" /\ id'[d] # 0 =>
                   \A k \in DOMAIN wire' : wire'[k].id # id'[d]
             /\ pc'[d] \in {"draining", "awaiting"} =>
                   \E k \in DOMAIN wire' :
                      wire'[k] = [method |-> method'[d], id |-> id'[d], by |-> d]
  <2>1. Moved(d)
    BY DEF CallMoves
  <2>2. CASE pc'[d] \in {"idle", "entering"}
    BY <2>2
  <2>3. CASE pc'[d] = "sending" /\ id'[d] = nextId
    BY <1>1, <1>2, <2>3
  <2>4. CASE pc'[d] = "sending" /\ id'[d] = 0
    BY <2>4
  <2>5. CASE /\ id'[d] = id[d] /\ method'[d] = method[d]
             /\ pc'[d] = pc[d] \/ {pc[d], pc'[d]} \subseteq {"draining", "awaiting"}
    BY <1>1, <2>5 DEF WireInv
  <2> QED
    BY <2>1, <2>2, <2>3, <2>4, <2>5 DEF Moved
<1> QED
  BY <1>1, <1>3, <1>4 DEF WireInv

\* Every step keeps what is known of the messages on the wire (WireInv).
LEMMA WireNext == TypeOK /\ IdsInv /\ HandshakeInv /\ WireInv /\ [Next]_vars => WireInv'
<1> SUFFICES ASSUME TypeOK, IdsInv, HandshakeInv, WireInv, [Next]_vars PROVE WireInv'
  OBVIOUS
<1>1. ASSUME NEW c \in Callers, AppStep(c) \/ (TaskStep(c) /\ ~Write(c)) PROVE WireInv'
  BY <1>1, CallsMove, WireMoves
<1>2. ASSUME NEW c \in Callers, Write(c) PROVE WireInv'
  <2>1. PICK n \in Nat :
           /\ DOMAIN wire = 1..n /\ DOMAIN wire' = 1..(n + 1)
           /\ \A k \in 1..n : wire'[k] = wire[k]
           /\ wire'[n + 1] = [method |-> method[c], id |-> id[c], by |-> c]
    BY <1>2, WriteShape
  <2>2. /\ pc[c] = "sending" /\ pc'[c] = "draining"
        /\ \A d \in Callers : d # c => pc'[d] = pc[d]
        /\ UNCHANGED <<id, method, nextId>>
    BY <1>2 DEF Write, TypeOK
  <2>3. /\ method[c] = "initialized" <=> id[c] = 0
        /\ id[c] < nextId
        /\ id[c] # 0 => \A k \in 1..n : wire[k].id # id[c]
    <3>1. nextId \in Nat \ {0} /\ method[c] # "none"
      BY <2>2 DEF TypeOK
    <3>2. InRequest(c)
      BY <2>2 DEF InRequest
    <3>3. /\ method[c] = "initialized" <=> id[c] = 0
          /\ id[c] # 0 => id[c] < nextId
      BY <3>2 DEF IdsInv
    <3> QED
      BY <2>1, <2>2, <3>1, <3>3 DEF WireInv
  <2>4. ASSUME NEW k \in 1..(n + 1)
        PROVE  \/ k \in 1..n /\ wire'[k] = wire[k]
               \/ k = n + 1 /\ wire'[k].id = id[c] /\ wire'[k].method = method[c]
    BY <2>1
  <2>5. \A k \in DOMAIN wire' :
           /\ wire'[k].id < nextId'
           /\ wire'[k].method = "initialized" <=> wire'[k].id = 0
    BY <2>1, <2>2, <2>3, <2>4 DEF WireInv
  <2>6. \A k, l \in DOMAIN wire' : wire'[k].id = wire'[l].id => k = l \/ wire'[k].id = 0
    BY <2>1, <2>3, <2>4 DEF WireInv
  <2>7. ASSUME NEW d \in Callers
        PROVE  /\ pc'[d] = "sending" /\ id'[d] # 0 =>
                     \A k \in DOMAIN wire' : wire'[k].id # id'[d]
               /\ pc'[d] \in {"draining", "awaiting"} =>
                     \E k \in DOMAIN wire' :
                        wire'[k] = [method |-> method'[d], id |-> id'[d], by |-> d]
    <3>1. CASE d = c
      BY <2>1, <2>2, <3>1
    <3>2. CASE d # c
      <4>1. pc[d] = "sending" => (id[d] # 0 => id[d] # id[c])
        BY <3>2 DEF IdsInv
      <4>2. pc'[d] = pc[d] /\ id'[d] = id[d] /\ method'[d] = method[d]
        BY <2>2, <3>2
      <4>3. /\ pc[d] = "sending" /\ id[d] # 0 => \A k \in 1..n : wire[k].id # id[d]
            /\ pc[d] \in {"draining", "awaiting"} =>
                  \E k \in 1..n :
                     wire[k] = [method |-> method[d], id |-> id[d], by |-> d]
        BY <2>1 DEF WireInv
      <4>4. \A k \in 1..n : k \in DOMAIN wire' /\ wire'[k] = wire[k]
        BY <2>1
      <4>5. \A k \in DOMAIN wire' : wire'[k].id = id[c] \/ (k \in 1..n /\ wire'[k] = wire[k])
        BY <2>1, <2>4
      <4> QED
        BY <4>1, <4>2, <4>3, <4>4, <4>5
    <3> QED
      BY <3>1, <3>2
  <2> QED
    BY <2>5, <2>6, <2>7 DEF WireInv
<1>3. ASSUME UNCHANGED <<callVars, wire, nextId>> PROVE WireInv'
  BY <1>3 DEF WireInv, callVars
<1>4. CASE ServerStep
  BY <1>3, <1>4 DEF ServerStep, Receive
<1>5. CASE ReceiverFails \/ CloseBegins \/ CloseStep
  BY <1>3, <1>5 DEF ReceiverFails, CloseBegins, CloseStep, CloseClears, CloseEnds
<1>6. CASE UNCHANGED vars
  BY <1>3, <1>6 DEF vars
<1> QED
  BY <1>1, <1>2, <1>4, <1>5, <1>6 DEF Next, TaskStep, Progress

\* Every step keeps futures and the answers that were sent in agreement.
LEMMA FuturesNext ==
    TypeOK /\ RpcInv /\ [Next]_vars => FuturesInv'
<1> SUFFICES ASSUME TypeOK, RpcInv, IdsInv, WireInv, HandshakeInv, FuturesInv, [Next]_vars
             PROVE  FuturesInv'
  BY DEF RpcInv
<1>1. ASSUME NEW c \in Callers, AppStep(c) \/ (TaskStep(c) /\ ~Write(c))
      PROVE  FuturesInv'
  <2>1. CallMoves
    BY <1>1, CallsMove
  <2>2. UNCHANGED <<wire, served, link>>
    BY <2>1 DEF CallMoves
  <2>3. ASSUME NEW i \in Ids
        PROVE  /\ future'[i].state \in {"answered", "refused"} =>
                     /\ [at |-> future'[i].reply, kind |-> future'[i].state] \in served'
                     /\ wire'[future'[i].reply].id = i
               /\ future'[i].state = "open" => i \in pending'
    <3>1. Changed(i)
      BY <2>1 DEF CallMoves
    <3> QED
      BY <2>2, <3>1 DEF Changed, FuturesInv
  <2>4. link' \in {"cleared", "closed"} => pending' = {}
    BY <2>1, <2>2 DEF CallMoves, FuturesInv, Closed
  <2> QED
    BY <2>2, <2>3, <2>4 DEF FuturesInv
<1>2. ASSUME NEW c \in Callers, Write(c) PROVE FuturesInv'
  <2>1. UNCHANGED <<served, link, future, pending>>
    BY <1>2 DEF Write
  <2>2. \A k \in DOMAIN wire : wire'[k] = wire[k]
    BY <1>2, WriteShape
  <2>3. \A s \in served : wire'[s.at] = wire[s.at]
    BY <2>2 DEF TypeOK
  <2>4. ASSUME NEW i \in Ids, future[i].state \in {"answered", "refused"}
        PROVE  wire'[future[i].reply] = wire[future[i].reply]
    <3>1. PICK s \in served : s = [at |-> future[i].reply, kind |-> future[i].state]
      BY <2>4 DEF FuturesInv
    <3> QED
      BY <2>3, <3>1
  <2> QED
    BY <2>1, <2>3, <2>4 DEF FuturesInv
<1>3. CASE ServerStep
  <2>1. PICK k \in DOMAIN wire, kind \in {"answered"} \cup Refusals : Receive(k, kind)
    BY <1>3 DEF ServerStep
  <2>2. kind \in {"answered", "refused"}
    BY DEF Refusals
  <2>3. /\ UNCHANGED <<wire, link>> /\ link = "up"
        /\ served' = served \cup {[at |-> k, kind |-> kind]}
        /\ pending' = pending \ {wire[k].id}
    BY <2>1 DEF Receive
  <2>4. wire[k].id # 0
    BY <2>1 DEF Receive, WireInv, FuturesInv
  <2>5. ASSUME NEW i \in Ids
        PROVE  /\ future'[i].state \in {"answered", "refused"} =>
                     /\ [at |-> future'[i].reply, kind |-> future'[i].state] \in served'
                     /\ wire'[future'[i].reply].id = i
               /\ future'[i].state = "open" => i \in pending'
    <3>1. CASE i = wire[k].id /\ i \in pending /\ future[i].state = "open"
      BY <2>1, <2>2, <2>3, <3>1 DEF Receive, TypeOK
    <3>2. CASE ~(i = wire[k].id /\ i \in pending /\ future[i].state = "open")
      <4>1. future'[i] = future[i]
        BY <2>1, <3>2 DEF Receive, TypeOK
      <4> QED
        BY <2>3, <3>2, <4>1 DEF FuturesInv
    <3> QED
      BY <3>1, <3>2
  <2>6. \A s \in served' : wire'[s.at].id # 0
    BY <2>3, <2>4 DEF FuturesInv
  <2>7. link' \notin {"cleared", "closed"}
    BY <2>3
  <2> QED
    BY <2>5, <2>6, <2>7 DEF FuturesInv
<1>4. ASSUME FailPending, UNCHANGED <<wire, served>> PROVE FuturesInv'
  <2>1. pending' = {}
    BY <1>4 DEF FailPending
  <2>2. ASSUME NEW i \in Ids
        PROVE  \/ future'[i].state = "failed"
               \/ future'[i] = future[i] /\ future[i].state # "open"
    BY <1>4, <2>2 DEF FailPending, FuturesInv, TypeOK
  <2> QED
    BY <1>4, <2>1, <2>2 DEF FuturesInv
<1>5. CASE ReceiverFails \/ CloseClears
  BY <1>4, <1>5 DEF ReceiverFails, CloseClears
<1>6. CASE CloseBegins \/ CloseEnds
  BY <1>6 DEF CloseBegins, CloseEnds, FuturesInv
<1>7. CASE UNCHANGED vars
  BY <1>7 DEF vars, FuturesInv
<1> QED
  BY <1>1, <1>2, <1>3, <1>5, <1>6, <1>7 DEF Next, TaskStep, Progress, CloseStep

\* Every step keeps the handshake in order (HandshakeInv).
LEMMA HandshakeNext == TypeOK /\ RpcInv /\ [Next]_vars => HandshakeInv'
<1> SUFFICES ASSUME TypeOK, RpcInv, [Next]_vars PROVE HandshakeInv'
  OBVIOUS
<1> USE DEF RpcInv
<1>1. ASSUME NEW c \in Callers, AppStep(c) \/ (TaskStep(c) /\ ~Write(c))
      PROVE  HandshakeInv'
  <2>1. CallMoves
    BY <1>1, CallsMove
  <2>2. UNCHANGED <<wire, served>>
    BY <2>1 DEF CallMoves
  <2>3. initialized' => \E k \in DOMAIN wire' : wire'[k].method = "initialized"
    <3>1. CASE initialized
      BY <2>2, <3>1 DEF HandshakeInv
    <3>2. CASE initialized' /\ ~initialized
      <4>1. PICK d \in Callers : pc[d] = "draining" /\ method[d] = "initialized"
        BY <2>1, <3>2 DEF CallMoves
      <4> QED
        BY <2>2, <4>1 DEF WireInv
    <3> QED
      BY <3>1, <3>2
  <2>4. initialized => initialized'
    BY <2>1, Zenon DEF CallMoves
  <2>5. ASSUME NEW d \in Callers
        PROVE  /\ method'[d] = "operation" => initialized'
               /\ method'[d] = "initialized" =>
                     \E s \in served' : /\ s.kind = "answered"
                                        /\ wire'[s.at].method = "initialize"
    <3>1. Moved(d)
      BY <2>1 DEF CallMoves
    <3>2. CASE method'[d] = "initialized" /\ Initializing(d)
      <4>1. id[d] \in Ids
        BY <3>2 DEF Initializing, IdsInv, TypeOK
      <4>2. PICK s \in served : /\ s = [at |-> future[id[d]].reply, kind |-> "answered"]
                                /\ wire[s.at].id = id[d]
        BY <3>2, <4>1 DEF Initializing, FuturesInv
      <4>3. PICK k \in DOMAIN wire :
               wire[k] = [method |-> "initialize", id |-> id[d], by |-> d]
        BY <3>2 DEF Initializing, WireInv
      <4>4. s.at = k
        BY <4>1, <4>2, <4>3, OneMessage
      <4> QED
        BY <2>2, <3>2, <4>2, <4>3, <4>4
    <3>3. CASE method'[d] = method[d]
      BY <2>2, <2>4, <3>3 DEF HandshakeInv
    <3> QED
      BY <3>1, <3>2, <3>3 DEF Moved, AllWants
  <2>6. HandshakeOrder'
    BY <2>2 DEF HandshakeInv, HandshakeOrder
  <2> QED
    BY <2>3, <2>5, <2>6 DEF HandshakeInv
<1>2. ASSUME NEW c \in Callers, Write(c) PROVE HandshakeInv'
  <2>1. PICK n \in Nat :
           /\ DOMAIN wire = 1..n /\ DOMAIN wire' = 1..(n + 1)
           /\ \A k \in 1..n : wire'[k] = wire[k]
           /\ wire'[n + 1] = [method |-> method[c], id |-> id[c], by |-> c]
    BY <1>2, WriteShape
  <2>2. UNCHANGED <<served, method, initialized>>
    BY <1>2 DEF Write
  <2>3. \A s \in served : s.at \in 1..n
    BY <2>1 DEF TypeOK
  <2>4. ASSUME NEW k \in 1..(n + 1)
        PROVE  /\ wire'[k].method = "operation" =>
                     \E j \in 1..(k - 1) : wire'[j].method = "initialized"
               /\ wire'[k].method = "initialized" =>
                     \E s \in served' : /\ s.at < k /\ s.kind = "answered"
                                        /\ wire'[s.at].method = "initialize"
    <3>1. CASE k \in 1..n
      BY <2>1, <2>2, <2>3, <3>1 DEF HandshakeInv, HandshakeOrder
    <3>2. CASE k = n + 1
      BY <2>1, <2>2, <2>3, <3>2 DEF HandshakeInv
    <3> QED
      BY <3>1, <3>2
  <2> QED
    BY <2>1, <2>2, <2>3, <2>4 DEF HandshakeInv, HandshakeOrder
<1>3. ASSUME UNCHANGED <<method, wire, initialized>>, served \subseteq served'
      PROVE  HandshakeInv'
  BY <1>3 DEF HandshakeInv, HandshakeOrder
<1>4. CASE ServerStep
  BY <1>3, <1>4 DEF ServerStep, Receive, callVars
<1>5. CASE ReceiverFails \/ CloseBegins \/ CloseStep
  BY <1>3, <1>5 DEF ReceiverFails, CloseBegins, CloseStep, CloseClears, CloseEnds, callVars
<1>6. CASE UNCHANGED vars
  BY <1>3, <1>6 DEF vars, callVars
<1> QED
  BY <1>1, <1>2, <1>4, <1>5, <1>6 DEF Next, TaskStep, Progress

\* The invariants hold initially, with every queue and the wire empty.
LEMMA RpcInit == Init => RpcInv
  BY IdsNat DEF Init, RpcInv, IdsInv, WireInv, FuturesInv, HandshakeInv,
     HandshakeOrder, InRequest

\* The inductive invariant holds in every reachable state: ids are never
\* reused, each future has the reply to its own id, and a handshake that is
\* complete has left its answer and its notification on the wire.
THEOREM Invariant == Spec => [](TypeOK /\ RpcInv)
<1>1. TypeOK /\ RpcInv /\ [Next]_vars => (TypeOK /\ RpcInv)'
  BY TypeNext, IdsNext, WireNext, FuturesNext, HandshakeNext DEF RpcInv
<1> QED
  BY <1>1, TypeInit, RpcInit, PTL DEF Spec

-----------------------------------------------------------------------------
(* The properties.                                                           *)

\* A call gets the answer to the message it wrote, and to no other.
THEOREM AnswersAreOwn == Spec => []OwnAnswer
<1>1. ASSUME TypeOK, RpcInv, NEW c \in Callers, pc[c] = "awaiting",
             future[id[c]].state \in {"answered", "refused"}
      PROVE  /\ [at |-> future[id[c]].reply, kind |-> future[id[c]].state] \in served
             /\ wire[future[id[c]].reply] =
                   [method |-> method[c], id |-> id[c], by |-> c]
  <2>1. id[c] \in Ids
    BY <1>1 DEF RpcInv, IdsInv, TypeOK
  <2>2. PICK s \in served :
           /\ s = [at |-> future[id[c]].reply, kind |-> future[id[c]].state]
           /\ wire[s.at].id = id[c]
    BY <1>1, <2>1 DEF RpcInv, FuturesInv
  <2>3. PICK k \in DOMAIN wire :
           wire[k] = [method |-> method[c], id |-> id[c], by |-> c]
    BY <1>1 DEF RpcInv, WireInv
  <2>4. wire[k].id = id[c]
    BY <2>3
  <2>5. s.at = k
    BY <1>1, <2>1, <2>2, <2>4, OneMessage DEF RpcInv
  <2> QED
    BY <2>2, <2>3, <2>5
<1>2. TypeOK /\ RpcInv => OwnAnswer
  BY <1>1 DEF OwnAnswer
<1> QED
  BY <1>2, Invariant, PTL

\* Whoever waits for an open future can be woken.
THEOREM WaitersAreKnown == Spec => []AwaitedIsPending
<1>1. TypeOK /\ RpcInv => AwaitedIsPending
  BY DEF AwaitedIsPending, RpcInv, FuturesInv, IdsInv, TypeOK
<1> QED
  BY <1>1, Invariant, PTL

\* What an operation asks is written behind `initialized`, and that behind a
\* successful answer to `initialize`; request itself waits for neither.
THEOREM HandshakeFirst == Spec => []HandshakeOrder
<1>1. RpcInv => HandshakeOrder
  BY DEF RpcInv, HandshakeInv
<1> QED
  BY <1>1, Invariant, PTL

-----------------------------------------------------------------------------
(* One handshake at a time.                                                  *)

\* The initialize lock: its queue holds the calls in the handshake, each once;
\* a message of the handshake is in the hand of the holder, who found
\* _initialized unset.
InHandshake(c) == pc[c] = "entering" \/ method[c] \in {"initialize", "initialized"}

LockInv ==
    /\ NoDup(initLock)
    /\ \A c \in Callers : In(initLock, c) <=> InHandshake(c)
    /\ \A c \in Callers : method[c] \in {"initialize", "initialized"} =>
          HeadIs(initLock, c) /\ ~initialized

\* Steps that leave the lock and the handshake alone.
LEMMA SameLock ==
    ASSUME LockInv, UNCHANGED <<initLock, initialized>>,
           \A d \in Callers : /\ InHandshake(d)' <=> InHandshake(d)
                              /\ method'[d] \in {"initialize", "initialized"} =>
                                    method[d] \in {"initialize", "initialized"}
    PROVE  LockInv'
  BY DEF LockInv

\* A call that leaves the handshake leaves the queue; if it set _initialized it
\* was the holder.
LEMMA LeaveLock ==
    ASSUME TypeOK, LockInv, NEW c \in Callers, initLock' = Without(initLock, c),
           \A d \in Callers : d # c => pc'[d] = pc[d] /\ method'[d] = method[d],
           ~InHandshake(c)',
           initialized' = initialized \/ method[c] = "initialized"
    PROVE  LockInv'
<1>1. initLock \in Seq(Callers) /\ NoDup(initLock)
  BY DEF TypeOK, LockInv
<1>2. /\ NoDup(initLock')
      /\ \A d : In(initLock', d) <=> In(initLock, d) /\ d # c
      /\ \A d : HeadIs(initLock, d) /\ d # c => HeadIs(initLock', d)
  BY <1>1, WithoutProperties
<1>3. ASSUME NEW d \in Callers PROVE In(initLock', d) <=> InHandshake(d)'
  <2>1. CASE d = c
    BY <1>2, <2>1
  <2>2. CASE d # c
    BY <1>2, <2>2 DEF LockInv, InHandshake
  <2> QED
    BY <2>1, <2>2
<1>4. ASSUME NEW d \in Callers, method'[d] \in {"initialize", "initialized"}
      PROVE  HeadIs(initLock', d) /\ ~initialized'
  <2>1. d # c
    BY <1>4 DEF InHandshake
  <2>2. HeadIs(initLock, d) /\ ~initialized
    BY <1>4, <2>1 DEF LockInv
  <2>3. ~HeadIs(initLock, c)
    BY <2>1, <2>2 DEF HeadIs
  <2>4. initialized' = initialized
    BY <2>3 DEF LockInv
  <2> QED
    BY <1>2, <2>1, <2>2, <2>4
<1> QED
  BY <1>2, <1>3, <1>4 DEF LockInv

\* So does a call that returns or raises.
LEMMA LeavesLock ==
    ASSUME TypeOK, LockInv, NEW c \in Callers, Leave(c),
           initialized' = initialized \/ method[c] = "initialized"
    PROVE  LockInv'
<1>1. /\ initLock' = Without(initLock, c)
      /\ \A d \in Callers : d # c => pc'[d] = pc[d] /\ method'[d] = method[d]
      /\ ~InHandshake(c)'
  BY DEF Leave, InHandshake, TypeOK
<1> QED
  BY <1>1, LeaveLock

\* And a call that goes on to its request, or has nothing left to do.
LEMMA ProceedsLock ==
    ASSUME TypeOK, LockInv, NEW c \in Callers, NEW queue, Proceed(c, queue),
           initialized' = initialized \/ method[c] = "initialized"
    PROVE  LockInv'
<1>1. CASE Ask(c, "operation", queue) /\ initLock' = Without(initLock, c)
  <2>1. /\ \A d \in Callers : d # c => pc'[d] = pc[d] /\ method'[d] = method[d]
        /\ ~InHandshake(c)'
    BY <1>1 DEF Ask, InHandshake, TypeOK
  <2> QED
    BY <1>1, <2>1, LeaveLock
<1>2. CASE Returns(c)
  BY <1>2, LeavesLock DEF Returns
<1> QED
  BY <1>1, <1>2 DEF Proceed

\* Every step keeps the lock invariant.
LEMMA LockNext == TypeOK /\ IdsInv /\ LockInv /\ [Next]_vars => LockInv'
<1> SUFFICES ASSUME TypeOK, IdsInv, LockInv, [Next]_vars PROVE LockInv'
  OBVIOUS
<1>1. ASSUME NEW c \in Callers, NEW w \in {"initialize", "operation"}, CallInitialize(c, w)
      PROVE  LockInv'
  <2>1. /\ pc'[c] = "entering" /\ method' = method /\ initialized' = initialized
        /\ \A d \in Callers : d # c => pc'[d] = pc[d]
        /\ initLock' = Join(initLock, c) /\ initLock \in Seq(Callers)
    BY <1>1 DEF CallInitialize, TypeOK
  <2>2. ~InHandshake(c)
    BY <1>1 DEF CallInitialize, IdsInv, InRequest, InHandshake
  <2>3. /\ \A d : In(initLock', d) <=> In(initLock, d) \/ d = c
        /\ NoDup(initLock')
        /\ \A d : HeadIs(initLock, d) => HeadIs(initLock', d)
    BY <2>1, <2>2, JoinProperties DEF LockInv
  <2>4. ASSUME NEW d \in Callers PROVE In(initLock', d) <=> InHandshake(d)'
    <3>1. CASE d = c
      BY <2>1, <2>3, <3>1 DEF InHandshake
    <3>2. CASE d # c
      BY <2>1, <2>3, <3>2 DEF LockInv, InHandshake
    <3> QED
      BY <3>1, <3>2
  <2> QED
    BY <2>1, <2>3, <2>4 DEF LockInv
<1>2. ASSUME NEW c \in Callers, CallRequest(c) PROVE LockInv'
  <2>1. ASSUME NEW d \in Callers
        PROVE  /\ InHandshake(d)' <=> InHandshake(d)
               /\ method'[d] \in {"initialize", "initialized"} =>
                     method[d] \in {"initialize", "initialized"}
    <3>1. pc[c] = "idle" /\ method[c] = "none" /\ pc'[c] = "sending" /\ method'[c] = "request"
      <4>1. pc[c] = "idle" /\ method[c] = "none"
        BY <1>2 DEF CallRequest, IdsInv, InRequest
      <4>2. pc'[c] = "sending" /\ method'[c] = "request"
        BY <1>2 DEF CallRequest, Ask, TypeOK
      <4> QED
        BY <4>1, <4>2
    <3>3. CASE d = c
      BY <3>1, <3>3 DEF InHandshake
    <3>2. CASE d # c
      BY <1>2, <3>2 DEF CallRequest, Ask, InHandshake, TypeOK
    <3> QED
      BY <3>2, <3>3
  <2> QED
    BY <1>2, <2>1, SameLock DEF CallRequest
<1>12. ASSUME NEW c \in Callers, CallOperation(c) PROVE LockInv'
  <2>1. ASSUME NEW d \in Callers
        PROVE  /\ InHandshake(d)' <=> InHandshake(d)
               /\ method'[d] \in {"initialize", "initialized"} =>
                     method[d] \in {"initialize", "initialized"}
    <3>1. pc[c] = "idle" /\ method[c] = "none" /\ pc'[c] = "sending" /\ method'[c] = "operation"
      <4>1. pc[c] = "idle" /\ method[c] = "none"
        BY <1>12 DEF CallOperation, IdsInv, InRequest
      <4>2. pc'[c] = "sending" /\ method'[c] = "operation"
        BY <1>12 DEF CallOperation, Ask, TypeOK
      <4> QED
        BY <4>1, <4>2
    <3>3. CASE d = c
      BY <3>1, <3>3 DEF InHandshake
    <3>2. CASE d # c
      BY <1>12, <3>2 DEF CallOperation, Ask, InHandshake, TypeOK
    <3> QED
      BY <3>2, <3>3
  <2> QED
    BY <1>12, <2>1, SameLock DEF CallOperation
<1>3. ASSUME NEW c \in Callers, Cancelled(c) \/ SendFails(c) \/ TimesOut(c) PROVE LockInv'
  BY <1>3, LeavesLock DEF Cancelled, SendFails, TimesOut, Raises
<1>4. ASSUME NEW c \in Callers, EnterInitialize(c) PROVE LockInv'
  <2>1. CASE Returns(c)
    BY <1>4, <2>1, LeavesLock DEF EnterInitialize, Returns
  <2>2. CASE Proceed(c, sendLock)
    BY <1>4, <2>2, ProceedsLock DEF EnterInitialize
  <2>3. CASE ~initialized /\ Ask(c, "initialize", sendLock) /\ initLock' = initLock
    <3>1. /\ pc'[c] = "sending" /\ method'[c] = "initialize"
          /\ \A d \in Callers : d # c => pc'[d] = pc[d] /\ method'[d] = method[d]
      BY <2>3 DEF Ask, TypeOK
    <3>2. pc[c] = "entering" /\ HeadIs(initLock, c) /\ initialized' = initialized
      BY <1>4 DEF EnterInitialize
    <3>3. ASSUME NEW d \in Callers
          PROVE  /\ In(initLock', d) <=> InHandshake(d)'
                 /\ method'[d] \in {"initialize", "initialized"} =>
                       HeadIs(initLock', d) /\ ~initialized'
      <4>1. CASE d = c
        BY <2>3, <3>1, <3>2, <4>1 DEF LockInv, InHandshake
      <4>2. CASE d # c
        BY <2>3, <3>1, <3>2, <4>2 DEF LockInv, InHandshake
      <4> QED
        BY <4>1, <4>2
    <3> QED
      BY <2>3, <3>3 DEF LockInv
  <2> QED
    BY <1>4, <2>1, <2>2, <2>3 DEF EnterInitialize
<1>5. ASSUME NEW c \in Callers, Write(c) PROVE LockInv'
  <2>1. ASSUME NEW d \in Callers PROVE InHandshake(d)' <=> InHandshake(d)
    BY <1>5 DEF Write, InHandshake, TypeOK
  <2> QED
    BY <1>5, <2>1, SameLock DEF Write
<1>6. ASSUME NEW c \in Callers, Drained(c) PROVE LockInv'
  <2>1. CASE method[c] = "initialized"
    BY <1>6, <2>1, ProceedsLock DEF Drained
  <2>2. CASE method[c] # "initialized"
    <3>1. ASSUME NEW d \in Callers PROVE InHandshake(d)' <=> InHandshake(d)
      BY <1>6, <2>2 DEF Drained, InHandshake, TypeOK
    <3> QED
      BY <1>6, <2>2, <3>1, SameLock DEF Drained
  <2> QED
    BY <2>1, <2>2
<1>7. ASSUME NEW c \in Callers, Answered(c) PROVE LockInv'
  <2>1. CASE Leave(c)
    BY <1>7, <2>1, LeavesLock DEF Answered
  <2>2. CASE /\ method[c] = "initialize"
             /\ pc' = [pc EXCEPT ![c] = "sending"]
             /\ method' = [method EXCEPT ![c] = "initialized"]
             /\ UNCHANGED <<want, initLock>>
    <3>1. UNCHANGED <<initLock, initialized>>
      BY <1>7, <2>2 DEF Answered
    <3>2. ASSUME NEW d \in Callers
          PROVE  /\ InHandshake(d)' <=> InHandshake(d)
                 /\ method'[d] \in {"initialize", "initialized"} =>
                       method[d] \in {"initialize", "initialized"}
      <4>1. CASE d = c
        BY <2>2, <4>1 DEF InHandshake, TypeOK
      <4>2. CASE d # c
        BY <2>2, <4>2 DEF InHandshake, TypeOK
      <4> QED
        BY <4>1, <4>2
    <3> QED
      BY <3>1, <3>2, SameLock
  <2> QED
    BY <1>7, <2>1, <2>2 DEF Answered, Raises
<1>8. ASSUME UNCHANGED <<callVars, initLock, initialized>> PROVE LockInv'
  BY <1>8, SameLock DEF InHandshake, callVars
<1>9. CASE ServerStep
  BY <1>8, <1>9 DEF ServerStep, Receive
<1>10. CASE ReceiverFails \/ CloseBegins \/ CloseStep
  BY <1>8, <1>10 DEF ReceiverFails, CloseBegins, CloseStep, CloseClears, CloseEnds
<1>11. CASE UNCHANGED vars
  BY <1>8, <1>11 DEF vars
<1> QED
  BY <1>1, <1>2, <1>3, <1>4, <1>5, <1>6, <1>7, <1>9, <1>10, <1>11, <1>12
  DEF Next, AppStep, TaskStep, Progress

\* Initially no call is in the handshake and the lock is free.
LEMMA LockInit == Init => LockInv
  BY DEF Init, LockInv, InHandshake, NoDup, In, HeadIs

\* The initialize lock lets one call at a time into the handshake, and only
\* while the connection is not initialized.
THEOREM HandshakesAreSerial == Spec => HandshakeOnce
<1> DEFINE Once ==
      \A k \in DOMAIN wire' \ DOMAIN wire :
          wire'[k].method = "initialize" =>
             /\ ~initialized
             /\ \A c \in Callers : c # wire'[k].by =>
                   method[c] \notin {"initialize", "initialized"}
<1>1. TypeOK /\ RpcInv /\ LockInv /\ [Next]_vars => LockInv'
  BY LockNext DEF RpcInv
<1>2. ASSUME TypeOK, LockInv, [Next]_vars, NEW k \in DOMAIN wire' \ DOMAIN wire,
             wire'[k].method = "initialize"
      PROVE  /\ ~initialized
             /\ \A c \in Callers : c # wire'[k].by =>
                   method[c] \notin {"initialize", "initialized"}
  <2>1. PICK d \in Callers : Write(d)
    BY <1>2 DEF Next, AppStep, TaskStep, Progress, CallInitialize, CallRequest,
       CallOperation, Cancelled, EnterInitialize, SendFails, Drained, Answered, TimesOut,
       ServerStep, Receive, ReceiverFails, CloseBegins, CloseStep, CloseClears, CloseEnds, vars
  <2>2. wire'[k] = [method |-> method[d], id |-> id[d], by |-> d]
    <3>1. PICK n \in Nat :
             /\ DOMAIN wire = 1..n /\ DOMAIN wire' = 1..(n + 1)
             /\ wire'[n + 1] = [method |-> method[d], id |-> id[d], by |-> d]
      BY <1>2, <2>1, WriteShape
    <3>2. k = n + 1
      BY <1>2, <3>1
    <3> QED
      BY <3>1, <3>2
  <2>3. method[d] = "initialize" /\ wire'[k].by = d
    BY <1>2, <2>2
  <2>4. HeadIs(initLock, d) /\ ~initialized
    BY <1>2, <2>3 DEF LockInv
  <2>5. ASSUME NEW c \in Callers, c # d PROVE method[c] \notin {"initialize", "initialized"}
    BY <1>2, <2>4, <2>5 DEF LockInv, HeadIs
  <2> QED
    BY <2>3, <2>4, <2>5
<1>3. TypeOK /\ LockInv /\ [Next]_vars => [Once]_vars
  BY <1>2
<1> HIDE DEF Once
<1>4. Spec => [][Once]_vars
  BY <1>1, <1>3, LockInit, Invariant, PTL DEF Spec
<1> QED
  BY <1>4 DEF HandshakeOnce, Once

-----------------------------------------------------------------------------
(* What is left behind.                                                      *)

\* A future is done only once its entry has been taken out.
DoneInv == \A i \in Ids : Done(future[i]) => i \notin pending

\* A new request has an open future.
LEMMA AskDone ==
    ASSUME TypeOK, IdsInv, DoneInv, NEW c \in Callers, NEW queue, NEW m, Ask(c, m, queue)
    PROVE  DoneInv'
  BY DEF Ask, DoneInv, Done, TypeOK

\* Every step keeps DoneInv.
LEMMA DoneNext == TypeOK /\ IdsInv /\ DoneInv /\ [Next]_vars => DoneInv'
<1> SUFFICES ASSUME TypeOK, IdsInv, DoneInv, [Next]_vars PROVE DoneInv'
  OBVIOUS
<1>1. ASSUME UNCHANGED <<pending, future>> PROVE DoneInv'
  BY <1>1 DEF DoneInv, Done
<1>2. ASSUME NEW c \in Callers, NEW queue, Proceed(c, queue) PROVE DoneInv'
  BY <1>1, <1>2, AskDone DEF Proceed
<1>3. ASSUME NEW c \in Callers, Settled(id[c], "cancelled"), pending' \subseteq pending
      PROVE  DoneInv'
  <2>1. \A i \in Ids : Done(future'[i]) => Done(future[i])
    BY <1>3 DEF Settled, Done, TypeOK
  <2> QED
    BY <1>3, <2>1 DEF DoneInv
<1>4. ASSUME NEW c \in Callers, AppStep(c) PROVE DoneInv'
  <2>1. CASE CallRequest(c) \/ CallOperation(c)
    BY <2>1, AskDone DEF CallRequest, CallOperation
  <2>2. CASE Cancelled(c)
    BY <1>1, <1>3, <2>2 DEF Cancelled
  <2> QED
    BY <1>1, <1>4, <2>1, <2>2 DEF AppStep, CallInitialize
<1>5. ASSUME NEW c \in Callers, TaskStep(c) PROVE DoneInv'
  <2>1. CASE EnterInitialize(c)
    BY <1>1, <1>2, <2>1, AskDone DEF EnterInitialize
  <2>2. CASE Drained(c)
    BY <1>1, <1>2, <2>2 DEF Drained
  <2>3. CASE TimesOut(c)
    BY <1>3, <2>3 DEF TimesOut
  <2> QED
    BY <1>1, <1>5, <2>1, <2>2, <2>3 DEF TaskStep, Progress, Write, SendFails, Answered
<1>6. CASE ServerStep
  <2>1. PICK k \in DOMAIN wire, kind \in {"answered"} \cup Refusals : Receive(k, kind)
    BY <1>6 DEF ServerStep
  <2> QED
    BY <2>1 DEF Receive, DoneInv, Done, TypeOK
<1>7. CASE ReceiverFails \/ CloseBegins \/ CloseStep
  BY <1>1, <1>7
  DEF ReceiverFails, CloseBegins, CloseStep, CloseClears, CloseEnds, FailPending, DoneInv
<1>8. CASE UNCHANGED vars
  BY <1>1, <1>8 DEF vars
<1> QED
  BY <1>4, <1>5, <1>6, <1>7, <1>8 DEF Next

\* A call leaves nothing in the table of pending requests, unless its write
\* failed or it was cancelled.
THEOREM NothingLeaks == Spec => NoLeak
<1> DEFINE Leaks == \A c \in Callers :
          pc[c] # "idle" /\ pc'[c] = "idle" /\ ~Cancelled(c) /\ ~SendFails(c)
          => id[c] \notin pending'
<1>1. TypeOK /\ RpcInv /\ DoneInv /\ [Next]_vars => DoneInv'
  BY DoneNext DEF RpcInv
<1>2. ASSUME TypeOK, RpcInv, DoneInv, DoneInv', TypeOK', [Next]_vars, NEW c \in Callers,
             pc[c] # "idle", pc'[c] = "idle", ~Cancelled(c), ~SendFails(c)
      PROVE  id[c] \notin pending'
  <2>1. 0 \notin pending'
    BY <1>2, IdsNat DEF TypeOK
  <2>2. id[c] # 0 => InRequest(c) /\ method[c] # "initialized"
    BY <1>2 DEF RpcInv, IdsInv
  <2>3. EnterInitialize(c) \/ Drained(c) \/ Answered(c) \/ TimesOut(c)
    <3>1. ASSUME NEW d \in Callers, d # c, AppStep(d) \/ TaskStep(d) PROVE FALSE
      BY <1>2, <3>1 DEF AppStep, TaskStep, Progress, CallInitialize, CallRequest,
         CallOperation, Cancelled, EnterInitialize, Write, SendFails, Drained, Answered,
         TimesOut, Raises, Returns, Leave, Proceed, Ask, TypeOK
    <3>2. ~UNCHANGED pc
      BY <1>2
    <3>3. AppStep(c) \/ TaskStep(c)
      BY <1>2, <3>1, <3>2 DEF Next, ServerStep, Receive, ReceiverFails, CloseBegins,
         CloseStep, CloseClears, CloseEnds, vars, callVars
    <3>4. /\ \A w : ~CallInitialize(c, w)
          /\ ~CallRequest(c) /\ ~CallOperation(c) /\ ~Write(c)
      BY <1>2 DEF CallInitialize, CallRequest, CallOperation, Write, TypeOK
    <3> QED
      BY <1>2, <3>3, <3>4 DEF AppStep, TaskStep, Progress
  <2>4. CASE EnterInitialize(c)
    BY <2>1, <2>2, <2>4 DEF EnterInitialize, InRequest
  <2>5. CASE Drained(c)
    BY <1>2, <2>1, <2>2, <2>5 DEF Drained, TypeOK
  <2>6. CASE Answered(c)
    BY <1>2, <2>1, <2>6 DEF Answered, DoneInv, TypeOK
  <2>7. CASE TimesOut(c)
    BY <2>7 DEF TimesOut
  <2> QED
    BY <2>3, <2>4, <2>5, <2>6, <2>7
<1>3. TypeOK /\ RpcInv /\ DoneInv /\ TypeOK' /\ DoneInv' /\ [Next]_vars => [Leaks]_vars
  BY <1>2
<1>4. Init => DoneInv
  BY DEF Init, DoneInv
<1> HIDE DEF Leaks
<1>5. Spec => [][Leaks]_vars
  BY <1>1, <1>3, <1>4, Invariant, PTL DEF Spec
<1> QED
  BY <1>5 DEF NoLeak, Leaks

-----------------------------------------------------------------------------
(* The refinement of RequestReply.                                           *)

\* An id that has not been handed out has no answer, and no status but "new".
LEMMA NewIds ==
    ASSUME TypeOK, RpcInv, NEW i \in Ids, i >= nextId
    PROVE  outcome[i] = "none" /\ ~IsServed(i) /\ Status(i) = "new"
<1>1. ASSUME NEW s \in served PROVE wire[s.at].id # i
  <2>1. s.at \in DOMAIN wire
    BY DEF TypeOK
  <2>2. wire[s.at].id < nextId /\ wire[s.at] \in Message
    BY <2>1, ElementOfSeq, LenProperties DEF RpcInv, WireInv, TypeOK
  <2> QED
    BY <2>2, IdsNat DEF Message, TypeOK
<1> QED
  BY <1>1 DEF Status, IsServed, RpcInv, IdsInv

\* When exactly one request changes its status, the abstract state moves it.
LEMMA MoveStatus ==
    ASSUME NEW i \in Ids, NEW from, NEW to, Status(i) \in from, Status(i)' = to,
           \A j \in Ids : j # i => Status(j)' = Status(j), Closed' = Closed
    PROVE  Abstract!Move(i, from, to)
  BY DEF Abstract!Move

\* When none does, it stutters.
LEMMA NoMove ==
    ASSUME \A j \in Ids : Status(j)' = Status(j), Closed' = Closed
    PROVE  UNCHANGED <<[i \in Ids |-> Status(i)], ~Closed>>
  OBVIOUS

\* A new request is asked.
LEMMA AskStep ==
    ASSUME TypeOK, RpcInv, NEW c \in Callers, NEW queue, NEW m, Ask(c, m, queue), ~Closed,
           UNCHANGED <<wire, served, link, outcome>>
    PROVE  Abstract!Next
<1>1. PICK i \in Ids : i = nextId /\ nextId' = i + 1
  BY RequestsAssumption DEF Ask, TypeOK, Ids
<1>2. i >= nextId
  BY <1>1, IdsNat
<1>3. outcome[i] = "none" /\ ~IsServed(i) /\ Status(i) = "new"
  BY <1>2, NewIds
<1>4. Status(i)' = "asked"
  BY <1>1, <1>3, IdsNat DEF Status, IsServed
<1>5. ASSUME NEW j \in Ids, j # i PROVE Status(j)' = Status(j)
  <2>1. j >= nextId' <=> j >= nextId
    BY <1>1, <1>5, IdsNat
  <2> QED
    BY <2>1 DEF Status, IsServed
<1>6. Closed' = Closed
  BY DEF Closed
<1>7. Abstract!Move(i, {"new"}, "asked")
  BY <1>3, <1>4, <1>5, <1>6, MoveStatus
<1> QED
  BY <1>7 DEF Abstract!Next, Abstract!Ask

\* A step that ends the request of a call, if it has one, with `kind`.
LEMMA EndStep ==
    ASSUME TypeOK, RpcInv, NEW c \in Callers, NEW kind, Ends(c, kind),
           UNCHANGED <<wire, served, link, nextId>>,
           \/ kind = "raised"
           \/ kind = "answered" /\ pc[c] = "awaiting" /\ future[id[c]].state = "answered"
    PROVE  [Abstract!Next]_<<[i \in Ids |-> Status(i)], ~Closed>>
<1>1. Closed' = Closed
  BY DEF Closed
<1>2. CASE id[c] = 0
  <2>1. outcome' = outcome
    BY <1>2 DEF Ends
  <2>2. \A j \in Ids : Status(j)' = Status(j)
    BY <2>1 DEF Status, IsServed
  <2> QED
    BY <1>1, <2>2, NoMove
<1>3. CASE id[c] # 0
  <2>1. id[c] \in Ids /\ id[c] < nextId /\ outcome[id[c]] = "none"
    BY <1>3 DEF RpcInv, IdsInv, TypeOK
  <2>2. outcome'[id[c]] = kind /\ \A j \in Ids : j # id[c] => outcome'[j] = outcome[j]
    BY <1>3, <2>1 DEF Ends, TypeOK
  <2>3. PICK i \in Ids : i = id[c]
    BY <2>1
  <2>4. \A j \in Ids : j # i => Status(j)' = Status(j)
    BY <2>2, <2>3 DEF Status, IsServed
  <2>5. kind # "none" /\ outcome'[i] = kind
    BY <2>2, <2>3
  <2>6. Status(i)' = kind
    BY <2>5 DEF Status
  <2>7. ~(i >= nextId) /\ outcome[i] = "none"
    BY <2>1, <2>3, IdsNat DEF TypeOK
  <2>10. Status(i) \in {"asked", "served"}
    BY <2>7 DEF Status
  <2>8. CASE kind = "raised"
    <3>1. Abstract!Move(i, {"asked", "served"}, "raised")
      BY <1>1, <2>4, <2>6, <2>8, <2>10, MoveStatus
    <3> QED
      BY <3>1 DEF Abstract!Next, Abstract!Raise
  <2>9. CASE kind = "answered" /\ future[i].state = "answered"
    <3>1. IsServed(i)
      BY <2>9 DEF IsServed, RpcInv, FuturesInv
    <3>2. Status(i) = "served"
      BY <2>7, <3>1 DEF Status
    <3>3. Abstract!Move(i, {"served"}, "answered")
      BY <1>1, <2>4, <2>6, <2>9, <3>2, MoveStatus
    <3> QED
      BY <3>3 DEF Abstract!Next, Abstract!Answer
  <2> QED
    BY <2>3, <2>8, <2>9
<1> QED
  BY <1>2, <1>3

\* Every step of the request layer is a step of RequestReply or a stutter.
LEMMA StepRefines ==
    TypeOK /\ RpcInv /\ [Next]_vars
        => [Abstract!Next]_<<[i \in Ids |-> Status(i)], ~Closed>>
<1> SUFFICES ASSUME TypeOK, RpcInv, [Next]_vars
             PROVE  [Abstract!Next]_<<[i \in Ids |-> Status(i)], ~Closed>>
  OBVIOUS
<1>1. ASSUME UNCHANGED <<wire, served, link, nextId, outcome>>
      PROVE  [Abstract!Next]_<<[i \in Ids |-> Status(i)], ~Closed>>
  <2>1. \A j \in Ids : Status(j)' = Status(j)
    BY <1>1 DEF Status, IsServed
  <2>2. Closed' = Closed
    BY <1>1 DEF Closed
  <2> QED
    BY <2>1, <2>2, NoMove
<1>2. ASSUME NEW c \in Callers, NEW queue, Proceed(c, queue), UNCHANGED <<wire, served, link>>
      PROVE  [Abstract!Next]_<<[i \in Ids |-> Status(i)], ~Closed>>
  <2>1. CASE ~Closed /\ Ask(c, "operation", queue) /\ UNCHANGED outcome
    BY <1>2, <2>1, AskStep
  <2>2. CASE Returns(c) /\ UNCHANGED <<nextId, pending, future>>
    BY <1>1, <1>2, <2>2 DEF Returns
  <2> QED
    BY <1>2, <2>1, <2>2 DEF Proceed
<1>3. ASSUME NEW c \in Callers, AppStep(c)
      PROVE  [Abstract!Next]_<<[i \in Ids |-> Status(i)], ~Closed>>
  <2>1. ASSUME NEW w \in {"initialize", "operation"}, CallInitialize(c, w)
        PROVE  [Abstract!Next]_<<[i \in Ids |-> Status(i)], ~Closed>>
    BY <1>1, <2>1 DEF CallInitialize
  <2>2. CASE CallRequest(c) \/ CallOperation(c)
    BY <2>2, AskStep DEF CallRequest, CallOperation
  <2>3. CASE Cancelled(c)
    BY <2>3, EndStep DEF Cancelled, Raises
  <2> QED
    BY <1>3, <2>1, <2>2, <2>3 DEF AppStep
<1>4. ASSUME NEW c \in Callers, EnterInitialize(c)
      PROVE  [Abstract!Next]_<<[i \in Ids |-> Status(i)], ~Closed>>
  <2>1. CASE Returns(c) /\ UNCHANGED <<nextId, pending, future>>
    BY <1>1, <1>4, <2>1 DEF Returns, EnterInitialize
  <2>2. CASE Proceed(c, sendLock)
    BY <1>2, <1>4, <2>2 DEF EnterInitialize
  <2>3. CASE ~Closed /\ Ask(c, "initialize", sendLock) /\ UNCHANGED outcome
    BY <1>4, <2>3, AskStep DEF EnterInitialize
  <2> QED
    BY <1>4, <2>1, <2>2, <2>3 DEF EnterInitialize
<1>5. ASSUME NEW c \in Callers, Write(c)
      PROVE  [Abstract!Next]_<<[i \in Ids |-> Status(i)], ~Closed>>
  <2>1. UNCHANGED <<served, link, nextId, outcome>>
    BY <1>5 DEF Write
  <2>2. \A s \in served : wire'[s.at] = wire[s.at]
    <3>1. \A k \in DOMAIN wire : wire'[k] = wire[k]
      BY <1>5, WriteShape
    <3> QED
      BY <3>1 DEF TypeOK
  <2>3. \A j \in Ids : Status(j)' = Status(j)
    BY <2>1, <2>2 DEF Status, IsServed
  <2>4. Closed' = Closed
    BY <2>1 DEF Closed
  <2> QED
    BY <2>3, <2>4, NoMove
<1>6. ASSUME NEW c \in Callers, SendFails(c) \/ TimesOut(c)
      PROVE  [Abstract!Next]_<<[i \in Ids |-> Status(i)], ~Closed>>
  BY <1>6, EndStep DEF SendFails, TimesOut, Raises
<1>7. ASSUME NEW c \in Callers, Drained(c)
      PROVE  [Abstract!Next]_<<[i \in Ids |-> Status(i)], ~Closed>>
  <2>1. CASE method[c] = "initialized"
    BY <1>2, <1>7, <2>1 DEF Drained
  <2>2. CASE method[c] # "initialized"
    BY <1>1, <1>7, <2>2 DEF Drained
  <2> QED
    BY <2>1, <2>2
<1>8. ASSUME NEW c \in Callers, Answered(c)
      PROVE  [Abstract!Next]_<<[i \in Ids |-> Status(i)], ~Closed>>
  <2>1. CASE Ends(c, "raised")
    BY <1>8, <2>1, EndStep DEF Answered
  <2>2. CASE Ends(c, "answered") /\ future[id[c]].state = "answered"
    BY <1>8, <2>2, EndStep DEF Answered
  <2> QED
    BY <1>8, <2>1, <2>2 DEF Answered, Raises
<1>9. CASE ServerStep
  <2>1. PICK k \in DOMAIN wire, kind \in {"answered"} \cup Refusals : Receive(k, kind)
    BY <1>9 DEF ServerStep
  <2>2. /\ UNCHANGED <<wire, link, nextId, outcome>>
        /\ served' = served \cup {[at |-> k, kind |-> kind]}
    BY <2>1 DEF Receive
  <2>3. Closed' = Closed
    BY <2>2 DEF Closed
  <2>4. wire[k] \in Message /\ wire[k].id # 0 /\ wire[k].id < nextId
    BY <2>1, ElementOfSeq, LenProperties DEF Receive, RpcInv, WireInv, TypeOK
  <2>5. ASSUME NEW j \in Ids PROVE IsServed(j)' <=> IsServed(j) \/ j = wire[k].id
    <3>1. IsServed(j)' <=> \E s \in served' : wire[s.at].id = j
      BY <2>2 DEF IsServed
    <3>2. [at |-> k, kind |-> kind].at = k
      OBVIOUS
    <3>3. (\E s \in served' : wire[s.at].id = j) <=>
             (\E s \in served : wire[s.at].id = j) \/ wire[k].id = j
      BY <2>2, <3>2, Zenon
    <3> QED
      BY <3>1, <3>3, Zenon DEF IsServed
  <2>6. ASSUME NEW j \in Ids, j # wire[k].id PROVE Status(j)' = Status(j)
    BY <2>2, <2>5, <2>6 DEF Status
  <2>7. CASE wire[k].id \in Ids /\ outcome[wire[k].id] = "none" /\ ~IsServed(wire[k].id)
    <3>1. PICK i \in Ids : i = wire[k].id
      BY <2>7
    <3>2. ~(i >= nextId)
      BY <2>4, <3>1, IdsNat DEF TypeOK
    <3>4. Status(i) = "asked" /\ Status(i)' = "served"
      BY <2>2, <2>5, <2>7, <3>1, <3>2 DEF Status
    <3>3. Abstract!Move(i, {"asked"}, "served")
      BY <2>3, <2>6, <3>1, <3>4, MoveStatus
    <3> QED
      BY <3>3 DEF Abstract!Next, Abstract!Serve
  <2>8. CASE ~(wire[k].id \in Ids /\ outcome[wire[k].id] = "none" /\ ~IsServed(wire[k].id))
    <3>1. \A j \in Ids : Status(j)' = Status(j)
      BY <2>2, <2>5, <2>6, <2>8 DEF Status
    <3> QED
      BY <2>3, <3>1, NoMove
  <2> QED
    BY <2>7, <2>8
<1>10. ASSUME UNCHANGED <<wire, served, nextId, outcome>>, Closed'
       PROVE  [Abstract!Next]_<<[i \in Ids |-> Status(i)], ~Closed>>
  <2>1. \A j \in Ids : Status(j)' = Status(j)
    BY <1>10 DEF Status, IsServed
  <2> QED
    BY <1>10, <2>1 DEF Abstract!Next, Abstract!Close
<1>11. CASE CloseBegins \/ CloseStep
  BY <1>10, <1>11 DEF CloseBegins, CloseStep, CloseClears, CloseEnds, Closed
<1>12. CASE ReceiverFails
  <2>1. Closed' = Closed
    BY <1>12 DEF ReceiverFails, Closed
  <2>2. \A j \in Ids : Status(j)' = Status(j)
    BY <1>12 DEF ReceiverFails, Status, IsServed
  <2> QED
    BY <2>1, <2>2, NoMove
<1>13. CASE UNCHANGED vars
  BY <1>1, <1>13 DEF vars
<1> QED
  BY <1>3, <1>4, <1>5, <1>6, <1>7, <1>8, <1>9, <1>11, <1>12, <1>13 DEF Next, TaskStep, Progress

\* The request layer implements RequestReply: each request is asked once, ends
\* once, with an answer only if the server gave one, and none after close.
THEOREM Refinement == Spec => Implements
<1>1. Init => Abstract!Init
  BY IdsNat DEF Init, Abstract!Init, Status, IsServed, Closed
<1>2. TypeOK /\ RpcInv /\ [Next]_vars
         => [Abstract!Next]_<<[i \in Ids |-> Status(i)], ~Closed>>
  BY StepRefines
<1> QED
  BY <1>1, <1>2, Invariant, PTL DEF Spec, Implements, Abstract!Spec

=============================================================================
