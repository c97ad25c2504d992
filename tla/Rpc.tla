--------------------------------- MODULE Rpc ---------------------------------
(* The request layer of one started CodexClient: ids and futures, the send   *)
(* lock, the initialize handshake under its own lock, the receiver that      *)
(* routes answers, and close.                                                *)
(*                                                                           *)
(* Both locks are asyncio.Lock: see FifoLock.                                *)
EXTENDS FifoLock

CONSTANTS
    Callers,      \* application tasks, each making one call at a time
    Wants,        \* the kinds of call each of them makes: see AllWants
    Faults,       \* what may go wrong: see AllFaults
    MaxRequests   \* bound on request ids

AllWants == {"initialize", "operation", "request"}
AllFaults == {"timeout", "cancel", "sendFail", "error", "lost"}

ASSUME WantsAssumption == Wants \in [Callers -> SUBSET AllWants]
ASSUME FaultsAssumption == Faults \subseteq AllFaults
ASSUME RequestsAssumption == MaxRequests \in Nat

VARIABLES
    pc,          \* where each caller is suspended
    want,        \* what it called: initialize, an operation that calls it first
                 \* (chat and thread creation), or request, which does not
    method, id,  \* the message it has in hand, and its id (0: none)
    sendLock, initLock,  \* the tasks queued on each lock
    initialized, \* _initialized, set together with _initialize_result
    nextId,      \* _next_request_id
    pending,     \* keys of _pending
    future,      \* state of each future, and the message it was answered for
    wire,        \* messages written to the transport, in order (history)
    served,      \* positions of `wire` that the server answered, and how
    link,        \* up, failed, closing, cleared, closed
    outcome      \* how each request ended for its caller (history)

callVars == <<pc, want, method, id>>
vars == <<callVars, sendLock, initLock, initialized, nextId, pending, future,
          wire, served, link, outcome>>

Ids == 1..MaxRequests
Closed == link \in {"closing", "cleared", "closed"}

-----------------------------------------------------------------------------
(* Leaving a call.                                                           *)

\* Mutant: the send lock is not released by a call that fails.
LeaveHolding(c) ==
    /\ pc' = [pc EXCEPT ![c] = "idle"]
    /\ want' = [want EXCEPT ![c] = "none"]
    /\ method' = [method EXCEPT ![c] = "none"]
    /\ id' = [id EXCEPT ![c] = 0]
    /\ initLock' = Without(initLock, c)
    /\ UNCHANGED sendLock

\* The call returns or raises; `async with` releases whatever it holds or
\* waits for.
Leave(c) ==
    /\ pc' = [pc EXCEPT ![c] = "idle"]
    /\ want' = [want EXCEPT ![c] = "none"]
    /\ method' = [method EXCEPT ![c] = "none"]
    /\ id' = [id EXCEPT ![c] = 0]
    /\ sendLock' = Without(sendLock, c)
    /\ initLock' = Without(initLock, c)

\* How the request of the call, if it has one, ended.
Ends(c, kind) ==
    outcome' = IF id[c] = 0 THEN outcome ELSE [outcome EXCEPT ![id[c]] = kind]

Returns(c) == Leave(c) /\ UNCHANGED outcome
Raises(c) == Leave(c) /\ Ends(c, "raised")

-----------------------------------------------------------------------------
(* request.                                                                  *)

\* Mutant: the id is taken after the counter has moved.
AskAhead(c, m, queue) ==
    /\ nextId <= MaxRequests
    /\ nextId' = nextId + 1
    /\ future' = [future EXCEPT ![nextId + 1] = [state |-> "open", reply |-> 0]]
    /\ pending' = pending \cup {nextId + 1}
    /\ pc' = [pc EXCEPT ![c] = "sending"]
    /\ method' = [method EXCEPT ![c] = m]
    /\ id' = [id EXCEPT ![c] = nextId + 1]
    /\ sendLock' = Join(queue, c)

\* The synchronous start of request: a fresh id, a future, a pending entry,
\* and a place in the queue of the send lock (behind those already waiting).
Ask(c, m, queue) ==
    /\ nextId <= MaxRequests
    /\ nextId' = nextId + 1
    /\ future' = [future EXCEPT ![nextId] = [state |-> "open", reply |-> 0]]
    /\ pending' = pending \cup {nextId}
    /\ pc' = [pc EXCEPT ![c] = "sending"]
    /\ method' = [method EXCEPT ![c] = m]
    /\ id' = [id EXCEPT ![c] = nextId]
    /\ sendLock' = Join(queue, c)

\* Mutant: request does not look at _closed.
ProceedUnchecked(c, queue) ==
    \/ /\ want[c] = "operation"
       /\ Ask(c, "operation", queue)
       /\ initLock' = Without(initLock, c)
       /\ UNCHANGED <<want, outcome>>
    \/ /\ want[c] = "initialize"
       /\ Returns(c)
       /\ UNCHANGED <<nextId, pending, future>>

\* A call that is initialized goes on to what was wanted.
Proceed(c, queue) ==
    \/ /\ want[c] = "operation" /\ ~Closed
       /\ Ask(c, "operation", queue)
       /\ initLock' = Without(initLock, c)
       /\ UNCHANGED <<want, outcome>>
    \/ /\ want[c] = "initialize" \/ Closed
       /\ Returns(c)
       /\ UNCHANGED <<nextId, pending, future>>

\* CodexClient.initialize, or a method that calls it unless _initialized.
CallInitialize(c, w) ==
    /\ pc[c] = "idle" /\ w \in Wants[c]
    /\ w = "initialize" \/ ~initialized
    /\ pc' = [pc EXCEPT ![c] = "entering"]
    /\ want' = [want EXCEPT ![c] = w]
    /\ initLock' = Join(initLock, c)
    /\ UNCHANGED <<method, id, sendLock, initialized, nextId, pending, future,
                   wire, served, link, outcome>>

\* An operation on an initialized connection.
CallOperation(c) ==
    /\ pc[c] = "idle" /\ "operation" \in Wants[c] /\ initialized /\ ~Closed
    /\ want' = [want EXCEPT ![c] = "operation"]
    /\ Ask(c, "operation", sendLock)
    /\ UNCHANGED <<initLock, initialized, wire, served, link, outcome>>

\* request itself, and the methods that only wrap it: no handshake is needed.
CallRequest(c) ==
    /\ pc[c] = "idle" /\ "request" \in Wants[c] /\ ~Closed
    /\ want' = [want EXCEPT ![c] = "request"]
    /\ Ask(c, "request", sendLock)
    /\ UNCHANGED <<initLock, initialized, wire, served, link, outcome>>

\* Mutant: _initialized is not checked again under the lock.
EnterInitializeUnchecked(c) ==
    /\ pc[c] = "entering" /\ HeadIs(initLock, c)
    /\ \/ /\ Closed
          /\ Returns(c)
          /\ UNCHANGED <<nextId, pending, future>>
       \/ /\ ~Closed
          /\ Ask(c, "initialize", sendLock)
          /\ UNCHANGED <<want, initLock, outcome>>
    /\ UNCHANGED <<initialized, wire, served, link>>

\* Under the initialize lock: closed, cached, or the handshake.
EnterInitialize(c) ==
    /\ pc[c] = "entering" /\ HeadIs(initLock, c)
    /\ \/ /\ Closed
          /\ Returns(c)
          /\ UNCHANGED <<nextId, pending, future>>
       \/ /\ ~Closed /\ initialized
          /\ Proceed(c, sendLock)
       \/ /\ ~Closed /\ ~initialized
          /\ Ask(c, "initialize", sendLock)
          /\ UNCHANGED <<want, initLock, outcome>>
    /\ UNCHANGED <<initialized, wire, served, link>>

\* transport.send writes at once, then waits for the pipe to drain.
Write(c) ==
    /\ pc[c] = "sending" /\ HeadIs(sendLock, c) /\ link # "closed"
    /\ wire' = Append(wire, [method |-> method[c], id |-> id[c], by |-> c])
    /\ pc' = [pc EXCEPT ![c] = "draining"]
    /\ UNCHANGED <<want, method, id, sendLock, initLock, initialized, nextId,
                   pending, future, served, link, outcome>>

\* It raises before the write or after it; the pending entry stays.
SendFails(c) ==
    /\ pc[c] \in {"sending", "draining"} /\ HeadIs(sendLock, c)
    /\ "sendFail" \in Faults \/ link = "closed"
    /\ Raises(c)
    /\ UNCHANGED <<initialized, nextId, pending, future, wire, served, link>>

\* The send lock is released: to wait for the answer, or, when it was the
\* `initialized` notification, with the handshake complete.
Drained(c) ==
    /\ pc[c] = "draining"
    /\ IF method[c] = "initialized"
       THEN /\ initialized' = TRUE
            /\ Proceed(c, Without(sendLock, c))
       ELSE /\ pc' = [pc EXCEPT ![c] = "awaiting"]
            /\ sendLock' = Without(sendLock, c)
            /\ UNCHANGED <<want, method, id, initLock, initialized, nextId,
                           pending, future, outcome>>
    /\ UNCHANGED <<wire, served, link>>

Done(f) == f.state \in {"answered", "refused", "failed"}

\* Mutant: _initialized is set with the answer, before `initialized` is sent.
AnsweredEarly(c) ==
    LET f == future[id[c]] IN
    /\ pc[c] = "awaiting" /\ Done(f)
    /\ \/ /\ f.state = "answered" /\ method[c] = "initialize"
          /\ pc' = [pc EXCEPT ![c] = "sending"]
          /\ method' = [method EXCEPT ![c] = "initialized"]
          /\ id' = [id EXCEPT ![c] = 0]
          /\ sendLock' = Join(sendLock, c)
          /\ Ends(c, "answered")
          /\ initialized' = TRUE
          /\ UNCHANGED <<want, initLock>>
       \/ /\ f.state = "answered" /\ method[c] # "initialize"
          /\ Leave(c) /\ Ends(c, "answered")
          /\ UNCHANGED initialized
       \/ /\ f.state \in {"refused", "failed"}
          /\ Raises(c)
          /\ UNCHANGED initialized
    /\ UNCHANGED <<nextId, pending, future, wire, served, link>>

\* The future is done: `initialize` goes on to send `initialized`.
Answered(c) ==
    LET f == future[id[c]] IN
    /\ pc[c] = "awaiting" /\ Done(f)
    /\ \/ /\ f.state = "answered" /\ method[c] = "initialize"
          /\ pc' = [pc EXCEPT ![c] = "sending"]
          /\ method' = [method EXCEPT ![c] = "initialized"]
          /\ id' = [id EXCEPT ![c] = 0]
          /\ sendLock' = Join(sendLock, c)
          /\ Ends(c, "answered")
          /\ UNCHANGED <<want, initLock>>
       \/ /\ f.state = "answered" /\ method[c] # "initialize"
          /\ Leave(c) /\ Ends(c, "answered")
       \/ /\ f.state \in {"refused", "failed"}
          /\ Raises(c)
    /\ UNCHANGED <<initialized, nextId, pending, future, wire, served, link>>

Settled(i, state) ==
    future' = [future EXCEPT ![i].state = IF @ = "open" THEN state ELSE @]

\* wait_for times out, even when the answer was about to be delivered.
TimesOut(c) ==
    /\ pc[c] = "awaiting" /\ "timeout" \in Faults
    /\ pending' = pending \ {id[c]}
    /\ Settled(id[c], "cancelled")
    /\ Raises(c)
    /\ UNCHANGED <<initialized, nextId, wire, served, link>>

\* The task is cancelled; only wait_for cancels the future.
Cancelled(c) ==
    /\ pc[c] # "idle" /\ "cancel" \in Faults
    /\ IF pc[c] = "awaiting" THEN Settled(id[c], "cancelled")
                             ELSE UNCHANGED future
    /\ Raises(c)
    /\ UNCHANGED <<initialized, nextId, pending, wire, served, link>>

-----------------------------------------------------------------------------
(* The server, the receiver and close.                                       *)

\* Mutant: an answer is given to the oldest request that is pending.
ReceiveInOrder(k, kind) ==
    /\ link = "up"
    /\ wire[k].method # "initialized" /\ \A s \in served : s.at # k
    /\ served' = served \cup {[at |-> k, kind |-> kind]}
    /\ \E i \in pending :
          /\ \A j \in pending : i <= j
          /\ pending' = pending \ {i}
          /\ future' = IF future[i].state = "open"
                       THEN [future EXCEPT ![i] = [state |-> kind, reply |-> k]]
                       ELSE future
    /\ UNCHANGED <<callVars, sendLock, initLock, initialized, nextId, wire,
                   link, outcome>>

\* Mutant: the entry is looked up and stays in the table.
ReceiveKeeping(k, kind) ==
    LET i == wire[k].id IN
    /\ link = "up"
    /\ wire[k].method # "initialized" /\ \A s \in served : s.at # k
    /\ served' = served \cup {[at |-> k, kind |-> kind]}
    /\ future' = IF i \in pending /\ future[i].state = "open"
                 THEN [future EXCEPT ![i] = [state |-> kind, reply |-> k]]
                 ELSE future
    /\ UNCHANGED <<callVars, sendLock, initLock, initialized, nextId, pending,
                   wire, link, outcome>>

\* The server answers a request it read, in any order, and the receiver pops
\* the pending entry and completes its future.
Receive(k, kind) ==
    LET i == wire[k].id IN
    /\ link = "up"
    /\ wire[k].method # "initialized" /\ \A s \in served : s.at # k
    /\ served' = served \cup {[at |-> k, kind |-> kind]}
    /\ pending' = pending \ {i}
    /\ future' = IF i \in pending /\ future[i].state = "open"
                 THEN [future EXCEPT ![i] = [state |-> kind, reply |-> k]]
                 ELSE future
    /\ UNCHANGED <<callVars, sendLock, initLock, initialized, nextId, wire,
                   link, outcome>>

Refusals == IF "error" \in Faults THEN {"refused"} ELSE {}

\* Mutant: the entries are dropped and their futures forgotten.
FailPendingForgotten == pending' = {} /\ UNCHANGED future

\* Every pending future that is not done fails, and _pending is cleared.
FailPending ==
    /\ future' = [i \in Ids |->
                    IF i \in pending /\ future[i].state = "open"
                    THEN [future[i] EXCEPT !.state = "failed"] ELSE future[i]]
    /\ pending' = {}

\* _receiver_loop ends with an exception.
ReceiverFails ==
    /\ link = "up" /\ "lost" \in Faults
    /\ link' = "failed"
    /\ FailPending
    /\ UNCHANGED <<callVars, sendLock, initLock, initialized, nextId, wire,
                   served, outcome>>

\* close sets _closed and cancels the receiver; once that has ended it fails
\* what is pending; once the background tasks have ended it closes the pipe.
CloseBegins ==
    /\ link \in {"up", "failed"}
    /\ link' = "closing"
    /\ UNCHANGED <<callVars, sendLock, initLock, initialized, nextId, pending,
                   future, wire, served, outcome>>

CloseClears ==
    /\ link = "closing"
    /\ link' = "cleared"
    /\ FailPending
    /\ UNCHANGED <<callVars, sendLock, initLock, initialized, nextId, wire,
                   served, outcome>>

CloseEnds ==
    /\ link = "cleared"
    /\ link' = "closed"
    /\ UNCHANGED <<callVars, sendLock, initLock, initialized, nextId, pending,
                   future, wire, served, outcome>>

-----------------------------------------------------------------------------

Init ==
    /\ pc = [c \in Callers |-> "idle"]
    /\ want = [c \in Callers |-> "none"]
    /\ method = [c \in Callers |-> "none"]
    /\ id = [c \in Callers |-> 0]
    /\ sendLock = <<>> /\ initLock = <<>>
    /\ initialized = FALSE
    /\ nextId = 1 /\ pending = {}
    /\ future = [i \in Ids |-> [state |-> "none", reply |-> 0]]
    /\ wire = <<>> /\ served = {}
    /\ link = "up"
    /\ outcome = [i \in Ids |-> "none"]

AppStep(c) ==
    \/ \E w \in {"initialize", "operation"} : CallInitialize(c, w)
    \/ CallOperation(c) \/ CallRequest(c)
    \/ Cancelled(c)

\* What the event loop does for a call that can run, and the timer.
Progress(c) ==
    EnterInitialize(c) \/ Write(c) \/ SendFails(c) \/ Drained(c) \/ Answered(c)

TaskStep(c) == Progress(c) \/ TimesOut(c)

ServerStep ==
    \E k \in DOMAIN wire, kind \in {"answered"} \cup Refusals : Receive(k, kind)

CloseStep == CloseClears \/ CloseEnds

Next ==
    \/ \E c \in Callers : AppStep(c) \/ TaskStep(c)
    \/ ServerStep
    \/ ReceiverFails
    \/ CloseBegins \/ CloseStep

Spec == Init /\ [][Next]_vars

\* A call that can run is run, and a close that has begun goes on; no timer, no
\* answer and no cancellation is relied on.
FairSpec == Spec /\ WF_vars(CloseStep) /\ \A c \in Callers : WF_vars(Progress(c))

-----------------------------------------------------------------------------
(* Properties.                                                               *)

Methods == AllWants \cup {"initialized"}
Message == [method : Methods, id : Nat, by : Callers]
Busy == {"entering", "sending", "draining", "awaiting"}

TypeOK ==
    /\ pc \in [Callers -> {"idle"} \cup Busy]
    /\ want \in [Callers -> {"none"} \cup AllWants]
    /\ method \in [Callers -> {"none"} \cup Methods]
    /\ id \in [Callers -> Ids \cup {0}]
    /\ sendLock \in Seq(Callers) /\ initLock \in Seq(Callers)
    /\ initialized \in BOOLEAN
    /\ nextId \in Nat \ {0} /\ pending \subseteq Ids
    /\ future \in [Ids -> [state : {"none", "open", "answered", "refused",
                                    "failed", "cancelled"}, reply : Nat]]
    /\ wire \in Seq(Message)
    /\ served \subseteq [at : DOMAIN wire, kind : {"answered", "refused"}]
    /\ link \in {"up", "failed", "closing", "cleared", "closed"}
    /\ outcome \in [Ids -> {"none", "answered", "raised"}]
    /\ \A c \in Callers : method[c] = "none" => pc[c] \in {"idle", "entering"}

\* A call is only given the server's answer to the very message it wrote, even
\* if answers come in any order and after timeouts and cancellations.
OwnAnswer ==
    \A c \in Callers :
        LET f == future[id[c]] IN
        pc[c] = "awaiting" /\ f.state \in {"answered", "refused"} =>
            /\ [at |-> f.reply, kind |-> f.state] \in served
            /\ wire[f.reply] = [method |-> method[c], id |-> id[c], by |-> c]

\* A call that waits for an open future is known to the receiver, if one still
\* runs, and to close: an answer, a connection lost meanwhile, or a close will
\* find its future.
AwaitedIsPending ==
    \A c \in Callers :
        pc[c] \in {"sending", "draining", "awaiting"} /\ id[c] # 0
            /\ future[id[c]].state = "open"
        => id[c] \in pending /\ link \notin {"cleared", "closed"}

\* A call that ends, the answer come or not, leaves nothing in _pending.  The
\* code pops the entry when a request is answered and when it times out; the
\* two exits it does not clean up after are a failing write and cancellation.
NoLeak ==
    [][\A c \in Callers :
          pc[c] # "idle" /\ pc'[c] = "idle" /\ ~Cancelled(c) /\ ~SendFails(c)
          => id[c] \notin pending']_vars

\* "The high-level chat and thread-creation methods call this automatically":
\* what they ask is written behind `initialized`, and that is written after a
\* successful answer to `initialize`, however calls that initialize, time out
\* or are cancelled overlap.  (request and its wrappers do not wait for it.)
HandshakeOrder ==
    \A k \in DOMAIN wire :
        /\ wire[k].method = "operation" =>
              \E j \in 1..(k - 1) : wire[j].method = "initialized"
        /\ wire[k].method = "initialized" =>
              \E s \in served : /\ s.at < k /\ s.kind = "answered"
                                /\ wire[s.at].method = "initialize"

\* "Initialization runs once per connection, including concurrent first calls":
\* a handshake is begun on the wire only while the connection is not
\* initialized and no other call is between `initialize` and `initialized`.
HandshakeOnce ==
    [][\A k \in DOMAIN wire' \ DOMAIN wire :
          wire'[k].method = "initialize" =>
             /\ ~initialized
             /\ \A c \in Callers : c # wire'[k].by =>
                   method[c] \notin {"initialize", "initialized"}]_vars

\* The request layer keeps what RequestReply promises.
IsServed(i) == \E s \in served : wire[s.at].id = i

Status(i) ==
    IF outcome[i] # "none" THEN outcome[i]
    ELSE IF i >= nextId THEN "new"
    ELSE IF IsServed(i) THEN "served" ELSE "asked"

Abstract == INSTANCE RequestReply
            WITH status <- [i \in Ids |-> Status(i)], accepting <- ~Closed

Implements == Abstract!Spec

\* "pending requests fail with transport error when client closes": once close
\* has begun every call in progress ends, with no timeout to help it.
CloseEndsCalls ==
    \A c \in Callers : Closed /\ pc[c] # "idle" ~> pc[c] = "idle"
=============================================================================
