------------------------------- MODULE Prompts -------------------------------
(* The requests that the server makes of one CodexClient: approvals, user    *)
(* input, and requests the client does not support.  Each is parked in a     *)
(* table of pending requests; a background task (handler, automatic decline, *)
(* timeout) and calls of the application compete to respond to it, while the *)
(* server may resolve it and its turn may end.                               *)
(*                                                                           *)
(* A worker is a task: a call of the application, the background task of a   *)
(* prompt, named by the prompt, or the receiver.  Request ids are unique on  *)
(* the connection, so an id stands for the request.                          *)
EXTENDS FifoLock, FiniteSets

CONSTANTS
    Callers,    \* application tasks, each making one respond call at a time
    Shape,      \* what the server puts in each request, by request id
    Turns, TurnOf, \* the turn each prompt belongs to
    Receiver,   \* the receiver task
    NoPrompt,   \* a worker that responds to nothing
    HasTimeout, \* user_input_response_timeout is not None
    Decisions,  \* what the application responds with: see AllDecisions
    Faults,     \* what may go wrong: see AllFaults
    MaxAsked,   \* bound on the requests that the server makes
    MaxReplies  \* bound: no call responds to a prompt that has as many replies

AllFaults == {"cancel", "sendFail", "handlerFails"}
\* A decision by its name (or a UserInputResponse), an execpolicy amendment,
\* or anything else.
AllDecisions == {"plain", "amendment", "unknown"}

\* A request: its method, whether its params are an object, the required
\* strings among them and in each question ({{}} without a list of questions).
IdFields == {"threadId", "turnId", "itemId"}
QuestionFields == {"id", "header", "question"}
Requests == [method : {"command", "fileChange", "userInput", "other"},
             params : BOOLEAN,
             strings : SUBSET IdFields,
             questions : SUBSET SUBSET QuestionFields]

WellFormed(r) ==
    /\ r.params /\ r.strings = IdFields
    /\ r.method = "userInput" => r.questions \subseteq {QuestionFields}

Prompts == DOMAIN Shape
Parsed(methods) ==
    {p \in Prompts : Shape[p].method \in methods /\ WellFormed(Shape[p])}
Approvals == Parsed({"command", "fileChange"})
Inputs == Parsed({"userInput"})
Others == Prompts \ (Approvals \cup Inputs)
Workers == Callers \cup Prompts \cup {Receiver}

\* _encode_approval_result, _encode_user_input_response
Encodes(p, decision) ==
    \/ decision = "plain"
    \/ decision = "amendment" /\ Shape[p].method = "command"

ASSUME ChoicesAssumption == Faults \subseteq AllFaults /\ Decisions \subseteq AllDecisions
ASSUME TimeoutAssumption == HasTimeout \in BOOLEAN
ASSUME BoundAssumption == MaxAsked \in Nat /\ MaxReplies \in Nat
ASSUME ShapeAssumption == \A p \in Prompts : Shape[p] \in Requests
ASSUME WorkersAssumption ==
    /\ Callers \cap Prompts = {} /\ Receiver \notin Callers \cup Prompts
    /\ NoPrompt \notin Prompts
ASSUME TurnsAssumption == \A p \in Prompts : TurnOf[p] \in Turns

VARIABLES
    autoMode,   \* approval_mode = "auto"
    handlers,   \* which of _approval_handler, _user_input_handler are set
    asked,      \* prompts received (history)
    settled,    \* prompts the server has resolved or whose turn ended (history)
    pending,    \* keys of _pending_approval_requests, _pending_user_input_requests
    pc, on, saying, \* each worker: where it is suspended, its prompt, its reply
    sendLock,   \* the workers queued on _send_lock
    replies,    \* responses to each prompt written to the transport (history)
    gaveUp,     \* prompts that a responder failed with a reply in hand (history)
    link        \* up, failed, closing, closed

workVars == <<pc, on, saying>>
vars == <<autoMode, handlers, asked, settled, pending, workVars, sendLock,
          replies, gaveUp, link>>

-----------------------------------------------------------------------------
(* Responding.                                                               *)

\* The worker waits for the send lock with a reply in its hand.
Queue(w, p, reply) ==
    /\ pc' = [pc EXCEPT ![w] = "queued"]
    /\ on' = [on EXCEPT ![w] = p]
    /\ saying' = [saying EXCEPT ![w] = reply]
    /\ sendLock' = Join(sendLock, w)

\* Mutant: the lock is not released.
LeaveLocked(w) ==
    /\ pc' = [pc EXCEPT ![w] = "idle"]
    /\ on' = [on EXCEPT ![w] = NoPrompt]
    /\ saying' = [saying EXCEPT ![w] = "none"]
    /\ UNCHANGED sendLock

\* The task, or the call, ends; `async with` releases the lock.
Leave(w) ==
    /\ pc' = [pc EXCEPT ![w] = "idle"]
    /\ on' = [on EXCEPT ![w] = NoPrompt]
    /\ saying' = [saying EXCEPT ![w] = "none"]
    /\ sendLock' = Without(sendLock, w)

\* A responder fails, whether or not it has written its reply.
GiveUp(w) ==
    /\ Leave(w)
    /\ gaveUp' = IF pc[w] \in {"queued", "draining"} THEN gaveUp \cup {on[w]} ELSE gaveUp

\* Mutant: the entry of a user input stays in the table.
RespondKeeping(w, p, reply) ==
    /\ IF p \in Approvals \cup pending THEN Queue(w, p, reply) ELSE Leave(w)
    /\ UNCHANGED pending

\* Mutant: an approval too is taken out of the table first.
RespondPopping(w, p, reply) ==
    /\ IF p \in pending THEN Queue(w, p, reply) ELSE Leave(w)
    /\ pending' = pending \ {p}

\* respond_approval checks the table under the lock, respond_user_input takes
\* the entry out of it before the lock.
Respond(w, p, reply) ==
    IF p \in Approvals
    THEN Queue(w, p, reply) /\ UNCHANGED pending
    ELSE IF p \in pending
         THEN Queue(w, p, reply) /\ pending' = pending \ {p}
         ELSE Leave(w) /\ UNCHANGED pending

\* A response to a user input that cannot be encoded ends the call, after the
\* entry has been taken out of the table; an undecodable decision ends it before.
RespondUnreadable(w, p) ==
    /\ p \in Inputs
    /\ Leave(w)
    /\ pending' = pending \ {p}
    /\ gaveUp' = gaveUp \cup ({p} \cap pending)

RespondWith(w, p, decision) ==
    IF Encodes(p, decision)
    THEN Respond(w, p, "answer") /\ UNCHANGED gaveUp
    ELSE RespondUnreadable(w, p)

\* respond_approval, approve_approval, decline_approval, cancel_approval,
\* respond_user_input, respond_user_input_choice, respond_user_input_other
CallRespond(c, p, decision) ==
    /\ pc[c] = "idle" /\ p \in asked \ Others
    /\ Len(replies[p]) < MaxReplies
    /\ RespondWith(c, p, decision)
    /\ UNCHANGED <<autoMode, handlers, asked, settled, replies, link>>

\* respond_approval with a request object that is not the pending one, which
\* only the look under the lock finds out.
CallMismatched(c, p) ==
    /\ pc[c] = "idle" /\ p \in asked \cap Approvals
    /\ Len(replies[p]) < MaxReplies
    /\ Queue(c, p, "mismatch")
    /\ UNCHANGED <<autoMode, handlers, asked, settled, pending, replies, gaveUp, link>>

\* Mutant: the table is not looked at again under the lock.
MaySendAlways(w) == TRUE

\* Mutant: a user input, too, is looked for in the table under the lock.
MaySendParked(w) == saying[w] # "mismatch" /\ (on[w] \notin Others => on[w] \in pending)

\* Whether the worker that holds the lock still has something to respond to.
MaySend(w) == on[w] \in Approvals => on[w] \in pending /\ saying[w] # "mismatch"

Write(w) ==
    /\ pc[w] = "queued" /\ HeadIs(sendLock, w) /\ MaySend(w) /\ link # "closed"
    /\ replies' = [replies EXCEPT ![on[w]] = Append(@, saying[w])]
    /\ pc' = [pc EXCEPT ![w] = "draining"]
    /\ UNCHANGED <<autoMode, handlers, asked, settled, pending, on, saying,
                   sendLock, gaveUp, link>>

\* "approval request is no longer pending", "... does not match pending request"
NoLongerPending(w) ==
    /\ pc[w] = "queued" /\ HeadIs(sendLock, w) /\ ~MaySend(w)
    /\ Leave(w)
    /\ UNCHANGED <<autoMode, handlers, asked, settled, pending, replies, gaveUp, link>>

Drained(w) ==
    /\ pc[w] = "draining"
    /\ pending' = IF on[w] \in Approvals THEN pending \ {on[w]} ELSE pending
    /\ Leave(w)
    /\ UNCHANGED <<autoMode, handlers, asked, settled, replies, gaveUp, link>>

\* transport.send raises, before or after it has written.  It ends the
\* receiver loop when the receiver was responding.
SendFails(w) ==
    /\ pc[w] \in {"queued", "draining"} /\ HeadIs(sendLock, w)
    /\ pc[w] = "queued" => MaySend(w)
    /\ "sendFail" \in Faults \/ link = "closed"
    /\ GiveUp(w)
    /\ link' = IF w = Receiver /\ link = "up" THEN "failed" ELSE link
    /\ UNCHANGED <<autoMode, handlers, asked, settled, pending, replies>>

\* The application cancels the task of a call.
Cancelled(c) ==
    /\ pc[c] # "idle" /\ "cancel" \in Faults
    /\ GiveUp(c)
    /\ UNCHANGED <<autoMode, handlers, asked, settled, pending, replies, link>>

-----------------------------------------------------------------------------
(* The receiver.  It handles one message at a time, so it must be idle.      *)

Receiving == link = "up" /\ pc[Receiver] = "idle"

KindOf(p) == IF p \in Approvals THEN "approval" ELSE "input"
Handled(p) == KindOf(p) \in handlers

\* _handle_server_request parks a prompt and spawns its background task; what
\* it does not support or cannot parse, the receiver itself responds to.
ServerAsks(p) ==
    /\ Receiving /\ p \notin asked /\ Cardinality(asked) < MaxAsked
    /\ asked' = asked \cup {p}
    /\ IF p \in Others
       THEN Queue(Receiver, p, "error") /\ UNCHANGED pending
       ELSE /\ pending' = pending \cup {p}
            /\ pc' = [pc EXCEPT ![p] = IF Handled(p) THEN "spawnedHandler"
                                       ELSE IF p \in Approvals /\ ~autoMode
                                       THEN "idle" ELSE "spawnedAuto"]
            /\ UNCHANGED <<on, saying, sendLock>>
    /\ UNCHANGED <<autoMode, handlers, settled, replies, gaveUp, link>>

\* serverRequest/resolved: _resolve_server_request
ServerResolves(p) ==
    /\ Receiving /\ p \in asked \ (settled \cup Others)
    /\ settled' = settled \cup {p}
    /\ pending' = pending \ {p}
    /\ UNCHANGED <<autoMode, handlers, asked, workVars, sendLock, replies, gaveUp, link>>

\* A chat call has seen its turn end: _cleanup_turn_state
TurnReleased(t) ==
    LET ofTurn == {p \in asked : TurnOf[p] = t} IN
    /\ link # "closed"
    /\ settled' = settled \cup ofTurn
    /\ pending' = pending \ ofTurn
    /\ UNCHANGED <<autoMode, handlers, asked, workVars, sendLock, replies, gaveUp, link>>

-----------------------------------------------------------------------------
(* Background tasks.                                                         *)

\* set_approval_handler, set_user_input_handler, while a task may still look
SetHandler(kind) ==
    /\ link = "up"
    /\ \E p \in Prompts \ Others :
          KindOf(p) = kind /\ (p \notin asked \/ pc[p] = "spawnedHandler")
    /\ handlers' = IF kind \in handlers THEN handlers \ {kind}
                                        ELSE handlers \cup {kind}
    /\ UNCHANGED <<autoMode, asked, settled, pending, workVars, sendLock,
                   replies, gaveUp, link>>

\* A task looks for its handler when it first runs; without one it declines,
\* or waits for the timeout.
TaskStarts(p) ==
    /\ pc[p] \in {"spawnedHandler", "spawnedAuto"}
    /\ IF pc[p] = "spawnedHandler" /\ Handled(p)
       THEN pc' = [pc EXCEPT ![p] = "handling"] /\ UNCHANGED <<on, saying, sendLock>>
       ELSE IF p \in Approvals
       THEN IF autoMode THEN Queue(p, p, "decline") ELSE Leave(p)
       ELSE /\ pc' = [pc EXCEPT ![p] = IF HasTimeout THEN "sleeping" ELSE "idle"]
            /\ UNCHANGED <<on, saying, sendLock>>
    /\ UNCHANGED <<autoMode, handlers, asked, settled, pending, replies, gaveUp, link>>

\* A decision that cannot be encoded becomes "decline".
HandlerReturns(p, decision) ==
    /\ pc[p] = "handling"
    /\ IF p \in Approvals /\ ~Encodes(p, decision)
       THEN Respond(p, p, "decline") /\ UNCHANGED gaveUp
       ELSE RespondWith(p, p, decision)
    /\ UNCHANGED <<autoMode, handlers, asked, settled, replies, link>>

\* A handler raises: an approval is declined; a user input is failed, whether
\* or not it is still pending.
HandlerRaises(p) ==
    /\ pc[p] = "handling" /\ "handlerFails" \in Faults
    /\ Queue(p, p, IF p \in Approvals THEN "decline" ELSE "failed")
    /\ pending' = IF p \in Approvals THEN pending ELSE pending \ {p}
    /\ UNCHANGED <<autoMode, handlers, asked, settled, replies, gaveUp, link>>

\* _auto_fail_user_input after its sleep
TimesOut(p) ==
    /\ pc[p] = "sleeping"
    /\ Respond(p, p, "expired")
    /\ UNCHANGED <<autoMode, handlers, asked, settled, replies, gaveUp, link>>

-----------------------------------------------------------------------------
(* The end of the connection.                                                *)

ReceiverFails ==
    /\ Receiving
    /\ link' = "failed"
    /\ UNCHANGED <<autoMode, handlers, asked, settled, pending, workVars,
                   sendLock, replies, gaveUp>>

\* close sets _closed, cancels the receiver and then the background tasks ...
CloseBegins ==
    /\ link \in {"up", "failed"}
    /\ link' = "closing"
    /\ UNCHANGED <<autoMode, handlers, asked, settled, pending, workVars,
                   sendLock, replies, gaveUp>>

TaskCancelled(w) ==
    /\ link = "closing" /\ w \notin Callers /\ pc[w] # "idle"
    /\ GiveUp(w)
    /\ UNCHANGED <<autoMode, handlers, asked, settled, pending, replies, link>>

\* ... and, when they have ended, clears the tables and closes the transport.
CloseEnds ==
    /\ link = "closing" /\ \A w \in Workers \ Callers : pc[w] = "idle"
    /\ link' = "closed"
    /\ pending' = {} /\ handlers' = {}
    /\ UNCHANGED <<autoMode, asked, settled, workVars, sendLock, replies, gaveUp>>

-----------------------------------------------------------------------------

Init ==
    /\ autoMode \in BOOLEAN /\ handlers = {}
    /\ asked = {} /\ settled = {} /\ pending = {}
    /\ pc = [w \in Workers |-> "idle"]
    /\ on = [w \in Workers |-> NoPrompt]
    /\ saying = [w \in Workers |-> "none"]
    /\ sendLock = <<>> /\ replies = [p \in Prompts |-> <<>>]
    /\ gaveUp = {} /\ link = "up"

\* What a task does once the event loop gets to it.
TaskStep(w) ==
    \/ Write(w) \/ NoLongerPending(w) \/ Drained(w) \/ SendFails(w)
    \/ w \in Prompts /\ (TaskStarts(w) \/ TimesOut(w))

\* What the application and its handlers decide.
AppStep ==
    \/ \E kind \in {"approval", "input"} : SetHandler(kind)
    \/ \E c \in Callers, p \in Prompts :
          CallMismatched(c, p) \/ \E d \in Decisions : CallRespond(c, p, d)
    \/ \E c \in Callers : Cancelled(c)
    \/ \E p \in Prompts : HandlerRaises(p) \/ \E d \in Decisions : HandlerReturns(p, d)

ServerStep ==
    \/ \E p \in Prompts : ServerAsks(p) \/ ServerResolves(p)
    \/ \E t \in Turns : TurnReleased(t)

CloseStep == CloseBegins \/ CloseEnds \/ \E w \in Workers : TaskCancelled(w)

Next ==
    \/ \E w \in Workers : TaskStep(w)
    \/ AppStep \/ ServerStep \/ ReceiverFails \/ CloseStep

Spec == Init /\ [][Next]_vars

\* Tasks that can run are run, pipes drain and timers fire; handlers and the
\* application may take for ever.
FairSpec == Spec /\ \A w \in Workers : WF_vars(TaskStep(w))

-----------------------------------------------------------------------------
(* Properties.                                                               *)

Sayings == {"answer", "decline", "failed", "expired", "error"}

\* The values of the variables; a worker is in the queue of the send lock,
\* once, exactly while it has a reply in its hand.
TypeOK ==
    /\ autoMode \in BOOLEAN /\ handlers \subseteq {"approval", "input"}
    /\ asked \subseteq Prompts /\ settled \subseteq asked
    /\ pending \subseteq asked \ Others
    /\ pc \in [Workers -> {"idle", "spawnedHandler", "spawnedAuto", "handling",
                           "sleeping", "queued", "draining"}]
    /\ on \in [Workers -> Prompts \cup {NoPrompt}]
    /\ saying \in [Workers -> Sayings \cup {"none", "mismatch"}]
    /\ sendLock \in Seq(Workers) /\ NoDup(sendLock)
    /\ replies \in [Prompts -> Seq(Sayings)]
    /\ gaveUp \subseteq asked
    /\ link \in {"up", "failed", "closing", "closed"}
    /\ \A w \in Workers :
          /\ In(sendLock, w) <=> pc[w] \in {"queued", "draining"}
          /\ In(sendLock, w) <=> on[w] # NoPrompt

\* The responses that count, by their places.
Counted(p) == {k \in DOMAIN replies[p] : replies[p][k] # "failed"}

\* "Choose one response mechanism per request": even if an application does not,
\* and a handler, a timeout and calls respond to the same request at once, the
\* server gets one response to it.  Not counted are the response of a user-input
\* handler that raises, which the code sends whatever was sent before, and what
\* follows a decision whose responder failed before it could take the approval
\* out of the table.
OneReply ==
    \A p \in Prompts :
        p \in Approvals \cap gaveUp \/ \A j, k \in Counted(p) : j = k

\* "A server-cleared prompt must not accept a stale manual decision": no
\* decision is written about an approval that the server resolved or whose turn
\* ended, also when that happened while the decision waited for the lock.
NoStaleDecision ==
    [][\A p \in Approvals \cap settled : replies'[p] = replies[p]]_vars

\* "requests then remain pending until you answer them or the server resolves
\* them": an approval leaves the table in no other way, close apart, whatever
\* responders failed or were cancelled in between.
KeptUntilAnswered ==
    [][\A p \in Approvals \cap (pending \ pending') :
          replies'[p] # <<>> \/ p \in settled' \/ link' = "closed"]_vars

\* "unanswered requests receive error -32000 after user_input_response_timeout":
\* while the client is open, a user input that the server waits for, and got no
\* response to, is still pending or about to be responded to ...
InputNotForgotten ==
    link \in {"up", "failed"} =>
    \A p \in (Inputs \cap asked) \ settled :
        \/ p \in pending \/ replies[p] # <<>>
        \/ \E w \in Workers : on[w] = p

\* ... if no responder of it was cancelled, failed to write or had a response
\* that cannot be encoded.
InputKept ==
    link \in {"up", "failed"} =>
    \A p \in (Inputs \cap asked) \ (settled \cup gaveUp) :
        \/ p \in pending \/ replies[p] # <<>>
        \/ \E w \in Workers : on[w] = p

\* With nobody there to respond, the client does: an approval is declined in
\* the automatic mode, a user input fails when the timeout is set, and a request
\* that is unsupported or malformed is refused at once.
UnattendedAnswered ==
    \A p \in Prompts :
        \/ /\ pc[p] = "spawnedAuto" /\ (p \in Inputs => HasTimeout)
        \/ p \in asked \cap Others
        ~> replies[p] # <<>> \/ p \in settled \cup gaveUp \/ link # "up"
=============================================================================
