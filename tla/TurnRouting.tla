----------------------------- MODULE TurnRouting -----------------------------
(* Turns of one CodexClient: the shared buffer of notifications, the turn    *)
(* sessions, and the calls that consume them (chat_once, chat, cancel).      *)
(*                                                                           *)
(* asyncio runs one coroutine at a time, up to its next suspended await.     *)
(* `running` is the call that holds the event loop in the middle of such a   *)
(* stretch, NoCall while the loop is free: every other step then waits.      *)
(* A call that finds no event of its turn sleeps on the condition            *)
(* `_notification_ready` until notify_all, or its timer, wakes it.  Its lock *)
(* is only held within a stretch, so that nobody ever waits for it.          *)
(*                                                                           *)
(* `_deferred_notifications` is appended at its end and loses elements from  *)
(* anywhere, so it is the set of the positions, in the order of arrival,     *)
(* that are still buffered; its first element is the least of them.          *)
EXTENDS Integers, Sequences, FiniteSets

CONSTANTS
    Turns,        \* turn ids the server may hand out
    Calls,        \* application tasks, each making one call at a time
    ThreadOf,     \* the thread on which the server runs each turn
    Says,         \* kinds of notifications the server sends during a turn
    Items,        \* ids of completed items; NoId for an item without one
    Forms,        \* which ids the server's terminal envelopes carry
    HasTimeout,   \* an inactivity timeout is configured
    OneCallPerTurn, \* the application has one call at a time on a turn, and
                    \* resumes a continuation once
    SerialThreads,  \* the server runs one turn at a time on a thread
    MaxEvents,    \* bound on published notifications
    NoCall,       \* no call holds the event loop
    NoId          \* an identifier that an envelope, or a call, does not have

AllForms == {"turn", "thread", "bare"}

ASSUME TurnsAssumption == NoId \notin Turns
ASSUME CallsAssumption == NoCall \notin Calls
ASSUME FormsAssumption == Forms \subseteq AllForms
ASSUME SaysAssumption == Says \subseteq {"message", "tool", "delta"}
ASSUME BoundAssumption == MaxEvents \in Nat
ASSUME FlagsAssumption == {HasTimeout, OneCallPerTurn, SerialThreads} \subseteq BOOLEAN

VARIABLES
    verdict,   \* what the server holds of each turn
    arrived,   \* every notification published, in order (history)
    deferred,  \* positions of `arrived` in _deferred_notifications
    tracked,   \* keys of _turn_sessions
    session,   \* the _TurnSession objects; a call may outlive the key
    pc, op, turn, cursor, mark,  \* each call: where it is suspended, what it is
    token,     \* the continuation the application last got for each turn
    running,   \* the call in the middle of an uninterrupted stretch
    asleep,    \* the calls that wait for notify_all of _notification_ready
    link,      \* receiver and client life: up, failed, closing, closed
    yielded,   \* step indices handed to the application, per turn (history)
    reports    \* outcomes handed to the application (history)

callVars == <<pc, op, turn, cursor, mark>>
serverVars == <<verdict, arrived>>
history == <<yielded, reports>>
vars == <<verdict, arrived, deferred, tracked, session, pc, op, turn, cursor,
          mark, token, running, asleep, link, yielded, reports>>

-----------------------------------------------------------------------------
(* Notifications.  `owner` is the turn the server speaks of; only `turnId`   *)
(* and `threadId` are on the wire.                                           *)

Ended == {"success", "failed", "interrupted"}
ItemKinds == {"message", "tool"}
CompletedKinds == {"completed", "completedFailed", "completedInterrupted"}
TerminalKinds == CompletedKinds \cup {"turnFailed"}
Kinds == ItemKinds \cup {"delta"} \cup TerminalKinds

Envelope(t, form, kind, item) ==
    [owner    |-> t,
     turnId   |-> IF form = "turn" THEN t ELSE NoId,
     threadId |-> IF form \in {"turn", "thread"} THEN ThreadOf[t] ELSE NoId,
     kind     |-> kind,
     item     |-> item]

\* Mutant: a turn takes whatever its thread is named on.
EventIsForThread(e, t, keys) == e.threadId = ThreadOf[t]

\* CodexClient._event_is_for_turn, with `keys` the keys of _turn_sessions
EventIsForTurn(e, t, keys) ==
    LET onThread == {s \in keys : ThreadOf[s] = e.threadId} IN
    /\ e.threadId # NoId /\ t \in keys => e.threadId = ThreadOf[t]
    /\ \/ e.turnId = t
       \/ /\ e.turnId = NoId
          /\ e.kind \in TerminalKinds
          /\ IF e.threadId # NoId THEN onThread = {t} ELSE keys = {t}

Matching(t, keys) == {i \in deferred : EventIsForTurn(arrived[i], t, keys)}

\* Mutant: the newest match is taken first.
FoundNewest(t, i) ==
    i \in Matching(t, tracked) /\ \A j \in Matching(t, tracked) : j <= i

\* Mutant: only the head of the buffer is looked at.
FoundAtHead(t, i) == i \in Matching(t, tracked) /\ \A j \in deferred : i <= j

\* CodexClient._find_deferred_for_turn: the earliest buffered match
FoundFor(t, i) ==
    i \in Matching(t, tracked) /\ \A j \in Matching(t, tracked) : i <= j

\* CodexClient._drop_deferred_for_turn: what it drops.  _cleanup_turn_state
\* has already popped the session when it is called.
DroppedFor(t) == Matching(t, tracked \ {t})

-----------------------------------------------------------------------------
(* Sessions.                                                                 *)

NewSession == [raw |-> <<>>, steps |-> <<>>, message |-> FALSE,
               completed |-> FALSE, failed |-> FALSE, interrupted |-> FALSE]

RangeOf(s) == {s[i] : i \in DOMAIN s}

\* Item ids of the steps recorded so far (session.step_item_ids).
StepItems(s) == {arrived[s.raw[k]].item : k \in RangeOf(s.steps)}

IsNewStep(s, e) == e.kind \in ItemKinds /\ e.item \notin StepItems(s) \ {NoId}

VerdictOf(kind) ==
    CASE kind = "completed" -> "success"
      [] kind = "completedInterrupted" -> "interrupted"
      [] kind \in {"turnFailed", "completedFailed"} -> "failed"

\* Mutant: the status of turn/completed is not looked at.
ApplyIgnoringStatus(s, i) ==
    LET e == arrived[i] IN
    [s EXCEPT !.raw = Append(@, i),
              !.steps = IF IsNewStep(s, e) THEN Append(@, Len(s.raw) + 1) ELSE @,
              !.message = @ \/ e.kind = "message",
              !.completed = @ \/ e.kind \in CompletedKinds,
              !.failed = @ \/ e.kind = "turnFailed"]

\* CodexClient._apply_event_to_session
Apply(s, i) ==
    LET e == arrived[i] IN
    [raw       |-> Append(s.raw, i),
     steps     |-> IF IsNewStep(s, e) THEN Append(s.steps, Len(s.raw) + 1)
                                      ELSE s.steps,
     message   |-> s.message \/ e.kind = "message",
     completed |-> s.completed \/ e.kind \in CompletedKinds,
     failed    |-> IF e.kind \in CompletedKinds THEN e.kind = "completedFailed"
                   ELSE s.failed \/ e.kind = "turnFailed",
     interrupted |-> IF e.kind \in CompletedKinds
                     THEN e.kind = "completedInterrupted" ELSE s.interrupted]

Terminal(s) == s.completed \/ s.failed

-----------------------------------------------------------------------------
(* The server and the receiver.  A notification is sent, received and        *)
(* published in one step: the pipe is FIFO and its delay is the server's.    *)

Idle(c) == pc[c] = "idle"
Free == running = NoCall
Holds(c) == running = c
NotifyAll == asleep' = {}

\* Mutant: the place in the buffer is off by one.
PublishOneOff(e) ==
    /\ Free /\ link = "up" /\ Len(arrived) < MaxEvents
    /\ arrived' = Append(arrived, e)
    /\ deferred' = deferred \cup {Len(arrived)}
    /\ NotifyAll
    /\ UNCHANGED <<tracked, session, callVars, token, running, link, history>>

\* Mutant: one waiter is notified.
PublishToOne(e) ==
    /\ Free /\ link = "up" /\ Len(arrived) < MaxEvents
    /\ arrived' = Append(arrived, e)
    /\ deferred' = deferred \cup {Len(arrived) + 1}
    /\ IF asleep = {} THEN UNCHANGED asleep
                      ELSE \E c \in asleep : asleep' = asleep \ {c}
    /\ UNCHANGED <<tracked, session, callVars, token, running, link, history>>

\* CodexClient._publish_notification
Publish(e) ==
    /\ Free /\ link = "up" /\ Len(arrived) < MaxEvents
    /\ arrived' = Append(arrived, e)
    /\ deferred' = deferred \cup {Len(arrived) + 1}
    /\ NotifyAll
    /\ UNCHANGED <<tracked, session, callVars, token, running, link, history>>

EmitItem(t) ==
    /\ verdict[t] = "running"
    /\ \E kind \in Says, item \in Items \cup {NoId} :
          /\ item \in IF kind = "delta" THEN {NoId} ELSE Items
          /\ Publish(Envelope(t, "turn", kind, item))
    /\ UNCHANGED verdict

\* The end of a turn, told by turn/completed with a status or by turn/failed.
EmitTerminal(t) ==
    /\ verdict[t] = "running"
    /\ \E form \in Forms, kind \in TerminalKinds :
          /\ Publish(Envelope(t, form, kind, NoId))
          /\ verdict' = [verdict EXCEPT ![t] = VerdictOf(kind)]

\* turn/failed is followed by a turn/completed with the same verdict.
EmitEcho(t) ==
    /\ \E i \in DOMAIN arrived : /\ arrived[i].owner = t
                                 /\ arrived[i].kind = "turnFailed"
    /\ ~ \E i \in DOMAIN arrived : /\ arrived[i].owner = t
                                   /\ arrived[i].kind = "completedFailed"
    /\ \E form \in Forms : Publish(Envelope(t, form, "completedFailed", NoId))
    /\ UNCHANGED verdict

\* CodexClient._receiver_loop ends with an exception.
ReceiverFails ==
    /\ Free /\ link = "up"
    /\ link' = "failed"
    /\ NotifyAll
    /\ UNCHANGED <<serverVars, deferred, tracked, session, callVars, token,
                   running, history>>

\* Mutant: close does not wake the consumers.
CloseBeginsSilently ==
    /\ Free /\ link \in {"up", "failed"}
    /\ link' = "closing"
    /\ UNCHANGED <<serverVars, deferred, tracked, session, callVars, token,
                   running, asleep, history>>

\* CodexClient.close sets _closed and wakes the consumers ...
CloseBegins ==
    /\ Free /\ link \in {"up", "failed"}
    /\ link' = "closing"
    /\ NotifyAll
    /\ UNCHANGED <<serverVars, deferred, tracked, session, callVars, token,
                   running, history>>

\* ... and, after it has awaited the receiver and the background tasks,
\* clears the turn state.
CloseClears ==
    /\ Free /\ link = "closing"
    /\ link' = "closed"
    /\ tracked' = {} /\ deferred' = {}
    /\ UNCHANGED <<serverVars, session, callVars, token, running, asleep, history>>

-----------------------------------------------------------------------------
(* Leaving a call.                                                           *)

\* Suspended at an await or a yield, holding the loop for the next block, or
\* suspended until the condition is notified.
Goes(c, where, holder) == pc' = [pc EXCEPT ![c] = where] /\ running' = holder
Suspend(c, where) == Goes(c, where, NoCall) /\ asleep' = asleep \ {c}
Continue(c, where) == Goes(c, where, c) /\ asleep' = asleep \ {c}
Sleep(c, where) == Goes(c, where, NoCall) /\ asleep' = asleep \cup {c}

Leave(c) ==
    /\ Suspend(c, "idle")
    /\ op' = [op EXCEPT ![c] = "none"]
    /\ turn' = [turn EXCEPT ![c] = NoId]
    /\ cursor' = [cursor EXCEPT ![c] = 0]
    /\ mark' = [mark EXCEPT ![c] = 1]

\* CodexClient._cleanup_turn_state
Cleanup(t) ==
    /\ tracked' = tracked \ {t}
    /\ deferred' = deferred \ DroppedFor(t)

\* The call hands out the outcome of its turn, which leaves the client.
Settle(c, kind) ==
    /\ Cleanup(turn[c])
    /\ reports' = reports \cup {[turn |-> turn[c], op |-> op[c], kind |-> kind]}
    /\ Leave(c)
    /\ UNCHANGED <<serverVars, session, token, link>>

\* The call raises without an outcome; its turn stays as it is.
GiveUp(c) ==
    /\ Leave(c)
    /\ UNCHANGED <<serverVars, deferred, tracked, session, link, history>>

-----------------------------------------------------------------------------
(* chat_once and chat.                                                       *)

OnTurn(t) == {c \in Calls : pc[c] # "idle" /\ turn[c] = t}
NoToken == [mode |-> "none", cursor |-> 0]
MayCall(c, t) == Free /\ Idle(c) /\ (OneCallPerTurn => OnTurn(t) = {})

\* _start_chat_turn up to its turn/start request, on which the server acts.
StartTurn(c, t) ==
    /\ MayCall(c, t) /\ link = "up" /\ verdict[t] = "none"
    /\ SerialThreads => \A s \in Turns : ThreadOf[s] = ThreadOf[t] =>
                                            verdict[s] # "running"
    /\ verdict' = [verdict EXCEPT ![t] = "running"]
    /\ \E o \in {"once", "stream"} : op' = [op EXCEPT ![c] = o]
    /\ turn' = [turn EXCEPT ![c] = t]
    /\ cursor' = [cursor EXCEPT ![c] = 0]
    /\ mark' = [mark EXCEPT ![c] = 1]
    /\ Suspend(c, "starting")
    /\ UNCHANGED <<arrived, deferred, tracked, session, token, link, history>>

\* The answer to turn/start creates the session; events may have come before.
TurnStarted(c) ==
    /\ Free /\ pc[c] = "starting"
    /\ tracked' = tracked \cup {turn[c]}
    /\ Continue(c, IF op[c] = "stream" THEN "backlog" ELSE "top")
    /\ UNCHANGED <<serverVars, deferred, session, op, turn, cursor, mark, token,
                   link, history>>

\* turn/start times out, fails or names no turn: the turn runs unknown to us.
StartFails(c) ==
    /\ Free /\ pc[c] = "starting"
    /\ GiveUp(c)
    /\ UNCHANGED token

\* _get_continuation_session and the cursor of the continuation.
Resume(c, t) ==
    /\ MayCall(c, t) /\ token[t].mode # "none" /\ t \in tracked
    /\ op' = [op EXCEPT ![c] = token[t].mode]
    /\ turn' = [turn EXCEPT ![c] = t]
    /\ cursor' = [cursor EXCEPT ![c] = token[t].cursor]
    /\ mark' = [mark EXCEPT ![c] = 1]
    /\ Continue(c, IF token[t].mode = "stream" THEN "backlog" ELSE "top")
    /\ token' = IF OneCallPerTurn THEN [token EXCEPT ![t] = NoToken] ELSE token
    /\ UNCHANGED <<serverVars, deferred, tracked, session, link, history>>

\* chat yields the recorded steps at or after its cursor ...
Unyielded(c) ==
    LET s == session[turn[c]] IN
    {k \in DOMAIN s.steps : k >= mark[c] /\ s.steps[k] > cursor[c]}

\* The history of what a streamed turn handed out, kept where it is judged.
Handed(t, steps) ==
    yielded' = IF OneCallPerTurn THEN [yielded EXCEPT ![t] = @ \o steps] ELSE yielded

Yield(t, step) == Handed(t, <<step>>)

YieldBacklog(c) ==
    /\ Holds(c) /\ pc[c] = "backlog"
    /\ \E k \in Unyielded(c) :
          /\ \A j \in Unyielded(c) : k <= j
          /\ mark' = [mark EXCEPT ![c] = k + 1]
          /\ Yield(turn[c], session[turn[c]].steps[k])
    /\ Suspend(c, "yieldedBacklog")
    /\ UNCHANGED <<serverVars, deferred, tracked, session, op, turn, cursor,
                   token, link, reports>>

\* Mutant: the cursor of the continuation is not advanced.
BacklogDoneUncounted(c) ==
    /\ Holds(c) /\ pc[c] = "backlog" /\ Unyielded(c) = {}
    /\ mark' = [mark EXCEPT ![c] = 1]
    /\ Continue(c, "top")
    /\ UNCHANGED <<serverVars, deferred, tracked, session, op, turn, cursor,
                   token, link, history>>

\* ... then counts every event of the session as consumed.
BacklogDone(c) ==
    /\ Holds(c) /\ pc[c] = "backlog" /\ Unyielded(c) = {}
    /\ cursor' = [cursor EXCEPT ![c] = Len(session[turn[c]].raw)]
    /\ mark' = [mark EXCEPT ![c] = 1]
    /\ Continue(c, "top")
    /\ UNCHANGED <<serverVars, deferred, tracked, session, op, turn, token,
                   link, history>>

\* The application asks the generator for its next step.
NextRequested(c) ==
    /\ Free
    /\ \/ pc[c] = "yieldedBacklog" /\ Continue(c, "backlog")
       \/ pc[c] = "yieldedLive" /\ Continue(c, "top")
    /\ UNCHANGED <<serverVars, deferred, tracked, session, op, turn, cursor,
                   mark, token, link, history>>

\* The head of the loop: what the flags of the session decide.
AtTop(c) == Holds(c) /\ pc[c] = "top"
Unsuccessful(s) == s.failed \/ s.interrupted

RaiseFailed(c) ==
    /\ AtTop(c) /\ Unsuccessful(session[turn[c]])
    /\ Settle(c, "failed")
    /\ UNCHANGED yielded

StreamEnds(c) ==
    LET s == session[turn[c]] IN
    /\ AtTop(c) /\ op[c] = "stream" /\ ~Unsuccessful(s) /\ s.completed
    /\ Settle(c, "ok")
    /\ UNCHANGED yielded

\* chat_once takes the last agent message, which may turn out blank ...
OnceResolves(c) ==
    LET s == session[turn[c]] IN
    /\ AtTop(c) /\ op[c] = "once" /\ ~Unsuccessful(s) /\ s.completed
    /\ s.message
    /\ \E kind \in {"ok", "unresolved"} : Settle(c, kind)
    /\ UNCHANGED yielded

\* ... or reads the thread when it saw none.
OnceReads(c) ==
    LET s == session[turn[c]] IN
    /\ AtTop(c) /\ op[c] = "once" /\ ~Unsuccessful(s) /\ s.completed
    /\ ~s.message
    /\ Suspend(c, "reading")
    /\ UNCHANGED <<serverVars, deferred, tracked, session, op, turn, cursor,
                   mark, token, link, history>>

ReadAnswered(c) ==
    /\ Free /\ pc[c] = "reading"
    /\ \E kind \in {"ok", "unresolved"} : Settle(c, kind)
    /\ UNCHANGED yielded

ReadFails(c) ==
    /\ Free /\ pc[c] = "reading"
    /\ GiveUp(c)
    /\ UNCHANGED token

\* _receive_turn_event looks for an event of the turn: when it is called, and
\* whenever it has been woken.
Looks(c) ==
    \/ AtTop(c) /\ ~Terminal(session[turn[c]])
    \/ Free /\ pc[c] = "waiting" /\ c \notin asleep

Nothing(c) == Matching(turn[c], tracked) = {}

WaitForEvent(c) ==
    /\ Looks(c) /\ Nothing(c) /\ link = "up"
    /\ Sleep(c, "waiting")
    /\ UNCHANGED <<serverVars, deferred, tracked, session, op, turn, cursor,
                   mark, token, link, history>>

\* The event at position i leaves the buffer for the session of turn t.
Take(t, i) ==
    /\ FoundFor(t, i)
    /\ session' = [session EXCEPT ![t] = Apply(@, i)]
    /\ deferred' = deferred \ {i}

\* _receive_turn_event returns; chat yields the step the event recorded.
EventTaken(c) ==
    LET t == turn[c] IN
    /\ Looks(c)
    /\ \E i \in deferred :
          /\ Take(t, i)
          /\ IF op[c] = "stream" /\ IsNewStep(session[t], arrived[i])
             THEN Yield(t, Len(session[t].raw) + 1) /\ Suspend(c, "yieldedLive")
             ELSE Continue(c, "top") /\ UNCHANGED yielded
    /\ cursor' = [cursor EXCEPT ![c] = Len(session[t].raw) + 1]
    /\ UNCHANGED <<serverVars, tracked, op, turn, mark, token, link, reports>>

\* Mutant: an inactivity timeout also releases the turn.
GoesInactiveReleasing(c) ==
    /\ Free /\ pc[c] = "waiting" /\ HasTimeout
    /\ token' = [token EXCEPT ![turn[c]] =
                    [mode |-> op[c], cursor |-> cursor[c]]]
    /\ Cleanup(turn[c])
    /\ Leave(c)
    /\ UNCHANGED <<serverVars, session, link, history>>

\* The inactivity timer fires first, even when an event is being delivered.
GoesInactive(c) ==
    /\ Free /\ pc[c] = "waiting" /\ HasTimeout
    /\ token' = [token EXCEPT ![turn[c]] =
                    [mode |-> op[c], cursor |-> cursor[c]]]
    /\ GiveUp(c)

-----------------------------------------------------------------------------
(* cancel.                                                                   *)

CancelCalled(c, t) ==
    /\ MayCall(c, t) /\ token[t].mode # "none" /\ t \in tracked
    /\ op' = [op EXCEPT ![c] = "cancel"]
    /\ turn' = [turn EXCEPT ![c] = t]
    /\ cursor' = [cursor EXCEPT ![c] = token[t].cursor]
    /\ mark' = [mark EXCEPT ![c] = 1]
    /\ Continue(c, "draining")
    /\ UNCHANGED <<serverVars, deferred, tracked, session, token, link, history>>

\* _pump_turn_session applies what is buffered without giving up the loop ...
Pumping(c) == Holds(c) /\ pc[c] \in {"draining", "confirm"}

PumpOne(c) ==
    /\ Pumping(c) /\ ~Terminal(session[turn[c]])
    /\ \E i \in deferred : Take(turn[c], i)
    /\ UNCHANGED <<serverVars, tracked, callVars, token, running, asleep, link, history>>

\* ... and then requests the interruption.
PumpedDry(c) ==
    /\ Holds(c) /\ pc[c] = "draining" /\ ~Terminal(session[turn[c]])
    /\ Nothing(c)
    /\ Suspend(c, "interrupting")
    /\ UNCHANGED <<serverVars, deferred, tracked, session, op, turn, cursor,
                   mark, token, link, history>>

InterruptAcked(c) ==
    /\ Free /\ pc[c] = "interrupting"
    /\ Continue(c, "confirm")
    /\ UNCHANGED <<serverVars, deferred, tracked, session, op, turn, cursor,
                   mark, token, link, history>>

InterruptFails(c) ==
    /\ Free /\ pc[c] = "interrupting"
    /\ GiveUp(c)
    /\ UNCHANGED token

\* Once the interruption is acknowledged, the pump waits for what comes.
LooksForEnd(c) ==
    \/ Holds(c) /\ pc[c] = "confirm" /\ ~Terminal(session[turn[c]])
    \/ Free /\ pc[c] = "confirming" /\ c \notin asleep

ConfirmWaits(c) ==
    /\ LooksForEnd(c) /\ Nothing(c) /\ link = "up"
    /\ Sleep(c, "confirming")
    /\ UNCHANGED <<serverVars, deferred, tracked, session, op, turn, cursor,
                   mark, token, link, history>>

ConfirmWakes(c) ==
    /\ Free /\ pc[c] = "confirming" /\ c \notin asleep
    /\ \E i \in deferred : Take(turn[c], i)
    /\ Continue(c, "confirm")
    /\ UNCHANGED <<serverVars, tracked, op, turn, cursor, mark, token, link,
                   history>>

\* _receive_turn_event looks at the connection when no event is buffered.
ConnectionLost(c) ==
    /\ Looks(c) \/ LooksForEnd(c)
    /\ link # "up" /\ Nothing(c)
    /\ GiveUp(c)
    /\ UNCHANGED token

\* Mutant: a cancellation that was not confirmed still cleans up.
ConfirmTimesOutReleasing(c) ==
    /\ Free /\ pc[c] = "confirming"
    /\ Cleanup(turn[c])
    /\ Leave(c)
    /\ UNCHANGED <<serverVars, session, token, link, history>>

\* The deadline passes; another call may have seen the terminal event.
ConfirmTimesOut(c) ==
    /\ Free /\ pc[c] = "confirming"
    /\ IF Terminal(session[turn[c]])
       THEN /\ Continue(c, "confirm")
            /\ UNCHANGED <<serverVars, deferred, tracked, session, op, turn,
                           cursor, mark, link, history>>
       ELSE GiveUp(c)
    /\ UNCHANGED token

\* Mutant: cancel returns the steps that chat has yielded, too.
StepsFromStart(c) == session[turn[c]].steps

\* The steps at or after the cursor (their indices increase).
UnreadSteps(c) ==
    LET steps == session[turn[c]].steps
        read == {k \in DOMAIN steps : steps[k] <= cursor[c]}
    IN  SubSeq(steps, Cardinality(read) + 1, Len(steps))

\* was_completed, was_interrupted or neither
CancelOutcome(s) ==
    CASE s.completed /\ ~Unsuccessful(s) -> "completed"
      [] s.interrupted -> "interrupted"
      [] OTHER -> "neither"

CancelReturns(c) ==
    /\ Pumping(c) /\ Terminal(session[turn[c]])
    /\ IF token[turn[c]].mode = "stream" THEN Handed(turn[c], UnreadSteps(c))
                                          ELSE UNCHANGED yielded
    /\ Settle(c, CancelOutcome(session[turn[c]]))

\* The application cancels the task, or drops the generator.
Abandon(c) ==
    /\ Free /\ ~Idle(c)
    /\ GiveUp(c)
    /\ UNCHANGED token

-----------------------------------------------------------------------------

Init ==
    /\ verdict = [t \in Turns |-> "none"]
    /\ arrived = <<>> /\ deferred = {} /\ tracked = {}
    /\ session = [t \in Turns |-> NewSession]
    /\ pc = [c \in Calls |-> "idle"]
    /\ op = [c \in Calls |-> "none"]
    /\ turn = [c \in Calls |-> NoId]
    /\ cursor = [c \in Calls |-> 0]
    /\ mark = [c \in Calls |-> 1]
    /\ token = [t \in Turns |-> NoToken]
    /\ running = NoCall /\ asleep = {} /\ link = "up"
    /\ yielded = [t \in Turns |-> <<>>]
    /\ reports = {}

\* What the application decides to do.
AppStep(c) ==
    \/ \E t \in Turns : StartTurn(c, t) \/ Resume(c, t) \/ CancelCalled(c, t)
    \/ Abandon(c)

\* What the event loop runs, once it is due.
Progress(c) ==
    \/ TurnStarted(c) \/ StartFails(c)
    \/ YieldBacklog(c) \/ BacklogDone(c) \/ NextRequested(c)
    \/ RaiseFailed(c) \/ StreamEnds(c) \/ OnceResolves(c) \/ OnceReads(c)
    \/ ReadAnswered(c) \/ ReadFails(c)
    \/ WaitForEvent(c) \/ EventTaken(c) \/ ConnectionLost(c)
    \/ PumpOne(c) \/ PumpedDry(c) \/ InterruptAcked(c) \/ InterruptFails(c)
    \/ ConfirmWaits(c) \/ ConfirmWakes(c) \/ CancelReturns(c)

TaskStep(c) == Progress(c) \/ GoesInactive(c) \/ ConfirmTimesOut(c)

ServerStep ==
    \E t \in Turns : EmitItem(t) \/ EmitTerminal(t) \/ EmitEcho(t)

ClientStep == ReceiverFails \/ CloseBegins \/ CloseClears

Next ==
    \/ \E c \in Calls : TaskStep(c) \/ AppStep(c)
    \/ ServerStep
    \/ ClientStep

Spec == Init /\ [][Next]_vars

\* The ready queue is FIFO: a call that is due again and again is run.  No timer
\* is relied on.
FairSpec == Spec /\ \A c \in Calls : SF_vars(Progress(c))

-----------------------------------------------------------------------------
(* Types.                                                                    *)

Event == [owner : Turns, turnId : Turns \cup {NoId},
          threadId : {ThreadOf[t] : t \in Turns} \cup {NoId},
          kind : Kinds, item : Items \cup {NoId}]
Session == [raw : Seq(Nat), steps : Seq(Nat), message : BOOLEAN,
            completed : BOOLEAN, failed : BOOLEAN, interrupted : BOOLEAN]
Places == {"idle", "starting", "backlog", "yieldedBacklog", "yieldedLive", "top",
           "reading", "waiting", "draining", "interrupting", "confirm",
           "confirming"}
\* The places where a call holds the event loop.
Stretches == {"backlog", "top", "draining", "confirm"}
Waiting(c) == pc[c] \in {"waiting", "confirming"}
ChatPlaces == {"starting", "backlog", "yieldedBacklog", "yieldedLive", "top",
               "reading", "waiting"}

\* Every variable holds a value of its kind, a position is that of a published
\* event, and the call that holds the loop is in the middle of a stretch.
TypeOK ==
    /\ verdict \in [Turns -> {"none", "running"} \cup Ended]
    /\ arrived \in Seq(Event)
    /\ deferred \subseteq DOMAIN arrived
    /\ tracked \subseteq Turns
    /\ session \in [Turns -> Session]
    /\ pc \in [Calls -> Places]
    /\ op \in [Calls -> {"none", "once", "stream", "cancel"}]
    /\ turn \in [Calls -> Turns \cup {NoId}]
    /\ cursor \in [Calls -> Nat] /\ mark \in [Calls -> Nat]
    /\ token \in [Turns -> [mode : {"none", "once", "stream"}, cursor : Nat]]
    /\ running \in Calls \cup {NoCall}
    /\ \A c \in asleep : c \in Calls /\ Waiting(c)
    /\ link \in {"up", "failed", "closing", "closed"}
    /\ yielded \in [Turns -> Seq(Nat)]
    /\ \A c \in Calls : /\ pc[c] # "idle" => turn[c] \in Turns
                        /\ pc[c] \in ChatPlaces => op[c] \in {"once", "stream"}
                        /\ pc[c] \in Stretches <=> running = c

-----------------------------------------------------------------------------
(* Safety.                                                                   *)

Own(t) == {i \in DOMAIN arrived : arrived[i].owner = t}

\* A turn consumes only notifications the server sent about it ("consume only
\* events for their own turn"), whatever else is buffered or tracked.
OwnEventsOnly ==
    \A t \in Turns : RangeOf(session[t].raw) \subseteq Own(t)

\* Until a turn is released, nothing the server said of it is lost: each of its
\* events, those before the answer to turn/start included, is either consumed,
\* in the order of arrival, or still buffered behind what is consumed.
Live(t) == t \in tracked \/ \E c \in Calls : pc[c] = "starting" /\ turn[c] = t

NothingLost ==
    link # "closed" =>
    \A t \in Turns : Live(t) =>
        LET raw == session[t].raw
            waiting == Own(t) \cap deferred
        IN  /\ Own(t) \subseteq RangeOf(raw) \cup waiting
            /\ \A j, k \in DOMAIN raw : j < k => raw[j] < raw[k]
            /\ \A j \in DOMAIN raw : \A i \in waiting : raw[j] < i

\* What an application is told of the end of a turn is what the server decided:
\* no failed or interrupted turn is returned as a success, no success is raised
\* as a failure, and the flags of a CancelResult are those of the outcome.
OutcomesTruthful ==
    \A r \in reports :
        /\ r.kind \in {"ok", "unresolved", "completed"}
              => verdict[r.turn] = "success"
        /\ r.kind = "failed" => verdict[r.turn] \in {"failed", "interrupted"}
        /\ r.kind = "interrupted" => verdict[r.turn] = "interrupted"
        /\ r.kind = "neither" => verdict[r.turn] = "failed"

\* A streamed turn hands each step out once, in order, across inactivity
\* timeouts, resumed continuations and cancel; a stream that ends has handed
\* out every item the server completed.
YieldedItems(t) ==
    [k \in DOMAIN yielded[t] |-> arrived[session[t].raw[yielded[t][k]]].item]
ItemEvents(t) == {i \in Own(t) : arrived[i].kind \in ItemKinds}
ToldItems(t) == {arrived[i].item : i \in ItemEvents(t)}

StreamExactlyOnce ==
    \A t \in Turns :
        LET y == yielded[t]
            items == YieldedItems(t)
        IN  /\ \A j, k \in DOMAIN y : j < k => y[j] < y[k]
            /\ \A j, k \in DOMAIN y : items[j] = items[k] => j = k \/ items[j] = NoId
            /\ [turn |-> t, op |-> "stream", kind |-> "ok"] \in reports
                  => RangeOf(items) = ToldItems(t)

-----------------------------------------------------------------------------
(* What the application gets of a turn, as TurnDelivery has it.              *)

\* The notifications that tell a step: the first of each item, and every one
\* of an item without an id.
ToldSteps(t) ==
    LET items == ItemEvents(t)
        Repeats(i, j) == j < i /\ arrived[j].item = arrived[i].item
    IN  {i \in items : arrived[i].item = NoId \/ \A j \in items : ~Repeats(i, j)}

HandedSteps(t) == [k \in DOMAIN yielded[t] |-> session[t].raw[yielded[t][k]]]

OutcomesOf(t) == {[op |-> r.op, kind |-> r.kind] : r \in {q \in reports : q.turn = t}}

Delivery == INSTANCE TurnDelivery WITH
    Moments <- 1 .. MaxEvents,
    told    <- [t \in Turns |-> ToldSteps(t)],
    handed  <- [t \in Turns |-> HandedSteps(t)],
    outcome <- [t \in Turns |-> OutcomesOf(t)]

\* The delivery of turns keeps what TurnDelivery promises: every step once, in
\* the order of the server, and one truthful outcome after the last of them,
\* across timeouts, continuations, cancel, lost connections and close.
Delivers == Delivery!Spec

-----------------------------------------------------------------------------
(* Steps.                                                                    *)

\* "internal state is cleaned only after terminal confirmation": a session
\* leaves the client in no other way, close apart.
ReleasedWhenTerminal ==
    [][\A t \in tracked \ tracked' : Terminal(session[t]) \/ link' = "closed"]_vars

\* "Includes resumable continuation token": the turn of a continuation is
\* still tracked when an inactivity timeout hands the continuation out.
TokenResumable ==
    [][\A c \in Calls :
          GoesInactive(c) \/ (ConfirmTimesOut(c) /\ pc'[c] = "idle")
             => turn[c] \in tracked' \/ link = "closed"]_vars

-----------------------------------------------------------------------------
(* Liveness.                                                                 *)

\* "All waiting turn consumers wake on connection failure or client close."
WaitersWake ==
    \A c \in Calls : Waiting(c) /\ link # "up" ~> ~Waiting(c)

\* A call whose turn has ended is not left waiting, whatever other turns the
\* buffer holds events of ("turn consumers wake independently").
EndedTurnWakes ==
    \A c \in Calls : Waiting(c) /\ verdict[turn[c]] \in Ended ~> ~Waiting(c)
=============================================================================
