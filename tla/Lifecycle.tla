------------------------------ MODULE Lifecycle ------------------------------
(* Starting and closing one CodexClient: concurrent calls of start and close *)
(* by application tasks, the transport's connection, the receiver task, the  *)
(* background tasks that handle the server's prompts, and the streams that   *)
(* observe those prompts.                                                    *)
EXTENDS Naturals, Sequences

CONSTANTS
    Callers,    \* application tasks; each opens at most one connection
    Prompts,    \* prompts of the server, each handled by a background task
    Observers,  \* iterators of approval_requests() or user_input_requests()
    Faults,     \* what may go wrong: see AllFaults
    None, Stop  \* no connection; the sentinel _APPROVAL_QUEUE_STOP

AllFaults == {"connectFails", "cancel", "serverExits", "garbage", "handlerCloses"}

ASSUME LifecycleAssumption ==
    /\ Faults \subseteq AllFaults
    /\ Callers \cap Prompts = {}
    /\ None \notin Callers /\ Stop \notin Prompts

VARIABLES
    kind,       \* the transport: stdio or websocket
    started, closed, \* _started, _closed
    pc,         \* where each caller, and each background task, is suspended
    receiver,   \* _receiver_task
    reading,    \* the connection the receiver's pending recv reads from
    conn,       \* _proc or _socket: the connection messages are written to
    proc,       \* the other end of each connection ever opened
    leaving,    \* the connection transport.close waits for
    queue,      \* _approval_requests or _user_input_requests
    obs,        \* where each observer is
    released,   \* close has run to its end (history)
    raced       \* callers whose connect overlapped a start or a close (history)

vars == <<kind, started, closed, pc, receiver, reading, conn, proc, leaving,
          queue, obs, released, raced>>

Tasks == Callers \cup Prompts
Handling == {"handling", "cancelled"}
Waiting == {"stopping", "gathering"}
Disconnecting == {"terminating", "killing"}
Closing == Waiting \cup Disconnecting
Connecting == {c \in Callers : pc[c] = "connecting"}

\* _background_tasks: a task leaves the set when it is done.
Background == {p \in Prompts : pc[p] \in Handling \cup Waiting \cup {"stuck"}}

-----------------------------------------------------------------------------
(* start.                                                                    *)

\* Mutant: neither start nor connect looks at what is there already.
StartAnew(c) ==
    /\ pc[c] = "idle" /\ ~closed
    /\ pc' = [pc EXCEPT ![c] = "connecting"]
    /\ raced' = IF Connecting = {} THEN raced ELSE raced \cup Connecting \cup {c}
    /\ UNCHANGED <<kind, started, closed, receiver, reading, conn, proc, leaving,
                   queue, obs, released>>

\* Mutant: the receiver is started before the transport is connected.
StartReceiverFirst(c) ==
    /\ pc[c] = "idle" /\ ~closed /\ ~started
    /\ pc' = [pc EXCEPT ![c] = "connecting"]
    /\ raced' = IF Connecting = {} THEN raced ELSE raced \cup Connecting \cup {c}
    /\ receiver' = IF receiver = "none" THEN "created" ELSE receiver
    /\ UNCHANGED <<kind, started, closed, reading, conn, proc, leaving, queue, obs,
                   released>>

\* start returns at once when _started, raises when _closed, and otherwise
\* waits for transport.connect.
Start(c) ==
    /\ pc[c] = "idle" /\ ~closed /\ ~started
    /\ pc' = [pc EXCEPT ![c] = "connecting"]
    /\ raced' = IF Connecting = {} THEN raced ELSE raced \cup Connecting \cup {c}
    /\ UNCHANGED <<kind, started, closed, receiver, reading, conn, proc, leaving,
                   queue, obs, released>>

\* connect raises or times out; start may be called again.
ConnectFails(c) ==
    /\ pc[c] = "connecting" /\ "connectFails" \in Faults
    /\ pc' = [pc EXCEPT ![c] = "idle"]
    /\ UNCHANGED <<kind, started, closed, receiver, reading, conn, proc, leaving,
                   queue, obs, released, raced>>

\* The connection is there: start goes on to its end, whatever happened to the
\* client while it waited.
Connected(c) ==
    /\ pc[c] = "connecting"
    /\ pc' = [pc EXCEPT ![c] = "idle"]
    /\ conn' = c
    /\ proc' = [proc EXCEPT ![c] = "running"]
    /\ receiver' = IF receiver = "none" THEN "created" ELSE receiver
    /\ started' = TRUE
    /\ UNCHANGED <<kind, closed, reading, leaving, queue, obs, released, raced>>

-----------------------------------------------------------------------------
(* The receiver and the background tasks.                                    *)

\* Mutant: the loop does not look at _closed.
ReceiverStartsUnchecked ==
    /\ receiver = "created" /\ conn # None
    /\ receiver' = "reading" /\ reading' = conn
    /\ UNCHANGED <<kind, started, closed, pc, conn, proc, leaving, queue, obs,
                   released, raced>>

\* The first step of the receiver task: it waits for a message on the
\* connection of the moment, unless the client is closed.
ReceiverStarts ==
    /\ receiver = "created"
    /\ \/ closed /\ receiver' = "ended" /\ reading' = reading
       \/ ~closed /\ receiver' = "reading" /\ reading' = conn
    /\ UNCHANGED <<kind, started, closed, pc, conn, proc, leaving, queue, obs,
                   released, raced>>

\* A prompt is queued for the observers and given to a background task; the
\* receiver goes on to read from the connection of the moment.
Prompted(p) ==
    /\ receiver = "reading" /\ pc[p] = "none"
    /\ queue' = Append(queue, p)
    /\ pc' = [pc EXCEPT ![p] = "handling"]
    /\ reading' = conn
    /\ UNCHANGED <<kind, started, closed, receiver, conn, proc, leaving, obs,
                   released, raced>>

\* recv raises: the end of the stream, or something that is not a message.
ReceiverFails ==
    /\ receiver = "reading"
    /\ "garbage" \in Faults \/ proc[reading] # "running"
    /\ receiver' = "ended" /\ reading' = None
    /\ UNCHANGED <<kind, started, closed, pc, conn, proc, leaving, queue, obs,
                   released, raced>>

\* The receiver task, cancelled by close, ends where it waits.
ReceiverEnds ==
    /\ receiver = "cancelled"
    /\ receiver' = "ended" /\ reading' = None
    /\ UNCHANGED <<kind, started, closed, pc, conn, proc, leaving, queue, obs,
                   released, raced>>

\* The handler returns, or raises what it was cancelled with, and the task is
\* done with it.
HandlerEnds(p) ==
    /\ pc[p] \in Handling
    /\ pc' = [pc EXCEPT ![p] = "done"]
    /\ UNCHANGED <<kind, started, closed, receiver, reading, conn, proc, leaving,
                   queue, obs, released, raced>>

-----------------------------------------------------------------------------
(* close.                                                                    *)

\* The last statement of close.
CloseEnds(t, tasks) ==
    /\ pc' = [tasks EXCEPT ![t] = "idle"]
    /\ started' = FALSE
    /\ released' = TRUE

\* Mutant: the process is told to terminate and not waited for.
ReleaseAtOnce(t, tasks) ==
    /\ queue' = Append(queue, Stop)
    /\ conn' = None
    /\ proc' = IF conn # None /\ proc[conn] = "running"
               THEN [proc EXCEPT ![conn] = "terminating"] ELSE proc
    /\ CloseEnds(t, tasks)
    /\ UNCHANGED leaving

\* Once the background tasks are gone: the sentinel for the observers, and
\* transport.close, which has nothing to wait for if the other end is gone.
Release(t, tasks) ==
    /\ queue' = Append(queue, Stop)
    /\ conn' = None
    /\ \/ /\ conn # None /\ proc[conn] = "running"
          /\ proc' = [proc EXCEPT ![conn] = "terminating"]
          /\ leaving' = conn
          /\ pc' = [tasks EXCEPT ![t] = "terminating"]
          /\ UNCHANGED <<started, released>>
       \/ /\ conn # None => proc[conn] # "running"
          /\ CloseEnds(t, tasks)
          /\ UNCHANGED <<proc, leaving>>

\* Every background task is cancelled, and waited for if there is any.  A task
\* that is itself the caller of close then waits for itself.
StopTasks(t) ==
    LET cancelled == [p \in Tasks |-> IF pc[p] = "handling" /\ p \in Prompts
                                      THEN "cancelled" ELSE pc[p]] IN
    \/ /\ Background = {}
       /\ Release(t, cancelled)
    \/ /\ Background # {}
       /\ pc' = [cancelled EXCEPT ![t] = IF t \in Callers THEN "gathering" ELSE "stuck"]
       /\ UNCHANGED <<started, conn, proc, leaving, queue, released>>

\* close, by the application or by a handler: _closed is set, and the receiver
\* is cancelled and waited for, if it has not ended yet.
CloseBegins(t) ==
    /\ ~closed
    /\ pc[t] = IF t \in Callers THEN "idle" ELSE "handling"
    /\ t \in Prompts => "handlerCloses" \in Faults
    /\ closed' = TRUE
    /\ raced' = raced \cup Connecting
    /\ \/ /\ receiver \in {"created", "reading"}
          /\ receiver' = "cancelled"
          /\ pc' = [pc EXCEPT ![t] = "stopping"]
          /\ UNCHANGED <<started, conn, proc, leaving, queue, released>>
       \/ /\ receiver \in {"none", "ended"}
          /\ receiver' = "none"
          /\ StopTasks(t)
    /\ UNCHANGED <<kind, reading, obs>>

ReceiverStopped(t) ==
    /\ pc[t] = "stopping" /\ receiver = "ended"
    /\ receiver' = "none"
    /\ StopTasks(t)
    /\ UNCHANGED <<kind, closed, reading, obs, raced>>

Gathered(t) ==
    /\ pc[t] = "gathering" /\ Background = {}
    /\ Release(t, pc)
    /\ UNCHANGED <<kind, closed, receiver, reading, obs, raced>>

\* The other end is gone within the time close gives it, or after the kill.
Disconnected(t) ==
    /\ pc[t] \in Disconnecting /\ proc[leaving] = "exited"
    /\ leaving' = None
    /\ CloseEnds(t, pc)
    /\ UNCHANGED <<kind, closed, receiver, reading, conn, proc, queue, obs, raced>>

\* Mutant: the time passes and the process is waited for all the same.
KillNot(t) ==
    /\ pc[t] = "terminating" /\ kind = "stdio" /\ proc[leaving] = "terminating"
    /\ pc' = [pc EXCEPT ![t] = "killing"]
    /\ UNCHANGED <<kind, started, closed, receiver, reading, conn, proc, leaving,
                   queue, obs, released, raced>>

\* wait_for(proc.wait(), 2.0) times out: the process is killed and waited for.
Kill(t) ==
    /\ pc[t] = "terminating" /\ kind = "stdio" /\ proc[leaving] = "terminating"
    /\ pc' = [pc EXCEPT ![t] = "killing"]
    /\ proc' = [proc EXCEPT ![leaving] = "killed"]
    /\ UNCHANGED <<kind, started, closed, receiver, reading, conn, leaving, queue,
                   obs, released, raced>>

\* A caller is cancelled.  connect undoes what it began; gather waits for the
\* tasks and raises then; nothing is killed or closed any more.  While close
\* waits for the receiver the cancellation is swallowed.
Cancelled(c) ==
    /\ "cancel" \in Faults
    /\ pc[c] \in {"connecting", "gathering"} \cup Disconnecting
    /\ pc' = [pc EXCEPT ![c] = IF @ = "gathering" THEN "abandoning" ELSE "idle"]
    /\ leaving' = IF pc[c] \in Disconnecting THEN None ELSE leaving
    /\ UNCHANGED <<kind, started, closed, receiver, reading, conn, proc, queue,
                   obs, released, raced>>

Abandoned(c) ==
    /\ pc[c] = "abandoning" /\ Background = {}
    /\ pc' = [pc EXCEPT ![c] = "idle"]
    /\ UNCHANGED <<kind, started, closed, receiver, reading, conn, proc, leaving,
                   queue, obs, released, raced>>

-----------------------------------------------------------------------------
(* The other end, and the observers.                                         *)

\* The process exits, or the peer closes the socket: by itself, or because it
\* was asked to, or killed.
Exits(c) ==
    /\ \/ proc[c] = "running" /\ "serverExits" \in Faults
       \/ proc[c] \in {"terminating", "killed"}
    /\ proc' = [proc EXCEPT ![c] = "exited"]
    /\ UNCHANGED <<kind, started, closed, pc, receiver, reading, conn, leaving,
                   queue, obs, released, raced>>

ObserverBegins(o) ==
    /\ obs[o] = "out"
    /\ obs' = [obs EXCEPT ![o] = "waiting"]
    /\ UNCHANGED <<kind, started, closed, pc, receiver, reading, conn, proc,
                   leaving, queue, released, raced>>

\* Mutant: the sentinel is not put back for the others.
TakesKeeping(o) ==
    /\ obs[o] = "waiting" /\ queue # <<>>
    /\ queue' = Tail(queue)
    /\ obs' = IF Head(queue) = Stop THEN [obs EXCEPT ![o] = "ended"] ELSE obs
    /\ UNCHANGED <<kind, started, closed, pc, receiver, reading, conn, proc,
                   leaving, released, raced>>

\* An observer takes the next item and yields it; at the sentinel it puts that
\* back for the others and ends.
Takes(o) ==
    /\ obs[o] = "waiting" /\ queue # <<>>
    /\ \/ /\ Head(queue) # Stop
          /\ queue' = Tail(queue)
          /\ obs' = obs
       \/ /\ Head(queue) = Stop
          /\ queue' = Append(Tail(queue), Stop)
          /\ obs' = [obs EXCEPT ![o] = "ended"]
    /\ UNCHANGED <<kind, started, closed, pc, receiver, reading, conn, proc,
                   leaving, released, raced>>

-----------------------------------------------------------------------------

Init ==
    /\ kind \in {"stdio", "websocket"}
    /\ started = FALSE /\ closed = FALSE
    /\ pc = [t \in Tasks |-> IF t \in Callers THEN "idle" ELSE "none"]
    /\ receiver = "none" /\ reading = None
    /\ conn = None /\ leaving = None
    /\ proc = [c \in Callers |-> "unborn"]
    /\ queue = <<>>
    /\ obs = [o \in Observers |-> "out"]
    /\ released = FALSE /\ raced = {}

AppStep ==
    \/ \E c \in Callers : Start(c) \/ Cancelled(c)
    \/ \E t \in Tasks : CloseBegins(t)
    \/ \E o \in Observers : ObserverBegins(o)

TaskStep(t) ==
    \/ ReceiverStopped(t) \/ Gathered(t) \/ Abandoned(t)
    \/ Disconnected(t) \/ Kill(t)

ReceiverStep == ReceiverStarts \/ ReceiverEnds \/ ReceiverFails

Next ==
    \/ AppStep
    \/ \E c \in Callers : ConnectFails(c) \/ Connected(c) \/ Exits(c)
    \/ \E t \in Tasks : TaskStep(t)
    \/ ReceiverStep
    \/ \E p \in Prompts : Prompted(p) \/ HandlerEnds(p)
    \/ \E o \in Observers : Takes(o)

Spec == Init /\ [][Next]_vars

\* Tasks that can run are run; the two seconds of close pass; a killed process
\* ends, and so does the closing handshake of a websocket, which has a timeout;
\* a handler that was cancelled ends.  Nothing is assumed of a process that was
\* only asked to terminate, or of a handler that was not cancelled.
FairSpec ==
    /\ Spec
    /\ WF_vars(ReceiverEnds)
    /\ \A t \in Tasks : WF_vars(TaskStep(t))
    /\ \A p \in Prompts : WF_vars(pc[p] = "cancelled" /\ HandlerEnds(p))
    /\ \A c \in Callers :
          WF_vars(Exits(c) /\ (kind = "websocket" => proc[c] = "terminating")
                           /\ (kind = "stdio" => proc[c] = "killed"))
    /\ \A o \in Observers : WF_vars(Takes(o))

-----------------------------------------------------------------------------
(* Properties.                                                               *)

TypeOK ==
    /\ kind \in {"stdio", "websocket"}
    /\ started \in BOOLEAN /\ closed \in BOOLEAN /\ released \in BOOLEAN
    /\ pc \in [Tasks -> {"idle", "connecting", "abandoning", "none", "handling",
                         "cancelled", "stuck", "done"} \cup Closing]
    /\ receiver \in {"none", "created", "reading", "cancelled", "ended"}
    /\ reading \in Callers \cup {None} /\ (receiver = "reading" => reading # None)
    /\ conn \in Callers \cup {None} /\ leaving \in Callers \cup {None}
    /\ proc \in [Callers -> {"unborn", "running", "terminating", "killed", "exited"}]
    /\ queue \in Seq(Prompts \cup {Stop})
    /\ obs \in [Observers -> {"out", "waiting", "ended"}]
    /\ raced \subseteq Callers

\* A close that runs to its end leaves no connection behind, except one whose
\* connect overlapped another start, or the close itself.
CloseReleases ==
    released => \A c \in Callers \ raced : proc[c] \in {"unborn", "exited"}

\* No prompt is handled, and no handler runs, once close has run to its end:
\* the receiver is stopped before the tasks are gathered, and one that is
\* started late ends at once.
NoHandlerOutlivesClose ==
    released => \A p \in Prompts : pc[p] \in {"none", "done"}

\* The client reads from the connection it writes to, unless two starts
\* overlapped.
OneConversation ==
    receiver = "reading" /\ reading \notin raced => reading = conn

\* When an observer has ended every prompt has been taken by one of them: only
\* the sentinel is left, for those who come later.
ObserversDrain ==
    (\E o \in Observers : obs[o] = "ended") => queue = <<Stop>>

\* The client was given up half-way: close was cancelled while it waited for the
\* handlers, or called by one of them.
CutShort == closed /\ \A t \in Tasks : pc[t] \notin Closing \cup {"abandoning"}

\* Once close has begun every observer comes to its end, unless the close is
\* cut short.
ObserversEnd ==
    \A o \in Observers :
        closed /\ obs[o] = "waiting" ~>
            obs[o] = "ended" \/ (CutShort /\ ~released)

\* A call of close comes to its end, whether or not the server reacts.
CloseCompletes ==
    \A c \in Callers : pc[c] \in Closing ~> pc[c] = "idle"

\* "start(): connect transport and start receive loop (idempotent)": however
\* often it is called, the client has one connection open.
OneProcess ==
    \A c, d \in Callers : proc[c] = "running" /\ proc[d] = "running" => c = d
=============================================================================
