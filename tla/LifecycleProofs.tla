--------------------------- MODULE LifecycleProofs ---------------------------
(* What Lifecycle guarantees for every set of callers, prompts and observers. *)
EXTENDS Lifecycle, SequenceTheorems, TLAPS

-----------------------------------------------------------------------------
(* The inductive invariant.                                                  *)

\* A task inside close, or left there for good.
Busy(t) == pc[t] \in Closing \cup {"stuck", "abandoning"}

Live(c) == proc[c] \notin {"unborn", "exited"}

NoHandlers == \A p \in Prompts : pc[p] \in {"none", "done"}

\* Callers are never where only background tasks are, nor the reverse.
PlacesInv ==
    /\ \A p \in Prompts :
          pc[p] \in {"none", "handling", "cancelled", "stopping", "stuck", "done"}
    /\ \A c \in Callers :
          pc[c] \in {"idle", "connecting", "abandoning"} \cup Closing

\* One task at most closes the client, after which nothing is read.
CloserInv ==
    /\ \A t, u \in Tasks : Busy(t) /\ Busy(u) => t = u
    /\ ~closed => /\ \A t \in Tasks : ~Busy(t)
                  /\ ~released /\ receiver # "cancelled"
                  /\ conn # None => started
                  /\ receiver # "none" => conn # None
    /\ closed => receiver # "reading"
    /\ released => closed /\ NoHandlers /\ \A t \in Tasks : ~Busy(t)
    /\ \A t \in Tasks : pc[t] \in Disconnecting => leaving # None /\ NoHandlers

\* Connects that overlap something are known as such.
RaceInv ==
    /\ \A c, d \in Connecting : c = d \/ c \in raced
    /\ \A c \in Connecting : /\ conn = None \/ conn \in raced
                             /\ closed => c \in raced

\* A connection that is still up, but for those of overlapping connects, is the
\* one the transport holds, or the one close waits for.
OwnInv ==
    /\ ~closed \/ (\E t \in Tasks : pc[t] \in Waiting) =>
          \A c \in Callers \ raced : Live(c) => c = conn /\ proc[c] = "running"
    /\ (\E t \in Tasks : pc[t] \in Disconnecting) =>
          \A c \in Callers \ raced : Live(c) => c = leaving
    /\ released => \A c \in Callers \ raced : ~Live(c)

\* The sentinel is the last item, put once the handlers are gone.
QueueInv ==
    /\ \A i \in DOMAIN queue : queue[i] = Stop =>
          i = Len(queue) /\ closed /\ \A t \in Tasks : pc[t] \notin Waiting
    /\ ObserversDrain

LifeInv == PlacesInv /\ CloserInv /\ RaceInv /\ OwnInv /\ QueueInv /\ OneConversation

-----------------------------------------------------------------------------
(* The two ways on once the receiver is out of the way.                      *)

\* Nothing is left to wait for but the other end of the connection.
Released(t) ==
    /\ conn' = None /\ queue' = Append(queue, Stop)
    /\ \/ /\ conn # None /\ proc[conn] = "running"
          /\ proc' = [proc EXCEPT ![conn] = "terminating"]
          /\ leaving' = conn /\ pc'[t] = "terminating"
          /\ UNCHANGED <<started, released>>
       \/ /\ conn # None => proc[conn] # "running"
          /\ pc'[t] = "idle" /\ started' = FALSE /\ released' = TRUE
          /\ UNCHANGED <<proc, leaving>>
    /\ pc' \in [Tasks -> {"idle", "connecting", "abandoning", "none", "handling",
                          "cancelled", "stuck", "done"} \cup Closing]
    /\ \A u \in Tasks \ {t} : pc'[u] = pc[u]

\* The background tasks are waited for.
Gathering(t) ==
    /\ pc' \in [Tasks -> {"idle", "connecting", "abandoning", "none", "handling",
                          "cancelled", "stuck", "done"} \cup Closing]
    /\ pc'[t] = IF t \in Callers THEN "gathering" ELSE "stuck"
    /\ \A u \in Tasks \ {t} :
          \/ pc'[u] = pc[u]
          \/ u \in Prompts /\ pc[u] = "handling" /\ pc'[u] = "cancelled"
    /\ UNCHANGED <<started, conn, proc, leaving, queue, released>>

\* What Release does, in terms of single tasks.
LEMMA Releases ==
    ASSUME TypeOK, NEW t \in Callers, Release(t, pc)
    PROVE  Released(t)
  BY DEF Release, Released, CloseEnds, TypeOK, Tasks, Closing, Disconnecting

\* A background task that closes is in the way of its own close.
LEMMA StopCases ==
    ASSUME TypeOK, NEW t \in Tasks, StopTasks(t),
           t \in Prompts => pc[t] \in {"handling", "stopping"}
    PROVE  \/ t \in Callers /\ Background = {} /\ Released(t)
           \/ Gathering(t)
<1> DEFINE gone == [p \in Tasks |-> IF pc[p] = "handling" /\ p \in Prompts
                                    THEN "cancelled" ELSE pc[p]]
<1>1. CASE Background = {}
  <2>1. t \in Callers
    BY <1>1 DEF Background, Handling, Waiting, Tasks
  <2>2. gone = pc
    BY <1>1 DEF Background, Handling, TypeOK
  <2>3. Release(t, pc)
    BY <1>1, <2>2 DEF StopTasks
  <2> QED
    BY <1>1, <2>1, <2>3, Releases
<1>2. CASE Background # {}
  BY <1>2 DEF StopTasks, Gathering, TypeOK, Closing, Waiting
<1> QED
  BY <1>1, <1>2

-----------------------------------------------------------------------------
(* Types.                                                                    *)

\* The initial state has the types.
LEMMA TypeInit == Init => TypeOK
<1> SUFFICES ASSUME Init PROVE TypeOK
  OBVIOUS
<1>1. /\ kind \in {"stdio", "websocket"}
      /\ receiver = "none" /\ reading = None /\ conn = None /\ leaving = None
      /\ raced \subseteq Callers
  BY DEF Init
<1>2. started \in BOOLEAN /\ closed \in BOOLEAN /\ released \in BOOLEAN
  BY Zenon DEF Init
<1>3. /\ pc \in [Tasks -> {"idle", "connecting", "abandoning", "none", "handling",
                           "cancelled", "stuck", "done"} \cup Closing]
      /\ proc \in [Callers -> {"unborn", "running", "terminating", "killed", "exited"}]
      /\ obs \in [Observers -> {"out", "waiting", "ended"}]
  BY DEF Init
<1>4. queue \in Seq(Prompts \cup {Stop})
  BY DEF Init
<1> QED
  BY <1>1, <1>2, <1>3, <1>4 DEF TypeOK

\* Every step keeps the types.
LEMMA TypeNext == TypeOK /\ LifeInv /\ [Next]_vars => TypeOK'
<1> SUFFICES ASSUME TypeOK, LifeInv, [Next]_vars PROVE TypeOK'
  OBVIOUS
<1>1. ASSUME NEW t \in Tasks, Released(t) \/ Gathering(t),
             UNCHANGED <<kind, reading, obs>>, closed' \in BOOLEAN, raced' \subseteq Callers,
             receiver' \in {"none", "ended", "created", "cancelled"}
      PROVE  TypeOK'
  <2>1. CASE Gathering(t)
    BY <1>1, <2>1 DEF Gathering, TypeOK
  <2>2. CASE Released(t)
    <3>1. queue' \in Seq(Prompts \cup {Stop}) /\ conn' = None
      BY <2>2 DEF Released, TypeOK
    <3>2. /\ proc' \in [Callers -> {"unborn", "running", "terminating", "killed", "exited"}]
          /\ leaving' \in Callers \cup {None}
      BY <2>2 DEF Released, TypeOK
    <3>3. started' \in BOOLEAN /\ released' \in BOOLEAN
      BY <2>2, Zenon DEF Released, TypeOK
    <3>4. pc' \in [Tasks -> {"idle", "connecting", "abandoning", "none", "handling",
                             "cancelled", "stuck", "done"} \cup Closing]
      BY <2>2 DEF Released
    <3> QED
      BY <1>1, <3>1, <3>2, <3>3, <3>4 DEF TypeOK
  <2> QED
    BY <1>1, <2>1, <2>2
<1>2. CASE AppStep
  <2>1. ASSUME NEW c \in Callers, Start(c) \/ Cancelled(c) PROVE TypeOK'
    BY <2>1 DEF Start, Cancelled, TypeOK, Connecting, Tasks
  <2>2. ASSUME NEW t \in Tasks, CloseBegins(t) PROVE TypeOK'
    <3>1. CASE receiver \in {"created", "reading"} /\ receiver' = "cancelled"
      BY <2>2, <3>1 DEF CloseBegins, TypeOK, Connecting, Closing, Waiting
    <3>2. CASE receiver' = "none" /\ StopTasks(t)
      <4>1. closed' \in BOOLEAN /\ raced' \subseteq Callers
        BY <2>2 DEF CloseBegins, TypeOK, Connecting
      <4> QED
        BY <1>1, <2>2, <3>2, <4>1, StopCases, LifecycleAssumption DEF CloseBegins
    <3> QED
      BY <2>2, <3>1, <3>2 DEF CloseBegins
  <2>3. ASSUME NEW o \in Observers, ObserverBegins(o) PROVE TypeOK'
    BY <2>3 DEF ObserverBegins, TypeOK
  <2> QED
    BY <1>2, <2>1, <2>2, <2>3 DEF AppStep
<1>3. ASSUME NEW c \in Callers, ConnectFails(c) \/ Connected(c) \/ Exits(c) PROVE TypeOK'
  BY <1>3 DEF ConnectFails, Connected, Exits, TypeOK, Tasks
<1>4. ASSUME NEW t \in Tasks, TaskStep(t) PROVE TypeOK'
  <2>1. CASE ReceiverStopped(t)
    BY <1>1, <2>1, StopCases DEF ReceiverStopped, TypeOK
  <2>2. CASE Gathered(t)
    <3>1. t \in Callers
      BY <2>2 DEF Gathered, LifeInv, PlacesInv, Tasks
    <3>2. receiver # "reading"
      BY <2>2 DEF Gathered, LifeInv, CloserInv, Busy, Closing, Waiting
    <3> QED
      BY <1>1, <2>2, <3>1, <3>2, Releases DEF Gathered, TypeOK
  <2>3. CASE Abandoned(t) \/ Disconnected(t) \/ Kill(t)
    BY <2>3 DEF Abandoned, Disconnected, CloseEnds, Kill, TypeOK, Closing, Disconnecting
  <2> QED
    BY <1>4, <2>1, <2>2, <2>3 DEF TaskStep
<1>5. CASE ReceiverStep
  BY <1>5 DEF ReceiverStep, ReceiverStarts, ReceiverEnds, ReceiverFails, TypeOK,
     LifeInv, CloserInv
<1>6. ASSUME NEW p \in Prompts, Prompted(p) \/ HandlerEnds(p) PROVE TypeOK'
  <2>1. CASE Prompted(p)
    <3>1. conn # None
      BY <2>1 DEF Prompted, LifeInv, CloserInv, TypeOK
    <3> QED
      BY <2>1, <3>1 DEF Prompted, TypeOK, Tasks
  <2>2. CASE HandlerEnds(p)
    BY <2>2 DEF HandlerEnds, TypeOK
  <2> QED
    BY <1>6, <2>1, <2>2
<1>7. ASSUME NEW o \in Observers, Takes(o) PROVE TypeOK'
  <2>1. Tail(queue) \in Seq(Prompts \cup {Stop})
    BY <1>7 DEF Takes, TypeOK
  <2>2. queue' \in Seq(Prompts \cup {Stop})
    BY <1>7, <2>1 DEF Takes
  <2>3. obs' \in [Observers -> {"out", "waiting", "ended"}]
    BY <1>7 DEF Takes, TypeOK
  <2> QED
    BY <1>7, <2>2, <2>3 DEF Takes, TypeOK
<1>8. CASE UNCHANGED vars
  BY <1>8 DEF vars, TypeOK
<1> QED
  BY <1>2, <1>3, <1>4, <1>5, <1>6, <1>7, <1>8 DEF Next

-----------------------------------------------------------------------------
(* Who is where, and who closes.                                             *)

\* The receiver is waited for.
Stopping(t) ==
    /\ receiver \in {"created", "reading"} /\ receiver' = "cancelled"
    /\ pc' = [pc EXCEPT ![t] = "stopping"]
    /\ UNCHANGED <<started, conn, proc, leaving, queue, released>>

CloseStepOf(t) == CloseBegins(t) \/ ReceiverStopped(t) \/ Gathered(t)

\* The steps of close go on in one of three ways.
LEMMA ClosingStep ==
    ASSUME TypeOK, PlacesInv, NEW t \in Tasks, CloseStepOf(t)
    PROVE  \/ CloseBegins(t) /\ Stopping(t)
           \/ t \in Callers /\ Background = {} /\ Released(t)
           \/ ~Gathered(t) /\ Gathering(t)
<1>1. CASE Gathered(t)
  <2>1. t \in Callers
    BY <1>1 DEF Gathered, PlacesInv, Tasks
  <2> QED
    BY <1>1, <2>1, Releases DEF Gathered
<1>2. CASE CloseBegins(t)
  <2>1. pc[t] # "gathering" /\ (t \in Prompts => pc[t] = "handling")
    BY <1>2, LifecycleAssumption DEF CloseBegins
  <2>2. Stopping(t) \/ StopTasks(t)
    BY <1>2 DEF CloseBegins, Stopping
  <2> QED
    BY <1>2, <2>1, <2>2, StopCases DEF Gathered
<1>3. CASE ReceiverStopped(t)
  BY <1>3, StopCases DEF ReceiverStopped, Gathered
<1> QED
  BY <1>1, <1>2, <1>3 DEF CloseStepOf

\* Every step keeps PlacesInv.
LEMMA PlacesNext == TypeOK /\ PlacesInv /\ [Next]_vars => PlacesInv'
<1> SUFFICES ASSUME TypeOK, PlacesInv, [Next]_vars PROVE PlacesInv'
  OBVIOUS
<1> USE LifecycleAssumption
<1>1. ASSUME NEW t \in Tasks, CloseStepOf(t) PROVE PlacesInv'
  <2>1. CASE CloseBegins(t) /\ Stopping(t)
    BY <2>1 DEF Stopping, PlacesInv, TypeOK, Tasks, Closing, Waiting
  <2>2. CASE Released(t) /\ t \in Callers
    BY <2>2 DEF Released, PlacesInv, Tasks, Closing, Disconnecting
  <2>3. CASE Gathering(t)
    BY <2>3 DEF Gathering, PlacesInv, Tasks, Closing, Waiting
  <2> QED
    BY <1>1, <2>1, <2>2, <2>3, ClosingStep
<1>2. ASSUME NEW c \in Callers,
             Start(c) \/ Cancelled(c) \/ ConnectFails(c) \/ Connected(c)
      PROVE  PlacesInv'
  BY <1>2 DEF Start, Cancelled, ConnectFails, Connected, PlacesInv, TypeOK, Tasks, Closing
<1>3. ASSUME NEW t \in Tasks, Abandoned(t) \/ Disconnected(t) \/ Kill(t) PROVE PlacesInv'
  <2>1. t \in Callers
    BY <1>3 DEF Abandoned, Disconnected, Kill, PlacesInv, Tasks, Disconnecting
  <2> QED
    BY <1>3, <2>1 DEF Abandoned, Disconnected, CloseEnds, Kill, PlacesInv, TypeOK, Tasks,
       Closing, Disconnecting
<1>4. ASSUME NEW p \in Prompts, Prompted(p) \/ HandlerEnds(p) PROVE PlacesInv'
  BY <1>4 DEF Prompted, HandlerEnds, PlacesInv, TypeOK, Tasks
<1>5. ASSUME UNCHANGED pc PROVE PlacesInv'
  BY <1>5 DEF PlacesInv
<1> QED
  BY <1>1, <1>2, <1>3, <1>4, <1>5
  DEF Next, AppStep, TaskStep, ReceiverStep, CloseStepOf, ObserverBegins, Exits,
      ReceiverStarts, ReceiverEnds, ReceiverFails, Takes, vars

\* Every step keeps CloserInv.
LEMMA CloserNext == TypeOK /\ PlacesInv /\ CloserInv /\ [Next]_vars => CloserInv'
<1> SUFFICES ASSUME TypeOK, PlacesInv, CloserInv, [Next]_vars PROVE CloserInv'
  OBVIOUS
<1> USE LifecycleAssumption
<1>1. ASSUME NEW t \in Tasks, CloseStepOf(t) PROVE CloserInv'
  <2>1. closed' /\ receiver' # "reading"
    BY <1>1 DEF CloseStepOf, CloseBegins, ReceiverStopped, Gathered, CloserInv, Busy, Closing,
       Waiting
  <2>2. \A u \in Tasks \ {t} : ~Busy(u)
    BY <1>1 DEF CloseStepOf, CloseBegins, ReceiverStopped, Gathered, CloserInv, Busy, Closing,
       Waiting
  <2>3. ~released
    BY <1>1 DEF CloseStepOf, CloseBegins, ReceiverStopped, Gathered, CloserInv, Busy, Closing,
       Waiting
  <2>4. CASE CloseBegins(t) /\ Stopping(t)
    <3>1. \A u \in Tasks \ {t} : pc'[u] = pc[u]
      BY <2>4 DEF Stopping, TypeOK
    <3>2. pc'[t] = "stopping" /\ released' = released
      BY <2>4 DEF Stopping, TypeOK
    <3> QED
      BY <2>1, <2>2, <2>3, <3>1, <3>2 DEF CloserInv, Busy, Closing, Disconnecting
  <2>5. CASE t \in Callers /\ Background = {} /\ Released(t)
    <3>1. \A p \in Prompts : pc[p] \in {"none", "done"}
      BY <2>5 DEF Background, Handling, Waiting, PlacesInv
    <3>2. \A u \in Tasks \ {t} : pc'[u] = pc[u]
      BY <2>5 DEF Released
    <3>3. NoHandlers'
      BY <2>5, <3>1, <3>2 DEF NoHandlers, Tasks
    <3>4. \A u \in Tasks \ {t} : ~Busy(u)'
      BY <2>2, <3>2 DEF Busy
    <3>5. \/ pc'[t] = "terminating" /\ released' = released /\ leaving' # None
          \/ pc'[t] = "idle"
      BY <2>5 DEF Released
    <3> QED
      BY <2>1, <2>3, <3>3, <3>4, <3>5 DEF CloserInv, Busy, Closing, Waiting, Disconnecting
  <2>6. CASE Gathering(t)
    <3>1. \A u \in Tasks \ {t} : ~Busy(u)'
      BY <2>2, <2>6 DEF Gathering, Busy, Closing, Waiting, Disconnecting
    <3>2. pc'[t] \in {"gathering", "stuck"} /\ released' = released
      BY <2>6 DEF Gathering
    <3> QED
      BY <2>1, <2>3, <3>1, <3>2 DEF CloserInv, Busy, Closing, Waiting, Disconnecting
  <2> QED
    BY <1>1, <2>4, <2>5, <2>6, ClosingStep
<1>2. ASSUME NEW c \in Callers, Start(c) \/ ConnectFails(c) \/ Connected(c) PROVE CloserInv'
  <2>1. \A t \in Tasks : Busy(t)' <=> Busy(t)
    BY <1>2 DEF Start, ConnectFails, Connected, Busy, TypeOK, Closing, Waiting, Disconnecting
  <2>2. \A t \in Tasks : pc'[t] \in Disconnecting <=> pc[t] \in Disconnecting
    BY <1>2 DEF Start, ConnectFails, Connected, TypeOK, Disconnecting
  <2>3. NoHandlers' <=> NoHandlers
    BY <1>2 DEF Start, ConnectFails, Connected, TypeOK, NoHandlers, Tasks
  <2>4. UNCHANGED <<closed, released, leaving>>
    BY <1>2 DEF Start, ConnectFails, Connected
  <2>5. /\ ~closed => receiver' # "cancelled" /\ (conn' # None => started')
                      /\ (receiver' # "none" => conn' # None)
        /\ closed => receiver' # "reading"
    BY <1>2 DEF Start, ConnectFails, Connected, CloserInv
  <2> QED
    BY <2>1, <2>2, <2>3, <2>4, <2>5 DEF CloserInv
<1>3. ASSUME NEW t \in Tasks, Cancelled(t) \/ Abandoned(t) \/ Disconnected(t) \/ Kill(t)
      PROVE  CloserInv'
  <2>1. t \in Callers
    BY <1>3 DEF Cancelled, Abandoned, Disconnected, Kill, PlacesInv, Tasks, Disconnecting
  <2>2. \/ /\ pc[t] = "connecting" /\ pc'[t] = "idle"
           /\ UNCHANGED <<started, released, leaving>>
        \/ pc[t] = "gathering" /\ pc'[t] = "abandoning" /\ UNCHANGED <<released, leaving>>
        \/ pc[t] = "abandoning" /\ pc'[t] = "idle" /\ UNCHANGED <<released, leaving>>
        \/ pc[t] \in Disconnecting /\ pc'[t] = "idle"
        \/ pc[t] \in Disconnecting /\ pc'[t] = "killing" /\ UNCHANGED <<released, leaving>>
    <3>1. CASE Cancelled(t)
      BY <3>1 DEF Cancelled, TypeOK, Disconnecting
    <3>2. CASE Abandoned(t)
      BY <3>2 DEF Abandoned, TypeOK
    <3>3. CASE Disconnected(t)
      BY <3>3 DEF Disconnected, CloseEnds, TypeOK
    <3>4. CASE Kill(t)
      BY <3>4 DEF Kill, TypeOK, Disconnecting
    <3> QED
      BY <1>3, <3>1, <3>2, <3>3, <3>4
  <2>3. /\ \A u \in Tasks \ {t} : pc'[u] = pc[u]
        /\ UNCHANGED <<closed, receiver, conn>>
    BY <1>3 DEF Cancelled, Abandoned, Disconnected, CloseEnds, Kill, TypeOK
  <2>4. NoHandlers' <=> NoHandlers
    BY <2>1, <2>3 DEF NoHandlers, Tasks
  <2>5. \A u \in Tasks : Busy(u)' => Busy(u)
    BY <2>2, <2>3 DEF Busy, Closing, Disconnecting, Waiting
  <2>6. \A u \in Tasks : pc'[u] \in Disconnecting => pc[u] \in Disconnecting
    BY <2>2, <2>3 DEF Disconnecting
  <2>7. CASE pc[t] = "connecting"
    BY <2>2, <2>3, <2>4, <2>5, <2>6, <2>7 DEF CloserInv, Disconnecting
  <2>8. CASE pc[t] # "connecting"
    <3>1. Busy(t)
      BY <2>2, <2>8 DEF Busy, Closing, Waiting
    <3>2. closed /\ ~released /\ \A u \in Tasks \ {t} : ~Busy(u)
      BY <3>1 DEF CloserInv
    <3>3. \A u \in Tasks \ {t} : ~Busy(u)' /\ pc'[u] \notin Disconnecting
      BY <2>3, <3>2 DEF Busy, Closing
    <3>4. pc'[t] \in Disconnecting => leaving' # None /\ NoHandlers'
      BY <2>2, <2>4 DEF CloserInv, Disconnecting
    <3>5. released' => NoHandlers' /\ ~Busy(t)'
      BY <2>2, <2>4, <3>2 DEF CloserInv, Busy, Closing, Waiting, Disconnecting
    <3> QED
      BY <2>3, <2>5, <3>2, <3>3, <3>4, <3>5 DEF CloserInv
  <2> QED
    BY <2>7, <2>8
<1>4. ASSUME NEW p \in Prompts, Prompted(p) \/ HandlerEnds(p) PROVE CloserInv'
  <2>1. \A t \in Tasks : Busy(t)' <=> Busy(t)
    BY <1>4 DEF Prompted, HandlerEnds, Handling, Busy, TypeOK, Closing, Waiting, Disconnecting
  <2>2. \A t \in Tasks : pc'[t] \in Disconnecting <=> pc[t] \in Disconnecting
    BY <1>4 DEF Prompted, HandlerEnds, Handling, TypeOK, Disconnecting
  <2>3. UNCHANGED <<started, closed, receiver, conn, leaving, released>>
    BY <1>4 DEF Prompted, HandlerEnds
  <2>4. closed => (NoHandlers => NoHandlers')
    <3>1. CASE HandlerEnds(p)
      BY <3>1, Zenon DEF HandlerEnds, NoHandlers, TypeOK, Tasks
    <3>2. CASE Prompted(p)
      BY <3>2 DEF Prompted, CloserInv
    <3> QED
      BY <1>4, <3>1, <3>2
  <2>5. ~closed => \A t \in Tasks : pc[t] \notin Disconnecting
    BY DEF CloserInv, Busy, Closing
  <2> QED
    BY <2>1, <2>2, <2>3, <2>4, <2>5 DEF CloserInv
<1>5. CASE ReceiverStep
  BY <1>5 DEF ReceiverStep, ReceiverStarts, ReceiverEnds, ReceiverFails, CloserInv, Busy,
     NoHandlers
<1>6. ASSUME UNCHANGED <<started, closed, pc, receiver, conn, leaving, released>>
      PROVE  CloserInv'
  BY <1>6 DEF CloserInv, Busy, NoHandlers
<1> QED
  BY <1>1, <1>2, <1>3, <1>4, <1>5, <1>6
  DEF Next, AppStep, TaskStep, CloseStepOf, ObserverBegins, Exits, Takes, vars, Tasks

-----------------------------------------------------------------------------
(* Connects that overlap, and the connection there is.                       *)

\* Before a close step there is a connection of the client's own, or none, and
\* after it no task but the closing one is busy.
LEMMA CloseStepFrame ==
    ASSUME TypeOK, PlacesInv, CloserInv, NEW t \in Tasks, CloseStepOf(t)
    PROVE  /\ ~closed \/ (\E u \in Tasks : pc[u] \in Waiting)
           /\ closed' /\ receiver' # "reading" /\ raced \subseteq raced'
           /\ \A u \in Tasks \ {t} : ~Busy(u)'
           /\ UNCHANGED obs
  <1> USE LifecycleAssumption
  <1>1. \A u \in Tasks \ {t} : ~Busy(u)
    BY DEF CloseStepOf, CloseBegins, ReceiverStopped, Gathered, CloserInv, Busy, Closing,
       Waiting
  <1>2. \A u \in Tasks \ {t} : ~Busy(u)'
    <2>1. CASE CloseBegins(t) /\ Stopping(t)
      <3>1. \A u \in Tasks \ {t} : pc'[u] = pc[u]
        BY <2>1 DEF Stopping, TypeOK
      <3> QED
        BY <1>1, <3>1 DEF Busy
    <2>2. CASE Released(t)
      BY <1>1, <2>2 DEF Released, Busy
    <2>3. CASE Gathering(t)
      BY <1>1, <2>3 DEF Gathering, Busy, Closing, Waiting, Disconnecting
    <2> QED
      BY <2>1, <2>2, <2>3, ClosingStep
  <1>3. ~closed \/ (\E u \in Tasks : pc[u] \in Waiting)
    BY DEF CloseStepOf, CloseBegins, ReceiverStopped, Gathered, Waiting
  <1>4. closed' /\ receiver' # "reading" /\ raced \subseteq raced' /\ UNCHANGED obs
    BY DEF CloseStepOf, CloseBegins, ReceiverStopped, Gathered, CloserInv, Busy, Closing,
       Waiting
  <1> QED
    BY <1>2, <1>3, <1>4

\* Every step keeps RaceInv.
LEMMA RaceNext == TypeOK /\ PlacesInv /\ CloserInv /\ RaceInv /\ [Next]_vars => RaceInv'
<1> SUFFICES ASSUME TypeOK, PlacesInv, CloserInv, RaceInv, [Next]_vars PROVE RaceInv'
  OBVIOUS
<1> USE LifecycleAssumption
<1>1. ASSUME NEW t \in Tasks, CloseStepOf(t) PROVE RaceInv'
  <2>1. Connecting' \subseteq Connecting
    <3>1. CASE CloseBegins(t) /\ Stopping(t)
      BY <3>1 DEF Stopping, Connecting, TypeOK, Tasks
    <3>2. CASE Released(t)
      BY <3>2 DEF Released, Connecting, Tasks
    <3>3. CASE Gathering(t)
      BY <3>3 DEF Gathering, Connecting, Tasks
    <3> QED
      BY <1>1, <3>1, <3>2, <3>3, ClosingStep
  <2>2. conn' = conn \/ conn' = None
    BY <1>1, ClosingStep DEF Stopping, Released, Gathering
  <2>3. Connecting \subseteq raced'
    BY <1>1 DEF CloseStepOf, CloseBegins, ReceiverStopped, Gathered, RaceInv, CloserInv, Busy,
       Closing, Waiting
  <2> QED
    BY <1>1, <2>1, <2>2, <2>3, CloseStepFrame DEF RaceInv
<1>2. ASSUME NEW c \in Callers, Start(c) PROVE RaceInv'
  <2>1. Connecting' = Connecting \cup {c} /\ conn = None
    BY <1>2 DEF Start, Connecting, TypeOK, Tasks, CloserInv
  <2> QED
    BY <1>2, <2>1 DEF Start, RaceInv
<1>3. ASSUME NEW c \in Callers, Connected(c) PROVE RaceInv'
  <2>1. Connecting' = Connecting \ {c} /\ c \in Connecting
    BY <1>3 DEF Connected, Connecting, TypeOK, Tasks
  <2> QED
    BY <1>3, <2>1 DEF Connected, RaceInv
<1>4. ASSUME Connecting' \subseteq Connecting, UNCHANGED <<closed, conn, raced>>
      PROVE  RaceInv'
  BY <1>4 DEF RaceInv
<1>5. ASSUME NEW t \in Tasks,
             \/ Cancelled(t) \/ Abandoned(t) \/ Disconnected(t) \/ Kill(t)
             \/ t \in Callers /\ ConnectFails(t)
             \/ t \in Prompts /\ (Prompted(t) \/ HandlerEnds(t))
      PROVE  RaceInv'
  <2>1. Connecting' \subseteq Connecting
    BY <1>5 DEF Cancelled, Abandoned, Disconnected, CloseEnds, Kill, ConnectFails, Prompted,
       HandlerEnds, Connecting, TypeOK, Tasks
  <2> QED
    BY <1>4, <1>5, <2>1 DEF Cancelled, Abandoned, Disconnected, Kill, ConnectFails, Prompted,
       HandlerEnds
<1>6. ASSUME UNCHANGED <<closed, pc, conn, raced>> PROVE RaceInv'
  BY <1>6 DEF RaceInv, Connecting
<1> QED
  BY <1>1, <1>2, <1>3, <1>5, <1>6
  DEF Next, AppStep, TaskStep, CloseStepOf, ReceiverStep, ReceiverStarts, ReceiverEnds,
      ReceiverFails, ObserverBegins, Exits, Takes, vars, Tasks

\* Every step keeps OwnInv.
LEMMA OwnNext ==
    TypeOK /\ PlacesInv /\ CloserInv /\ RaceInv /\ OwnInv /\ [Next]_vars => OwnInv'
<1> SUFFICES ASSUME TypeOK, PlacesInv, CloserInv, RaceInv, OwnInv, [Next]_vars PROVE OwnInv'
  OBVIOUS
<1> USE LifecycleAssumption
<1>1. ASSUME NEW t \in Tasks, CloseStepOf(t) PROVE OwnInv'
  <2>1. \A c \in Callers \ raced' : Live(c) => c = conn /\ proc[c] = "running"
    BY <1>1, CloseStepFrame DEF OwnInv
  <2>2. \A u \in Tasks \ {t} : pc'[u] \notin Waiting \cup Disconnecting
    BY <1>1, CloseStepFrame DEF Busy, Closing
  <2>3. closed' /\ ~released
    BY <1>1, CloseStepFrame DEF CloserInv, Busy, Closing
  <2>4. CASE CloseBegins(t) /\ Stopping(t)
    <3>1. pc'[t] \notin Disconnecting /\ UNCHANGED <<proc, conn, released>>
      BY <2>4 DEF Stopping, TypeOK, Disconnecting
    <3> QED
      BY <2>1, <2>2, <2>3, <3>1 DEF OwnInv, Live
  <2>5. CASE Gathering(t)
    <3>1. pc'[t] \notin Disconnecting /\ UNCHANGED <<proc, conn, released>>
      BY <2>5 DEF Gathering, TypeOK, Disconnecting
    <3> QED
      BY <2>1, <2>2, <2>3, <3>1 DEF OwnInv, Live
  <2>6. CASE Released(t)
    <3>1. pc'[t] \notin Waiting
      BY <2>6 DEF Released, Waiting
    <3>2. \A c \in Callers \ raced' : Live(c)' => c = leaving' /\ pc'[t] = "terminating"
      BY <2>1, <2>6 DEF Released, Live, TypeOK
    <3>3. released' => pc'[t] = "idle"
      BY <2>3, <2>6 DEF Released
    <3> QED
      BY <2>2, <2>3, <3>1, <3>2, <3>3 DEF OwnInv
  <2> QED
    BY <1>1, <2>4, <2>5, <2>6, ClosingStep
<1>2. ASSUME NEW c \in Callers, Connected(c) PROVE OwnInv'
  <2>1. c \in Connecting
    BY <1>2 DEF Connected, Connecting
  <2>2. /\ conn' = c /\ UNCHANGED <<closed, leaving, released, raced>>
        /\ proc'[c] = "running" /\ \A d \in Callers \ {c} : proc'[d] = proc[d]
        /\ \A u \in Tasks : /\ pc'[u] \in Waiting <=> pc[u] \in Waiting
                            /\ pc'[u] \in Disconnecting <=> pc[u] \in Disconnecting
    BY <1>2 DEF Connected, TypeOK, Waiting, Disconnecting
  <2>3. (\E u \in Tasks : Busy(u)) \/ released => closed
    BY DEF CloserInv
  <2>4. closed => c \in raced
    BY <2>1 DEF RaceInv
  <2>5. ~closed \/ (\E u \in Tasks : pc[u] \in Waiting) =>
            \A d \in Callers \ raced : ~Live(d)
    BY <2>1 DEF OwnInv, RaceInv
  <2> QED
    BY <2>2, <2>3, <2>4, <2>5 DEF OwnInv, Live, Busy, Closing, Waiting, Disconnecting
<1>3. ASSUME NEW t \in Tasks, Disconnected(t) PROVE OwnInv'
  <2>1. \A c \in Callers \ raced : ~Live(c)
    BY <1>3 DEF Disconnected, OwnInv, Live, TypeOK
  <2>2. \A c \in Callers \ raced' : ~Live(c)'
    BY <1>3, <2>1 DEF Disconnected, Live
  <2> QED
    BY <2>2 DEF OwnInv
<1>4. ASSUME NEW t \in Tasks, Kill(t) PROVE OwnInv'
  <2>1. Busy(t) /\ leaving \in Callers
    BY <1>4 DEF Kill, Busy, Closing, Disconnecting, CloserInv, TypeOK
  <2>2. closed /\ ~released /\ \A u \in Tasks : pc[u] \notin Waiting
    BY <1>4, <2>1 DEF Kill, CloserInv, Busy, Closing, Waiting
  <2>3. \A c \in Callers \ raced : Live(c) => c = leaving
    BY <1>4 DEF Kill, OwnInv, Disconnecting
  <2>4. UNCHANGED <<closed, leaving, released, raced>>
    BY <1>4 DEF Kill
  <2>5. \A u \in Tasks : pc'[u] \notin Waiting
    BY <1>4, <2>2 DEF Kill, TypeOK, Waiting
  <2>6. \A c \in Callers \ {leaving} : proc'[c] = proc[c]
    BY <1>4 DEF Kill, TypeOK
  <2> QED
    BY <2>2, <2>3, <2>4, <2>5, <2>6 DEF OwnInv, Live, Waiting, Disconnecting
<1>5. ASSUME \A u \in Tasks : /\ pc'[u] \in Waiting => pc[u] \in Waiting
                              /\ pc'[u] \in Disconnecting => pc[u] \in Disconnecting,
             UNCHANGED <<closed, proc, conn, leaving, released>>, raced \subseteq raced'
      PROVE  OwnInv'
  BY <1>5 DEF OwnInv, Live, Waiting, Disconnecting
<1>6. ASSUME NEW t \in Tasks,
             \/ t \in Callers /\ (Start(t) \/ ConnectFails(t))
             \/ Abandoned(t)
             \/ t \in Prompts /\ (Prompted(t) \/ HandlerEnds(t))
      PROVE  OwnInv'
  <2>1. \A u \in Tasks : /\ pc'[u] \in Waiting => pc[u] \in Waiting
                         /\ pc'[u] \in Disconnecting => pc[u] \in Disconnecting
    BY <1>6 DEF Abandoned, Start, ConnectFails, Prompted, HandlerEnds, TypeOK, Tasks, Waiting,
       Disconnecting
  <2>2. UNCHANGED <<closed, proc, conn, leaving, released>> /\ raced \subseteq raced'
    BY <1>6 DEF Abandoned, Start, ConnectFails, Prompted, HandlerEnds
  <2> QED
    BY <1>5, <2>1, <2>2
<1>7. ASSUME NEW c \in Callers, Cancelled(c) PROVE OwnInv'
  <2>1. pc'[c] \in {"idle", "abandoning"} /\ \A u \in Tasks \ {c} : pc'[u] = pc[u]
    BY <1>7 DEF Cancelled, TypeOK, Tasks
  <2>2. \A u \in Tasks : /\ pc'[u] \in Waiting => pc[u] \in Waiting
                         /\ pc'[u] \in Disconnecting => pc[u] \in Disconnecting /\ u # c
    BY <2>1 DEF Waiting, Disconnecting
  <2>3. UNCHANGED <<closed, proc, conn, released, raced>>
    BY <1>7 DEF Cancelled
  <2>4. leaving' = leaving \/ \A u \in Tasks : pc'[u] \notin Disconnecting
    <3>1. CASE pc[c] \in Disconnecting
      <4>1. Busy(c) /\ c \in Tasks
        BY <3>1 DEF Busy, Closing, Tasks
      <4>2. \A u \in Tasks \ {c} : pc[u] \notin Disconnecting
        BY <4>1 DEF CloserInv, Busy, Closing
      <4> QED
        BY <2>2, <4>2 DEF Disconnecting
    <3>2. CASE pc[c] \notin Disconnecting
      BY <1>7, <3>2 DEF Cancelled
    <3> QED
      BY <3>1, <3>2
  <2> QED
    BY <2>2, <2>3, <2>4 DEF OwnInv, Live, Waiting, Disconnecting
<1>8. ASSUME NEW c \in Callers, Exits(c) PROVE OwnInv'
  <2>1. /\ \A d \in Callers \ {c} : proc'[d] = proc[d]
        /\ proc'[c] = "exited"
    BY <1>8 DEF Exits, TypeOK
  <2>2. UNCHANGED <<closed, pc, conn, leaving, released, raced>>
    BY <1>8 DEF Exits
  <2> QED
    BY <2>1, <2>2 DEF OwnInv, Live
<1>9. ASSUME UNCHANGED <<closed, pc, proc, conn, leaving, released, raced>> PROVE OwnInv'
  BY <1>9 DEF OwnInv, Live
<1> QED
  BY <1>1, <1>2, <1>3, <1>4, <1>6, <1>7, <1>8, <1>9
  DEF Next, AppStep, TaskStep, CloseStepOf, ReceiverStep, ReceiverStarts, ReceiverEnds,
      ReceiverFails, ObserverBegins, Takes, vars, Tasks

-----------------------------------------------------------------------------
(* The queue of the observers, and what the receiver reads from.             *)

\* While the client is open, or its close still waits for tasks, there is no
\* sentinel, and no observer has seen one.
LEMMA NoSentinelYet ==
    ASSUME TypeOK, QueueInv, ~closed \/ \E u \in Tasks : pc[u] \in Waiting
    PROVE  /\ \A i \in DOMAIN queue : queue[i] # Stop
           /\ \A o \in Observers : obs[o] # "ended"
<1>1. \A i \in DOMAIN queue : queue[i] # Stop
  BY DEF QueueInv
<1>2. queue # <<Stop>>
  BY <1>1
<1> QED
  BY <1>1, <1>2 DEF QueueInv, ObserversDrain

\* Every step keeps QueueInv.
LEMMA QueueNext ==
    TypeOK /\ PlacesInv /\ CloserInv /\ QueueInv /\ [Next]_vars => QueueInv'
<1> SUFFICES ASSUME TypeOK, PlacesInv, CloserInv, QueueInv, [Next]_vars PROVE QueueInv'
  OBVIOUS
<1> USE LifecycleAssumption
<1>1. ASSUME NEW t \in Tasks, CloseStepOf(t) PROVE QueueInv'
  <2>1. /\ \A i \in DOMAIN queue : queue[i] # Stop
        /\ \A o \in Observers : obs'[o] # "ended"
    BY <1>1, CloseStepFrame, NoSentinelYet
  <2>2. CASE UNCHANGED queue
    BY <2>1, <2>2 DEF QueueInv, ObserversDrain
  <2>3. CASE Released(t)
    <3>1. /\ queue \in Seq(Prompts \cup {Stop}) /\ queue' = Append(queue, Stop)
          /\ pc'[t] \notin Waiting
      BY <2>3 DEF Released, TypeOK, Waiting
    <3>2. \A i \in DOMAIN queue' : queue'[i] = Stop => i = Len(queue')
      BY <2>1, <3>1
    <3>3. closed' /\ \A u \in Tasks : pc'[u] \notin Waiting
      BY <1>1, <3>1, CloseStepFrame DEF Busy, Closing
    <3> QED
      BY <2>1, <3>2, <3>3 DEF QueueInv, ObserversDrain
  <2> QED
    BY <1>1, <2>2, <2>3, ClosingStep DEF Stopping, Gathering
<1>2. ASSUME NEW p \in Prompts, Prompted(p) PROVE QueueInv'
  <2>1. ~closed
    BY <1>2 DEF Prompted, CloserInv
  <2>2. /\ \A i \in DOMAIN queue : queue[i] # Stop
        /\ \A o \in Observers : obs'[o] # "ended"
    BY <1>2, <2>1, NoSentinelYet DEF Prompted
  <2>3. queue \in Seq(Prompts \cup {Stop}) /\ queue' = Append(queue, p) /\ p # Stop
    BY <1>2 DEF Prompted, TypeOK
  <2>4. \A i \in DOMAIN queue' : queue'[i] # Stop
    BY <2>2, <2>3
  <2> QED
    BY <2>2, <2>4 DEF QueueInv, ObserversDrain
<1>3. ASSUME NEW o \in Observers, Takes(o) PROVE QueueInv'
  <2>1. queue \in Seq(Prompts \cup {Stop}) /\ queue # <<>> /\ UNCHANGED <<closed, pc>>
    BY <1>3 DEF Takes, TypeOK
  <2>2. CASE Head(queue) # Stop
    <3>1. queue' = Tail(queue) /\ obs' = obs
      BY <1>3, <2>2 DEF Takes
    <3>2. \A i \in DOMAIN queue' :
             /\ i + 1 \in DOMAIN queue /\ queue'[i] = queue[i + 1]
             /\ Len(queue') = Len(queue) - 1
      BY <2>1, <3>1
    <3>3. queue # <<Stop>>
      BY <2>2
    <3>4. \A i \in DOMAIN queue' : i \in Nat
      BY <2>1, <3>1
    <3>5. Len(queue) \in Nat
      BY <2>1
    <3> QED
      BY <2>1, <3>1, <3>2, <3>3, <3>4, <3>5 DEF QueueInv, ObserversDrain
  <2>3. CASE Head(queue) = Stop
    <3>1. 1 \in DOMAIN queue /\ queue[1] = Stop
      BY <2>1, <2>3
    <3>2. Len(queue) = 1 /\ closed /\ \A t \in Tasks : pc[t] \notin Waiting
      BY <3>1 DEF QueueInv
    <3>3. queue' = Append(Tail(queue), Stop)
      BY <1>3, <2>3 DEF Takes
    <3>4. queue' = <<Stop>>
      <4> DEFINE rest == Tail(queue)
      <4>1. rest \in Seq(Prompts \cup {Stop}) /\ Len(rest) = 0
        BY <2>1, <3>2, HeadTailProperties
      <4> HIDE DEF rest
      <4>2. LET q == Append(rest, Stop)
            IN  q \in Seq(Prompts \cup {Stop}) /\ Len(q) = 1 /\ q[1] = Stop
        BY <4>1, AppendProperties
      <4>3. queue' = Append(rest, Stop)
        BY <3>3 DEF rest
      <4>4. /\ queue' \in Seq(Prompts \cup {Stop})
            /\ Len(queue') = 1 /\ queue'[1] = Stop
        BY <4>2, <4>3
      <4> QED
        BY <4>4
    <3>5. \A i \in DOMAIN queue' : i = Len(queue')
      BY <3>4
    <3> QED
      BY <2>1, <3>2, <3>4, <3>5 DEF QueueInv, ObserversDrain
  <2> QED
    BY <2>2, <2>3
<1>4. ASSUME \A u \in Tasks : pc'[u] \in Waiting => pc[u] \in Waiting,
             UNCHANGED <<closed, queue, obs>>
      PROVE  QueueInv'
  BY <1>4 DEF QueueInv, ObserversDrain, Waiting
<1>5. ASSUME NEW t \in Tasks,
             \/ t \in Callers /\ (Start(t) \/ Cancelled(t) \/ ConnectFails(t) \/ Connected(t))
             \/ Abandoned(t) \/ Disconnected(t) \/ Kill(t)
             \/ t \in Prompts /\ HandlerEnds(t)
      PROVE  QueueInv'
  <2>1. \A u \in Tasks : pc'[u] \in Waiting => pc[u] \in Waiting
    BY <1>5 DEF Start, Cancelled, ConnectFails, Connected, Abandoned, Disconnected, CloseEnds,
       Kill, HandlerEnds, TypeOK, Tasks, Waiting
  <2>2. UNCHANGED <<closed, queue, obs>>
    BY <1>5 DEF Start, Cancelled, ConnectFails, Connected, Abandoned, Disconnected, Kill,
       HandlerEnds
  <2> QED
    BY <1>4, <2>1, <2>2
<1>6. ASSUME NEW o \in Observers, ObserverBegins(o) PROVE QueueInv'
  <2>1. \A n \in Observers : obs'[n] = "ended" => obs[n] = "ended"
    BY <1>6 DEF ObserverBegins, TypeOK
  <2>2. UNCHANGED <<closed, queue, pc>>
    BY <1>6 DEF ObserverBegins
  <2> QED
    BY <2>1, <2>2 DEF QueueInv, ObserversDrain
<1>7. ASSUME UNCHANGED <<closed, pc, queue, obs>> PROVE QueueInv'
  BY <1>7 DEF QueueInv, ObserversDrain
<1> QED
  BY <1>1, <1>2, <1>3, <1>5, <1>6, <1>7
  DEF Next, AppStep, TaskStep, CloseStepOf, ReceiverStep, ReceiverStarts, ReceiverEnds,
      ReceiverFails, Exits, vars, Tasks

\* Every step keeps OneConversation.
LEMMA ConversationNext ==
    TypeOK /\ PlacesInv /\ CloserInv /\ RaceInv /\ OneConversation /\ [Next]_vars
        => OneConversation'
<1> SUFFICES ASSUME TypeOK, PlacesInv, CloserInv, RaceInv, OneConversation, [Next]_vars
             PROVE  OneConversation'
  OBVIOUS
<1>1. ASSUME NEW t \in Tasks, CloseStepOf(t) PROVE OneConversation'
  BY <1>1, CloseStepFrame DEF OneConversation
<1>2. ASSUME NEW c \in Callers, Connected(c) PROVE OneConversation'
  <2>1. conn = None \/ conn \in raced
    BY <1>2 DEF Connected, RaceInv, Connecting
  <2>2. receiver' = "reading" => receiver = "reading" /\ UNCHANGED <<reading, raced>>
    BY <1>2 DEF Connected
  <2> QED
    BY <2>1, <2>2 DEF OneConversation, TypeOK
<1>3. ASSUME \/ ReceiverStep
             \/ \E p \in Prompts : Prompted(p)
             \/ \E c \in Callers : Start(c)
             \/ UNCHANGED <<receiver, reading, conn, raced>>
      PROVE  OneConversation'
  BY <1>3 DEF ReceiverStep, ReceiverStarts, ReceiverEnds, ReceiverFails, Prompted, Start,
     OneConversation
<1> QED
  BY <1>1, <1>2, <1>3
  DEF Next, AppStep, TaskStep, CloseStepOf, Cancelled, ConnectFails, Exits, Abandoned,
      Disconnected, Kill, HandlerEnds, ObserverBegins, Takes, vars

-----------------------------------------------------------------------------
(* The theorems.                                                             *)

\* The invariant holds initially.
LEMMA LifeInit == Init => LifeInv
<1> SUFFICES ASSUME Init PROVE LifeInv
  OBVIOUS
<1> USE LifecycleAssumption
<1>1. /\ \A c \in Callers : pc[c] = "idle"
      /\ \A p \in Prompts : pc[p] = "none"
  BY DEF Init, Tasks
<1>2. \A t \in Tasks : pc[t] \in {"idle", "none"}
  BY <1>1 DEF Tasks
<1>3. PlacesInv
  BY <1>1 DEF PlacesInv
<1>4. CloserInv
  <2>1. \A t \in Tasks : ~Busy(t) /\ pc[t] \notin Disconnecting
    BY <1>2 DEF Busy, Closing, Waiting, Disconnecting
  <2>2. ~closed /\ ~released /\ receiver = "none" /\ conn = None
    BY DEF Init
  <2> QED
    BY <2>1, <2>2 DEF CloserInv
<1>5. RaceInv
  BY <1>1 DEF RaceInv, Connecting
<1>6. OwnInv
  <2>1. \A c \in Callers : ~Live(c)
    BY DEF Init, Live
  <2>2. \A t \in Tasks : pc[t] \notin Waiting \cup Disconnecting
    BY <1>2 DEF Waiting, Disconnecting
  <2> QED
    BY <2>1, <2>2 DEF OwnInv
<1>7. QueueInv /\ OneConversation
  BY DEF Init, QueueInv, ObserversDrain, OneConversation
<1> QED
  BY <1>3, <1>4, <1>5, <1>6, <1>7 DEF LifeInv

\* Every step keeps the invariant.
LEMMA LifeNext == TypeOK /\ LifeInv /\ [Next]_vars => LifeInv'
  BY PlacesNext, CloserNext, RaceNext, OwnNext, QueueNext, ConversationNext DEF LifeInv

\* The invariant, with the types it needs, holds throughout.
LEMMA Invariant == Spec => [](TypeOK /\ LifeInv)
<1>1. Init => TypeOK /\ LifeInv
  BY TypeInit, LifeInit
<1>2. TypeOK /\ LifeInv /\ [Next]_vars => (TypeOK /\ LifeInv)'
  BY TypeNext, LifeNext
<1> QED
  BY <1>1, <1>2, PTL DEF Spec

\* Type correctness of the client, its transport and its tasks.
THEOREM TypeCorrect == Spec => []TypeOK
  BY Invariant, PTL

\* A close that runs to its end leaves no connection behind, but for those of
\* starts that overlapped another start or the close (client.py:505).
THEOREM CloseLeavesNothing == Spec => []CloseReleases
<1>1. TypeOK /\ LifeInv => CloseReleases
  BY DEF LifeInv, OwnInv, CloseReleases, Live
<1> QED
  BY <1>1, Invariant, PTL

\* No prompt is handled once close has run to its end (client.py:528-553).
THEOREM HandlersEndFirst == Spec => []NoHandlerOutlivesClose
<1>1. TypeOK /\ LifeInv => NoHandlerOutlivesClose
  BY DEF LifeInv, CloserInv, NoHandlerOutlivesClose, NoHandlers
<1> QED
  BY <1>1, Invariant, PTL

\* Unless starts overlapped, what is read comes from where requests are sent to.
THEOREM ReadsWhereItWrites == Spec => []OneConversation
<1>1. TypeOK /\ LifeInv => OneConversation
  BY DEF LifeInv
<1> QED
  BY <1>1, Invariant, PTL

\* However many observers there are, and whenever they come, no prompt is lost
\* behind the sentinel that is put back for the next (client.py:681-690).
THEOREM ObserversMissNothing == Spec => []ObserversDrain
<1>1. TypeOK /\ LifeInv => ObserversDrain
  BY DEF LifeInv, QueueInv
<1> QED
  BY <1>1, Invariant, PTL
=============================================================================
