-------------------------- MODULE TurnRoutingProofs --------------------------
(* What TurnRouting guarantees for every set of turns, calls and items.      *)
EXTENDS TurnRouting, TLAPS, SequenceTheorems, FiniteSetTheorems

-----------------------------------------------------------------------------
(* Types.                                                                    *)

\* Applying a published event to a session gives a session.
LEMMA ApplyType ==
    ASSUME NEW s \in Session, NEW i \in Nat
    PROVE  Apply(s, i) \in Session
<1> DEFINE e == arrived[i]
<1>1. Append(s.raw, i) \in Seq(Nat) /\ Append(s.steps, Len(s.raw) + 1) \in Seq(Nat)
  BY AppendProperties, LenProperties DEF Session
<1>2. /\ (IF IsNewStep(s, e) THEN Append(s.steps, Len(s.raw) + 1) ELSE s.steps)
            \in Seq(Nat)
      /\ (s.message \/ e.kind = "message") \in BOOLEAN
      /\ (s.completed \/ e.kind \in CompletedKinds) \in BOOLEAN
      /\ (IF e.kind \in CompletedKinds THEN e.kind = "completedFailed"
          ELSE s.failed \/ e.kind = "turnFailed") \in BOOLEAN
      /\ (IF e.kind \in CompletedKinds
          THEN e.kind = "completedInterrupted" ELSE s.interrupted) \in BOOLEAN
  BY <1>1 DEF Session
<1> QED
  BY <1>1, <1>2 DEF Apply, Session

\* The steps cancel returns are a sequence of step indices.
LEMMA UnreadType ==
    ASSUME TypeOK, NEW c \in Calls, turn[c] \in Turns
    PROVE  UnreadSteps(c) \in Seq(Nat)
<1> DEFINE steps == session[turn[c]].steps
           read == {k \in DOMAIN steps : steps[k] <= cursor[c]}
<1>1. steps \in Seq(Nat) /\ Len(steps) \in Nat /\ DOMAIN steps = 1 .. Len(steps)
  BY LenProperties DEF TypeOK, Session
<1>2. IsFiniteSet(1 .. Len(steps)) /\ Cardinality(1 .. Len(steps)) = Len(steps)
  BY <1>1, FS_Interval
<1>3. Cardinality(read) \in 0 .. Len(steps)
  BY <1>1, <1>2, FS_Subset, FS_CardinalityType
<1>4. \A i \in Cardinality(read) + 1 .. Len(steps) : steps[i] \in Nat
  BY <1>1, <1>3, ElementOfSeq, SMTT(30)
<1>5. SubSeq(steps, Cardinality(read) + 1, Len(steps)) \in Seq(Nat)
  BY <1>1, <1>3, <1>4, SubSeqProperties
<1> QED
  BY <1>5 DEF UnreadSteps

\* What a stream hands out is recorded as a sequence of step indices.
LEMMA HandedType ==
    ASSUME TypeOK, NEW t \in Turns, NEW steps \in Seq(Nat), Handed(t, steps)
    PROVE  yielded' \in [Turns -> Seq(Nat)]
<1>1. yielded \in [Turns -> Seq(Nat)]
  BY DEF TypeOK
<1>2. yielded[t] \o steps \in Seq(Nat)
  BY <1>1, ConcatProperties
<1> QED
  BY <1>1, <1>2 DEF Handed

\* The positions of a sequence of numbers, and what it has there, are numbers.
LEMMA PositionType ==
    ASSUME NEW s \in Seq(Nat), NEW k \in DOMAIN s
    PROVE  k \in Nat /\ s[k] \in Nat
<1>1. DOMAIN s = 1 .. Len(s) /\ Len(s) \in Nat
  BY LenProperties
<1> QED
  BY <1>1, ElementOfSeq

\* What chat has yielded stays a sequence of steps.
LEMMA YieldType ==
    ASSUME TypeOK, NEW t \in Turns, NEW step \in Nat, Yield(t, step)
    PROVE  yielded' \in [Turns -> Seq(Nat)]
<1>1. <<step>> \in Seq(Nat)
  OBVIOUS
<1> QED
  BY <1>1, HandedType DEF Yield

\* The initial state has the types of TypeOK.
LEMMA TypeInit == Init => TypeOK
  BY EmptySeq, CallsAssumption
  DEF Init, TypeOK, NewSession, NoToken, Session, Places, ChatPlaces, Stretches, Ended

\* Every step keeps them.
LEMMA TypeNext == TypeOK /\ [Next]_vars => TypeOK'
<1> SUFFICES ASSUME TypeOK, [Next]_vars PROVE TypeOK'
  OBVIOUS
<1> USE CallsAssumption DEF TypeOK, Goes, Waiting, NotifyAll
<1>1. ASSUME NEW e \in Event, Publish(e),
             verdict' \in [Turns -> {"none", "running"} \cup Ended]
      PROVE  TypeOK'
  BY <1>1, AppendProperties, LenProperties DEF Publish, callVars, history
<1>2. ASSUME NEW t \in Turns, NEW form \in AllForms, NEW kind \in Kinds,
             NEW item \in Items \cup {NoId}
      PROVE  Envelope(t, form, kind, item) \in Event
  BY DEF Envelope, Event
<1>3. ASSUME NEW t \in Turns, EmitItem(t) PROVE TypeOK'
  <2>1. PICK kind \in Says, item \in Items \cup {NoId} :
           Publish(Envelope(t, "turn", kind, item)) /\ UNCHANGED verdict
    BY <1>3 DEF EmitItem
  <2>2. Envelope(t, "turn", kind, item) \in Event
    BY <1>2, SaysAssumption DEF Kinds, ItemKinds, AllForms
  <2> QED BY <1>1, <2>1, <2>2
<1>4. ASSUME NEW t \in Turns, EmitTerminal(t) PROVE TypeOK'
  <2>1. PICK form \in Forms, kind \in TerminalKinds :
           /\ Publish(Envelope(t, form, kind, NoId))
           /\ verdict' = [verdict EXCEPT ![t] = VerdictOf(kind)]
    BY <1>4 DEF EmitTerminal
  <2>2. Envelope(t, form, kind, NoId) \in Event
    BY <1>2, FormsAssumption DEF Kinds
  <2>3. VerdictOf(kind) \in Ended
    BY DEF VerdictOf, Ended, TerminalKinds, CompletedKinds
  <2> QED BY <1>1, <2>1, <2>2, <2>3
<1>5. ASSUME NEW t \in Turns, EmitEcho(t) PROVE TypeOK'
  <2>1. PICK form \in Forms : Publish(Envelope(t, form, "completedFailed", NoId))
    BY <1>5 DEF EmitEcho
  <2>2. Envelope(t, form, "completedFailed", NoId) \in Event
    BY <1>2, FormsAssumption DEF Kinds, TerminalKinds, CompletedKinds
  <2>3. UNCHANGED verdict
    BY <1>5 DEF EmitEcho
  <2> QED BY <1>1, <2>1, <2>2, <2>3
<1>6. CASE ClientStep
  BY <1>6 DEF ClientStep, ReceiverFails, CloseBegins, CloseClears, serverVars,
              callVars, history
<1>7. ASSUME NEW c \in Calls, NEW i \in deferred, NEW t \in Turns, Take(t, i)
      PROVE  /\ session' \in [Turns -> Session]
             /\ deferred' \subseteq DOMAIN arrived
  <2>1. i \in Nat
    BY LenProperties
  <2>2. Apply(session[t], i) \in Session
    BY <2>1, ApplyType
  <2> QED BY <1>7, <2>2 DEF Take
<1>8. ASSUME NEW c \in Calls, NEW kind, Settle(c, kind),
             running \in {c, NoCall}, yielded' \in [Turns -> Seq(Nat)]
      PROVE  TypeOK'
  BY <1>8 DEF Settle, Cleanup, Leave, Suspend, serverVars, Places, ChatPlaces, Stretches
<1>9. ASSUME NEW c \in Calls, GiveUp(c), running \in {c, NoCall},
             token' \in [Turns -> [mode : {"none", "once", "stream"}, cursor : Nat]]
      PROVE  TypeOK'
  BY <1>9 DEF GiveUp, Leave, Suspend, serverVars, history, Places, ChatPlaces, Stretches
<1>10. ASSUME NEW c \in Calls, AppStep(c) PROVE TypeOK'
  <2>1. ASSUME NEW t \in Turns, StartTurn(c, t) PROVE TypeOK'
    BY <2>1 DEF StartTurn, Suspend, history, MayCall, Idle, Free, Places, ChatPlaces, Stretches
  <2>2. ASSUME NEW t \in Turns, Resume(c, t) PROVE TypeOK'
    BY <2>2 DEF Resume, Continue, serverVars, history, NoToken, MayCall, Idle, Free,
                Places, ChatPlaces, Stretches
  <2>3. ASSUME NEW t \in Turns, CancelCalled(c, t) PROVE TypeOK'
    BY <2>3 DEF CancelCalled, Continue, serverVars, history, MayCall, Idle, Free,
                Places, ChatPlaces, Stretches
  <2>4. CASE Abandon(c)
    BY <2>4, <1>9 DEF Abandon, Free
  <2> QED BY <1>10, <2>1, <2>2, <2>3, <2>4 DEF AppStep
<1>11. ASSUME NEW c \in Calls, TaskStep(c) PROVE TypeOK'
  <2>1. CASE TurnStarted(c)
    BY <2>1 DEF TurnStarted, Continue, serverVars, history, Free, Places, ChatPlaces, Stretches
  <2>2. CASE StartFails(c) \/ ReadFails(c) \/ InterruptFails(c) \/ ConnectionLost(c)
    BY <2>2, <1>9 DEF StartFails, ReadFails, InterruptFails, ConnectionLost,
                     Free, Holds, AtTop, Looks, LooksForEnd
  <2>3. CASE YieldBacklog(c)
    <3>1. PICK k \in Unyielded(c) :
             /\ mark' = [mark EXCEPT ![c] = k + 1]
             /\ Yield(turn[c], session[turn[c]].steps[k])
      BY <2>3 DEF YieldBacklog
    <3>2. turn[c] \in Turns
      BY <2>3 DEF YieldBacklog
    <3>3. k \in Nat /\ session[turn[c]].steps[k] \in Nat
      <4>1. session[turn[c]].steps \in Seq(Nat)
        BY <3>2 DEF Session
      <4>2. k \in DOMAIN session[turn[c]].steps
        BY <3>1 DEF Unyielded
      <4> QED
        BY <4>1, <4>2, PositionType
    <3>4. yielded' \in [Turns -> Seq(Nat)]
      BY <3>1, <3>2, <3>3, YieldType
    <3>5. mark' \in [Calls -> Nat]
      BY <3>1, <3>3
    <3> QED
      BY <2>3, <3>4, <3>5
      DEF YieldBacklog, Suspend, serverVars, Holds, Places, ChatPlaces, Stretches
  <2>4. CASE BacklogDone(c)
    <3>1. Len(session[turn[c]].raw) \in Nat
      BY <2>4, LenProperties DEF BacklogDone, Session
    <3> QED
      BY <2>4, <3>1 DEF BacklogDone, Continue, serverVars, history, Holds, Places,
                        ChatPlaces, Stretches
  <2>5. CASE NextRequested(c)
    <3>1. /\ pc[c] \in {"yieldedBacklog", "yieldedLive"} /\ running = NoCall
          /\ running' = c /\ asleep' = asleep \ {c}
          /\ \/ pc' = [pc EXCEPT ![c] = "backlog"]
             \/ pc' = [pc EXCEPT ![c] = "top"]
      BY <2>5 DEF NextRequested, Continue, Free
    <3>2. UNCHANGED <<verdict, arrived, deferred, tracked, session, op, turn,
                      cursor, mark, token, link, yielded>>
      BY <2>5 DEF NextRequested, serverVars, history
    <3>3. \A d \in Calls : /\ pc'[d] \in ChatPlaces => op[d] \in {"once", "stream"}
                           /\ pc'[d] # "idle" => turn[d] \in Turns
                           /\ pc'[d] \in Stretches <=> d = c
      BY <3>1 DEF Places, ChatPlaces, Stretches
    <3>4. pc' \in [Calls -> Places]
      BY <3>1 DEF Places
    <3> QED BY <3>1, <3>2, <3>3, <3>4
  <2>6. CASE RaiseFailed(c) \/ StreamEnds(c) \/ OnceResolves(c) \/ ReadAnswered(c)
    BY <2>6, <1>8 DEF RaiseFailed, StreamEnds, OnceResolves, ReadAnswered,
                     AtTop, Holds, Free
  <2>7. CASE OnceReads(c)
    BY <2>7, ZenonT(30) DEF OnceReads, Suspend, serverVars, history, AtTop, Holds,
                Places, ChatPlaces, Stretches
  <2>16. CASE WaitForEvent(c)
    <3>1. turn[c] \in Turns /\ op[c] \in {"once", "stream"} /\ running \in {c, NoCall}
      BY <2>16 DEF WaitForEvent, Looks, AtTop, Holds, Free, ChatPlaces
    <3> QED
      BY <2>16, <3>1 DEF WaitForEvent, Sleep, serverVars, history, Places, ChatPlaces, Stretches
  <2>8. CASE EventTaken(c)
    <3>1. turn[c] \in Turns /\ Len(session[turn[c]].raw) + 1 \in Nat
      <4>1. pc[c] # "idle"
        BY <2>8 DEF EventTaken, Looks, AtTop
      <4> QED
        BY <4>1, LenProperties DEF Session
    <3>2. /\ session' \in [Turns -> Session]
          /\ deferred' \subseteq DOMAIN arrived
      BY <2>8, <3>1, <1>7 DEF EventTaken
    <3>3. yielded' \in [Turns -> Seq(Nat)]
      <4>1. Yield(turn[c], Len(session[turn[c]].raw) + 1) \/ UNCHANGED yielded
        BY <2>8 DEF EventTaken
      <4> QED BY <3>1, <4>1, YieldType
    <3>4. \/ pc' = [pc EXCEPT ![c] = "yieldedLive"] /\ running' = NoCall
          \/ pc' = [pc EXCEPT ![c] = "top"] /\ running' = c
      BY <2>8 DEF EventTaken, Suspend, Continue
    <3>5. /\ pc[c] \in {"top", "waiting"} /\ op[c] \in {"once", "stream"}
          /\ \A d \in Calls \ {c} : pc[d] \notin Stretches
      BY <2>8 DEF EventTaken, Looks, AtTop, Holds, Free, ChatPlaces
    <3>8. \A d \in asleep' : d \in Calls /\ Waiting(d)'
      BY <2>8 DEF EventTaken, Suspend, Continue
    <3>6. /\ pc' \in [Calls -> Places]
          /\ \A d \in Calls : /\ pc'[d] \in ChatPlaces => op[d] \in {"once", "stream"}
                              /\ pc'[d] # "idle" => turn[d] \in Turns
                              /\ pc'[d] \in Stretches <=> running' = d
      <4>1. CASE pc' = [pc EXCEPT ![c] = "yieldedLive"] /\ running' = NoCall
        BY <3>1, <3>5, <4>1 DEF Places, ChatPlaces, Stretches
      <4>2. CASE pc' = [pc EXCEPT ![c] = "top"] /\ running' = c
        BY <3>1, <3>5, <4>2 DEF Places, ChatPlaces, Stretches
      <4> QED BY <3>4, <4>1, <4>2
    <3>7. /\ cursor' \in [Calls -> Nat] /\ running' \in Calls \cup {NoCall}
          /\ UNCHANGED <<verdict, arrived, tracked, op, turn, mark, token, link>>
      BY <2>8, <3>1, <3>4 DEF EventTaken, serverVars
    <3> QED
      BY <3>2, <3>3, <3>6, <3>7, <3>8
  <2>9. CASE GoesInactive(c)
    <3>1. turn[c] \in Turns /\ op[c] \in {"once", "stream"} /\ running = NoCall
      BY <2>9 DEF GoesInactive, ChatPlaces, Free
    <3> QED BY <2>9, <3>1, <1>9 DEF GoesInactive
  <2>10. CASE PumpOne(c)
    BY <2>10, <1>7 DEF PumpOne, Pumping, serverVars, callVars, history, Stretches
  <2>11. CASE PumpedDry(c)
    BY <2>11 DEF PumpedDry, Suspend, serverVars, history, Holds, Places,
                 ChatPlaces, Stretches
  <2>12. CASE InterruptAcked(c)
    BY <2>12 DEF InterruptAcked, Continue, serverVars, history, Free, Places, ChatPlaces,
                       Stretches
  <2>13. CASE ConfirmWakes(c)
    BY <2>13, <1>7 DEF ConfirmWakes, Continue, serverVars, history, Free, Places,
                       ChatPlaces, Stretches
  <2>17. CASE ConfirmWaits(c)
    <3>1. pc[c] \in {"confirm", "confirming"} /\ running \in {c, NoCall}
      BY <2>17 DEF ConfirmWaits, LooksForEnd, Holds, Free
    <3> QED
      BY <2>17, <3>1 DEF ConfirmWaits, Sleep, serverVars, history, Places, ChatPlaces, Stretches
  <2>14. CASE ConfirmTimesOut(c)
    <3>1. CASE Terminal(session[turn[c]])
      <4>1. /\ pc[c] = "confirming" /\ running = NoCall /\ asleep' = asleep \ {c}
            /\ pc' = [pc EXCEPT ![c] = "confirm"] /\ running' = c
            /\ UNCHANGED <<verdict, arrived, deferred, tracked, session, op, turn,
                           cursor, mark, token, link, yielded>>
        BY <2>14, <3>1 DEF ConfirmTimesOut, Continue, serverVars, history, Free
      <4> QED BY <4>1 DEF Places, ChatPlaces, Stretches
    <3>2. CASE ~Terminal(session[turn[c]])
      BY <2>14, <3>2, <1>9 DEF ConfirmTimesOut, Free
    <3> QED BY <3>1, <3>2
  <2>15. CASE CancelReturns(c)
    <3>1. turn[c] \in Turns
      BY <2>15 DEF CancelReturns, Pumping, Stretches
    <3>2. yielded' \in [Turns -> Seq(Nat)]
      BY <2>15, <3>1, UnreadType, HandedType DEF CancelReturns
    <3> QED BY <2>15, <3>2, <1>8 DEF CancelReturns, Pumping, Holds
  <2> QED
    BY <1>11, <2>1, <2>2, <2>3, <2>4, <2>5, <2>6, <2>7, <2>8, <2>9, <2>10, <2>11,
       <2>12, <2>13, <2>14, <2>15, <2>16, <2>17 DEF TaskStep, Progress
<1>12. CASE UNCHANGED vars
  BY <1>12 DEF vars
<1> QED
  BY <1>3, <1>4, <1>5, <1>6, <1>10, <1>11, <1>12 DEF Next, ServerStep

\* In every reachable state each variable has its type, and at most one call
\* is in the middle of an uninterrupted stretch: run-to-completion of asyncio.
THEOREM TypeCorrect == Spec => []TypeOK
<1>1. Init => TypeOK
  BY TypeInit
<1>2. TypeOK /\ [Next]_vars => TypeOK'
  BY TypeNext
<1> QED BY <1>1, <1>2, PTL DEF Spec

-----------------------------------------------------------------------------
(* The steps, by what they do to the turns.                                  *)

OthersKept(c) == \A d \in Calls \ {c} : pc'[d] = pc[d] /\ turn'[d] = turn[d]

\* Call c moves on without touching the turns.
Moves(c) ==
    /\ UNCHANGED <<verdict, arrived, deferred, tracked, session, link, reports>>
    /\ OthersKept(c) /\ pc'[c] # "starting"
    /\ pc'[c] # "idle" => \/ turn'[c] \in tracked
                          \/ pc[c] # "idle" /\ turn'[c] = turn[c]
    /\ \/ pc'[c] # "reading"
       \/ /\ turn'[c] = turn[c] /\ turn[c] \in Turns
          /\ session[turn[c]].completed
          /\ ~Unsuccessful(session[turn[c]])

\* Call c applies one buffered event of its turn.
Takes(c) ==
    /\ turn[c] \in Turns /\ \E i \in deferred : Take(turn[c], i)
    /\ UNCHANGED <<verdict, arrived, tracked, link, reports>>
    /\ OthersKept(c) /\ pc'[c] \notin {"starting", "reading"}
    /\ pc[c] \notin {"idle", "starting"} /\ turn'[c] = turn[c]

\* Call c settles its turn, which it has seen to be over.
Settles(c) ==
    /\ turn[c] \in Turns /\ pc[c] \notin {"idle", "starting"} /\ Cleanup(turn[c])
    /\ \E kind \in {"ok", "unresolved", "failed", "completed", "interrupted",
                    "neither"} :
          /\ reports' = reports \cup
                {[turn |-> turn[c], op |-> op[c], kind |-> kind]}
          /\ \/ /\ kind = "failed" /\ Unsuccessful(session[turn[c]])
             \/ /\ kind \in {"ok", "unresolved"}
                /\ \/ /\ session[turn[c]].completed
                      /\ ~Unsuccessful(session[turn[c]])
                   \/ pc[c] = "reading"
             \/ /\ kind = CancelOutcome(session[turn[c]])
                /\ Terminal(session[turn[c]])
    /\ UNCHANGED <<verdict, arrived, session, link>>
    /\ OthersKept(c) /\ pc'[c] = "idle"

\* The steps of a call that take no event and end nothing.
LEMMA MovesOf ==
    ASSUME TypeOK, NEW c \in Calls,
           \/ YieldBacklog(c) \/ BacklogDone(c) \/ NextRequested(c)
           \/ OnceReads(c) \/ WaitForEvent(c) \/ GoesInactive(c)
           \/ StartFails(c) \/ ReadFails(c) \/ InterruptFails(c)
           \/ ConnectionLost(c) \/ Abandon(c)
           \/ PumpedDry(c) \/ InterruptAcked(c) \/ ConfirmWaits(c) \/ ConfirmTimesOut(c)
           \/ \E t \in Turns : Resume(c, t) \/ CancelCalled(c, t)
    PROVE  Moves(c)
<1> USE DEF Moves, OthersKept, TypeOK, Goes, serverVars, history
<1>1. ASSUME GiveUp(c) PROVE Moves(c)
  BY <1>1 DEF GiveUp, Leave, Suspend
<1>2. CASE YieldBacklog(c) \/ BacklogDone(c) \/ NextRequested(c)
  BY <1>2 DEF YieldBacklog, BacklogDone, NextRequested, Suspend, Continue
<1>3. CASE OnceReads(c)
  BY <1>3 DEF OnceReads, AtTop, Suspend
<1>4. CASE WaitForEvent(c) \/ ConfirmWaits(c) \/ InterruptAcked(c)
  BY <1>4 DEF WaitForEvent, ConfirmWaits, Looks, LooksForEnd, AtTop, InterruptAcked, Sleep,
              Continue
<1>5. CASE PumpedDry(c)
  BY <1>5 DEF PumpedDry, Suspend
<1>6. CASE GoesInactive(c) \/ StartFails(c) \/ ReadFails(c) \/ InterruptFails(c)
           \/ ConnectionLost(c) \/ Abandon(c)
  BY <1>1, <1>6 DEF GoesInactive, StartFails, ReadFails, InterruptFails,
                    ConnectionLost, Abandon
<1>7. CASE ConfirmTimesOut(c)
  <2>1. CASE Terminal(session[turn[c]])
    BY <1>7, <2>1 DEF ConfirmTimesOut, Continue
  <2>2. CASE ~Terminal(session[turn[c]])
    BY <1>7, <2>2, <1>1 DEF ConfirmTimesOut
  <2> QED BY <2>1, <2>2
<1>8. ASSUME NEW t \in Turns, Resume(c, t) \/ CancelCalled(c, t) PROVE Moves(c)
  BY <1>8 DEF Resume, CancelCalled, Continue
<1> QED
  BY <1>2, <1>3, <1>4, <1>5, <1>6, <1>7, <1>8

\* The steps of a call that take an event off the buffer.
LEMMA TakesOf ==
    ASSUME TypeOK, NEW c \in Calls,
           EventTaken(c) \/ PumpOne(c) \/ ConfirmWakes(c)
    PROVE  Takes(c)
<1> USE DEF Takes, OthersKept, TypeOK, Goes, serverVars, history, callVars
<1>1. CASE EventTaken(c)
  BY <1>1 DEF EventTaken, Looks, AtTop, Suspend, Continue
<1>2. CASE PumpOne(c)
  BY <1>2 DEF PumpOne, Pumping
<1>3. CASE ConfirmWakes(c)
  BY <1>3 DEF ConfirmWakes, Continue
<1> QED
  BY <1>1, <1>2, <1>3

\* The steps of a call that report the end of its turn.
LEMMA SettlesOf ==
    ASSUME TypeOK, NEW c \in Calls,
           \/ RaiseFailed(c) \/ StreamEnds(c) \/ OnceResolves(c)
           \/ ReadAnswered(c) \/ CancelReturns(c)
    PROVE  Settles(c)
<1> USE DEF TypeOK
<1>1. ASSUME NEW kind \in {"ok", "unresolved", "failed", "completed",
                           "interrupted", "neither"},
             Settle(c, kind), turn[c] \in Turns,
             pc[c] \notin {"idle", "starting"},
             \/ /\ kind = "failed" /\ Unsuccessful(session[turn[c]])
             \/ /\ kind \in {"ok", "unresolved"}
                /\ \/ /\ session[turn[c]].completed
                      /\ ~Unsuccessful(session[turn[c]])
                   \/ pc[c] = "reading"
             \/ /\ kind = CancelOutcome(session[turn[c]])
                /\ Terminal(session[turn[c]])
      PROVE  Settles(c)
  BY <1>1 DEF Settle, Settles, Leave, Suspend, Goes, OthersKept, serverVars
<1>2. CASE RaiseFailed(c)
  BY <1>1, <1>2 DEF RaiseFailed, AtTop
<1>3. CASE StreamEnds(c)
  BY <1>1, <1>3 DEF StreamEnds, AtTop
<1>4. CASE OnceResolves(c)
  BY <1>1, <1>4 DEF OnceResolves, AtTop
<1>5. CASE ReadAnswered(c)
  BY <1>1, <1>5 DEF ReadAnswered
<1>6. CASE CancelReturns(c)
  <2>1. CancelOutcome(session[turn[c]]) \in {"completed", "interrupted", "neither"}
    BY DEF CancelOutcome
  <2> QED BY <1>1, <1>6, <2>1 DEF CancelReturns, Pumping
<1> QED
  BY <1>2, <1>3, <1>4, <1>5, <1>6

\* Every step of the specification is one of these.
LEMMA StepCases ==
    ASSUME TypeOK, [Next]_vars
    PROVE  \/ ServerStep
           \/ ClientStep
           \/ \E c \in Calls : \/ \E t \in Turns : StartTurn(c, t)
                               \/ TurnStarted(c) \/ Moves(c) \/ Takes(c)
                               \/ Settles(c)
           \/ UNCHANGED vars
<1>1. ASSUME NEW c \in Calls, AppStep(c)
      PROVE  (\E t \in Turns : StartTurn(c, t)) \/ Moves(c)
  BY <1>1, MovesOf DEF AppStep
<1>2. ASSUME NEW c \in Calls, TaskStep(c)
      PROVE  TurnStarted(c) \/ Moves(c) \/ Takes(c) \/ Settles(c)
  BY <1>2, MovesOf, TakesOf, SettlesOf DEF TaskStep, Progress
<1> QED
  BY <1>1, <1>2 DEF Next

-----------------------------------------------------------------------------
(* A turn is released only when it is over.                                  *)

\* Flags of the sessions: an interruption is told by turn/completed, and
\* chat_once reads the thread of a completed turn only.
FlagsInv ==
    /\ \A t \in Turns : session[t].interrupted => session[t].completed
    /\ \A c \in Calls : pc[c] = "reading" => session[turn[c]].completed

\* Applying an event never reopens a turn, and leaves no interrupted turn open.
LEMMA ApplyFlags ==
    ASSUME NEW s \in Session, NEW i \in Nat
    PROVE  /\ s.completed => Apply(s, i).completed
           /\ (s.interrupted => s.completed) =>
                 (Apply(s, i).interrupted => Apply(s, i).completed)
  BY DEF Apply, Session

\* Nothing is completed in the initial state.
LEMMA FlagsInit == Init => FlagsInv
  BY DEF Init, FlagsInv, NewSession

\* Every step keeps the flags of the sessions consistent.
LEMMA FlagsNext == TypeOK /\ FlagsInv /\ [Next]_vars => FlagsInv'
<1> SUFFICES ASSUME TypeOK, FlagsInv, [Next]_vars PROVE FlagsInv'
  OBVIOUS
<1>1. CASE ServerStep \/ ClientStep \/ UNCHANGED vars
  <2>1. UNCHANGED <<session, pc, turn>>
    BY <1>1 DEF ServerStep, ClientStep, EmitItem, EmitTerminal, EmitEcho, Publish,
                ReceiverFails, CloseBegins, CloseClears, callVars, vars
  <2> QED BY <2>1 DEF FlagsInv
<1>2. ASSUME NEW c \in Calls, NEW t \in Turns, StartTurn(c, t) PROVE FlagsInv'
  BY <1>2 DEF StartTurn, Suspend, Goes, FlagsInv, TypeOK
<1>3. ASSUME NEW c \in Calls, TurnStarted(c) PROVE FlagsInv'
  BY <1>3 DEF TurnStarted, Continue, Goes, FlagsInv, TypeOK
<1>4. ASSUME NEW c \in Calls, Moves(c) PROVE FlagsInv'
  BY <1>4 DEF Moves, OthersKept, FlagsInv
<1>5. ASSUME NEW c \in Calls, Takes(c) PROVE FlagsInv'
  <2>1. PICK i \in deferred : Take(turn[c], i)
    BY <1>5 DEF Takes
  <2>2. i \in Nat /\ turn[c] \in Turns
    BY <1>5, LenProperties DEF TypeOK, Takes
  <2>3. session' = [session EXCEPT ![turn[c]] = Apply(session[turn[c]], i)]
    BY <2>1 DEF Take
  <2>4. session[turn[c]] \in Session
    BY <2>2 DEF TypeOK
  <2>5. \A t \in Turns : /\ session[t].completed => session'[t].completed
                         /\ session'[t].interrupted => session'[t].completed
    BY <2>2, <2>3, <2>4, ApplyFlags DEF TypeOK, FlagsInv
  <2>6. \A d \in Calls : pc'[d] = "reading" =>
                            d # c /\ pc[d] = "reading" /\ turn'[d] = turn[d]
                            /\ turn[d] \in Turns
    BY <1>5 DEF Takes, OthersKept, TypeOK
  <2> QED BY <2>5, <2>6 DEF FlagsInv
<1>6. ASSUME NEW c \in Calls, Settles(c) PROVE FlagsInv'
  BY <1>6 DEF Settles, OthersKept, FlagsInv
<1> QED
  BY <1>1, <1>2, <1>3, <1>4, <1>5, <1>6, StepCases

\* The flags of the sessions are consistent in every reachable state.
LEMMA FlagsCorrect == Spec => [](TypeOK /\ FlagsInv)
<1>1. Init => TypeOK /\ FlagsInv
  BY TypeInit, FlagsInit
<1>2. TypeOK /\ FlagsInv /\ [Next]_vars => TypeOK' /\ FlagsInv'
  BY TypeNext, FlagsNext
<1> QED BY <1>1, <1>2, PTL DEF Spec

\* _cleanup_turn_state is reached only for a turn whose session is terminal,
\* whichever calls share the turn and wherever they are suspended.
THEOREM ReleasedOnlyWhenTerminal == Spec => ReleasedWhenTerminal
<1> DEFINE Released == \A t \in tracked \ tracked' :
                          Terminal(session[t]) \/ link' = "closed"
<1>1. TypeOK /\ FlagsInv /\ [Next]_vars => [Released]_vars
  <2> SUFFICES ASSUME TypeOK, FlagsInv, [Next]_vars,
                      NEW t \in tracked, t \notin tracked'
               PROVE  Terminal(session[t]) \/ link' = "closed"
    OBVIOUS
  <2>1. CASE ServerStep \/ ClientStep \/ UNCHANGED vars
    BY <2>1 DEF ServerStep, ClientStep, EmitItem, EmitTerminal, EmitEcho, Publish,
                ReceiverFails, CloseBegins, CloseClears, vars
  <2>2. ASSUME NEW c \in Calls,
               (\E s \in Turns : StartTurn(c, s)) \/ TurnStarted(c) \/ Moves(c)
               \/ Takes(c)
        PROVE  FALSE
    BY <2>2 DEF StartTurn, TurnStarted, Moves, Takes
  <2>3. ASSUME NEW c \in Calls, Settles(c) PROVE Terminal(session[t])
    <3>1. t = turn[c] /\ turn[c] \in Turns
      BY <2>3 DEF Settles, Cleanup
    <3>2. \/ Unsuccessful(session[t]) \/ session[t].completed
          \/ pc[c] = "reading" \/ Terminal(session[t])
      BY <2>3, <3>1 DEF Settles
    <3> QED BY <3>1, <3>2 DEF FlagsInv, Unsuccessful, Terminal
  <2> QED BY <2>1, <2>2, <2>3, StepCases
<1> QED
  BY <1>1, FlagsCorrect, PTL DEF Spec, ReleasedWhenTerminal

-----------------------------------------------------------------------------
(* A server that names the turn in every envelope.                           *)

NamesTurns == Forms \subseteq {"turn"}

Envelopes == \A i \in DOMAIN arrived :
                /\ arrived[i].turnId = arrived[i].owner
                /\ arrived[i].threadId = ThreadOf[arrived[i].owner]

\* A turn that was not started, or whose start is not answered, is untouched.
Untouched(t) == session[t].raw = <<>> /\ t \notin tracked
Fresh ==
    /\ \A t \in Turns : verdict[t] = "none" =>
          /\ Untouched(t) /\ Own(t) = {}
          /\ \A c \in Calls : pc[c] # "idle" => turn[c] # t
    /\ \A d \in Calls : pc[d] = "starting" =>
          /\ Untouched(turn[d])
          /\ \A c \in Calls \ {d} : pc[c] # "idle" => turn[c] # turn[d]

\* NothingLost of one turn.
Conserved(t) ==
    LET raw == session[t].raw
        waiting == Own(t) \cap deferred
    IN  /\ Own(t) \subseteq RangeOf(raw) \cup waiting
        /\ \A j, k \in DOMAIN raw : j < k => raw[j] < raw[k]
        /\ \A j \in DOMAIN raw : \A i \in waiting : raw[j] < i

RoutingInv == Envelopes /\ Fresh /\ OwnEventsOnly /\ NothingLost

\* With named turns, the buffer holds for a turn exactly the events about it.
LEMMA MatchingNamed ==
    ASSUME TypeOK, Envelopes, NEW t \in Turns, NEW keys \in SUBSET Turns
    PROVE  Matching(t, keys) = Own(t) \cap deferred
<1>1. ASSUME NEW i \in deferred
      PROVE  EventIsForTurn(arrived[i], t, keys) <=> arrived[i].owner = t
  <2>1. i \in DOMAIN arrived /\ arrived[i] \in Event
    BY LenProperties, ElementOfSeq DEF TypeOK
  <2>2. arrived[i].turnId = arrived[i].owner /\ arrived[i].owner \in Turns
        /\ arrived[i].threadId = ThreadOf[arrived[i].owner]
    BY <2>1 DEF Envelopes, Event
  <2> QED BY <2>2, TurnsAssumption DEF EventIsForTurn
<1> QED
  BY <1>1 DEF Matching, Own, TypeOK

\* Appending to a sequence: its range, and its order when the new element is
\* the greatest.
LEMMA RangeAppend ==
    ASSUME NEW S, NEW s \in Seq(S), NEW x \in S
    PROVE  RangeOf(Append(s, x)) = RangeOf(s) \cup {x}
<1>1. /\ DOMAIN s = 1 .. Len(s) /\ Len(s) \in Nat
      /\ DOMAIN Append(s, x) = 1 .. Len(s) + 1
      /\ \A j \in 1 .. Len(s) : Append(s, x)[j] = s[j]
      /\ Append(s, x)[Len(s) + 1] = x
  BY AppendProperties, LenProperties
<1>2. ASSUME NEW y \in RangeOf(Append(s, x)) PROVE y \in RangeOf(s) \cup {x}
  <2>1. PICK j \in 1 .. Len(s) + 1 : y = Append(s, x)[j]
    BY <1>1 DEF RangeOf
  <2>2. CASE j = Len(s) + 1
    BY <1>1, <2>1, <2>2
  <2>3. CASE j \in 1 .. Len(s)
    BY <1>1, <2>1, <2>3 DEF RangeOf
  <2> QED BY <1>1, <2>2, <2>3
<1>3. ASSUME NEW y \in RangeOf(s) PROVE y \in RangeOf(Append(s, x))
  <2>1. PICK j \in 1 .. Len(s) : y = s[j]
    BY <1>1 DEF RangeOf
  <2>2. j \in DOMAIN Append(s, x) /\ y = Append(s, x)[j]
    BY <1>1, <2>1
  <2> QED BY <2>2 DEF RangeOf
<1>4. x \in RangeOf(Append(s, x))
  <2>1. Len(s) + 1 \in DOMAIN Append(s, x)
    BY <1>1
  <2> QED BY <1>1, <2>1 DEF RangeOf
<1> QED
  BY <1>2, <1>3, <1>4

Sorted(s) == \A j, k \in DOMAIN s : j < k => s[j] < s[k]

\* Appending a larger number keeps a sequence sorted.
LEMMA AppendSorted ==
    ASSUME NEW s \in Seq(Nat), NEW x \in Nat, Sorted(s),
           \A j \in DOMAIN s : s[j] < x
    PROVE  Sorted(Append(s, x))
<1>1. /\ DOMAIN s = 1 .. Len(s) /\ Len(s) \in Nat
      /\ DOMAIN Append(s, x) = 1 .. Len(s) + 1
      /\ \A j \in 1 .. Len(s) : Append(s, x)[j] = s[j]
      /\ Append(s, x)[Len(s) + 1] = x
  BY AppendProperties, LenProperties
<1> SUFFICES ASSUME NEW j \in 1 .. Len(s) + 1, NEW k \in 1 .. Len(s) + 1, j < k
             PROVE  Append(s, x)[j] < Append(s, x)[k]
  BY <1>1 DEF Sorted
<1>2. j \in 1 .. Len(s) /\ Append(s, x)[j] = s[j]
  BY <1>1
<1>3. CASE k = Len(s) + 1
  BY <1>1, <1>2, <1>3
<1>4. CASE k \in 1 .. Len(s)
  BY <1>1, <1>2, <1>4 DEF Sorted
<1> QED
  BY <1>1, <1>3, <1>4

\* Consuming the earliest buffered event of a turn keeps its order.
LEMMA TakeConserves ==
    ASSUME TypeOK, Envelopes, OwnEventsOnly, NEW t \in Turns, NEW i \in deferred,
           Take(t, i), UNCHANGED arrived
    PROVE  /\ \A s \in Turns \ {t} : session'[s] = session[s]
           /\ session'[t].raw = Append(session[t].raw, i)
           /\ i \in Own(t)
           /\ \A s \in Turns : Conserved(s) => Conserved(s)'
           /\ OwnEventsOnly'
<1>1. PICK raw : raw = session[t].raw
  OBVIOUS
<1>2. /\ session' = [session EXCEPT ![t] = Apply(session[t], i)]
      /\ deferred' = deferred \ {i}
  BY DEF Take
<1>3. /\ session'[t].raw = Append(raw, i)
      /\ \A s \in Turns \ {t} : session'[s] = session[s]
  BY <1>1, <1>2 DEF TypeOK, Apply
<1>4. i \in Own(t) \cap deferred /\ \A j \in Own(t) \cap deferred : i <= j
  BY MatchingNamed DEF Take, FoundFor, TypeOK
<1>5. \A s \in Turns : Own(s)' = Own(s)
  BY DEF Own
<1>6. raw \in Seq(Nat) /\ i \in Nat /\ DOMAIN raw = 1 .. Len(raw) /\ Len(raw) \in Nat
  BY <1>1, LenProperties DEF TypeOK, Session
<1>7. RangeOf(Append(raw, i)) = RangeOf(raw) \cup {i}
  BY <1>6, RangeAppend
<1>8. ASSUME Conserved(t) PROVE Conserved(t)'
  <2>1. Own(t) \subseteq RangeOf(Append(raw, i)) \cup (Own(t) \cap deferred')
    BY <1>1, <1>2, <1>7, <1>8 DEF Conserved
  <2>2. \A j \in DOMAIN raw : raw[j] < i
    BY <1>1, <1>4, <1>8 DEF Conserved
  <2>3. Sorted(Append(raw, i))
    BY <1>1, <1>6, <1>8, <2>2, AppendSorted DEF Conserved, Sorted
  <2>4. ASSUME NEW j \in DOMAIN Append(raw, i), NEW k \in Own(t) \cap deferred'
        PROVE  Append(raw, i)[j] < k
    <3>1. Append(raw, i)[j] \in RangeOf(raw) \cup {i}
      BY <1>7 DEF RangeOf
    <3>2. k \in Own(t) \cap deferred /\ k # i /\ k \in Nat
      BY <1>2, LenProperties DEF TypeOK
    <3>3. i < k
      BY <1>4, <1>6, <3>2
    <3>4. \A y \in RangeOf(raw) : y < k
      BY <1>1, <1>8, <3>2 DEF Conserved, RangeOf
    <3> QED BY <3>1, <3>3, <3>4
  <2> QED BY <1>3, <1>5, <2>1, <2>3, <2>4 DEF Conserved, Sorted
<1>9. ASSUME NEW s \in Turns \ {t}, Conserved(s) PROVE Conserved(s)'
  <2>1. Own(s) \cap deferred' = Own(s) \cap deferred
    BY <1>2, <1>4 DEF Own
  <2>2. session'[s] = session[s] /\ Own(s)' = Own(s)
    BY <1>3, <1>5
  <2>3. (Own(s) \cap deferred)' = Own(s) \cap deferred
    BY <2>1, <2>2
  <2> QED BY <1>9, <2>2, <2>3 DEF Conserved
<1>10. ASSUME NEW s \in Turns PROVE RangeOf(session'[s].raw) \subseteq Own(s)'
  <2>1. CASE s = t
    BY <1>1, <1>3, <1>4, <1>5, <1>7, <2>1 DEF OwnEventsOnly
  <2>2. CASE s # t
    BY <1>3, <1>5, <2>2 DEF OwnEventsOnly
  <2> QED BY <2>1, <2>2
<1>11. OwnEventsOnly'
  BY <1>10 DEF OwnEventsOnly
<1> QED
  BY <1>1, <1>3, <1>4, <1>8, <1>9, <1>11

\* A publication adds an event behind all others to the buffer.
LEMMA PublishRouting ==
    ASSUME TypeOK, RoutingInv, NEW e \in Event, Publish(e),
           e.turnId = e.owner, e.threadId = ThreadOf[e.owner],
           verdict[e.owner] # "none",
           \A t \in Turns : verdict'[t] = "none" => verdict[t] = "none"
    PROVE  RoutingInv'
<1> DEFINE new == Len(arrived) + 1
<1>1. /\ arrived' = Append(arrived, e) /\ deferred' = deferred \cup {new}
      /\ link = "up"
      /\ UNCHANGED <<tracked, session, pc, turn, link>>
  BY DEF Publish, callVars
<1>2. /\ Len(arrived) \in Nat /\ DOMAIN arrived = 1 .. Len(arrived)
      /\ DOMAIN arrived' = 1 .. new
      /\ \A i \in DOMAIN arrived : arrived'[i] = arrived[i]
      /\ arrived'[new] = e
  BY <1>1, AppendProperties, LenProperties DEF TypeOK
<1>3. \A t \in Turns : Own(t)' = IF t = e.owner THEN Own(t) \cup {new} ELSE Own(t)
  BY <1>2 DEF Own
<1>4. new \notin DOMAIN arrived /\ \A i \in DOMAIN arrived : i < new
  BY <1>2
<1>5. Envelopes'
  BY <1>2 DEF Envelopes, RoutingInv
<1>6. Fresh'
  <2>1. ASSUME NEW t \in Turns, verdict'[t] = "none"
        PROVE  /\ Untouched(t)' /\ Own(t)' = {}
               /\ \A c \in Calls : pc'[c] # "idle" => turn'[c] # t
    <3>1. verdict[t] = "none" /\ t # e.owner
      BY <2>1
    <3> QED BY <1>1, <1>3, <3>1 DEF Fresh, Untouched, RoutingInv
  <2>2. \A s : Untouched(s) => Untouched(s)'
    BY <1>1 DEF Untouched
  <2> QED BY <1>1, <2>1, <2>2 DEF Fresh, RoutingInv
<1>7. OwnEventsOnly'
  BY <1>1, <1>3 DEF OwnEventsOnly, RoutingInv
<1>8. NothingLost'
  <2> SUFFICES ASSUME NEW t \in Turns, Live(t) PROVE Conserved(t)'
    BY <1>1 DEF NothingLost, Conserved, Live
  <2>1. Conserved(t)
    BY <1>1 DEF RoutingInv, NothingLost, Conserved
  <2>2. (Own(t) \cap deferred)' \subseteq (Own(t) \cap deferred) \cup {new}
    BY <1>1, <1>3, <1>4
  <2>3. Own(t)' \subseteq RangeOf(session[t].raw) \cup (Own(t) \cap deferred)'
    BY <1>1, <1>3, <2>1 DEF Conserved
  <2>4. \A j \in DOMAIN session[t].raw : session[t].raw[j] < new
    <3>1. RangeOf(session[t].raw) \subseteq DOMAIN arrived
      BY DEF RoutingInv, OwnEventsOnly, Own
    <3> QED BY <1>4, <3>1 DEF RangeOf
  <2> QED BY <1>1, <2>1, <2>2, <2>3, <2>4 DEF Conserved
<1> QED
  BY <1>5, <1>6, <1>7, <1>8 DEF RoutingInv

\* What the server may publish about a turn satisfies PublishRouting.
LEMMA ServerRouting ==
    ASSUME NamesTurns, TypeOK, RoutingInv, ServerStep
    PROVE  RoutingInv'
<1>1. ASSUME NEW t \in Turns, NEW form \in Forms \cup {"turn"}, NEW kind \in Kinds,
             NEW item \in Items \cup {NoId},
             Publish(Envelope(t, form, kind, item)), verdict[t] # "none",
             \A s \in Turns : verdict'[s] = "none" => verdict[s] = "none"
      PROVE  RoutingInv'
  <2>1. PICK e : e = Envelope(t, form, kind, item)
    OBVIOUS
  <2>2. e \in Event /\ e.turnId = t /\ e.threadId = ThreadOf[t] /\ e.owner = t
    BY <2>1 DEF NamesTurns, Envelope, Event
  <2>3. Publish(e)
    BY <1>1, <2>1
  <2> QED BY <1>1, <2>2, <2>3, PublishRouting
<1>2. ASSUME NEW t \in Turns, EmitItem(t) PROVE RoutingInv'
  <2>1. PICK kind \in Says, item \in Items \cup {NoId} :
           Publish(Envelope(t, "turn", kind, item))
    BY <1>2 DEF EmitItem
  <2>2. kind \in Kinds
    BY SaysAssumption DEF Kinds, ItemKinds
  <2>3. verdict[t] = "running" /\ UNCHANGED verdict
    BY <1>2 DEF EmitItem
  <2> QED BY <1>1, <2>1, <2>2, <2>3
<1>3. ASSUME NEW t \in Turns, EmitTerminal(t) PROVE RoutingInv'
  <2>1. PICK form \in Forms, kind \in TerminalKinds :
           /\ Publish(Envelope(t, form, kind, NoId))
           /\ verdict' = [verdict EXCEPT ![t] = VerdictOf(kind)]
    BY <1>3 DEF EmitTerminal
  <2>2. verdict[t] = "running" /\ VerdictOf(kind) # "none" /\ kind \in Kinds
    BY <1>3 DEF EmitTerminal, VerdictOf, TerminalKinds, CompletedKinds, Kinds
  <2>3. \A s \in Turns : verdict'[s] = "none" => verdict[s] = "none"
    BY <2>1, <2>2 DEF TypeOK
  <2> QED BY <1>1, <2>1, <2>2, <2>3
<1>4. ASSUME NEW t \in Turns, EmitEcho(t) PROVE RoutingInv'
  <2>1. PICK form \in Forms : Publish(Envelope(t, form, "completedFailed", NoId))
    BY <1>4 DEF EmitEcho
  <2>2. Own(t) # {} /\ UNCHANGED verdict /\ "completedFailed" \in Kinds
    BY <1>4 DEF EmitEcho, Own, Kinds, TerminalKinds, CompletedKinds
  <2>3. verdict[t] # "none"
    BY <2>2 DEF RoutingInv, Fresh
  <2> QED BY <1>1, <2>1, <2>2, <2>3
<1> QED
  BY <1>2, <1>3, <1>4 DEF ServerStep

\* A step that leaves the events and the turns alone, and puts a call on no
\* turn that is not tracked.
LEMMA StillRouting ==
    ASSUME TypeOK, RoutingInv, NEW c \in Calls, Moves(c)
    PROVE  RoutingInv'
<1> USE DEF Moves, OthersKept, RoutingInv
<1>1. Envelopes' /\ OwnEventsOnly' /\ \A t \in Turns : Own(t)' = Own(t)
  BY DEF Envelopes, OwnEventsOnly, Own
<1>2. \A t \in Turns : t \notin tracked =>
         ((\E d \in Calls : pc'[d] # "idle" /\ turn'[d] = t)
             => \E d \in Calls : pc[d] # "idle" /\ turn[d] = t)
  OBVIOUS
<1>3. Fresh'
  BY <1>1 DEF Fresh, Untouched
<1>4. NothingLost'
  BY <1>1 DEF NothingLost, Live
<1> QED BY <1>1, <1>3, <1>4

\* Every step keeps the invariant about where events are (RoutingInv).
LEMMA RoutingNext ==
    ASSUME NamesTurns
    PROVE  TypeOK /\ RoutingInv /\ [Next]_vars => RoutingInv'
<1> SUFFICES ASSUME TypeOK, RoutingInv, [Next]_vars PROVE RoutingInv'
  OBVIOUS
<1>1. CASE ClientStep
  BY <1>1 DEF ClientStep, ReceiverFails, CloseBegins, CloseClears, serverVars,
              callVars, RoutingInv, Envelopes, Fresh, Untouched, Own,
              OwnEventsOnly, NothingLost, Live
<1>2. ASSUME NEW c \in Calls, NEW t \in Turns, StartTurn(c, t) PROVE RoutingInv'
  <2>1. /\ verdict' = [verdict EXCEPT ![t] = "running"] /\ verdict[t] = "none"
        /\ pc' = [pc EXCEPT ![c] = "starting"] /\ turn' = [turn EXCEPT ![c] = t]
        /\ pc[c] = "idle"
        /\ UNCHANGED <<arrived, deferred, tracked, session, link>>
    BY <1>2 DEF StartTurn, MayCall, Idle, Suspend, Goes
  <2>2. Envelopes' /\ OwnEventsOnly' /\ \A s \in Turns : Own(s)' = Own(s)
    BY <2>1 DEF RoutingInv, Envelopes, OwnEventsOnly, Own
  <2>3. Fresh'
    BY <2>1, <2>2 DEF RoutingInv, Fresh, Untouched, TypeOK
  <2>4. ASSUME NEW s \in Turns, link' # "closed", Live(s)' PROVE Conserved(s)'
    <3>1. Conserved(s)
      <4>1. CASE s = t
        BY <2>1, <4>1 DEF Conserved, RoutingInv, Fresh, Untouched
      <4>2. CASE s # t
        BY <2>1, <2>4, <4>2 DEF Conserved, RoutingInv, NothingLost, Live, TypeOK
      <4> QED BY <4>1, <4>2
    <3> QED BY <2>1, <2>2, <3>1 DEF Conserved
  <2> QED BY <2>2, <2>3, <2>4 DEF RoutingInv, NothingLost, Conserved
<1>3. ASSUME NEW c \in Calls, TurnStarted(c) PROVE RoutingInv'
  <2>1. /\ tracked' = tracked \cup {turn[c]} /\ pc[c] = "starting"
        /\ pc'[c] # "starting" /\ pc'[c] # "idle"
        /\ \A d \in Calls \ {c} : pc'[d] = pc[d]
        /\ UNCHANGED <<verdict, arrived, deferred, session, turn, link>>
    BY <1>3 DEF TurnStarted, Continue, Goes, serverVars, TypeOK
  <2>2. Envelopes' /\ OwnEventsOnly' /\ \A s \in Turns : Own(s)' = Own(s)
    BY <2>1 DEF RoutingInv, Envelopes, OwnEventsOnly, Own
  <2>3. Fresh'
    BY <2>1, <2>2, SMTT(30) DEF RoutingInv, Fresh, Untouched, TypeOK
  <2>4. \A s \in Turns : Live(s)' => Live(s)
    BY <2>1 DEF Live
  <2> QED BY <2>1, <2>2, <2>3, <2>4 DEF RoutingInv, NothingLost
<1>4. ASSUME NEW c \in Calls, Takes(c) PROVE RoutingInv'
  <2>1. PICK i \in deferred : Take(turn[c], i)
    BY <1>4 DEF Takes
  <2>2. /\ turn[c] \in Turns /\ UNCHANGED <<verdict, arrived, tracked, link>>
        /\ OthersKept(c) /\ pc'[c] # "starting"
        /\ pc[c] \notin {"idle", "starting"} /\ turn'[c] = turn[c]
    BY <1>4 DEF Takes
  <2>3. /\ \A s \in Turns \ {turn[c]} : session'[s] = session[s]
        /\ i \in Own(turn[c])
        /\ \A s \in Turns : Conserved(s) => Conserved(s)'
        /\ OwnEventsOnly'
    BY <2>1, <2>2, TakeConserves DEF RoutingInv
  <2>4. Envelopes' /\ \A s \in Turns : Own(s)' = Own(s)
    BY <2>2 DEF RoutingInv, Envelopes, Own
  <2>5. Fresh'
    <3>1. \A s \in Turns : Untouched(s) /\ s # turn[c] => Untouched(s)'
      BY <2>2, <2>3 DEF Untouched
    <3>2. /\ verdict[turn[c]] # "none"
          /\ \A d \in Calls : pc[d] = "starting" => turn[d] # turn[c]
      BY <2>2 DEF RoutingInv, Fresh
    <3>3. \A d \in Calls : /\ turn'[d] = turn[d]
                           /\ pc'[d] = "starting" => pc[d] = "starting"
                           /\ pc'[d] # "idle" => pc[d] # "idle"
      BY <2>2 DEF OthersKept
    <3>4. \A d \in Calls : pc[d] = "starting" => turn[d] \in Turns
      BY DEF TypeOK
    <3> QED BY <2>2, <2>4, <3>1, <3>2, <3>3, <3>4 DEF RoutingInv, Fresh
  <2>6. \A s \in Turns : Live(s)' => Live(s)
    BY <2>2 DEF Live, OthersKept
  <2>7. NothingLost'
    BY <2>2, <2>3, <2>6 DEF RoutingInv, NothingLost, Conserved
  <2> QED BY <2>3, <2>4, <2>5, <2>7 DEF RoutingInv
<1>5. ASSUME NEW c \in Calls, Settles(c) PROVE RoutingInv'
  <2>1. /\ turn[c] \in Turns /\ Cleanup(turn[c])
        /\ UNCHANGED <<verdict, arrived, session, link>>
        /\ OthersKept(c) /\ pc'[c] = "idle" /\ pc[c] \notin {"idle", "starting"}
    BY <1>5 DEF Settles
  <2>2. Envelopes' /\ OwnEventsOnly' /\ \A s \in Turns : Own(s)' = Own(s)
    BY <2>1 DEF RoutingInv, Envelopes, OwnEventsOnly, Own
  <2>3. tracked' = tracked \ {turn[c]} /\ deferred' = deferred \ Own(turn[c])
    <3>1. Envelopes /\ tracked \ {turn[c]} \in SUBSET Turns
      BY DEF RoutingInv, TypeOK
    <3>2. DroppedFor(turn[c]) = Own(turn[c]) \cap deferred
      BY <2>1, <3>1, MatchingNamed DEF DroppedFor
    <3> QED BY <2>1, <3>2 DEF Cleanup
  <2>4. Fresh'
    <3>1. \A s : Untouched(s) => Untouched(s)'
      BY <2>1, <2>3 DEF Untouched
    <3>2. \A d \in Calls : pc'[d] # "idle" =>
                              d # c /\ pc'[d] = pc[d] /\ turn'[d] = turn[d]
      BY <2>1 DEF OthersKept
    <3>3. ASSUME NEW s \in Turns, verdict'[s] = "none"
          PROVE  /\ Untouched(s)' /\ Own(s)' = {}
                 /\ \A d \in Calls : pc'[d] # "idle" => turn'[d] # s
      BY <2>1, <2>2, <3>1, <3>2, <3>3 DEF RoutingInv, Fresh
    <3>4. ASSUME NEW d \in Calls, pc'[d] = "starting"
          PROVE  /\ session'[turn'[d]].raw = <<>> /\ turn'[d] \notin tracked'
                 /\ \A e \in Calls \ {d} : pc'[e] # "idle" => turn'[e] # turn'[d]
      <4>1. pc[d] = "starting" /\ turn'[d] = turn[d]
        BY <3>2, <3>4
      <4>2. session'[turn[d]].raw = <<>> /\ turn[d] \notin tracked'
        BY <2>1, <2>3, <4>1 DEF RoutingInv, Fresh, Untouched
      <4> QED BY <3>2, <4>1, <4>2 DEF RoutingInv, Fresh, Untouched
    <3> QED BY <3>3, <3>4 DEF Fresh, Untouched
  <2>5. ASSUME NEW s \in Turns, link' # "closed", Live(s)' PROVE Conserved(s)'
    <3>1. s # turn[c] /\ Live(s)
      <4>1. CASE s \in tracked'
        BY <2>3, <4>1 DEF Live
      <4>2. ASSUME NEW d \in Calls, pc'[d] = "starting", turn'[d] = s
            PROVE  s # turn[c] /\ Live(s)
        <5>1. d # c /\ pc[d] = "starting" /\ turn[d] = s
          BY <2>1, <4>2 DEF OthersKept
        <5>2. turn[c] # turn[d]
          BY <2>1, <5>1 DEF RoutingInv, Fresh
        <5> QED BY <5>1, <5>2 DEF Live
      <4> QED BY <2>5, <4>1, <4>2 DEF Live
    <3>2. (Own(s) \cap deferred)' = Own(s) \cap deferred
      BY <2>2, <2>3, <3>1 DEF Own
    <3> QED
      BY <2>1, <2>2, <2>5, <3>1, <3>2 DEF Conserved, RoutingInv, NothingLost
  <2> QED BY <2>2, <2>4, <2>5 DEF RoutingInv, NothingLost, Conserved
<1>6. CASE UNCHANGED vars
  BY <1>6 DEF vars, callVars, RoutingInv, Envelopes, Fresh, Untouched, Own,
              OwnEventsOnly, NothingLost, Live
<1> QED
  BY <1>1, <1>2, <1>3, <1>4, <1>5, <1>6, StepCases, ServerRouting, StillRouting

\* No event exists in the initial state.
LEMMA RoutingInit == Init => RoutingInv
  BY LenProperties, EmptySeq
  DEF Init, RoutingInv, Envelopes, Fresh, Untouched, Own, OwnEventsOnly,
      NothingLost, Live, NewSession, RangeOf

\* The invariant about where events are holds in every reachable state.
LEMMA RoutingCorrect ==
    ASSUME NamesTurns
    PROVE  Spec => [](TypeOK /\ RoutingInv)
<1>1. Init => TypeOK /\ RoutingInv
  BY TypeInit, RoutingInit
<1>2. TypeOK /\ RoutingInv /\ [Next]_vars => TypeOK' /\ RoutingInv'
  BY TypeNext, RoutingNext
<1> QED BY <1>1, <1>2, PTL DEF Spec

\* A turn consumes only the events about it, with any number of turns and calls.
THEOREM RoutesOwnEvents ==
    ASSUME NamesTurns
    PROVE  Spec => []OwnEventsOnly
<1>1. RoutingInv => OwnEventsOnly
  BY DEF RoutingInv
<1> QED BY <1>1, RoutingCorrect, PTL

\* No event of a turn is lost or overtaken before the turn is released.
THEOREM LosesNothing ==
    ASSUME NamesTurns
    PROVE  Spec => []NothingLost
<1>1. RoutingInv => NothingLost
  BY DEF RoutingInv
<1> QED BY <1>1, RoutingCorrect, PTL

-----------------------------------------------------------------------------
(* What the application is told of the end of a turn.                        *)

\* The flags of a session say what the server decided.
FlagsSay(t) ==
    LET s == session[t] IN
    /\ s.completed /\ ~Unsuccessful(s) => verdict[t] = "success"
    /\ s.failed => verdict[t] = "failed"
    /\ s.interrupted => verdict[t] = "interrupted"

VerdictInv ==
    /\ \A i \in DOMAIN arrived : arrived[i].kind \in TerminalKinds
          => verdict[arrived[i].owner] = VerdictOf(arrived[i].kind)
    /\ \A t \in Turns : FlagsSay(t)
    /\ \A c \in Calls : pc[c] = "reading" => verdict[turn[c]] = "success"
    /\ \A r \in reports : r.turn \in Turns
    /\ OutcomesTruthful

\* A verdict is final.
LEMMA VerdictFinal ==
    ASSUME TypeOK, [Next]_vars, NEW t \in Turns, verdict[t] \in Ended
    PROVE  verdict'[t] = verdict[t]
<1>1. CASE ServerStep
  BY <1>1 DEF ServerStep, EmitItem, EmitTerminal, EmitEcho, TypeOK, Ended
<1>2. CASE ClientStep
  BY <1>2 DEF ClientStep, ReceiverFails, CloseBegins, CloseClears, serverVars
<1>3. ASSUME NEW c \in Calls, NEW s \in Turns, StartTurn(c, s)
      PROVE  verdict'[t] = verdict[t]
  BY <1>3 DEF StartTurn, TypeOK, Ended
<1>4. ASSUME NEW c \in Calls, TurnStarted(c) \/ Moves(c) \/ Takes(c) \/ Settles(c)
      PROVE  verdict'[t] = verdict[t]
  BY <1>4 DEF TurnStarted, Moves, Takes, Settles, serverVars
<1>5. CASE UNCHANGED vars
  BY <1>5 DEF vars
<1> QED
  BY <1>1, <1>2, <1>3, <1>4, <1>5, StepCases

\* A terminal event decides a turn.
LEMMA VerdictKinds ==
    \A kind \in TerminalKinds : VerdictOf(kind) \in Ended
  BY DEF VerdictOf, TerminalKinds, CompletedKinds, Ended

\* Applying an event of the turn keeps its flags in step with the verdict.
LEMMA ApplySays ==
    ASSUME TypeOK, NEW t \in Turns, NEW i \in DOMAIN arrived, FlagsSay(t),
           arrived[i].kind \in TerminalKinds => verdict[t] = VerdictOf(arrived[i].kind),
           session' = [session EXCEPT ![t] = Apply(session[t], i)],
           UNCHANGED <<arrived, verdict>>
    PROVE  FlagsSay(t)'
<1>1. PICK s, kind : s = session[t] /\ kind = arrived[i].kind
  OBVIOUS
<1>2. /\ session'[t].completed = (s.completed \/ kind \in CompletedKinds)
      /\ session'[t].failed = IF kind \in CompletedKinds THEN kind = "completedFailed"
                              ELSE s.failed \/ kind = "turnFailed"
      /\ session'[t].interrupted =
            IF kind \in CompletedKinds THEN kind = "completedInterrupted"
                                       ELSE s.interrupted
  BY <1>1 DEF TypeOK, Apply
<1>3. CASE kind \in CompletedKinds
  BY <1>1, <1>2, <1>3 DEF FlagsSay, Unsuccessful, TerminalKinds, CompletedKinds, VerdictOf
<1>4. CASE kind = "turnFailed"
  BY <1>1, <1>2, <1>4 DEF FlagsSay, Unsuccessful, TerminalKinds, CompletedKinds, VerdictOf
<1>5. CASE kind \notin TerminalKinds
  BY <1>1, <1>2, <1>5 DEF FlagsSay, Unsuccessful, TerminalKinds
<1> QED
  BY <1>3, <1>4, <1>5 DEF TerminalKinds

\* Every step keeps what calls report in agreement with the verdict.
LEMMA VerdictNext ==
    ASSUME NamesTurns
    PROVE  TypeOK /\ RoutingInv /\ VerdictInv /\ [Next]_vars => VerdictInv'
<1> SUFFICES ASSUME TypeOK, RoutingInv, VerdictInv, [Next]_vars PROVE VerdictInv'
  OBVIOUS
<1>1. \A t \in Turns : verdict[t] \in Ended => verdict'[t] = verdict[t]
  BY VerdictFinal
<1>2. \A i \in DOMAIN arrived : arrived[i].owner \in Turns
  <2> SUFFICES ASSUME NEW i \in DOMAIN arrived PROVE arrived[i] \in Event
    BY DEF Event
  <2> QED BY ElementOfSeq, LenProperties DEF TypeOK
<1>3. ASSUME NEW t \in Turns, FlagsSay(t), session'[t] = session[t]
      PROVE  FlagsSay(t)'
  <2>1. verdict[t] \in Ended => verdict'[t] = verdict[t]
    BY <1>1
  <2> QED BY <1>3, <2>1 DEF FlagsSay, Ended
<1>4. ASSUME UNCHANGED reports
      PROVE  OutcomesTruthful' /\ \A r \in reports' : r.turn \in Turns
  <2>1. ASSUME NEW r \in reports
        PROVE  verdict[r.turn] \in Ended => verdict'[r.turn] = verdict[r.turn]
    BY <1>1 DEF VerdictInv
  <2> QED BY <1>4, <2>1 DEF VerdictInv, OutcomesTruthful, Ended
<1>5. ASSUME UNCHANGED arrived
      PROVE  \A i \in DOMAIN arrived' : arrived'[i].kind \in TerminalKinds
                => verdict'[arrived'[i].owner] = VerdictOf(arrived'[i].kind)
  BY <1>1, <1>2, <1>5, VerdictKinds DEF VerdictInv
<1>6. ASSUME NEW c \in Calls, pc[c] = "reading", turn'[c] = turn[c]
      PROVE  verdict'[turn'[c]] = "success"
  <2>1. turn[c] \in Turns /\ verdict[turn[c]] = "success"
    BY <1>6 DEF VerdictInv, TypeOK
  <2> QED BY <1>1, <1>6, <2>1 DEF Ended
<1>7. CASE ServerStep
  <2>1. UNCHANGED <<session, pc, turn, reports>>
    BY <1>7 DEF ServerStep, EmitItem, EmitTerminal, EmitEcho, Publish, callVars,
                history
  <2>2. ASSUME NEW t \in Turns, NEW form, NEW kind, NEW item,
               Publish(Envelope(t, form, kind, item)),
               kind \in TerminalKinds => verdict'[t] = VerdictOf(kind)
        PROVE  \A i \in DOMAIN arrived' : arrived'[i].kind \in TerminalKinds
                  => verdict'[arrived'[i].owner] = VerdictOf(arrived'[i].kind)
    <3>0. PICK e : e = Envelope(t, form, kind, item)
      OBVIOUS
    <3>1. e.owner = t /\ e.kind = kind
      BY <3>0 DEF Envelope
    <3>2. arrived' = Append(arrived, e)
      BY <2>2, <3>0 DEF Publish
    <3>3. ASSUME NEW i \in DOMAIN arrived'
          PROVE  arrived'[i] = e \/ (i \in DOMAIN arrived /\ arrived'[i] = arrived[i])
      <4>1. /\ Len(arrived) \in Nat /\ DOMAIN arrived = 1 .. Len(arrived)
            /\ arrived \in Seq(Event \cup {e})
        BY LenProperties, SeqMonotonic DEF TypeOK
      <4>2. /\ DOMAIN arrived' = 1 .. Len(arrived) + 1
            /\ \A j \in 1 .. Len(arrived) : arrived'[j] = arrived[j]
            /\ arrived'[Len(arrived) + 1] = e
        BY <3>2, <4>1, AppendProperties, LenProperties
      <4> QED BY <4>1, <4>2
    <3>4. \A i \in DOMAIN arrived : arrived[i].kind \in TerminalKinds =>
             verdict'[arrived[i].owner] = VerdictOf(arrived[i].kind)
      BY <1>1, <1>2, VerdictKinds DEF VerdictInv
    <3> QED BY <2>2, <3>1, <3>3, <3>4
  <2>3. \A i \in DOMAIN arrived' : arrived'[i].kind \in TerminalKinds
           => verdict'[arrived'[i].owner] = VerdictOf(arrived'[i].kind)
    <3>1. PICK t \in Turns : EmitItem(t) \/ EmitTerminal(t) \/ EmitEcho(t)
      BY <1>7 DEF ServerStep
    <3>2. CASE EmitItem(t)
      <4>1. PICK kind \in Says, item \in Items \cup {NoId} :
                   Publish(Envelope(t, "turn", kind, item))
        BY <3>2 DEF EmitItem
      <4>2. kind \notin TerminalKinds
        BY SaysAssumption DEF TerminalKinds, CompletedKinds
      <4> QED BY <2>2, <4>1, <4>2
    <3>3. CASE EmitTerminal(t)
      <4>1. PICK form, kind : /\ Publish(Envelope(t, form, kind, NoId))
                              /\ verdict' = [verdict EXCEPT ![t] = VerdictOf(kind)]
        BY <3>3 DEF EmitTerminal
      <4>2. verdict'[t] = VerdictOf(kind)
        BY <4>1 DEF TypeOK
      <4> QED BY <2>2, <4>1, <4>2
    <3>4. CASE EmitEcho(t)
      <4>1. PICK form : Publish(Envelope(t, form, "completedFailed", NoId))
        BY <3>4 DEF EmitEcho
      <4>2. PICK i \in DOMAIN arrived :
               arrived[i].owner = t /\ arrived[i].kind = "turnFailed"
        BY <3>4 DEF EmitEcho
      <4>3. verdict[t] = VerdictOf("turnFailed") /\ UNCHANGED verdict
        BY <3>4, <4>2 DEF VerdictInv, TerminalKinds, EmitEcho
      <4>4. verdict'[t] = VerdictOf("completedFailed")
        BY <4>3 DEF VerdictOf
      <4> QED BY <2>2, <4>1, <4>4
    <3> QED BY <3>1, <3>2, <3>3, <3>4
  <2> QED BY <1>3, <1>4, <1>6, <2>1, <2>3 DEF VerdictInv
<1>8. CASE ClientStep \/ UNCHANGED vars
  <2>1. UNCHANGED <<verdict, arrived, session, pc, turn, reports>>
    BY <1>8 DEF ClientStep, ReceiverFails, CloseBegins, CloseClears, serverVars,
                callVars, history, vars
  <2> QED BY <1>3, <1>4, <1>5, <1>6, <2>1 DEF VerdictInv
<1>9. ASSUME NEW c \in Calls,
             (\E t \in Turns : StartTurn(c, t)) \/ TurnStarted(c) \/ Moves(c)
      PROVE  VerdictInv'
  <2>1. UNCHANGED <<arrived, session, reports>>
    BY <1>9 DEF StartTurn, TurnStarted, Moves, serverVars, history
  <2>2. ASSUME NEW d \in Calls, pc'[d] = "reading"
        PROVE  verdict'[turn'[d]] = "success"
    <3>1. CASE pc[d] = "reading" /\ turn'[d] = turn[d]
      BY <1>6, <3>1
    <3>2. CASE ~(pc[d] = "reading" /\ turn'[d] = turn[d])
      <4>1. Moves(c) /\ d = c
        <5>1. CASE \E t \in Turns : StartTurn(c, t)
          BY <2>2, <3>2, <5>1 DEF StartTurn, Suspend, Goes, TypeOK
        <5>2. CASE TurnStarted(c)
          BY <2>2, <3>2, <5>2 DEF TurnStarted, Continue, Goes, TypeOK
        <5>3. CASE Moves(c)
          BY <2>2, <3>2, <5>3 DEF Moves, OthersKept
        <5> QED BY <1>9, <5>1, <5>2, <5>3
      <4>2. /\ turn'[c] = turn[c] /\ turn[c] \in Turns
            /\ session[turn[c]].completed
            /\ ~Unsuccessful(session[turn[c]]) /\ UNCHANGED verdict
        BY <2>2, <4>1 DEF Moves
      <4> QED BY <4>1, <4>2 DEF VerdictInv, FlagsSay
    <3> QED BY <3>1, <3>2
  <2> QED BY <1>3, <1>4, <1>5, <2>1, <2>2 DEF VerdictInv
<1>10. ASSUME NEW c \in Calls, Takes(c) PROVE VerdictInv'
  <2>1. /\ turn[c] \in Turns /\ UNCHANGED <<verdict, arrived, reports>>
        /\ OthersKept(c) /\ pc'[c] # "reading"
    BY <1>10 DEF Takes
  <2>2. PICK i \in deferred : Take(turn[c], i)
    BY <1>10 DEF Takes
  <2>3. i \in Own(turn[c])
    BY <2>1, <2>2, TakeConserves DEF RoutingInv
  <2>4. session' = [session EXCEPT ![turn[c]] = Apply(session[turn[c]], i)]
    BY <2>2 DEF Take
  <2>5. ASSUME NEW t \in Turns PROVE FlagsSay(t)'
    <3>1. CASE t = turn[c]
      <4>1. i \in DOMAIN arrived /\ arrived[i].owner = t
        BY <2>3, <3>1 DEF Own
      <4>2. session' = [session EXCEPT ![t] = Apply(session[t], i)]
        BY <2>4, <3>1
      <4> QED BY <2>1, <4>1, <4>2, ApplySays DEF VerdictInv
    <3>2. CASE t # turn[c]
      <4>1. session'[t] = session[t]
        BY <2>4, <3>2 DEF TypeOK
      <4> QED BY <1>3, <4>1 DEF VerdictInv
    <3> QED BY <3>1, <3>2
  <2>7. \A d \in Calls : pc'[d] = "reading" => pc[d] = "reading" /\ turn'[d] = turn[d]
    BY <2>1 DEF OthersKept
  <2> QED BY <1>4, <1>5, <1>6, <2>1, <2>5, <2>7 DEF VerdictInv
<1>11. ASSUME NEW c \in Calls, Settles(c) PROVE VerdictInv'
  <2>1. /\ turn[c] \in Turns /\ UNCHANGED <<verdict, arrived, session>>
        /\ OthersKept(c) /\ pc'[c] = "idle"
    BY <1>11 DEF Settles
  <2>2. PICK kind : /\ reports' = reports \cup
                          {[turn |-> turn[c], op |-> op[c], kind |-> kind]}
                    /\ \/ /\ kind = "failed" /\ Unsuccessful(session[turn[c]])
                       \/ /\ kind \in {"ok", "unresolved"}
                          /\ \/ /\ session[turn[c]].completed
                                /\ ~Unsuccessful(session[turn[c]])
                             \/ pc[c] = "reading"
                       \/ /\ kind = CancelOutcome(session[turn[c]])
                          /\ Terminal(session[turn[c]])
    BY <1>11 DEF Settles
  <2>3. FlagsSay(turn[c])
    BY <2>1 DEF VerdictInv
  <2>4. /\ kind \in {"ok", "unresolved", "completed"} => verdict[turn[c]] = "success"
        /\ kind = "failed" => verdict[turn[c]] \in {"failed", "interrupted"}
        /\ kind = "interrupted" => verdict[turn[c]] = "interrupted"
        /\ kind = "neither" => verdict[turn[c]] = "failed"
    BY <2>2, <2>3 DEF FlagsSay, CancelOutcome, Terminal, Unsuccessful, VerdictInv
  <2>5. OutcomesTruthful' /\ \A r \in reports' : r.turn \in Turns
    BY <2>1, <2>2, <2>4 DEF OutcomesTruthful, VerdictInv
  <2>6. \A d \in Calls : pc'[d] = "reading" => pc[d] = "reading" /\ turn'[d] = turn[d]
    BY <2>1 DEF OthersKept
  <2> QED BY <1>3, <1>5, <1>6, <2>1, <2>5, <2>6 DEF VerdictInv
<1> QED
  BY <1>7, <1>8, <1>9, <1>10, <1>11, StepCases

\* Nothing is reported in the initial state.
LEMMA VerdictInit == Init => VerdictInv
  BY EmptySeq, LenProperties
  DEF Init, VerdictInv, FlagsSay, NewSession, Unsuccessful, OutcomesTruthful

\* No failed or interrupted turn is returned as a success, no success is raised
\* as a failure, and the flags of a CancelResult tell the outcome, whichever
\* calls share a turn.
THEOREM TellsTheOutcome ==
    ASSUME NamesTurns
    PROVE  Spec => []OutcomesTruthful
<1>1. Init => VerdictInv
  BY VerdictInit
<1>2. TypeOK /\ RoutingInv /\ VerdictInv /\ [Next]_vars => VerdictInv'
  BY VerdictNext
<1>3. VerdictInv => OutcomesTruthful
  BY DEF VerdictInv
<1> QED BY <1>1, <1>2, <1>3, RoutingCorrect, PTL DEF Spec

-----------------------------------------------------------------------------
(* A continuation that is handed out can be resumed.                         *)

\* With one call at a time on a turn, a call that is past turn/start has its
\* turn for itself, and the turn is tracked until the call leaves or the client
\* is closed.
HeldInv ==
    /\ \A c, d \in Calls : pc[c] # "idle" /\ pc[d] # "idle" /\ c # d => turn[c] # turn[d]
    /\ \A c \in Calls : pc[c] \notin {"idle", "starting"} =>
                           turn[c] \in tracked \/ link = "closed"

\* Call c goes on with its turn, or leaves it, and releases nothing.
GoesOn(c) ==
    /\ UNCHANGED <<tracked, link>> /\ OthersKept(c)
    /\ \/ pc'[c] = "idle"
       \/ pc[c] \notin {"idle", "starting"} /\ pc'[c] # "starting" /\ turn'[c] = turn[c]

\* The steps that do so.
LEMMA GoesOnOf ==
    ASSUME TypeOK, NEW c \in Calls, TaskStep(c)
    PROVE  TurnStarted(c) \/ Settles(c) \/ GoesOn(c)
<1>1. CASE \/ StartFails(c) \/ ReadFails(c) \/ InterruptFails(c) \/ ConnectionLost(c)
           \/ GoesInactive(c)
  BY <1>1 DEF StartFails, ReadFails, InterruptFails, ConnectionLost, GoesInactive, GiveUp,
              Leave, Suspend, Goes, GoesOn, OthersKept, TypeOK
<1>2. CASE YieldBacklog(c) \/ BacklogDone(c) \/ NextRequested(c)
  BY <1>2 DEF YieldBacklog, BacklogDone, NextRequested, Suspend, Continue, Goes, GoesOn,
              OthersKept, TypeOK
<1>3. CASE \/ OnceReads(c) \/ WaitForEvent(c) \/ PumpedDry(c) \/ InterruptAcked(c)
           \/ ConfirmWaits(c)
  BY <1>3 DEF OnceReads, WaitForEvent, ConfirmWaits, Looks, LooksForEnd, AtTop, PumpedDry,
              InterruptAcked, Suspend, Continue, Sleep, Goes, GoesOn, OthersKept, TypeOK
<1>4. CASE ConfirmTimesOut(c)
  BY <1>4 DEF ConfirmTimesOut, Continue, GiveUp, Leave, Suspend, Goes, GoesOn, OthersKept,
              TypeOK
<1>5. CASE EventTaken(c)
  BY <1>5 DEF EventTaken, Looks, AtTop, Suspend, Continue, Goes, GoesOn, OthersKept, TypeOK
<1>6. CASE PumpOne(c) \/ ConfirmWakes(c)
  BY <1>6 DEF PumpOne, Pumping, ConfirmWakes, Continue, Goes, callVars, GoesOn, OthersKept,
              TypeOK
<1> QED
  BY <1>1, <1>2, <1>3, <1>4, <1>5, <1>6, SettlesOf DEF TaskStep, Progress

\* Every step keeps HeldInv.
LEMMA HeldNext ==
    ASSUME OneCallPerTurn
    PROVE  TypeOK /\ HeldInv /\ [Next]_vars => HeldInv'
<1> SUFFICES ASSUME TypeOK, HeldInv, [Next]_vars PROVE HeldInv'
  OBVIOUS
<1>1. ASSUME NEW c \in Calls, NEW t \in Turns,
             StartTurn(c, t) \/ Resume(c, t) \/ CancelCalled(c, t)
      PROVE  HeldInv'
  <2>1. \A d \in Calls : pc[d] # "idle" => turn[d] # t
    BY <1>1 DEF StartTurn, Resume, CancelCalled, MayCall, OnTurn
  <2>2. OthersKept(c) /\ turn'[c] = t /\ UNCHANGED <<tracked, link>>
    BY <1>1 DEF StartTurn, Resume, CancelCalled, Suspend, Continue, Goes, OthersKept, TypeOK
  <2>3. pc'[c] = "starting" \/ t \in tracked
    BY <1>1 DEF StartTurn, Resume, CancelCalled, Suspend, Goes, TypeOK
  <2> QED
    BY <2>1, <2>2, <2>3 DEF HeldInv, OthersKept
<1>2. ASSUME NEW c \in Calls, TurnStarted(c) PROVE HeldInv'
  <2>1. /\ OthersKept(c) /\ pc[c] = "starting" /\ UNCHANGED <<turn, link>>
        /\ tracked' = tracked \cup {turn[c]}
    BY <1>2 DEF TurnStarted, Continue, Goes, OthersKept, TypeOK
  <2> QED
    BY <2>1 DEF HeldInv, OthersKept
<1>3. ASSUME NEW c \in Calls, Settles(c) PROVE HeldInv'
  BY <1>3 DEF HeldInv, Settles, Cleanup, OthersKept
<1>4. ASSUME NEW c \in Calls, GoesOn(c) PROVE HeldInv'
  BY <1>4 DEF HeldInv, GoesOn, OthersKept
<1>5. ASSUME NEW c \in Calls, Abandon(c) PROVE GoesOn(c)
  BY <1>5 DEF Abandon, GiveUp, Leave, Suspend, Goes, GoesOn, OthersKept, TypeOK
<1>6. CASE ServerStep \/ UNCHANGED vars
  <2>1. UNCHANGED <<pc, turn, tracked, link>>
    BY <1>6 DEF ServerStep, EmitItem, EmitTerminal, EmitEcho, Publish, callVars, vars
  <2> QED BY <2>1 DEF HeldInv
<1>7. CASE ClientStep
  <2>1. UNCHANGED <<pc, turn>> /\ (link = "closed" => FALSE)
    BY <1>7 DEF ClientStep, ReceiverFails, CloseBegins, CloseClears, callVars
  <2>2. link' = "closed" \/ UNCHANGED tracked
    BY <1>7 DEF ClientStep, ReceiverFails, CloseBegins, CloseClears
  <2> QED BY <2>1, <2>2 DEF HeldInv
<1> QED
  BY <1>1, <1>2, <1>3, <1>4, <1>5, <1>6, <1>7, GoesOnOf DEF Next, AppStep

\* A call that gives a continuation back, of an inactivity timeout or of a
\* cancellation that was not confirmed, leaves its turn tracked, so that the
\* continuation can be resumed (TokenResumable), where the application makes
\* one call at a time on a turn.
THEOREM ContinuationsResume ==
    ASSUME OneCallPerTurn
    PROVE  Spec => TokenResumable
<1> DEFINE Tracked == \A c \in Calls :
              GoesInactive(c) \/ (ConfirmTimesOut(c) /\ pc'[c] = "idle")
                 => turn[c] \in tracked' \/ link = "closed"
<1>1. Init => TypeOK /\ HeldInv
  BY TypeInit DEF Init, HeldInv
<1>2. TypeOK /\ HeldInv /\ [Next]_vars => TypeOK' /\ HeldInv'
  BY TypeNext, HeldNext
<1>3. TypeOK /\ HeldInv => [Tracked]_vars
  <2> SUFFICES ASSUME TypeOK, HeldInv, NEW c \in Calls,
                      GoesInactive(c) \/ (ConfirmTimesOut(c) /\ pc'[c] = "idle")
               PROVE  turn[c] \in tracked' \/ link = "closed"
    OBVIOUS
  <2>1. pc[c] \notin {"idle", "starting"}
    BY DEF GoesInactive, ConfirmTimesOut
  <2>2. UNCHANGED tracked
    BY DEF GoesInactive, ConfirmTimesOut, GiveUp
  <2> QED BY <2>1, <2>2 DEF HeldInv
<1> QED
  BY <1>1, <1>2, <1>3, PTL DEF Spec, TokenResumable
=============================================================================
