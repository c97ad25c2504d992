---------------------------- MODULE TurnDelivery ----------------------------
(* What the delivery of turns promises an application that has one call at a *)
(* time on a turn: the steps that the server told are handed out once and in *)
(* the order in which they were told, the turn is reported once, after its   *)
(* end and as it ended, and what is streamed is complete by then.            *)
EXTENDS Integers, Sequences, FiniteSets

CONSTANTS
    Turns,     \* turns
    Moments    \* times at which the server may tell something, as integers

VARIABLES
    verdict,   \* what the server holds of each turn
    told,      \* the moments at which it told a new step of the turn
    handed,    \* the steps handed to the application, in that order
    outcome    \* the outcome handed to the application, if any

Init ==
    /\ verdict = [t \in Turns |-> "none"]
    /\ told = [t \in Turns |-> {}]
    /\ handed = [t \in Turns |-> <<>>]
    /\ outcome = [t \in Turns |-> {}]

-----------------------------------------------------------------------------
(* The server.                                                               *)

Begin(t) ==
    /\ verdict[t] = "none"
    /\ verdict' = [verdict EXCEPT ![t] = "running"]
    /\ UNCHANGED <<told, handed, outcome>>

Tell(t) ==
    /\ verdict[t] = "running"
    /\ \E i \in Moments : /\ \A j \in told[t] : j < i
                          /\ told' = [told EXCEPT ![t] = @ \cup {i}]
    /\ UNCHANGED <<verdict, handed, outcome>>

End(t) ==
    /\ verdict[t] = "running"
    /\ \E v \in {"success", "failed", "interrupted"} :
          verdict' = [verdict EXCEPT ![t] = v]
    /\ UNCHANGED <<told, handed, outcome>>

-----------------------------------------------------------------------------
(* The application's call.                                                   *)

Rest(t) == LET h == handed[t] IN told[t] \ {h[k] : k \in DOMAIN h}

\* A stream yields the earliest step that it has not yielded.
HandOut(t) ==
    /\ outcome[t] = {}
    /\ LET rest == Rest(t) IN
       \E i \in rest : /\ \A j \in rest : i <= j
                       /\ handed' = [handed EXCEPT ![t] = Append(@, i)]
    /\ UNCHANGED <<verdict, told, outcome>>

\* How a turn that ended so may be reported.
Reports == [success     |-> {"ok", "unresolved", "completed"},
            failed      |-> {"failed", "neither"},
            interrupted |-> {"failed", "interrupted"}]

Report(t, op, kinds) ==
    /\ outcome[t] = {} /\ verdict[t] \in DOMAIN Reports
    /\ \E kind \in kinds \cap Reports[verdict[t]] :
          outcome' = [outcome EXCEPT ![t] = {[op |-> op, kind |-> kind]}]
    /\ UNCHANGED <<verdict, told>>

\* A stream ends, or raises, once it has yielded everything.
StreamEnds(t) ==
    /\ Report(t, "stream", {"ok", "failed"})
    /\ Rest(t) = {}
    /\ UNCHANGED handed

\* A call that does not stream yields nothing before it.
OnceEnds(t) ==
    /\ Report(t, "once", {"ok", "unresolved", "failed"})
    /\ handed[t] = <<>>
    /\ UNCHANGED handed

InOrder(S) ==
    {s \in [1 .. Cardinality(S) -> S] : \A j, k \in DOMAIN s : j < k => s[j] < s[k]}

\* A cancel hands out the rest of a stream along with the outcome.
CancelEnds(t) ==
    /\ Report(t, "cancel", {"completed", "interrupted", "neither"})
    /\ \/ \E rest \in InOrder(Rest(t)) : handed' = [handed EXCEPT ![t] = @ \o rest]
       \/ handed[t] = <<>> /\ UNCHANGED handed

-----------------------------------------------------------------------------

Next ==
    \E t \in Turns : \/ Begin(t) \/ Tell(t) \/ End(t)
                     \/ HandOut(t) \/ StreamEnds(t) \/ OnceEnds(t) \/ CancelEnds(t)

vars == <<verdict, told, handed, outcome>>
Spec == Init /\ [][Next]_vars
=============================================================================
