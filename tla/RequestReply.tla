---------------------------- MODULE RequestReply ----------------------------
(* What the request layer of a client promises: every request is asked once, *)
(* ends once, and ends with an answer only if the server gave one to it;     *)
(* once the client is closed, no request is asked.                           *)

CONSTANT Ids     \* request ids

VARIABLES
    status,      \* what has become of each request
    accepting    \* the client takes new requests

Statuses == {"new", "asked", "served", "answered", "raised"}

Init ==
    /\ status = [i \in Ids |-> "new"]
    /\ accepting = TRUE

Move(i, from, to) ==
    /\ status[i] \in from
    /\ status' = [status EXCEPT ![i] = to]
    /\ UNCHANGED accepting

Ask(i)  == accepting /\ Move(i, {"new"}, "asked")
Serve(i) == Move(i, {"asked"}, "served")
Answer(i) == Move(i, {"served"}, "answered")
Raise(i) == Move(i, {"asked", "served"}, "raised")

Close ==
    /\ accepting' = FALSE
    /\ UNCHANGED status

Next ==
    \/ \E i \in Ids : Ask(i) \/ Serve(i) \/ Answer(i) \/ Raise(i)
    \/ Close

Spec == Init /\ [][Next]_<<status, accepting>>
=============================================================================
