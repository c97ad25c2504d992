----------------------------- MODULE MCLifecycle -----------------------------
(* Values for TLC: callers that start and close, a prompt, and observers.    *)
EXTENDS Lifecycle

CONSTANTS c1, c2, c3, p1, o1, o2
=============================================================================
