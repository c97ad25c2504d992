---------------------------- MODULE MCTurnRouting ----------------------------
(* Small instances of TurnRouting. *)
EXTENDS TurnRouting, TLC

CONSTANTS t1, t2, c1, c2, th1, th2, a, b

MCThreadOf == t1 :> th1 @@ t2 :> th2
MCSameThread == t1 :> th1 @@ t2 :> th1
CallSymmetry == Permutations(Calls)
=============================================================================
