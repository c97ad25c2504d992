------------------------------ MODULE MCRelease ------------------------------
(* One version, a commit that is ready for it, and one that is not.          *)
EXTENDS Release

CONSTANTS ready, unready

MCSources ==
    [c \in {ready, unready} |->
        [version |-> IF c = unready THEN "0.4.1" ELSE "0.4.0", canonical |-> TRUE,
         locked |-> {"0.4.0"}, sections |-> 1]]
=============================================================================
