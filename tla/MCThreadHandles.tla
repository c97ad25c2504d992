--------------------------- MODULE MCThreadHandles ---------------------------
(* A small instance of ThreadHandles: configurations of two fields, of which *)
(* an override names one.                                                    *)
EXTENDS ThreadHandles, Naturals, FiniteSets, TLC

CONSTANTS c1, c2, h1, h2, t1, t2, model, cwd, x, y

MCOverrides == {o \in Config : Cardinality(Named(o)) = 1}
AllSymmetry ==
    Permutations(Calls) \cup Permutations(Handles) \cup Permutations(Threads)
    \cup Permutations(Fields) \cup Permutations(Values)
=============================================================================
