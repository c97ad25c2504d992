---------------------------- MODULE ThreadConfig ----------------------------
(* Thread configurations: every field has a value or UNSET, which leaves the *)
(* field as it is.  None is a value: it is sent, as null.                    *)

CONSTANTS Fields, Values, Unset

ASSUME UnsetAssumption == Unset \notin Values

\* ThreadConfig
Config == [Fields -> Values \cup {Unset}]
Empty == [f \in Fields |-> Unset]
Named(c) == {f \in Fields : c[f] # Unset}

\* _thread_config_to_params: what is sent, UNSET omitted
Params(c) == [f \in Named(c) |-> c[f]]

\* Mutant: the base wins.
MergeSwapped(base, override) ==
    [f \in Fields |-> IF base[f] = Unset THEN override[f] ELSE base[f]]

\* _merge_thread_config
Merge(base, override) ==
    [f \in Fields |-> IF override[f] = Unset THEN base[f] ELSE override[f]]

\* The server sets the fields it is sent.
ServerSets(settings, params) ==
    [f \in Fields |-> IF f \in DOMAIN params THEN params[f] ELSE settings[f]]
=============================================================================
