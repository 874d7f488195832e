------------------------------ MODULE MCInterp ------------------------------
(* Small Deed programs for the interpreter: a logger whose operation reads a *)
(* store, a store whose cleanup logs, and a quiet logger that prints.        *)
EXTENDS Interp

MCEffectOf == [o \in Ops |-> CASE o = "note" -> "Log"
                               [] o = "get" -> "Db"
                               [] OTHER -> "Io"]
MCImplements == [h \in Handlers |-> IF h = "Memory" THEN "Db" ELSE "Log"]
MCOpUses == [p \in Operations |-> CASE p = <<"Loud", "note">> -> {"get"}
                                     [] p = <<"Quiet", "note">> -> HostOps
                                     [] OTHER -> {}]
MCFinallyUses == [h \in Handlers |-> IF h = "Memory" /\ h \in Cleaning THEN {"note"} ELSE {}]
MCUses == [f \in Functions |-> CASE f = "main" -> Ops \cap {"get", "print"}
                                 [] f = "write" -> {"note"}
                                 [] OTHER -> {}]
MCEnsuring == {Fn("each")} \cup {p \in Operations : p[2] = "note"}
MCClosures == {<<"main", {"note"}>>}
Both == {<<l, "Memory">> : l \in Handlers \ {"Memory"}}
        \cup {<<"Memory", l>> : l \in Handlers \ {"Memory"}}
OrMemory == Both \cup {<<"Memory">>}
=============================================================================
