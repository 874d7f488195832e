-------------------------- MODULE MCCompiledScopes --------------------------
(***************************************************************************)
(* The handler of effect 1 counts, the one of effect 2 has two operations   *)
(* and no state, and nothing answers effect 3 but the host.  Two frames     *)
(* fit, and a third does not.                                               *)
(***************************************************************************)
EXTENDS CompiledScopes

MCHandlers == {"Counting", "Asking"}
MCEffects == {1, 2, 3}
MCEffectOf == [h \in MCHandlers |-> IF h = "Asking" THEN 2 ELSE 1]
MCFields == [h \in MCHandlers |-> IF h = "Asking" THEN 0 ELSE 1]
MCOperations == [e \in MCEffects |-> IF e = 2 THEN 2 ELSE 1]
MCCodes == [h \in MCHandlers |-> IF h = "Asking" THEN <<8, 9>> ELSE <<7>>]

=============================================================================
