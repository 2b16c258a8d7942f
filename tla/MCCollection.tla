----------------------------- MODULE MCCollection -----------------------------
(***************************************************************************)
(* Instances for TLC of the components that fetch from outside: the AIS    *)
(* scrapers and the provider fallback.  They share no state, so one run    *)
(* explores them side by side: `part` is chosen at the start and only that *)
(* component moves.                                                        *)
(***************************************************************************)
EXTENDS AisIngest, ProviderFallback, TLC

CONSTANTS p1, p2

VARIABLE part

vars == <<part, aisVars, fallbackVars>>

Init ==
    /\ part \in {"ais", "fallback"}
    /\ AisInit
    /\ FallbackInit

Next ==
    \/ part = "ais" /\ AisNext /\ UNCHANGED <<part, fallbackVars>>
    \/ part = "fallback" /\ FallbackNext /\ UNCHANGED <<part, aisVars>>

Spec == Init /\ [][Next]_vars

(* Every variable of the components stays in its range. *)
TypeOK == AisTypeOK /\ FallbackTypeOK

Cooldowns == [n \in 1..MaxFailures |-> n]

TwoProviders == <<p1, p2>>

Symmetry == Permutations(Run) \cup Permutations(Dispatch)
=============================================================================
