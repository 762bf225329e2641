------------------------------ MODULE Promotion ------------------------------
(***************************************************************************)
(* What the retrain pipeline promises (register_model's docstring: the     *)
(* alias is set "after all gates pass"): versions are registered, a        *)
(* version passes the gates, and the alias @challenger only ever moves     *)
(* forward to a version that passed.                                       *)
(***************************************************************************)
EXTENDS Integers

VARIABLES
    registered,     \* the number of registered versions
    passed,         \* the versions that passed every gate
    challenger      \* the version of the alias, 0 while it is not set

vars == <<registered, passed, challenger>>

Init ==
    /\ registered = 0
    /\ passed = {}
    /\ challenger = 0

Register ==
    /\ registered' = registered + 1
    /\ UNCHANGED <<passed, challenger>>

Pass ==
    /\ \E v \in 1..registered : passed' = passed \cup {v}
    /\ UNCHANGED <<registered, challenger>>

Promote ==
    /\ \E v \in passed : v >= challenger /\ challenger' = v
    /\ UNCHANGED <<registered, passed>>

Next == Register \/ Pass \/ Promote

Spec == Init /\ [][Next]_vars
=============================================================================
