------------------------------- MODULE MCGates -------------------------------
(* Alerts of two incidents in two namespaces, near and far from each other *)
(* and with the two unreadable times; loads around the tolerance; metrics  *)
(* that are met, half met, far off or a text.                              *)
EXTENDS Gates

Alert(time, namespace, cause, root) ==
    [time |-> time, namespace |-> namespace, root_cause_id |-> cause, is_root |-> root]

MCAlerts ==
    {Alert(t, "auth", 1, t = 60) : t \in {60, 180, 300, 1260}}
        \cup {Alert(t, "auth", 2, t = 420) : t \in {420, 3660, NoTime, BadTime}}
        \cup {Alert(t, "billing", 2, FALSE) : t \in {120, 420, NoTime}}

(* A flag is set or not; a limit of 0 has one value on each side.          *)
MCMeasured(threshold) ==
    IF threshold = 1 THEN {0, 1, NotANumber}
    ELSE IF threshold = 0 THEN {-1, 0}
    ELSE {0, threshold \div 2, threshold, 3 * threshold, NotANumber}
=============================================================================
