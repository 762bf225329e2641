--------------------------- MODULE AlertCorrelation ---------------------------
(***************************************************************************)
(* correlate_alerts of services/alert-correlator/src/correlator.py: alerts *)
(* near in time and of one namespace are duplicates of one root cause.  An *)
(* alert is a record with time (in seconds), namespace, root_cause_id and  *)
(* is_root.                                                                *)
(*                                                                         *)
(* scikit-learn's DBSCAN is modelled by what it returns for the            *)
(* min_samples of the code: with 2, an alert and one neighbour make a core *)
(* point, no point is on a border, and the clusters are the connected      *)
(* components.                                                             *)
(***************************************************************************)
EXTENDS Integers, FiniteSets, FiniteSetsExt

CONSTANTS
    NoTime,         \* no timestamp
    BadTime         \* a timestamp that is no date

(* Distances are in seconds of the horizon: 0.20 and 0.15 of it.           *)
TIME_SCALE_SECONDS == 1200
NAMESPACE_WEIGHT == (20 * TIME_SCALE_SECONDS) \div 100
EPS == (15 * TIME_SCALE_SECONDS) \div 100
FewestAlerts == 3

-----------------------------------------------------------------------------

Timed(alerts) == {a \in alerts : a.time \notin {NoTime, BadTime}}

(* An alert without a readable time counts as one of the earliest.         *)
Seconds(alerts, a) ==
    IF a \in Timed(alerts) THEN a.time - Min({b.time : b \in Timed(alerts)}) ELSE 0

(* Two namespaces differ in two of the one-hot columns.                    *)
Apart(a, b) == IF a.namespace = b.namespace THEN 0 ELSE 2 * NAMESPACE_WEIGHT * NAMESPACE_WEIGHT

(* Mutant: the time is scaled to the window of the batch, as the comment   *)
(* on _build_feature_matrix says it once was.                              *)
DistanceInWindow(alerts, a, b) ==
    LET window == Max({1} \cup {Seconds(alerts, c) : c \in alerts})
        dt == ((Seconds(alerts, a) - Seconds(alerts, b)) * TIME_SCALE_SECONDS) \div window
    IN  dt * dt + Apart(a, b)

(* The square of the Euclidean distance of the two feature rows.           *)
Distance(alerts, a, b) ==
    LET dt == Seconds(alerts, a) - Seconds(alerts, b) IN dt * dt + Apart(a, b)

Near(alerts, a, b) == Distance(alerts, a, b) <= EPS * EPS

(* All that chains of neighbours reach from an alert.                      *)
Component(alerts, a) ==
    LET reach[n \in 0..Cardinality(alerts)] ==
            IF n = 0 THEN {a}
            ELSE LET nearer == reach[n - 1]
                 IN  {c \in alerts : \E b \in nearer : Near(alerts, b, c)}
    IN  reach[Cardinality(alerts)]

(* The clusters; an alert on its own is an outlier.                        *)
Clusters(alerts) ==
    IF Cardinality(alerts) < FewestAlerts THEN {}
    ELSE {g \in {Component(alerts, a) : a \in alerts} : Cardinality(g) > 1}

(* The time span of a cluster is read again, now without errors="coerce":  *)
(* a clustered alert whose time is no date raises.                         *)
CorrelationRaises(alerts) == \E g \in Clusters(alerts) : \E a \in g : a.time = BadTime

(* Root alerts in a cluster that mixes root causes.                        *)
Suppressed(alerts) ==
    {a \in alerts : a.is_root /\ \E g \in Clusters(alerts) :
        a \in g /\ Cardinality({b.root_cause_id : b \in g}) > 1}

(* The rates in parts of 1000.  The silhouette coefficient is real         *)
(* arithmetic on the distances: it is given, and only asked for where the  *)
(* code computes it.                                                       *)
SilhouetteComputed(alerts) ==
    LET clusters == Clusters(alerts)
    IN  Cardinality(clusters) >= 2 /\ Cardinality(UNION clusters) > Cardinality(clusters)

correlate_alerts(alerts, silhouette) ==
    LET clusters == Clusters(alerts)
        roots == {a \in alerts : a.is_root}
        deduplicated == Cardinality(UNION clusters) - Cardinality(clusters)
    IN  [deduplication_rate |->
            IF alerts = {} THEN 0 ELSE (1000 * deduplicated) \div Cardinality(alerts),
         silhouette_score |-> IF SilhouetteComputed(alerts) THEN silhouette ELSE 0,
         false_positive_rate |->
            (1000 * Cardinality(Suppressed(alerts))) \div Max({1, Cardinality(roots)})]
=============================================================================
