--------------------------------- MODULE Gates ---------------------------------
(***************************************************************************)
(* What lets a model act: the gates of the shadow evaluators and the CI    *)
(* gates of the use cases, each over the evidence that comes in for it.    *)
(* Two use cases get their metrics from a service of this repository, UC3  *)
(* from the alert correlator and UC4 from the predictive scaler.           *)
(*                                                                         *)
(* The gates share nothing, so a behaviour follows one of them.            *)
(***************************************************************************)
EXTENDS Integers, Sequences, FiniteSets

CONSTANTS
    MinSamples,         \* min_samples of the shadow gates
    NotANumber,         \* a metric that is a text
    NoTime, BadTime,    \* timestamps that are missing, or no dates
    Alerts,             \* the alerts that may arrive
    Silhouettes,        \* what the silhouette coefficient may be
    Loads,              \* what a load, or a prediction of one, may be
    Horizons,           \* forecast horizons, in minutes
    Measured(_),        \* what a metric may be, by its threshold
    MaxSamples,         \* bound: shadow samples of an evaluator
    MaxAlerts,          \* bound: alerts of a batch
    MaxHistory          \* bound: loads of a history

ASSUME GatesAssumption ==
    /\ {MinSamples, MaxSamples, MaxAlerts, MaxHistory} \subseteq Nat
    /\ Loads \subseteq Nat /\ Horizons \subseteq Int /\ Silhouettes \subseteq Int
    /\ \A a \in Alerts : a.time \in Int \cup {NoTime, BadTime}

VARIABLES
    gate,       \* the gate this behaviour follows
    source,     \* what the service behind the gate has seen
    basis       \* what the gate decides on

gatesVars == <<gate, source, basis>>

INSTANCE ShadowEvaluator
INSTANCE AlertCorrelation
INSTANCE PredictiveScaler
INSTANCE EvalScore

(* Whatever a metric is measured to be, it is a number or a text.          *)
ASSUME MeasuredAssumption ==
    \A uc \in DOMAIN UC_METRICS : \A k \in DOMAIN UC_METRICS[uc] :
        Measured(UC_METRICS[uc][k].pass_threshold) \subseteq Int \cup {NotANumber}

Services == {"alert-correlator", "predictive-scaler"}
UseCase(g) == CASE g = "alert-correlator" -> "UC3" [] g = "predictive-scaler" -> "UC4" [] OTHER -> g

Approved(g, e) ==
    CASE g = "decisions" -> DecisionsPromoted(e)
      [] g = "forecasts" -> ForecastsPromoted(e)
      [] OTHER -> compute_score(UseCase(g), e)

GatesInit ==
    \/ gate = "decisions" /\ source = <<>> /\ basis = NoDecisions
    \/ gate = "forecasts" /\ source = <<>> /\ basis = NoForecasts
    \/ gate = "alert-correlator" /\ source = {} /\ basis = correlate_alerts({}, 0)
    \/ gate = "predictive-scaler" /\ source = <<>> /\ basis = forecast_response(<<>>, 0, TRUE)
    \/ gate \in DOMAIN UC_METRICS /\ source = <<>> /\ basis = <<>>

(* A decision of the model is compared with what was right.                *)
Decide(predicted, actual) ==
    /\ gate = "decisions"
    /\ Decisions(basis) < MaxSamples
    /\ basis' = AddDecision(basis, predicted, actual)
    /\ UNCHANGED <<gate, source>>

(* A predicted load is compared with the one that came.                    *)
Realise(predicted, actual) ==
    /\ gate = "forecasts"
    /\ basis.n < MaxSamples
    /\ basis' = AddForecast(basis, predicted, actual)
    /\ UNCHANGED <<gate, source>>

(* The batch, one alert longer, is correlated; or correlate_alerts raises, *)
(* and there is no evidence.                                               *)
Arrive(alert) ==
    /\ gate = "alert-correlator"
    /\ Cardinality(source) < MaxAlerts
    /\ alert \notin source
    /\ source' = source \cup {alert}
    /\ IF CorrelationRaises(source') THEN basis' = <<>>
       ELSE \E silhouette \in Silhouettes : basis' = correlate_alerts(source', silhouette)
    /\ UNCHANGED gate

(* A forecast of the service for its history, one load longer.             *)
Forecast(load, horizon_minutes, shadow) ==
    /\ gate = "predictive-scaler"
    /\ Len(source) < MaxHistory
    /\ source' = Append(source, load)
    /\ basis' = forecast_response(source', horizon_minutes, shadow)
    /\ UNCHANGED gate

(* A job of the use case measures one of its metrics, or measures another  *)
(* value, and runs its gate.                                               *)
Measure(metric, value) ==
    /\ gate \in DOMAIN UC_METRICS
    /\ basis' = [k \in DOMAIN basis \cup {metric} |->
                        IF k = metric THEN value ELSE basis[k]]
    /\ UNCHANGED <<gate, source>>

(* The bound is reached.                                                   *)
Settled ==
    /\ \/ gate = "decisions" /\ Decisions(basis) = MaxSamples
       \/ gate = "forecasts" /\ basis.n = MaxSamples
       \/ gate = "alert-correlator" /\ Cardinality(source) = MaxAlerts
       \/ gate = "predictive-scaler" /\ Len(source) = MaxHistory
    /\ UNCHANGED gatesVars

GatesNext ==
    \/ \E predicted, actual \in BOOLEAN : Decide(predicted, actual)
    \/ \E predicted, actual \in Loads : Realise(predicted, actual)
    \/ \E alert \in Alerts : Arrive(alert)
    \/ \E load \in Loads, horizon \in Horizons, shadow \in BOOLEAN :
            Forecast(load, horizon, shadow)
    \/ /\ gate \in DOMAIN UC_METRICS
       /\ \E metric \in DOMAIN UC_METRICS[gate] :
            \E value \in Measured(UC_METRICS[gate][metric].pass_threshold) :
                Measure(metric, value)
    \/ Settled

GatesSpec == GatesInit /\ [][GatesNext]_gatesVars
-----------------------------------------------------------------------------

(* A value of a metric that is as good as another, or better.              *)
AsGood(spec, w, v) ==
    \/ w = v
    \/ spec.direction \in {"bool_true", "exact"} /\ ScoreMetric(spec, v) = 0
    \/ spec.direction = "higher_better" /\ w # NotANumber /\ (v = NotANumber \/ w >= v)
    \/ spec.direction = "lower_better" /\ w # NotANumber /\ (v = NotANumber \/ w <= v)

(* The new evidence speaks for the model: a decision that was right, a     *)
(* load predicted within the tolerance, or metrics none of which is worse. *)
NothingWorse(e, new) ==
    CASE gate = "decisions" -> new.tp > e.tp \/ new.tn > e.tn
      [] gate = "forecasts" -> new.within > e.within /\ e.actuals > 0
      [] OTHER ->
            LET specs == UC_METRICS[UseCase(gate)]
            IN  \A k \in DOMAIN specs \cap DOMAIN e :
                    k \in DOMAIN new /\ AsGood(specs[k], new[k], e[k])

(* Evidence that speaks for the model never takes its approval away.  For  *)
(* a forecast that needs a tolerance no larger than the mean error the     *)
(* gate allows; for a use case, the means and the missing metrics of       *)
(* scorer.py.  An approval while every load was 0 is left out: then the    *)
(* mean error counts as 0 whatever it is, until a load comes.              *)
BetterEvidenceKeepsApproval ==
    [][gate' = gate /\ Approved(gate, basis) /\ NothingWorse(basis, basis')
        => Approved(gate, basis')]_gatesVars

(* A use case whose heaviest metric (weight 3: OPA's approval, bad data    *)
(* blocked, critical CVEs, ...) scores nothing or is missing does not      *)
(* pass, however good the others are: THRESHOLDS and the weights of        *)
(* UC_METRICS are written down apart and have to fit.                      *)
HeaviestMetricBlocks ==
    gate \in DOMAIN UC_METRICS =>
        \A k \in DOMAIN UC_METRICS[gate] :
            LET spec == UC_METRICS[gate][k]
            IN  /\ spec.weight = 6
                /\ k \notin DOMAIN basis \/ ScoreMetric(spec, basis[k]) = 0
                => ~Approved(gate, basis)

Arrived == source' \ source

NotEarliest == \A a \in Timed(Arrived) : \A b \in Timed(source) : a.time >= b.time

(* An alert that is not the earliest leaves the groups it does not join    *)
(* exactly as they were, and splits none: what was found to be one         *)
(* incident stays one, whatever the later alerts of the window are and     *)
(* wherever alerts without a readable time have been put.                  *)
LaterAlertsOnlyJoin ==
    [][gate = "alert-correlator" /\ Arrived # {} /\ NotEarliest
        => /\ \A g \in Clusters(source) : \E h \in Clusters(source') : g \subseteq h
           /\ Cardinality(source) >= FewestAlerts
              => \A h \in Clusters(source') : h \cap Arrived = {} => h \in Clusters(source)]_gatesVars
=============================================================================
