------------------------------ MODULE EvalScore ------------------------------
(***************************************************************************)
(* The CI gates of the use cases: the metrics of eval/metrics.py and the   *)
(* weighted score of eval/scorer.py.  A value is a number in the unit of   *)
(* its metric's threshold (fractions in thousandths, flags 1 or 0) or      *)
(* NotANumber, a text.  The arithmetic is on integers; the 1e-9 of the     *)
(* code is left out.                                                       *)
(***************************************************************************)
EXTENDS Integers, Functions

CONSTANT NotANumber

THRESHOLDS ==
    [UC1 |-> 70, UC2 |-> 65, UC3 |-> 50, UC4 |-> 70, UC5 |-> 75, UC6 |-> 85,
     UC7 |-> 60, UC8 |-> 60, UC9 |-> 75, UC10 |-> 65, UC11 |-> 65, UC12 |-> 70,
     UC13 |-> 80, UC14 |-> 65, UC15 |-> 60, UC16 |-> 65, UC17 |-> 65, UC18 |-> 65,
     UC19 |-> 65, UC20 |-> 90, UC21 |-> 60, UC22 |-> 70, UC23 |-> 60]

(* The weights are times two.                                              *)
MetricSpec(direction, pass_threshold, weight) ==
    [direction |-> direction, pass_threshold |-> pass_threshold, weight |-> weight]

High(pass_threshold, weight) == MetricSpec("higher_better", pass_threshold, weight)
Low(pass_threshold, weight) == MetricSpec("lower_better", pass_threshold, weight)
Exact(pass_threshold, weight) == MetricSpec("exact", pass_threshold, weight)
Flagged(weight) == MetricSpec("bool_true", 1, weight)

LearningMetrics ==
    [UC1 |->
        [psi_score |-> High(250, 4),
         ks_statistic |-> High(200, 3),
         alibi_lsdd_p_value |-> Low(50, 2),
         retrain_triggered |-> Flagged(6),
         nannyml_performance_estimate |-> High(0, 1)],
     UC2 |->
        [reconstruction_loss_threshold |-> Low(50, 2),
         anomaly_precision_at_10 |-> High(700, 4),
         anomaly_recall_at_10 |-> High(600, 4),
         qdrant_similar_incidents_found |-> High(1, 2)],
     UC3 |->
        [deduplication_rate |-> High(700, 4),
         silhouette_score |-> High(300, 3),
         false_positive_rate |-> Low(100, 4)],
     UC4 |->
        [forecast_mae |-> Low(150, 3),
         pre_scale_lead_time_seconds |-> High(300, 4),
         p99_latency_delta_pct |-> Low(-100, 3)],
     UC5 |->
        [offline_online_psi |-> Low(100, 4),
         ge_validation_success_pct |-> High(990, 4),
         feature_freshness_seconds |-> Low(3600, 2)],
     UC6 |->
        [remediation_success_rate |-> High(900, 4),
         opa_gate_pass_rate |-> Exact(1000, 6),
         false_remediation_rate |-> Low(50, 4),
         mttr_seconds |-> Low(300, 3)],
     UC7 |->
        [trivy_critical_cves |-> Low(25, 6),
         kyverno_violations_blocked |-> High(1, 4),
         falco_rules_triggered |-> High(1, 4)]]

PlatformMetrics ==
    [UC8 |->
        [retrieval_precision_at_5 |-> High(700, 4),
         answer_groundedness_score |-> High(600, 3),
         qdrant_collection_size |-> High(40, 2)],
     UC9 |->
        [accuracy_delta_vs_baseline |-> High(20, 4),
         drift_score_on_holdout |-> Low(100, 3),
         opa_promotion_gate_passed |-> Flagged(6),
         kserve_canary_error_rate |-> Low(10, 4)],
     UC10 |->
        [anomaly_detection_f1 |-> High(700, 4),
         idle_resource_pct_identified |-> High(200, 3),
         namespace_attribution_coverage |-> High(950, 3)],
     UC11 |->
        [trace_completeness_pct |-> High(900, 4),
         rca_span_identified |-> Flagged(4),
         anomalous_span_precision |-> High(600, 3)],
     UC12 |->
        [drift_detected_when_injected |-> Flagged(6),
         reconcile_success |-> Flagged(4),
         policy_violations_caught |-> High(1, 4)],
     UC13 |->
        [ge_expectations_passed_pct |-> High(950, 4),
         bad_data_blocked |-> Flagged(6),
         schema_validation_pass |-> Flagged(4)],
     UC14 |->
        [best_trial_improvement |-> High(0, 4),
         n_trials_completed |-> High(15, 2),
         study_persisted_to_mlflow |-> Flagged(4)]]

OperationsMetrics ==
    [UC15 |->
        [four_keys_all_computed |-> Flagged(6),
         deployment_freq_tracked |-> Flagged(4),
         mttr_computed |-> Flagged(4)],
     UC16 |->
        [classification_f1 |-> High(700, 4),
         n_error_classes |-> High(5, 2),
         taxonomy_coverage_pct |-> High(800, 3)],
     UC17 |->
        [shap_values_generated |-> Flagged(4),
         top_features_logged |-> High(1, 3),
         explanation_coverage_pct |-> High(900, 3)],
     UC18 |->
        [rate_limit_precision |-> High(700, 4),
         false_throttle_rate |-> Low(100, 4),
         window_accuracy |-> High(900, 3)],
     UC19 |->
        [profiles_generated |-> Flagged(4),
         constraint_violations_detected |-> High(1, 6),
         drift_flagged |-> Flagged(4)],
     UC20 |->
        [catalog_entities_valid |-> Flagged(6),
         n_entities_correct |-> Exact(29, 4),
         schema_lint_pass |-> Flagged(4)],
     UC21 |->
        [slo_compliance_pct |-> High(999, 4),
         error_budget_remaining_pct |-> High(0, 4),
         fast_burn_rate_alerts |-> High(1, 4)],
     UC22 |->
        [ab_test_p_value |-> Low(50, 4),
         winning_version_promoted |-> Flagged(4),
         traffic_split_accuracy |-> High(980, 2)],
     UC23 |->
        [postmortem_generated |-> Flagged(4),
         github_issue_created |-> Flagged(4),
         similar_incidents_referenced |-> High(1, 4)]]

UC_METRICS ==
    [uc \in DOMAIN LearningMetrics \cup DOMAIN PlatformMetrics \cup DOMAIN OperationsMetrics |->
        IF uc \in DOMAIN LearningMetrics THEN LearningMetrics[uc]
        ELSE IF uc \in DOMAIN PlatformMetrics THEN PlatformMetrics[uc]
        ELSE OperationsMetrics[uc]]

-----------------------------------------------------------------------------

Full == 100000      \* a score of 100

Abs(n) == IF n < 0 THEN -n ELSE n
Clamp(score) == IF score < 0 THEN 0 ELSE IF score > Full THEN Full ELSE score

(* _score_metric.  A text is truthy, equals no threshold and is no float.  *)
ScoreMetric(spec, v) ==
    LET t == spec.pass_threshold
    IN  IF spec.direction = "bool_true" THEN IF v = 0 THEN 0 ELSE Full
        ELSE IF spec.direction = "exact" THEN IF v = t THEN Full ELSE 0
        ELSE IF v = NotANumber THEN 0
        ELSE IF spec.direction = "higher_better"
        THEN IF v >= t THEN Full ELSE IF t = 0 THEN 0 ELSE Clamp(100 * ((v * 1000) \div t))
        ELSE IF v <= t THEN Full ELSE Clamp(Full - 100 * (((v - t) * 1000) \div Abs(t)))

Weight(specs, names) == SumFunction([k \in names |-> specs[k].weight])

WeightedSum(specs, values) ==
    SumFunction([k \in DOMAIN specs \cap DOMAIN values |->
                    ScoreMetric(specs[k], values[k]) * specs[k].weight])

(* Mutant: a metric that is missing is left out of the mean.               *)
compute_score_present(uc, values) ==
    LET specs == UC_METRICS[uc]
        total == Weight(specs, DOMAIN specs \cap DOMAIN values)
    IN  total > 0 /\ WeightedSum(specs, values) >= THRESHOLDS[uc] * 1000 * total

(* Whether the gate of a use case lets the job pass.  A metric that is     *)
(* missing scores 0 with its whole weight.                                 *)
compute_score(uc, values) ==
    LET specs == UC_METRICS[uc]
    IN  WeightedSum(specs, values) >= THRESHOLDS[uc] * 1000 * Weight(specs, DOMAIN specs)
=============================================================================
