------------------------------ MODULE MCEvidence ------------------------------
(* The champion of the rehearsal, and for each item one or two readings:   *)
(* inside its transform, without credit, unreadable, or under another name *)
(* of the same signal.                                                     *)
EXTENDS Evidence

MCComplete ==
    [metrics |-> [accuracy |-> 9100, f1_score |-> 8800, roc_auc |-> 9400, psi_score |-> 400,
                  ks_statistic |-> 300, estimated_performance_drop |-> 0,
                  error_budget_remaining |-> 8000, p99_latency_ms |-> 120,
                  cost_per_1k_predictions_usd |-> 200],
     tags |-> [eu_ai_act_risk_level |-> "high", training_dataset |-> "feast",
               shap_values_logged |-> "true", human_review_approved |-> "true",
               bias_check_completed |-> "true"],
     security |-> [critical_cves |-> 0, high_cves |-> 0, policy_violations |-> 0,
                   image_signed |-> "true"],
     checker |-> [mounted |-> TRUE, card |-> "risk"],
     top |-> <<>>,
     signals |-> <<>>]

MCReadings ==
    [metrics |-> [accuracy |-> {6900, 7600}, val_accuracy |-> {7000}, f1_score |-> {6750, Unreadable},
                  roc_auc |-> {7500}, psi_score |-> {3000}, drift_psi |-> {6000, Unreadable},
                  ks_statistic |-> {2500}, drifted_feature_count |-> {1, 5},
                  estimated_performance_drop |-> {1100, 2000},
                  performance_drop |-> {2000}, error_budget_remaining |-> {2500, 0},
                  p99_latency_ms |-> {750}, availability_30d |-> {9900, 9995},
                  cost_per_1k_predictions_usd |-> {1000, 2000}, idle_capacity_ratio |-> {4500},
                  shap_mean_abs_impact |-> {50}],
     tags |-> [training_dataset |-> {""}, shap_values_logged |-> {"True", "false"},
               human_review_approved |-> {"no"}, requestor |-> {"ci-rehearsal"},
               eu_ai_act_compliant |-> {"false"}],
     security |-> [critical_cves |-> {1, 3, Unreadable},
                   trivy |-> {<<"CRITICAL", "CRITICAL", "CRITICAL", "HIGH">>},
                   high_cves |-> {5}, policy_violations |-> {1, 4},
                   kyverno |-> {<<"pass", "fail">>},
                   image_signed |-> {"false"}, cosign |-> {"false"}],
     checker |-> [mounted |-> {FALSE}, card |-> {"none", "plain"}],
     top |-> [model_card_present |-> {"true"}],
     signals |-> [critical_cves |-> {0, Unreadable}]]
=============================================================================
