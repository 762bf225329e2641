---------------------------- MODULE ComplianceCheck ----------------------------
(***************************************************************************)
(* governance/eu-ai-act/compliance_check.py: the checks of a model version *)
(* before its promotion, from the tags and metrics of its run and its      *)
(* model card, and the evidence the trust service receives of them.        *)
(*                                                                         *)
(* Tags and metrics are functions on the names that are present; a metric  *)
(* is in parts of 10 000 or Unreadable.  A card is "none", "plain" or      *)
(* "risk", the last when its text has the word.                            *)
(***************************************************************************)
EXTENDS Integers

CONSTANT Unreadable     \* a text where a number is expected

MinimumAccuracy == 7000

Get(f, key, default) == IF key \in DOMAIN f THEN f[key] ELSE default

(* A tag that is there and not the empty text.                             *)
Documented(tags, keys) == \E k \in keys : Get(tags, k, "") # ""

accuracy(metrics) == Get(metrics, "accuracy", Get(metrics, "val_accuracy", 0))

drift_psi(metrics) == Get(metrics, "drift_psi", Get(metrics, "psi_score", 0))

(* A text is compared with a number, or formatted as one.                  *)
CheckRaises(metrics) ==
    \/ accuracy(metrics) = Unreadable
    \/ accuracy(metrics) > 0 /\ drift_psi(metrics) = Unreadable

-----------------------------------------------------------------------------

has_risk_doc(tags, card) ==
    Documented(tags, {"risk_assessment", "eu_ai_act_risk_level"}) \/ card = "risk"

has_data_lineage(tags) ==
    Documented(tags, {"training_dataset", "data_source", "openlineage_run_id"})

(* The tag counts only as the text "true"; the metric unless it is zero.   *)
has_shap(tags, metrics) ==
    \/ Get(tags, "shap_values_logged", "") = "true"
    \/ Get(metrics, "shap_mean_abs_impact", 0) # 0

has_human_oversight(tags) ==
    \/ Get(tags, "human_review_approved", "") = "true"
    \/ Get(tags, "approval_gate_passed", "") = "true"
    \/ Get(tags, "requestor", "anonymous") \notin {"anonymous", "ci-pipeline"}

has_performance_metrics(metrics) == accuracy(metrics) > 0

(* Mutant: the minimum is below the documented one.                        *)
accuracy_sufficient_unless_low(metrics) ==
    accuracy(metrics) >= MinimumAccuracy - 1000 \/ ~has_performance_metrics(metrics)

accuracy_sufficient(metrics) ==
    accuracy(metrics) >= MinimumAccuracy \/ ~has_performance_metrics(metrics)

has_bias_check(tags) == Documented(tags, {"bias_check_completed", "fairness_report"})

check_eu_ai_act_compliance(tags, metrics, card) ==
    [risk_assessment_documented |-> has_risk_doc(tags, card),
     training_data_documented   |-> has_data_lineage(tags),
     explainability_logged      |-> has_shap(tags, metrics),
     human_oversight_gate       |-> has_human_oversight(tags),
     model_card_exists          |-> card # "none",
     performance_metrics_logged |-> has_performance_metrics(metrics),
     minimum_accuracy_threshold |-> accuracy_sufficient(metrics),
     bias_fairness_check        |-> has_bias_check(tags)]

(* The checks whose failure is an error, not a warning.                    *)
Errors == {"risk_assessment_documented", "training_data_documented", "explainability_logged",
           "model_card_exists", "performance_metrics_logged", "minimum_accuracy_threshold"}

is_compliant(checks) == \A c \in Errors : checks[c]

to_trust_evidence(checks) ==
    LET Token(b) == IF b THEN "true" ELSE "false"
    IN  [is_compliant |-> Token(is_compliant(checks)),
         checks |-> [c \in DOMAIN checks |-> Token(checks[c])]]
=============================================================================
