---------------------------- MODULE SignalAssembly ----------------------------
(***************************************************************************)
(* services/model-trust/src/assemble.py: one bundle of evidence flattened  *)
(* into the signals of the scorer.                                         *)
(*                                                                         *)
(* A section of the bundle is a function on the keys it has.  A number is  *)
(* in parts of 10 000 (counts as they are), or Unreadable; a flag is one   *)
(* of the texts below; a signal that is a flag is 1 or 0.  A Trivy or      *)
(* Kyverno report is the sequence of its severities or results.            *)
(***************************************************************************)
EXTENDS Integers, Sequences, FiniteSets, FiniteSetsExt

CONSTANT Unreadable

(* _METRIC_ALIASES, in the order they are tried.                           *)
METRIC_ALIASES ==
    [psi_score |-> <<"psi_score", "drift_psi", "psi">>,
     ks_statistic |-> <<"ks_statistic", "ks_stat", "ks">>,
     drifted_feature_count |-> <<"drifted_feature_count", "n_drifted_features">>,
     accuracy |-> <<"accuracy", "val_accuracy">>,
     f1_score |-> <<"f1_score", "f1", "val_f1">>,
     roc_auc |-> <<"roc_auc", "auc", "val_roc_auc">>,
     estimated_performance_drop |-> <<"estimated_performance_drop", "performance_drop">>,
     error_budget_remaining |-> <<"error_budget_remaining", "error_budget_ratio">>,
     p99_latency_ms |-> <<"p99_latency_ms", "latency_p99_ms">>,
     availability_30d |-> <<"availability_30d", "availability">>,
     cost_per_1k_predictions_usd |-> <<"cost_per_1k_predictions_usd", "cost_per_1k">>,
     idle_capacity_ratio |-> <<"idle_capacity_ratio", "idle_ratio">>]

CHECK_TO_SIGNAL ==
    [explainability_logged |-> "shap_logged", model_card_exists |-> "model_card_present",
     training_data_documented |-> "lineage_recorded",
     human_oversight_gate |-> "human_oversight_defined"]

TrueTokens == {"true", "True", "yes"}
FalseTokens == {"false", "no"}

Flag(token) == IF token \in TrueTokens THEN 1 ELSE 0

ReadableFlag(token) == token \in TrueTokens \cup FalseTokens

Restricted(f, keys) == [k \in DOMAIN f \cap keys |-> f[k]]

(* Both, and where both have a key the first one's value.                  *)
f ++ g == [k \in DOMAIN f \cup DOMAIN g |-> IF k \in DOMAIN f THEN f[k] ELSE g[k]]

None == <<>>

-----------------------------------------------------------------------------

First(source, keys, places) == source[keys[Min(places)]]

(* _first_number: keys that are absent or cannot be read are passed over.  *)
Numbers(source, keys) ==
    {i \in DOMAIN keys : keys[i] \in DOMAIN source /\ source[keys[i]] # Unreadable}

(* _explicit_bool: the first key that is there decides, even if no flag    *)
(* can be read from it.                                                    *)
ExplicitFlag(source, signal, keys) ==
    LET present == {i \in DOMAIN keys : keys[i] \in DOMAIN source}
        token == First(source, keys, present)
    IN  [k \in IF present # {} /\ ReadableFlag(token) THEN {signal} ELSE {} |-> Flag(token)]

FromMetrics(metrics, tags) ==
    LET m(s) == Numbers(metrics, METRIC_ALIASES[s])
        t(s) == Numbers(tags, METRIC_ALIASES[s])
    IN  [s \in {s \in DOMAIN METRIC_ALIASES : m(s) \cup t(s) # {}} |->
            IF m(s) # {} THEN First(metrics, METRIC_ALIASES[s], m(s))
            ELSE First(tags, METRIC_ALIASES[s], t(s))]

(* A run with the SHAP metric explains itself unless a tag says otherwise. *)
ShapLogged(metrics, tags) ==
    ExplicitFlag(tags, "shap_logged", <<"shap_values_logged", "shap_logged">>)
        ++ (IF Numbers(metrics, <<"shap_mean_abs_impact">>) # {}
            THEN [shap_logged |-> 1] ELSE None)

Lineage(tags) ==
    IF \E k \in {"training_dataset", "data_source", "openlineage_run_id"} \cap DOMAIN tags :
            tags[k] # ""
    THEN [lineage_recorded |-> 1]
    ELSE None

FromTags(tags) ==
    Lineage(tags)
        ++ ExplicitFlag(tags, "human_oversight_defined",
                        <<"human_review_approved", "approval_gate_passed">>)
        ++ ExplicitFlag(tags, "model_card_present", <<"model_card_present">>)
        ++ ExplicitFlag(tags, "eu_ai_act_compliant", <<"eu_ai_act_compliant">>)

FromMetricsAndTags(metrics, tags) ==
    FromMetrics(metrics, tags) ++ ShapLogged(metrics, tags) ++ FromTags(tags)

-----------------------------------------------------------------------------

Count(doc, results) == Cardinality({i \in DOMAIN doc : doc[i] \in results})

CountTrivy(doc) ==
    [critical_cves |-> Count(doc, {"CRITICAL"}), high_cves |-> Count(doc, {"HIGH"})]

CountKyvernoFailures(doc) == [policy_violations |-> Count(doc, {"fail", "error"})]

SecurityNumbers == {"critical_cves", "high_cves", "policy_violations"}

(* What a report counts, then the numbers that are given, then whether the *)
(* image is signed: cosign is asked only when the section does not say.    *)
FromSecurity(security) ==
    ExplicitFlag(security, "image_signed", <<"image_signed", "cosign">>)
        ++ Restricted(security, SecurityNumbers)
        ++ (IF "kyverno" \in DOMAIN security
            THEN CountKyvernoFailures(security.kyverno) ELSE None)
        ++ (IF "trivy" \in DOMAIN security THEN CountTrivy(security.trivy) ELSE None)

FromCompliance(compliance) ==
    LET checks == IF "checks" \in DOMAIN compliance THEN compliance.checks ELSE None
        known == DOMAIN checks \cap DOMAIN CHECK_TO_SIGNAL
    IN  [s \in {CHECK_TO_SIGNAL[c] : c \in known} |->
            Flag(checks[CHOOSE c \in known : CHECK_TO_SIGNAL[c] = s])]
        ++ ExplicitFlag(compliance, "eu_ai_act_compliant", <<"is_compliant">>)

FromTopLevelFlags(evidence) ==
    ExplicitFlag(evidence, "model_card_present", <<"model_card_present">>)

(* EvidenceError: a number or a flag that is given and cannot be read.     *)
EvidenceRefused(e) ==
    \/ \E k \in SecurityNumbers \cap DOMAIN e.security : e.security[k] = Unreadable
    \/ "image_signed" \in DOMAIN e.security /\ ~ReadableFlag(e.security.image_signed)
    \/ /\ "image_signed" \notin DOMAIN e.security
       /\ "cosign" \in DOMAIN e.security /\ ~ReadableFlag(e.security.cosign)
    \/ "is_compliant" \in DOMAIN e.compliance /\ ~ReadableFlag(e.compliance.is_compliant)
    \/ "model_card_present" \in DOMAIN e.top /\ ~ReadableFlag(e.top.model_card_present)

(* Later sources win over earlier ones, and the explicit signals over all. *)
assemble_signals(e) ==
    e.signals
        ++ FromTopLevelFlags(e.top)
        ++ FromCompliance(e.compliance)
        ++ FromSecurity(e.security)
        ++ FromMetricsAndTags(e.metrics, e.tags)
=============================================================================
