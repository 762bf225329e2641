------------------------- MODULE ModelPromotionPolicy -------------------------
(***************************************************************************)
(* aiops/policies/opa/model_promotion.rego as operators on its input.      *)
(* Rates are in parts of 100 000.                                          *)
(***************************************************************************)
EXTENDS Integers

CONSTANT NoTrust    \* input.trust is absent: the rules that read it are undefined

MinAccuracy == 70000
MaxDriftScore == 10000
MinTestSize == 100
production_min_trust_score == 700
subprime_trust_score == 600

(* Mutant: the drift limit is the one of the rollback engine.              *)
MetricRuleLax(in) ==
    [accuracy |-> in.accuracy < MinAccuracy,
     drift    |-> in.drift_score > 25000,
     dataset  |-> in.test_dataset_size < MinTestSize]

(* The body of each deny_reasons rule, under a name for its reason.        *)
MetricRule(in) ==
    [accuracy |-> in.accuracy < MinAccuracy,
     drift    |-> in.drift_score > MaxDriftScore,
     dataset  |-> in.test_dataset_size < MinTestSize]

ProductionRule(in) ==
    [requestor   |-> in.requestor = "anonymous",
     explanation |-> ~in.shap_values_logged,
     trust       |-> in.trust # NoTrust /\ in.trust.score < production_min_trust_score]

TrustRule(in) ==
    [subprime |-> in.trust # NoTrust /\ in.trust.score < subprime_trust_score,
     ledger   |-> in.trust # NoTrust /\ ~in.trust.ledger_integrity_ok]

Fired(rule) == {reason \in DOMAIN rule : rule[reason]}

Denied(in) ==
    \/ Fired(MetricRule(in)) # {}
    \/ in.environment = "production" /\ Fired(ProductionRule(in)) # {}
    \/ Fired(TrustRule(in)) # {}

allow(in) == ~Denied(in)
=============================================================================
