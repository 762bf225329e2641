------------------------------- MODULE Evidence -------------------------------
(***************************************************************************)
(* A model version from what its tools observed to the gate's answer, as   *)
(* scripts/promotion_rehearsal.py and the service's score_from_evidence go *)
(* through it: the compliance checker, the signal assembly, the trust      *)
(* score and the promotion policy.  What is observed of the version        *)
(* changes one item at a time, and it is scored again each time.           *)
(***************************************************************************)
EXTENDS Integers, Sequences, FiniteSets, FiniteSetsExt, Functions

CONSTANTS
    Complete,       \* the evidence of a version in order
    Readings,       \* Readings[section][key]: what that item may be
    Unreadable,     \* a text where a number is expected
    NoTrust,        \* the value of a policy input without a trust report
    MaxChanges      \* bound: items that change

VARIABLES
    evidence,       \* what is observed, a function on keys for each section
    outcome,        \* the answer to the last scoring request
    changes         \* the number of changes so far

vars == <<evidence, outcome, changes>>

INSTANCE TrustScore
INSTANCE ComplianceCheck
INSTANCE SignalAssembly
INSTANCE ModelPromotionPolicy

Environments == {"staging", "production"}

Sections == {"metrics", "tags", "security", "checker", "top", "signals"}

MetricNames ==
    UNION {{METRIC_ALIASES[s][i] : i \in DOMAIN METRIC_ALIASES[s]} : s \in DOMAIN METRIC_ALIASES}

(* What an item of a section may be: numbers where numbers are read, flags *)
(* among the signals, and finite reports.                                  *)
IsReading(section, key, v) ==
    /\ \/ section = "metrics"
       \/ section = "tags" /\ key \in MetricNames
       \/ section = "security" /\ key \in SecurityNumbers
       \/ section = "signals"
       => v = Unreadable \/ v \in Int
    /\ section = "signals" /\ key \in Signals.governance \cup {"image_signed"}
       => v \in {0, 1, Unreadable}
    /\ section = "security" /\ key \in {"trivy", "kyverno"} => IsFiniteSet(DOMAIN v)

ASSUME EvidenceAssumption ==
    /\ Unreadable \notin Int
    /\ NoTrust \notin [score : Int, ledger_integrity_ok : BOOLEAN]
    /\ MaxChanges \in Nat
    /\ DOMAIN Complete = Sections /\ DOMAIN Readings \subseteq Sections
    /\ \A section \in Sections : \A key \in DOMAIN Complete[section] :
            IsReading(section, key, Complete[section][key])
    /\ \A section \in DOMAIN Readings : \A key \in DOMAIN Readings[section] :
            \A v \in Readings[section][key] : IsReading(section, key, v)

(* The checker runs where it is mounted, over the same tags and metrics.   *)
Compliance(e) ==
    IF e.checker.mounted
    THEN to_trust_evidence(check_eu_ai_act_compliance(e.tags, e.metrics, e.checker.card))
    ELSE <<>>

(* A check that raises ends the caller with it, before anything is asked.  *)
CheckAborts(e) == e.checker.mounted /\ CheckRaises(e.metrics)

Bundle(e) ==
    [metrics |-> e.metrics, tags |-> e.tags, security |-> e.security,
     compliance |-> Compliance(e), top |-> e.top, signals |-> e.signals]

(* opa_allow: the gate reads the metrics and tags, not the signals.  An    *)
(* accuracy or a drift that is no number raises.                           *)
opa_allow(e, score, environment) ==
    /\ Get(e.metrics, "accuracy", 0) # Unreadable
    /\ Get(e.metrics, "psi_score", 0) # Unreadable
    /\ allow([accuracy |-> 10 * Get(e.metrics, "accuracy", 0),
              drift_score |-> 10 * Get(e.metrics, "psi_score", 0),
              test_dataset_size |-> 500,
              shap_values_logged |-> Get(e.tags, "shap_values_logged", "") \in {"true", "True"},
              requestor |-> "ci-rehearsal",
              environment |-> environment,
              trust |-> [score |-> score, ledger_integrity_ok |-> TRUE]])

(* A bundle that is refused is answered 422, without a report, and a       *)
(* caller that ended has no answer.                                        *)
score_from_evidence(e) ==
    LET bundle == Bundle(e)
        signals == assemble_signals(bundle)
        report == compute_trust_score(signals)
    IN  IF CheckAborts(e) THEN [status |-> 0]
        ELSE IF EvidenceRefused(bundle) THEN [status |-> 422]
        ELSE [status |-> 200, signals |-> Observed(signals), report |-> report,
              allowed |-> {env \in Environments : opa_allow(e, report.score, env)}]

Init ==
    /\ evidence = Complete
    /\ outcome = score_from_evidence(Complete)
    /\ changes = 0

Change(to) ==
    /\ changes < MaxChanges
    /\ to # evidence
    /\ changes' = changes + 1
    /\ evidence' = to
    /\ outcome' = score_from_evidence(to)

(* An item is observed again, or for the first time.                       *)
Observe(section, key) ==
    \E value \in Readings[section][key] :
        Change([evidence EXCEPT ![section] =
                    [k \in DOMAIN @ \cup {key} |-> IF k = key THEN value ELSE @[k]]])

(* A source of evidence is missing.                                        *)
Lose(section, key) ==
    /\ section # "checker"
    /\ key \in DOMAIN evidence[section]
    /\ Change([evidence EXCEPT ![section] = [k \in DOMAIN @ \ {key} |-> @[k]]])

(* The bound is reached.                                                   *)
Quiet == changes = MaxChanges /\ UNCHANGED vars

Next ==
    \/ \E section \in DOMAIN Readings : \E key \in DOMAIN Readings[section] :
            Observe(section, key) \/ Lose(section, key)
    \/ Quiet

Spec == Init /\ [][Next]_vars

-----------------------------------------------------------------------------

(* The same signals are observed, and none of them is better.              *)
NoBetter(t, s) ==
    LET higher == {"accuracy", "f1_score", "roc_auc", "error_budget_remaining",
                   "availability_30d", "image_signed"} \cup Signals.governance
    IN  /\ DOMAIN t = DOMAIN s
        /\ \A k \in DOMAIN s : IF k \in higher THEN t[k] <= s[k] ELSE t[k] >= s[k]

(* A version about which worse is observed never scores higher, through    *)
(* the assembly, the transforms ("All are monotone", trust_engine.py:270), *)
(* the means, the rounding and the caps.                                   *)
WorseNeverScoresHigher ==
    [][outcome.status = 200 /\ outcome'.status = 200
            /\ NoBetter(outcome'.signals, outcome.signals)
        => outcome'.report.score <= outcome.report.score]_vars

(* Some source under one of the names says so, and none says otherwise.    *)
AllSay(section, keys, Bad(_)) ==
    LET said == {k \in keys \cap DOMAIN section : section[k] # Unreadable}
    IN  said # {} /\ \A k \in said : Bad(section[k])

CriticalCves(e, n) ==
    /\ {"critical_cves", "trivy"} \cap DOMAIN e.security # {}
    /\ "critical_cves" \in DOMAIN e.security => e.security.critical_cves >= n
    /\ "trivy" \in DOMAIN e.security => Count(e.security.trivy, {"CRITICAL"}) >= n

(* What the tools found keeps a version out: critical CVEs, a broken       *)
(* policy or a spent error budget out of production, three critical CVEs   *)
(* or a drop of 0.20 out of staging too.  The caps of trust_engine.py and  *)
(* the limits of model_promotion.rego are written down apart and have to   *)
(* fit, whatever else is well or not observed.  An explicit signal is the  *)
(* caller's own observation and may say otherwise.                         *)
KnockoutsBlock ==
    outcome.status = 200 =>
        LET e == evidence
            Stands(signal) == signal \notin DOMAIN e.signals
            Drop(v) == v >= 2000
            Spent(v) == v <= 0
        IN  /\ CriticalCves(e, 1) /\ Stands("critical_cves") => "production" \notin outcome.allowed
            /\ CriticalCves(e, 3) /\ Stands("critical_cves") => outcome.allowed = {}
            /\ /\ AllSay(e.security, {"policy_violations"}, LAMBDA v : v >= 1)
               /\ Stands("policy_violations")
               => "production" \notin outcome.allowed
            /\ /\ AllSay(e.metrics, {"estimated_performance_drop", "performance_drop"}, Drop)
               /\ Stands("estimated_performance_drop")
               => outcome.allowed = {}
            /\ /\ AllSay(e.metrics, {"error_budget_remaining", "error_budget_ratio"}, Spent)
               /\ Stands("error_budget_remaining")
               => "production" \notin outcome.allowed

(* A version the checker finds compliant is one the scorer sees explained, *)
(* documented, with its lineage and accurate: the two read the same tags   *)
(* and metrics under names of their own, and one takes over the other's    *)
(* verdict.  A flag or signal given beside the report may say otherwise.   *)
CompliantIsDocumented ==
    LET s == outcome.signals
    IN  /\ outcome.status = 200
        /\ Compliance(evidence) # <<>> /\ evidence.top = <<>> /\ evidence.signals = <<>>
        /\ s.eu_ai_act_compliant = 1
        => /\ s.shap_logged = 1 /\ s.lineage_recorded = 1 /\ s.model_card_present = 1
           /\ s.accuracy >= MinimumAccuracy

(* The points of the version after a plan was carried out: each action     *)
(* recovers what it recovers of its pillar, and only the caps that the     *)
(* actions lift are lifted.                                                *)
PointsAfter(report, plan) ==
    LET remaining == {c \in report.caps :
                        \A p \in plan : REMEDIATIONS[p.of].action # c.lifting_action}
        recovered == SumFunction([p \in plan |-> Recovered(p.of, report.lost)])
    IN  Min({10 * report.score_uncapped + recovered} \cup {10 * c.cap : c \in remaining})

(* A plan that is said to reach a band brings the version into it          *)
(* (README.md:470, "the minimal action set to reach a target band") when   *)
(* at most one rule is broken and its cap binds: the points the cap holds  *)
(* back and those of the other pillars add up.  With two broken rules it   *)
(* need not.                                                               *)
OneCapPlanReaches ==
    outcome.status = 200 =>
        LET report == outcome.report
        IN  Cardinality(report.caps) <= 1 /\ report.binding = report.caps =>
                \A band \in DOMAIN BANDS :
                    report.plan_to[band].reaches =>
                        PointsAfter(report, report.plan_to[band].plan) >= 10 * BANDS[band]
=============================================================================
