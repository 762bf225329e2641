------------------------------ MODULE TrustScore ------------------------------
(***************************************************************************)
(* compute_trust_score of services/model-trust/src/trust_engine.py: the    *)
(* health of six pillars from the signals of a model version, the knockout *)
(* caps, the advice and the plan to a target band.                         *)
(*                                                                         *)
(* Rates, costs and health are in parts of One; a flag is 1 or 0.  The     *)
(* code's fractions are binary: where the exact value is a tie it may      *)
(* round to the other neighbour.                                           *)
(***************************************************************************)
EXTENDS Integers, FiniteSets, FiniteSetsExt, Functions

CONSTANT Unreadable     \* a text where a number is expected

One == 10000
SCORE_FLOOR == 300
SCORE_RANGE == 700
UNOBSERVED_HEALTH == 4000

BANDS == [PRIME |-> 850, GOOD |-> 700, FAIR |-> 600, SUBPRIME |-> 300]

(* In parts of 100.                                                        *)
PILLAR_WEIGHTS ==
    [performance |-> 25, drift |-> 20, reliability |-> 20, security |-> 15,
     governance |-> 10, cost |-> 10]

(* DEFAULT_TARGETS, which the service uses unless a request names others.  *)
performance_baseline == 8000
latency_slo_ms == 500
cost_budget_per_1k_usd == 500

(* round(): a tie goes to the even neighbour.                              *)
Round(n, d) ==
    LET q == n \div d
        twice == 2 * (n % d)
    IN  IF twice > d \/ (twice = d /\ q % 2 = 1) THEN q + 1 ELSE q

Clamp01(x) == IF x < 0 THEN 0 ELSE IF x > One THEN One ELSE x

-----------------------------------------------------------------------------

LowerBetter(v, full, zero) ==
    IF v <= full THEN One
    ELSE IF v >= zero THEN 0
    ELSE Clamp01(One - ((v - full) * One) \div (zero - full))

(* Mutant: the two limits are exchanged.                                   *)
HigherBetterSwapped(v, zero, full) ==
    IF v <= full THEN One
    ELSE IF v >= zero THEN 0
    ELSE Clamp01(((v - zero) * One) \div (full - zero))

HigherBetter(v, zero, full) ==
    IF v >= full THEN One
    ELSE IF v <= zero THEN 0
    ELSE Clamp01(((v - zero) * One) \div (full - zero))

(* The signals of each pillar, and the health that value v of signal k is. *)
Signals ==
    [drift       |-> {"psi_score", "ks_statistic", "drifted_feature_count"},
     performance |-> {"accuracy", "f1_score", "roc_auc", "estimated_performance_drop"},
     reliability |-> {"error_budget_remaining", "p99_latency_ms", "availability_30d"},
     cost        |-> {"cost_per_1k_predictions_usd", "idle_capacity_ratio"},
     security    |-> {"critical_cves", "high_cves", "policy_violations", "image_signed"},
     governance  |-> {"shap_logged", "model_card_present", "lineage_recorded",
                      "eu_ai_act_compliant", "human_oversight_defined"}]

Contribution(k, v) ==
    CASE k = "psi_score" -> LowerBetter(v, 1000, 5000)
      [] k = "ks_statistic" -> LowerBetter(v, 1000, 4000)
      [] k = "drifted_feature_count" -> LowerBetter(v, 0, 5)
      [] k \in {"accuracy", "f1_score", "roc_auc"} ->
            HigherBetter(v, performance_baseline - 2500, performance_baseline)
      [] k = "estimated_performance_drop" -> LowerBetter(v, 200, 2000)
      [] k = "error_budget_remaining" -> HigherBetter(v, 0, 5000)
      [] k = "p99_latency_ms" -> LowerBetter(v, latency_slo_ms, 2 * latency_slo_ms)
      [] k = "availability_30d" -> HigherBetter(v, 9900, 9990)
      [] k = "cost_per_1k_predictions_usd" ->
            LowerBetter(v, cost_budget_per_1k_usd, 3 * cost_budget_per_1k_usd)
      [] k = "idle_capacity_ratio" -> LowerBetter(v, 2000, 7000)
      [] k = "critical_cves" -> Clamp01(One - 4000 * v)
      [] k = "high_cves" -> Clamp01(One - 1000 * v)
      [] k = "policy_violations" -> Clamp01(One - 2500 * v)
      [] k \in Signals.governance \cup {"image_signed"} -> v * One

-----------------------------------------------------------------------------

(* Points of a pillar, in parts of Part of one point: Part is divisible by *)
(* the number of signals of every pillar.                                  *)
Part == 60 * One

Available(p) == 7 * PILLAR_WEIGHTS[p]

Earned(p, s) ==
    LET observed == Signals[p] \cap DOMAIN s
    IN  IF observed = {} THEN Available(p) * UNOBSERVED_HEALTH * 60
        ELSE SumFunction([k \in observed |-> Contribution(k, s[k])])
               * Available(p) * (60 \div Cardinality(observed))

Uncapped(s) ==
    SCORE_FLOOR + Round(SumFunction([p \in DOMAIN Signals |-> Earned(p, s)]), Part)

(* In tenths of a point, as all points below.                              *)
PointsLost(s) ==
    [p \in DOMAIN Signals |->
        Round((Available(p) * Part - Earned(p, s)) \div 100, Part \div 1000)]

-----------------------------------------------------------------------------

(* The knockout rules with the cap each sets and the action that lifts it. *)
(* Mutant: the cap is the band's own threshold.                            *)
CapAtThreshold(rule, band, action) ==
    [rule |-> rule, cap |-> BANDS[band], lifting_action |-> action]

Cap(rule, band, action) == [rule |-> rule, cap |-> BANDS[band] - 1, lifting_action |-> action]

Rebuild == "rebuild and sign the image"
FixPolicy == "fix policy violations"
PromoteWinner == "promote the shadow winner"
Hedge == "request hedging and circuit breaker"
PublishCard == "publish model card and lineage"

AtLeast(s, k, n) == k \in DOMAIN s /\ s[k] >= n
AtMost(s, k, n) == k \in DOMAIN s /\ s[k] <= n

ActiveCaps(s) ==
    {c \in {Cap("critical_cves>=3", "FAIR", Rebuild),
            Cap("critical_cves>=1", "GOOD", Rebuild),
            Cap("image_unsigned", "PRIME", Rebuild),
            Cap("policy_violations>=1", "GOOD", FixPolicy),
            Cap("performance_drop>=0.20", "FAIR", PromoteWinner),
            Cap("error_budget_exhausted", "GOOD", Hedge),
            Cap("eu_ai_act_non_compliant", "PRIME", PublishCard)} :
        CASE c.rule = "critical_cves>=3" -> AtLeast(s, "critical_cves", 3)
          [] c.rule = "critical_cves>=1" ->
                AtLeast(s, "critical_cves", 1) /\ ~AtLeast(s, "critical_cves", 3)
          [] c.rule = "image_unsigned" -> AtMost(s, "image_signed", 0)
          [] c.rule = "policy_violations>=1" -> AtLeast(s, "policy_violations", 1)
          [] c.rule = "performance_drop>=0.20" -> AtLeast(s, "estimated_performance_drop", 2000)
          [] c.rule = "error_budget_exhausted" -> AtMost(s, "error_budget_remaining", 0)
          [] c.rule = "eu_ai_act_non_compliant" -> AtMost(s, "eu_ai_act_compliant", 0)}

Lowest(n, caps) == Min({n} \cup {c.cap : c \in caps})

-----------------------------------------------------------------------------

(* REMEDIATIONS in the alphabetical order of their texts: pillar, action,  *)
(* hours times two, fraction of the lost points recovered in parts of 100. *)
REMEDIATIONS ==
    << [pillar |-> "reliability", action |-> Hedge, effort |-> 8, recovery |-> 80],
       [pillar |-> "security", action |-> FixPolicy, effort |-> 2, recovery |-> 80],
       [pillar |-> "governance", action |-> "log SHAP", effort |-> 2, recovery |-> 45],
       [pillar |-> "cost", action |-> "spot nodes", effort |-> 6, recovery |-> 50],
       [pillar |-> "performance", action |-> PromoteWinner, effort |-> 2, recovery |-> 80],
       [pillar |-> "governance", action |-> PublishCard, effort |-> 4, recovery |-> 55],
       [pillar |-> "security", action |-> Rebuild, effort |-> 3, recovery |-> 90],
       [pillar |-> "drift", action |-> "refresh reference", effort |-> 1, recovery |-> 40],
       [pillar |-> "cost", action |-> "right-size pods", effort |-> 2, recovery |-> 70],
       [pillar |-> "performance", action |-> "HPO sweep", effort |-> 12, recovery |-> 90],
       [pillar |-> "reliability", action |-> "scale replicas", effort |-> 1, recovery |-> 60],
       [pillar |-> "drift", action |-> "retrain", effort |-> 4, recovery |-> 85] >>

Recovered(i, lost) == Round(lost[REMEDIATIONS[i].pillar] * REMEDIATIONS[i].recovery, 100)

(* How far the score can rise once each cap the action lifts is lifted,    *)
(* added up over those caps.                                               *)
CapBonus(action, uncapped, binding) ==
    LET lifted == {c \in binding : c.lifting_action = action}
    IN  10 * Cardinality(lifted)
           * (Lowest(uncapped, binding \ lifted) - Lowest(uncapped, binding))

WorthListing(points) == points >= 10

(* _advise: the actions, each under its number, with their rank.           *)
Advise(lost, uncapped, binding) ==
    LET Lifts(r) == \E c \in binding : c.lifting_action = r.action
        Points(i) == Recovered(i, lost) + CapBonus(REMEDIATIONS[i].action, uncapped, binding)
        Rated(i, r, points) ==
            [pillar |-> r.pillar, of |-> i, points_recoverable |-> points,
             rank |-> <<IF Lifts(r) THEN 0 ELSE 1, -Round(2 * points, r.effort), -points, i>>]
    IN  {p \in {Rated(i, REMEDIATIONS[i], Points(i)) : i \in DOMAIN REMEDIATIONS} :
            WorthListing(p.points_recoverable)}

(* Mutant: ranked by points per hour only, as while no cap binds.          *)
BeforeByRoi(p, q) ==
    \E i \in 2..4 :
        /\ p.rank[i] < q.rank[i]
        /\ \A j \in 2..i - 1 : p.rank[j] = q.rank[j]

(* Lifting a cap comes first, then points per hour, points and text.       *)
Before(p, q) ==
    \E i \in 1..4 :
        /\ p.rank[i] < q.rank[i]
        /\ \A j \in 1..i - 1 : p.rank[j] = q.rank[j]

Gained(plans) == SumFunction([p \in plans |-> p.points_recoverable])

(* _plan_to_band: down the ranking, one action for a pillar, until the     *)
(* points suffice.                                                         *)
PlanToBand(needed, ranked) ==
    LET best == {p \in ranked :
                    \A q \in ranked : q.pillar = p.pillar /\ q # p => Before(p, q)}
        plan == {p \in best : Gained({q \in best : Before(q, p)}) < needed}
    IN  [plan |-> plan, reaches |-> Gained(plan) >= needed]

(* _as_float and _as_bool: a number that cannot be read is not observed, a *)
(* text that is no flag is false, and other keys are not looked at.        *)
Observed(signals) ==
    LET flags == Signals.governance \cup {"image_signed"}
        known == DOMAIN signals \cap UNION {Signals[p] : p \in DOMAIN Signals}
    IN  [k \in {k \in known : signals[k] # Unreadable \/ k \in flags} |->
            IF signals[k] = Unreadable THEN 0 ELSE signals[k]]

(* The report, with the plan to every band a request can ask for.          *)
compute_trust_score(signals) ==
    LET s == Observed(signals)
        uncapped == Uncapped(s)
        caps == ActiveCaps(s)
        score == Lowest(uncapped, caps)
        binding == {c \in caps : c.cap < uncapped}
        lost == PointsLost(s)
        advice == Advise(lost, uncapped, binding)
    IN  [score |-> score, score_uncapped |-> uncapped, caps |-> caps, binding |-> binding,
         lost |-> lost, recommendations |-> advice,
         plan_to |-> [band \in DOMAIN BANDS |-> PlanToBand(10 * (BANDS[band] - score), advice)]]
=============================================================================
