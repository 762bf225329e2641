---------------------------- MODULE ShadowEvaluator ----------------------------
(***************************************************************************)
(* platform/shadow-mode/shadow_evaluator.py: what a model in shadow mode   *)
(* would have done against what turned out right, and the gates it must    *)
(* clear before it goes active.  A ratio is compared by multiplying out,   *)
(* where the code divides in floating point.                               *)
(***************************************************************************)
EXTENDS Integers

CONSTANT MinSamples     \* min_samples of both gates

(* The limits of the gates, in parts of 100.                               *)
PromotionGate == [min_precision |-> 90, min_recall |-> 80, max_false_positive_rate |-> 5]

(* Mutant: a mean error smaller than what a single point may have.         *)
ForecastGateTight ==
    [max_mae_pct |-> 5, min_within_tolerance_rate |-> 80, tolerance_pct |-> 10]

ForecastGate ==
    [max_mae_pct |-> 15, min_within_tolerance_rate |-> 80, tolerance_pct |-> 10]

-----------------------------------------------------------------------------

NoDecisions == [tp |-> 0, fp |-> 0, tn |-> 0, fn |-> 0]

AddDecision(d, predicted, actual) ==
    LET cell == IF predicted THEN IF actual THEN "tp" ELSE "fp"
                ELSE IF actual THEN "fn" ELSE "tn"
    IN  [d EXCEPT ![cell] = @ + 1]

Decisions(d) == d.tp + d.fp + d.tn + d.fn

(* Without a positive the precision is 0.0, which no gate accepts; without *)
(* a negative the false positive rate is 0.0, which every gate does.       *)
DecisionsPromoted(d) ==
    /\ Decisions(d) >= MinSamples
    /\ d.tp > 0
    /\ 100 * d.tp >= PromotionGate.min_precision * (d.tp + d.fp)
    /\ 100 * d.tp >= PromotionGate.min_recall * (d.tp + d.fn)
    /\ 100 * d.fp <= PromotionGate.max_false_positive_rate * (d.fp + d.tn)

-----------------------------------------------------------------------------

(* The errors and the realised values only count by their sums.            *)
NoForecasts == [n |-> 0, errors |-> 0, actuals |-> 0, within |-> 0]

Error(predicted, actual) ==
    IF predicted >= actual THEN predicted - actual ELSE actual - predicted

(* Nothing but the value itself is within tolerance of 0 (denom is 1e-9).  *)
WithinTolerance(predicted, actual) ==
    100 * Error(predicted, actual) <= ForecastGate.tolerance_pct * Error(actual, 0)

AddForecast(f, predicted, actual) ==
    [n       |-> f.n + 1,
     errors  |-> f.errors + Error(predicted, actual),
     actuals |-> f.actuals + Error(actual, 0),
     within  |-> f.within + (IF WithinTolerance(predicted, actual) THEN 1 ELSE 0)]

(* Where every realised value was 0, mae_pct is 0.0 whatever the errors.   *)
ForecastsPromoted(f) ==
    /\ f.n >= MinSamples
    /\ f.n > 0
    /\ f.actuals > 0 => 100 * f.errors <= ForecastGate.max_mae_pct * f.actuals
    /\ 100 * f.within >= ForecastGate.min_within_tolerance_rate * f.n
=============================================================================
