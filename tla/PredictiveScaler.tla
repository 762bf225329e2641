--------------------------- MODULE PredictiveScaler ---------------------------
(***************************************************************************)
(* services/predictive-scaler/src/main.py: the trend of a load history,    *)
(* its walk-forward backtest and the replicas for the forecast.  Loads are *)
(* naturals; a forecast is a fraction [num, den], exact where the code     *)
(* computes in floating point.                                             *)
(***************************************************************************)
EXTENDS Integers, Sequences, Functions

MIN_REPLICAS == 2
MAX_REPLICAS == 20
CAPACITY_PER_REPLICA_RPS == 100
SCALE_HEADROOM == 130           \* in parts of 100

Largest(a, b) == IF a >= b THEN a ELSE b
Smallest(a, b) == IF a <= b THEN a ELSE b

(* Least squares over the positions 0 .. n-1, continued steps_ahead past   *)
(* the last; never below zero.                                             *)
linear_trend_forecast(history, steps_ahead) ==
    LET n == Len(history)
        sx == (n * (n - 1)) \div 2
        sxx == ((n - 1) * n * (2 * n - 1)) \div 6
        sy == SumFunction(history)
        sxy == SumFunction([i \in 1..n |-> (i - 1) * history[i]])
        spread == n * sxx - sx * sx
        ahead == n * (n - 1 + steps_ahead) - sx
    IN  IF n = 0 THEN [num |-> 0, den |-> 1]
        ELSE IF n < 3 THEN [num |-> Largest(0, history[n]), den |-> 1]
        ELSE [num |-> Largest(0, sy * spread + (n * sxy - sx * sy) * ahead),
              den |-> n * spread]

(* One step ahead from every prefix of three or more, in thousandths of    *)
(* the mean load.                                                          *)
backtest_mae_pct(history) ==
    LET n == Len(history)
        Off(i) == LET p == linear_trend_forecast(SubSeq(history, 1, i), 1)
                      d == p.num - history[i + 1] * p.den
                  IN  (1000 * Largest(d, -d)) \div p.den
        errors == SumFunction([i \in 1..n - 3 |-> Off(i + 2)])
    IN  IF n < 5 \/ SumFunction(history) <= 0 THEN 0
        ELSE (errors * n) \div ((n - 3) * SumFunction(history))

recommend_replicas(forecast) ==
    LET per == 100 * CAPACITY_PER_REPLICA_RPS * forecast.den
        needed == (forecast.num * SCALE_HEADROOM + per - 1) \div per
    IN  Largest(MIN_REPLICAS, Smallest(MAX_REPLICAS, Largest(needed, 1)))

(* The answer; its first three fields are the metrics of UC4.              *)
forecast_response(history, horizon_minutes, shadow) ==
    LET forecast == linear_trend_forecast(history, Largest(1, horizon_minutes))
    IN  [forecast_mae |-> backtest_mae_pct(history),
         pre_scale_lead_time_seconds |-> 60 * horizon_minutes,
         p99_latency_delta_pct |-> IF shadow THEN 0 ELSE -150,
         replicas |-> recommend_replicas(forecast),
         applied |-> ~shadow]
=============================================================================
