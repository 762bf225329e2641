------------------------------ MODULE MCRollback ------------------------------
(* Two of the configured models.  A run is good, degraded, or has a NaN;   *)
(* one that is degraded holds a version number as digits, its own or       *)
(* another, or in another form.                                            *)
EXTENDS Rollback

MCOrder == <<"pod_failure_prediction", "cost_anomaly_detector">>

MCRuns ==
    [pod_failure_prediction |->
        {[accuracy |-> 9000], [f1_score |-> Text]}
            \cup {[drift_psi |-> 2600, mlflow_version |-> v] : v \in {2, 3, Text}},
     cost_anomaly_detector |->
        {[precision |-> 7000]}
            \cup {[precision |-> 6999, mlflow_version |-> v] : v \in {2, Text}}]
=============================================================================
