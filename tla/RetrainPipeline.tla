---------------------------- MODULE RetrainPipeline ----------------------------
(***************************************************************************)
(* The retrain DAG                                                         *)
(* (mlops/pipelines/airflow/dags/pod_failure_prediction_retrain.py), the   *)
(* drift monitor that triggers it and the MLflow registry it writes to.    *)
(*                                                                         *)
(* A run goes through its seven tasks in order.  Tasks hand their results  *)
(* over in three files under /tmp, which every run of the worker shares:   *)
(* the executor is LocalExecutor and the DAG sets no max_active_runs.  A   *)
(* task that raises, or whose worker dies, starts again, at most Retries   *)
(* times; then its run has failed.                                         *)
(***************************************************************************)
EXTENDS ModelPromotionPolicy, Sequences

CONSTANTS
    Runs,           \* runs of the DAG
    FeastData,      \* what the feature store may return
    Fallback,       \* the synthetic data used when it cannot be reached
    Psi,            \* what the drift monitor may measure
    Scores,         \* what the trust service may answer
    Overlap,        \* runs, and registrations by others, may overlap in time
    MaxOutside,     \* bound: versions registered by others
    Nothing         \* no value

(* What train_model writes: the version, its run and its metrics.          *)
AnyResult ==
    [of : Nat, run : Runs, accuracy : Nat, f1_score : Nat, test_samples : Nat, drift_psi : Nat]

ASSUME PipelineAssumption ==
    /\ \A d \in FeastData \cup {Fallback} :
        /\ d.in_range \in BOOLEAN
        /\ {d.rows, d.accuracy, d.f1} \subseteq Nat
    /\ Nothing \notin FeastData \cup {Fallback} /\ Nothing \notin AnyResult
    /\ Psi \subseteq Nat
    /\ Scores \subseteq 300..1000
    /\ Overlap \in BOOLEAN
    /\ MaxOutside \in Nat

VARIABLES
    at,             \* at[r]: the step run r is about to take
    tries,          \* tries[r]: how often its current task was started
    conf,           \* conf[r]: the psi_score of its configuration
    held,           \* held[r]: what the task holds between two steps
    training_data,  \* /tmp/training_data.parquet
    train_result,   \* /tmp/train_result.json
    trust_result,   \* /tmp/trust_result.json
    versions,       \* the registered versions: the result each was trained with
    challenger,     \* the version of the alias @challenger, 0 while it is not set
    outside,        \* versions registered by others
    judged,         \* history: what OPA allowed, with the trust it was shown
    held_out        \* history: the versions that passed the holdout evaluation

files == <<training_data, train_result, trust_result>>
registry == <<versions, challenger, outside>>
history == <<judged, held_out>>
vars == <<at, tries, conf, held, files, registry, history>>

Retries == 2
RETRAIN_PSI_THRESHOLD == 10000
MinF1 == 60000

(* The steps, each under the first step of its task.                       *)
Task ==
    [pull     |-> {"pull"},
     validate |-> {"validate"},
     read     |-> {"read", "log_model", "write_result"},
     report   |-> {"report", "score", "write_trust"},
     evidence |-> {"evidence", "gate"},
     holdout  |-> {"holdout"},
     search   |-> {"search", "alias"}]

Tasks == DOMAIN Task
Steps == UNION {Task[s] : s \in Tasks}
Ended == {"success", "failed"}

Active(r) == at[r] \in Steps

Init ==
    /\ at = [r \in Runs |-> "none"]
    /\ tries = [r \in Runs |-> 0]
    /\ conf = [r \in Runs |-> 0]
    /\ held = [r \in Runs |-> Nothing]
    /\ training_data = Nothing
    /\ train_result = Nothing
    /\ trust_result = NoTrust
    /\ versions = <<>>
    /\ challenger = 0
    /\ outside = 0
    /\ judged = {}
    /\ held_out = {}

-----------------------------------------------------------------------------

(* A POST to the REST API of Airflow creates a run.                        *)
Trigger(r, psi_score) ==
    /\ at[r] = "none"
    /\ at' = [at EXCEPT ![r] = "queued"]
    /\ conf' = [conf EXCEPT ![r] = psi_score]
    /\ UNCHANGED <<tries, held, files, registry, history>>

(* A run is triggered by hand, with the default psi_score.                 *)
Manual(r) == Trigger(r, 0)

(* round(psi, 4)                                                           *)
Rounded(psi) == ((psi + 5) \div 10) * 10

(* check_drift: the threshold is compared with the PSI as measured, and    *)
(* the rounded one is what the DAG is told.                                *)
CheckDrift(r, psi) ==
    /\ psi > RETRAIN_PSI_THRESHOLD
    /\ Trigger(r, Rounded(psi))

(* The scheduler starts a run.                                             *)
Start(r) ==
    /\ at[r] = "queued"
    /\ Overlap \/ \A q \in Runs : ~Active(q)
    /\ at' = [at EXCEPT ![r] = "pull"]
    /\ tries' = [tries EXCEPT ![r] = 1]
    /\ UNCHANGED <<conf, held, files, registry, history>>

(* mlops/experiments/pod_failure_prediction/train.py registers a version   *)
(* under the same name.                                                    *)
RegisterOutside ==
    /\ outside < MaxOutside
    /\ Overlap \/ \A q \in Runs : ~Active(q)
    /\ outside' = outside + 1
    /\ versions' = Append(versions, Nothing)
    /\ UNCHANGED <<at, tries, conf, held, files, challenger, history>>

-----------------------------------------------------------------------------

(* A step inside a task.                                                   *)
Goto(r, step, value) ==
    /\ at' = [at EXCEPT ![r] = step]
    /\ held' = [held EXCEPT ![r] = value]
    /\ UNCHANGED <<tries, conf>>

(* The task has returned and the next one starts.                          *)
Finish(r, step) ==
    /\ at' = [at EXCEPT ![r] = step]
    /\ tries' = [tries EXCEPT ![r] = 1]
    /\ held' = [held EXCEPT ![r] = Nothing]
    /\ UNCHANGED conf

(* Mutant: one more attempt than the DAG allows.                           *)
TaskFailsLate(r) ==
    /\ held' = [held EXCEPT ![r] = Nothing]
    /\ \/ /\ tries[r] <= Retries + 1
          /\ tries' = [tries EXCEPT ![r] = @ + 1]
          /\ \E s \in Tasks : at[r] \in Task[s] /\ at' = [at EXCEPT ![r] = s]
       \/ /\ tries[r] > Retries + 1
          /\ at' = [at EXCEPT ![r] = "failed"]
          /\ UNCHANGED tries
    /\ UNCHANGED <<conf, files, registry, history>>

(* Mutant: the attempts are not counted.                                   *)
TaskFailsAgain(r) ==
    /\ held' = [held EXCEPT ![r] = Nothing]
    /\ \E s \in Tasks : at[r] \in Task[s] /\ at' = [at EXCEPT ![r] = s]
    /\ UNCHANGED <<tries, conf, files, registry, history>>

(* The task raised, or its worker died: it is retried, or the run failed.  *)
TaskFails(r) ==
    /\ held' = [held EXCEPT ![r] = Nothing]
    /\ \/ /\ tries[r] <= Retries
          /\ tries' = [tries EXCEPT ![r] = @ + 1]
          /\ \E s \in Tasks : at[r] \in Task[s] /\ at' = [at EXCEPT ![r] = s]
       \/ /\ tries[r] > Retries
          /\ at' = [at EXCEPT ![r] = "failed"]
          /\ UNCHANGED tries
    /\ UNCHANGED <<conf, files, registry, history>>

(* A worker dies, or Feast, MLflow or OPA fails where the task lets it.    *)
Crash(r) == Active(r) /\ TaskFails(r)

-----------------------------------------------------------------------------

(* pull_training_data                                                      *)
Pull(r) ==
    /\ at[r] = "pull"
    /\ \E d \in FeastData \cup {Fallback} : training_data' = d
    /\ Finish(r, "validate")
    /\ UNCHANGED <<train_result, trust_result, registry, history>>

(* run_ge_validation                                                       *)
Valid(d) == d.in_range /\ d.rows >= 100

Validate(r) ==
    /\ at[r] = "validate"
    /\ IF Valid(training_data)
         THEN Finish(r, "read") /\ UNCHANGED <<files, registry, history>>
         ELSE TaskFails(r)

(* train_model reads the data.                                             *)
ReadData(r) ==
    /\ at[r] = "read"
    /\ Goto(r, "log_model", training_data)
    /\ UNCHANGED <<files, registry, history>>

(* The version, its metrics on the test split (test_size 0.2, rounded up)  *)
(* and the psi_score of the run.                                           *)
Result(r, d) ==
    [of |-> Len(versions) + 1, run |-> r, accuracy |-> d.accuracy, f1_score |-> d.f1,
     test_samples |-> (d.rows + 4) \div 5, drift_psi |-> conf[r]]

(* log_model registers the version: no gate has looked at it yet.          *)
LogModel(r) ==
    /\ at[r] = "log_model"
    /\ versions' = Append(versions, Result(r, held[r]))
    /\ Goto(r, "write_result", Result(r, held[r]))
    /\ UNCHANGED <<files, challenger, outside, history>>

(* Mutant: the result of an earlier training is kept.                      *)
WriteResultOnce(r) ==
    /\ at[r] = "write_result"
    /\ train_result' = IF train_result = Nothing THEN held[r] ELSE train_result
    /\ Finish(r, "report")
    /\ UNCHANGED <<training_data, trust_result, registry, history>>

WriteResult(r) ==
    /\ at[r] = "write_result"
    /\ train_result' = held[r]
    /\ Finish(r, "report")
    /\ UNCHANGED <<training_data, trust_result, registry, history>>

(* compute_trust_score reads the result.                                   *)
ReadResult(r) ==
    /\ at[r] = "report"
    /\ Goto(r, "score", train_result)
    /\ UNCHANGED <<files, registry, history>>

(* Mutant: without an answer the file is left as it is.                    *)
ScoreKeepsFile(r) ==
    /\ at[r] = "score"
    /\ \/ \E s \in Scores :
            Goto(r, "write_trust", [of |-> held[r].of, score |-> s, ledger_integrity_ok |-> TRUE])
       \/ Goto(r, "write_trust", trust_result)
    /\ UNCHANGED <<files, registry, history>>

(* The trust service answers, with the entry it recorded, or is skipped:   *)
(* ledger_integrity_ok says that there is an entry.                        *)
Score(r) ==
    /\ at[r] = "score"
    /\ \/ \E s \in Scores :
            Goto(r, "write_trust", [of |-> held[r].of, score |-> s, ledger_integrity_ok |-> TRUE])
       \/ Goto(r, "write_trust", NoTrust)
    /\ UNCHANGED <<files, registry, history>>

WriteTrust(r) ==
    /\ at[r] = "write_trust"
    /\ trust_result' = held[r]
    /\ Finish(r, "evidence")
    /\ UNCHANGED <<training_data, train_result, registry, history>>

(* opa_promotion_gate reads the result, then the trust, and asks OPA.      *)
ReadEvidence(r) ==
    /\ at[r] = "evidence"
    /\ Goto(r, "gate", train_result)
    /\ UNCHANGED <<files, registry, history>>

opa_input(result) ==
    [accuracy |-> result.accuracy, drift_score |-> result.drift_psi,
     test_dataset_size |-> result.test_samples, shap_values_logged |-> FALSE,
     requestor |-> "airflow-retrain-dag", environment |-> "staging",
     trust |-> trust_result]

Gate(r) ==
    /\ at[r] = "gate"
    /\ IF allow(opa_input(held[r]))
         THEN /\ judged' = judged \cup {[of |-> held[r].of, trust |-> trust_result]}
              /\ Finish(r, "holdout")
              /\ UNCHANGED <<files, registry, held_out>>
         ELSE TaskFails(r)

(* evaluate_drift_on_holdout                                               *)
Holdout(r) ==
    /\ at[r] = "holdout"
    /\ IF train_result.f1_score >= MinF1 /\ train_result.accuracy >= MinAccuracy
         THEN /\ held_out' = held_out \cup {train_result.of}
              /\ Finish(r, "search")
              /\ UNCHANGED <<files, registry, judged>>
         ELSE TaskFails(r)

(* register_model: the latest version of the name becomes @challenger.  An *)
(* exception from MLflow is logged, and the task succeeds without it.      *)
Search(r) ==
    /\ at[r] = "search"
    /\ \/ Goto(r, "alias", Len(versions))
       \/ Finish(r, "success")
    /\ UNCHANGED <<files, registry, history>>

SetAlias(r) ==
    /\ at[r] = "alias"
    /\ \/ challenger' = held[r]
       \/ UNCHANGED challenger
    /\ Finish(r, "success")
    /\ UNCHANGED <<files, versions, outside, history>>

-----------------------------------------------------------------------------

Step(r) ==
    \/ Pull(r)
    \/ Validate(r)
    \/ ReadData(r)
    \/ LogModel(r)
    \/ WriteResult(r)
    \/ ReadResult(r)
    \/ Score(r)
    \/ WriteTrust(r)
    \/ ReadEvidence(r)
    \/ Gate(r)
    \/ Holdout(r)
    \/ Search(r)
    \/ SetAlias(r)

(* Every run has ended.                                                    *)
Quiet ==
    /\ \A r \in Runs : at[r] \in Ended
    /\ UNCHANGED vars

Next ==
    \/ \E r \in Runs :
        \/ Manual(r)
        \/ \E psi \in Psi : CheckDrift(r, psi)
        \/ Start(r)
        \/ Step(r)
        \/ Crash(r)
    \/ RegisterOutside
    \/ Quiet

Spec == Init /\ [][Next]_vars

(* The scheduler starts queued runs and the worker carries tasks on.       *)
FairSpec == Spec /\ \A r \in Runs : WF_vars(Start(r)) /\ WF_vars(Step(r))

-----------------------------------------------------------------------------

Version(v) == v = Nothing \/ (v.run \in Runs /\ v.of \in 1..Len(versions))

(* Types, and what each task may rely on: the file its predecessor wrote.  *)
TypeOK ==
    /\ at \in [Runs -> Steps \cup Ended \cup {"none", "queued"}]
    /\ tries \in [Runs -> 0..Retries + 1]
    /\ conf \in [Runs -> Nat]
    /\ training_data \in FeastData \cup {Fallback, Nothing}
    /\ Version(train_result)
    /\ \A i \in DOMAIN versions : Version(versions[i])
    /\ challenger \in 0..Len(versions)
    /\ \A r \in Runs :
        /\ at[r] \in Steps \ {"pull"} => training_data # Nothing
        /\ at[r] \in Steps \ ({"pull", "validate"} \cup Task.read) => train_result # Nothing

(* Without overlap the pipeline keeps its promise: the alias only moves    *)
(* forward, to a version that OPA and the holdout evaluation both passed,  *)
(* whatever crashed and was retried on the way.                            *)
Passed == {j.of : j \in judged} \cap held_out

Promise == INSTANCE Promotion WITH registered <- Len(versions), passed <- Passed

ImplementsPromotion == Promise!Spec

(* The same of the state, for runs that may overlap: the challenger passed *)
(* all gates.                                                              *)
ChallengerPassed == challenger # 0 => challenger \in Passed

(* OPA is never shown the trust score of another version than the one      *)
(* whose metrics it judges: not one left in /tmp by an earlier attempt or  *)
(* by an earlier run.                                                      *)
TrustIsOwn == \A j \in judged : j.trust # NoTrust => j.trust.of = j.of

(* A retrain the drift monitor asks for carries the PSI that triggered it  *)
(* to OPA, which denies it for that PSI: no such run succeeds, but for a   *)
(* PSI that is rounded down to the threshold.                              *)
DriftedRunsNeverSucceed ==
    \A r \in Runs : conf[r] > RETRAIN_PSI_THRESHOLD => at[r] # "success"

(* A triggered run ends, whatever crashes.                                 *)
RunsEnd == \A r \in Runs : at[r] = "queued" ~> at[r] \in Ended
=============================================================================
