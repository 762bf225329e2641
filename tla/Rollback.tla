------------------------------- MODULE Rollback -------------------------------
(***************************************************************************)
(* The rollback engine, platform/rollback/auto_rollback.py: one loop over  *)
(* the configured models that asks MLflow, request by request, for the     *)
(* champion, its run and the versions before it, while the registry and    *)
(* the runs change, and submits a rollback to the self-healing service.    *)
(*                                                                         *)
(* A run's metrics are a function on the names it has, in parts of 10 000; *)
(* MLflow writes a NaN as a text.  The engine takes the metric             *)
(* mlflow_version for the number of the version.  A run may lack it, hold  *)
(* the number of another version, or hold it in a form that str() does not *)
(* turn into digits, as the double 2.0 that MLflow makes of a metric: Text. *)
(***************************************************************************)
EXTENDS Integers, Sequences

CONSTANTS
    Order,          \* the configured models in the order of the loop
    Runs,           \* Runs[m]: the metrics a run of model m may have
    Text,           \* a metric that is no number, or no digits
    MaxVersion,     \* bound: versions of a model
    MaxChanges,     \* bound: changes of registry and runs
    MaxFailures     \* bound: requests that fail

Models == {Order[i] : i \in DOMAIN Order}
Versions == 1..MaxVersion

(* The versions of a model that the registry holds are those with a stage. *)
Stages == {"None", "Staging", "Production", "Archived"}

ASSUME RollbackAssumption ==
    /\ Order \in Seq(Models) /\ Order # <<>>
    /\ MaxVersion \in Nat \ {0} /\ MaxChanges \in Nat /\ MaxFailures \in Nat
    /\ Text \notin Int
    /\ \A m \in Models : \A run \in Runs[m] :
          "mlflow_version" \in DOMAIN run => run.mlflow_version \in Nat \cup {Text}

VARIABLES
    stage,          \* stage[m][v], for the registered versions of m
    alias,          \* alias[m]: the version with a champion alias, or 0
    metrics,        \* metrics[m][v]: those of the run of version v
    engine,         \* where the loop is, and what it has read
    submitted,      \* the requests that reached the self-healing service
    served,         \* served[m]: the versions that have ever been champion
    condemned,      \* condemned[m]: the versions whose run was ever degraded
    held,           \* held[m]: the versions with each stage they ever had
    mislogged,      \* mislogged[m]: those whose run ever held another number
    changes,        \* changes of registry and runs
    failures        \* requests that failed

history == <<served, condemned, held, mislogged>>
registry == <<stage, alias, metrics, history, changes>>
engineVars == <<registry, engine, submitted, failures>>

MODEL_ROLLBACK_THRESHOLDS ==
    [pod_failure_prediction |-> [accuracy |-> 7000, f1_score |-> 6500, drift_psi |-> 2500],
     log_anomaly_detector   |-> [reconstruction_error |-> 1500, precision_at_10 |-> 6000],
     cost_anomaly_detector  |-> [precision |-> 7000, recall |-> 6500]]

LowerBetter == {"drift_psi", "reconstruction_error", "false_positive_rate"}

(* The metrics that are compared: those of the model that the run has.     *)
Compared(m, run) == DOMAIN MODEL_ROLLBACK_THRESHOLDS[m] \cap DOMAIN run

(* A text is compared with a number.                                       *)
Raises(m, run) == \E k \in Compared(m, run) : run[k] = Text

Reasons(m, run) ==
    {k \in Compared(m, run) :
        IF k \in LowerBetter THEN run[k] > MODEL_ROLLBACK_THRESHOLDS[m][k]
        ELSE run[k] < MODEL_ROLLBACK_THRESHOLDS[m][k]}

Degraded(m, run) == ~Raises(m, run) /\ Reasons(m, run) # {}

(* The latest of some versions: one of them, or none where there are none. *)
Latest(versions) == {v \in versions : \A w \in versions : w <= v}

(* The version with the alias, else the latest one in production, or none. *)
(* Three alias names count: alias is the first of them in MLflow's list.   *)
Champion(m) ==
    IF alias[m] # 0 THEN {alias[m]}
    ELSE Latest({v \in DOMAIN stage[m] : stage[m][v] = "Production"})

(* A version that is not known as digits counts as zero.                   *)
CurrentVersion(run) ==
    IF "mlflow_version" \in DOMAIN run /\ run.mlflow_version # Text
      THEN run.mlflow_version ELSE 0

(* Mutant: the version itself is a candidate.                              *)
CandidatesUpTo(m, current) ==
    {v \in DOMAIN stage[m] : v <= current /\ stage[m][v] # "None"}

Candidates(m, current) ==
    {v \in DOMAIN stage[m] : v < current /\ stage[m][v] # "None"}

-----------------------------------------------------------------------------

Waiting == [at |-> "idle", model |-> 1, version |-> 0, current |-> 0, target |-> 0]

(* Mutant: the loop ends with the first decision.                          *)
NextModelStops == Waiting

(* The decision on a model is made: the loop goes on to the next one.      *)
NextModel ==
    IF engine.model = Len(Order) THEN Waiting
    ELSE [Waiting EXCEPT !.at = "alias", !.model = engine.model + 1]

Model == Order[engine.model]

StartLoop ==
    /\ engine.at = "idle"
    /\ engine' = [Waiting EXCEPT !.at = "alias"]
    /\ UNCHANGED <<registry, submitted, failures>>

(* The first request of _get_champion_metrics.                             *)
ReadChampion ==
    /\ engine.at = "alias"
    /\ \/ Champion(Model) = {} /\ engine' = NextModel
       \/ \E v \in Champion(Model) :
            engine' = [engine EXCEPT !.at = "version", !.version = v]
    /\ UNCHANGED <<registry, submitted, failures>>

(* The second asks for the run of that version, which stays the same; a    *)
(* version without a run is one whose run has no metrics.                  *)
ReadVersion ==
    /\ engine.at = "version"
    /\ engine' = [engine EXCEPT !.at = "run"]
    /\ UNCHANGED <<registry, submitted, failures>>

(* The metrics of the run, whatever the champion is by now.  A text among  *)
(* those that are compared ends the loop, the models behind it included.   *)
ReadMetrics ==
    /\ engine.at = "run"
    /\ LET run == metrics[Model][engine.version]
       IN  engine' = IF Raises(Model, run) THEN Waiting
                     ELSE IF Reasons(Model, run) = {} THEN NextModel
                     ELSE [engine EXCEPT !.at = "search", !.current = CurrentVersion(run)]
    /\ UNCHANGED <<registry, submitted, failures>>

(* _find_stable_previous_version: the latest of the candidates.            *)
FindPrevious ==
    /\ engine.at = "search"
    /\ \/ Candidates(Model, engine.current) = {} /\ engine' = NextModel
       \/ \E v \in Latest(Candidates(Model, engine.current)) :
            engine' = [engine EXCEPT !.at = "post", !.target = v]
    /\ UNCHANGED <<registry, submitted, failures>>

Submit == submitted \cup {[model |-> Model, blamed |-> engine.version, target |-> engine.target]}

(* The service answers, whether it allows the rollback, denies it or       *)
(* cannot ask OPA (503).                                                   *)
Post ==
    /\ engine.at = "post"
    /\ submitted' = Submit
    /\ engine' = NextModel
    /\ UNCHANGED <<registry, failures>>

(* No answer: the request arrived or did not.                              *)
PostFails ==
    /\ engine.at = "post"
    /\ failures < MaxFailures
    /\ failures' = failures + 1
    /\ submitted' \in {submitted, Submit}
    /\ engine' = NextModel
    /\ UNCHANGED registry

(* MLflow does not answer: there are no metrics, or no previous version.   *)
MlflowFails ==
    /\ engine.at \in {"alias", "version", "run", "search"}
    /\ failures < MaxFailures
    /\ failures' = failures + 1
    /\ engine' = NextModel
    /\ UNCHANGED <<registry, submitted>>

-----------------------------------------------------------------------------

Stated(m) == {<<v, stage[m][v]>> : v \in DOMAIN stage[m]}

Misnumbered(m) ==
    {v \in DOMAIN metrics[m] : CurrentVersion(metrics[m][v]) \notin {0, v}}

(* After any change: who is champion, whose run is degraded, which stages  *)
(* the versions have and which runs hold the number of another version.    *)
Changed ==
    /\ changes < MaxChanges
    /\ changes' = changes + 1
    /\ served' = [m \in Models |-> served[m] \cup Champion(m)']
    /\ condemned' = [m \in Models |->
                        condemned[m] \cup {v \in DOMAIN metrics'[m] : Degraded(m, metrics'[m][v])}]
    /\ held' = [m \in Models |-> held[m] \cup Stated(m)']
    /\ mislogged' = [m \in Models |-> mislogged[m] \cup Misnumbered(m)']
    /\ UNCHANGED <<engine, submitted, failures>>

Register(m) ==
    LET v == Len(stage[m]) + 1
    IN  /\ v \in Versions
        /\ \E run \in Runs[m] : metrics' = [metrics EXCEPT ![m] = Append(@, run)]
        /\ stage' = [stage EXCEPT ![m] = Append(@, "None")]
        /\ UNCHANGED alias
        /\ Changed

(* A job logs to the run of a version.                                     *)
Log(m, v) ==
    /\ \E run \in Runs[m] : metrics' = [metrics EXCEPT ![m][v] = run]
    /\ UNCHANGED <<stage, alias>>
    /\ Changed

Transition(m, v) ==
    /\ \E s \in Stages : stage' = [stage EXCEPT ![m][v] = s]
    /\ UNCHANGED <<alias, metrics>>
    /\ Changed

(* The alias is moved, or removed: v = 0.                                  *)
SetAlias(m, v) ==
    /\ alias' = [alias EXCEPT ![m] = v]
    /\ UNCHANGED <<stage, metrics>>
    /\ Changed

-----------------------------------------------------------------------------

(* Each model has one version, in production.                              *)
EngineInit ==
    /\ stage = [m \in Models |-> <<"Production">>]
    /\ alias = [m \in Models |-> 0]
    /\ \E first \in [Models -> UNION {Runs[m] : m \in Models}] :
        /\ \A m \in Models : first[m] \in Runs[m]
        /\ metrics = [m \in Models |-> <<first[m]>>]
    /\ engine = Waiting
    /\ submitted = {}
    /\ served = [m \in Models |-> {1}]
    /\ condemned = [m \in Models |-> {v \in {1} : Degraded(m, metrics[m][v])}]
    /\ held = [m \in Models |-> Stated(m)]
    /\ mislogged = [m \in Models |-> Misnumbered(m)]
    /\ changes = 0 /\ failures = 0

Step == ReadChampion \/ ReadVersion \/ ReadMetrics \/ FindPrevious \/ Post

Environment ==
    \E m \in Models :
        \/ Register(m)
        \/ \E v \in DOMAIN stage[m] : Log(m, v) \/ Transition(m, v)
        \/ \E v \in {0} \cup DOMAIN stage[m] : SetAlias(m, v)

EngineNext == StartLoop \/ Step \/ PostFails \/ MlflowFails \/ Environment

EngineSpec == EngineInit /\ [][EngineNext]_engineVars

(* The engine is started again and again, and each request returns: all    *)
(* have a timeout.                                                         *)
FairSpec == EngineSpec /\ WF_engineVars(StartLoop) /\ WF_engineVars(Step)

-----------------------------------------------------------------------------

Requests == [model : Models, blamed : Versions, target : Versions]

EngineTypeOK ==
    /\ \A m \in Models :
        /\ stage[m] \in Seq(Stages) /\ Len(stage[m]) \in Versions
        /\ Len(metrics[m]) = Len(stage[m])
        /\ alias[m] \in 0..Len(stage[m])
        /\ served[m] \cup condemned[m] \cup mislogged[m] \subseteq DOMAIN stage[m]
        /\ held[m] \subseteq (DOMAIN stage[m]) \X Stages
    /\ engine \in [at : {"idle", "alias", "version", "run", "search", "post"}, model : DOMAIN Order,
                   version : 0..MaxVersion, current : Nat, target : 0..MaxVersion]
    /\ submitted \subseteq Requests
    /\ changes \in 0..MaxChanges /\ failures \in 0..MaxFailures

(* A rollback that is submitted blames a version of that model that has    *)
(* been its champion and whose run was degraded, and goes to a version     *)
(* that somebody gave a stage, and to one before it unless the run ever    *)
(* held the number of another version: whatever the registry, the runs and *)
(* the requests before this one did between the requests of the loop.      *)
SubmittedIsJustified ==
    \A r \in submitted :
        /\ r.blamed \in served[r.model] \cap condemned[r.model]
        /\ \E s \in Stages \ {"None"} : <<r.target, s>> \in held[r.model]
        /\ r.blamed \notin mislogged[r.model] => r.target < r.blamed

DegradedChampions(m) == {v \in Champion(m) : Degraded(m, metrics[m][v])}

Before(m) == {Order[i] : i \in {i \in DOMAIN Order : \A j \in 1..i : Order[j] # m}}

(* No model before it ends the loop.                                       *)
Reached(m) ==
    \A n \in Before(m) : \A v \in Champion(n) : ~Raises(n, metrics[n][v])

(* The loop has decided that a champion of the model is to be rolled back. *)
DecidedAgainst(m) ==
    engine.at = "search" /\ Model = m /\ engine.version \in Champion(m)

(* A champion that stays degraded is found out, though requests fail and   *)
(* other models are degraded too, provided that no run of a model before   *)
(* it in the loop holds a text.                                            *)
DegradedIsFound ==
    \A m \in Models :
        <>[](DegradedChampions(m) # {} /\ Reached(m)) => <>DecidedAgainst(m)
=============================================================================
