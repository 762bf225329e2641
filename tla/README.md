# Verification of the observable MLOps platform

This directory holds TLA+ models of the parts of the platform in which a wrong order of steps,
or a rule that does not fit another, does damage: the service that remediates a cluster, the
service that scores models and keeps a tamper-evident ledger of the scores, the pipeline that
retrains and promotes a model, the engine that rolls one back, the indexer of the runbooks, the
gates that let a model act, and the workflow that merges pull requests.  TLC model-checks them on small instances, TLAPS proves the most
important properties for every value of the constants.  Paths are relative to the root of the
repository.

    tlc -config MCSelfHealing.cfg MCSelfHealing      # any run of the table below
    tlapm SelfHealing_proofs.tla                     # any of the *_proofs modules

## 1. The system

### Parts that keep state or decide

| part | state | operations | talks to |
|---|---|---|---|
| circuit breaker, `services/self-healing/src/resilience.py` | `_failures`, `_opened_at`, no lock | `call`, `state`, `record_success`, `record_failure`; `retry_call` around them | every request thread of the service shares one object |
| self-healing, `services/self-healing/src/main.py` | idempotency cache with expiry (behind a lock), the breaker, metrics | `POST /api/v1/remediate` | OPA over HTTP; callers are n8n, Alertmanager and the rollback engine |
| policies, `aiops/policies/opa/*.rego` | none | `self_healing`, `model_promotion` | asked by self-healing and by the DAG |
| trust ledger, `services/model-trust/src/trust_engine.py` | a JSONL file of entries chained by SHA-256 | `append`, `history`, `verify`, `attestation` | the trust service; anybody who can write the volume |
| trust score, same file | none | transforms, pillars, knockout caps, advice, plan to a band | called by the service, scripts, CI |
| signal assembly, `services/model-trust/src/assemble.py` | none | one bundle of evidence flattened into signals | called by the service |
| compliance checker, `governance/eu-ai-act/compliance_check.py` | none | eight checks over tags, metrics and a model card | the DAG, the rehearsal; its verdict is evidence for the score |
| model-trust, `services/model-trust/src/main.py` | gauges and counters; the ledger | `score`, `score/from-evidence`, `metrics`, `health`, `ledger/verify`, `ledger/attestation` | MLflow tags, Prometheus, the DAG |
| retrain DAG, `mlops/pipelines/airflow/dags/pod_failure_prediction_retrain.py` | three files under `/tmp`, the MLflow registry, the retry counters of Airflow | seven tasks in a chain | Feast, MLflow, model-trust, OPA |
| drift monitor, `services/drift-monitor/src` | a cached reference frame, gauges | `check-drift`, which triggers the DAG | Airflow REST API |
| rollback engine, `platform/rollback/auto_rollback.py` | none of its own, four requests to MLflow per model | compares metrics with thresholds, posts a remediation | MLflow, self-healing |
| runbook agent, `services/runbook-agent/src/main.py` | a Qdrant collection, a gauge | `index-runbooks` in the background, `query` | Qdrant, Ollama |
| shadow evaluator, `platform/shadow-mode/shadow_evaluator.py` | counts of decisions, lists of forecasts | `add`, `promotion` | whatever runs a model in shadow mode |
| alert correlator, predictive scaler, `services/*/src` | none | pure functions of a batch or a history | their metrics feed the gates of two use cases |
| evaluation scorer, `eval/scorer.py`, `eval/metrics.py` | none | score and gate of each of the 23 use cases | CI |
| merge queue, `.github/workflows/auto-merge.yml` | the pull request as GitHub shows it; per job what it has read, its clock and its updates | `main` over the open pull requests, the polling loop `process_pr` | GitHub API, CI, Dependabot |

The remaining parts (stub services, generators, set-up of telemetry, manifests, dashboards) are
listed in `PROJECT.json` with the reason they are left out.

### What is hard

*Self-healing.*  Requests run in a thread pool.  The breaker is shared without a lock: its
clock is read between the two fields, `state` reads one of them twice, and a call that began
before the circuit opened may report success after it.  The cache is filled only after the execution.
OPA may time out at any attempt, be refused by a breaker that another request opened, or answer
without a policy.  A restart forgets cache and breaker.  Correct means: nothing runs that the
policy did not allow, a repeated request does not run twice, every request is answered.

*Ledger and trust service.*  A write may be cut short anywhere, its newline included; the file
may be edited by hand.  `score` reads the previous entry, appends, refreshes the gauges and
writes tags, all with the lock free in between, while other threads do the same.  Correct
means: an intact ledger never raises an alarm, damage is found where it is, and whatever is answered,
counted, exported or attested agrees with the file.

*Evidence.*  One fact reaches the score under several names and from several tools, some of
which may be missing or unreadable; checker, assembly and gate read the same tag with rules of
their own; transforms, means, weights, roundings, caps and a greedy planner meet in one number, which
a policy with limits of its own judges.  Correct means: worse evidence never helps, what a tool found keeps
a version out, and a plan that claims a band reaches it.

*Retraining.*  Every task may fail at any step and is retried twice.  Results travel through files
in `/tmp` that all runs share; a version is registered before any gate has seen it and is
found again as "the latest".  Correct means: the alias `challenger` names a version that passed
every gate, judged on its own metrics and its own trust score.

*Rollback.*  The engine asks for the champion, for its run, for the metrics of that run, then for the versions
before it, while jobs log metrics and operators move aliases and stages in between; what number the
champion has it looks up among the metrics.  Correct means: what is
rolled back was champion and degraded, and a degraded champion is not overlooked because of another model
or a failed request.

*Runbooks.*  Indexing runs share one collection, take ids from the clock, set a thousand aside for a file of any
length, skip a file that fails and never delete.  Correct means: what a run has read can be found, and the exported size is not
larger than the collection.

*Gates.*  Ratios over counts, a mean error against a tolerance, sums of weighted scores, a clustering that
depends on the batch.  Correct means: better evidence does not take an approval away, and a
later alert does not tear an incident apart.

*Merge queue.*  A job decides on one answer of GitHub and acts with later requests, while people push,
checks start, fail or go stale, and other jobs, which nothing keeps apart, update and merge.
Some of its requests may fail without ending it, and then it goes on with less than it should know.
Correct means: no head is merged that was not seen in order, every job ends, and what is ready is not
held up by what is not.

## 2. Modules

| module | models | composition |
|---|---|---|
| `CircuitBreaker` | `resilience.py`, the class | - |
| `SelfHealingPolicy` | `self_healing.rego` | - |
| `RemediationGate` | abstract: acts only on a live, permitted request | - |
| `SelfHealing` | `remediate()` with cache and `retry_call` | `INSTANCE CircuitBreaker`, extends the policy, implements `RemediationGate` |
| `TrustLedger` | the file, `append`, `verify`, damage | - |
| `TrustService` | the endpoints over the ledger and the tags in MLflow | `INSTANCE TrustLedger` |
| `ComplianceCheck` | the checks and their translation into evidence | - |
| `SignalAssembly` | `assemble_signals` | - |
| `TrustScore` | `compute_trust_score` with advice and plan | - |
| `ModelPromotionPolicy` | `model_promotion.rego` | - |
| `Evidence` | a version from its evidence to the answer of the policy | the four modules above |
| `Promotion` | abstract: the alias only moves forward to a version that passed | - |
| `RetrainPipeline` | the DAG, the drift trigger, the registry | extends the policy, implements `Promotion` |
| `Rollback` | the loop of the rollback engine over the registry | - |
| `RunbookIndex` | indexing runs, a question and the collection | - |
| `ShadowEvaluator`, `PredictiveScaler`, `AlertCorrelation`, `EvalScore` | the pure parts of the same names | - |
| `Gates` | each gate over the evidence that comes in for it | the four modules above |
| `MergeQueue` | the jobs of `auto-merge.yml` and the pull requests they look at | - |
| `Release_proofs` | theorems about the merge queue and the rollback engine | extends `MergeQueue` and `Rollback` |
| `Evidence_proofs` | theorems about a version's evidence and about the gates | extends `Evidence` and `Gates` |
| other `*_proofs` | theorems about the module of the same name | |
| `MC*` | values of the constants for TLC | |

### How state and steps correspond to the code

**CircuitBreaker.**  `failures`, `openedAt` are the two fields; `call[t]` is where thread `t`
is in `call()`, `seen[t]` the clock value it holds.  A step is the code between two points at which
CPython 3.11 may switch threads (the entry of a Python function, the return of a call): `ReadClosed` and
`ReadOpened` are the first test of `state`, `AdmitTrial`, `FastFail` and `StateRaises` what the
second read of `_opened_at` leads to (`StateRaises` is the `TypeError` when it has become `None`),
`Fail` the count and its test, `Open` the store of the time.  `overtaken` is a history variable: a
success was recorded between some thread's count and its store.  `Restart` is a new process.

**SelfHealing.**  `stage[t]` is the position in `remediate()`: `Receive` (known action),
`ServeCached` or `Miss` (cache, hard-coded namespaces), `EnterBreaker`, `Refused`, `OpaAnswers`,
`OpaFails`, `OpenBreaker` (one attempt through the breaker), `Retry` or `GiveUp`
(`retry_call`: only timeouts and transport errors are retried), `Deny`, `DryRun` or `Execute`,
`CacheResult`, `Respond`.  `cache` holds entries with their expiry; `Put` replaces and sweeps.  `clock[t]` is what
`time.monotonic()` told the thread for the lookup or the put, both of which read it before they take the lock.
A content key stands for the hash of action, target and trigger and does not contain `dry_run`.
`completed`, `executed` and `arrived` are history variables.

**TrustLedger.**  `file` is the sequence of lines; a line is an entry or `Torn`, which
`json.loads` rejects.  `ended` says whether the last line has its newline.  `AppendEntry` is a
complete write; `AppendCutShort` leaves a prefix of the line or all of it but the newline,
and the next append then continues that line (`Extended`).  The hash is injective.  `Tamper` is one
change with an editor: a field edited, an entry with a successor deleted, two entries exchanged.
`written` and `damaged` are history variables.

**TrustService.**  A request is of kind score, metrics, verify, health or attestation, and every call of the
ledger and of MLflow is a step of its own.  `previous` and `recorded` are the
local variables of `score()`, `checked` the result of `verify()` before the gauge is set,
`series` the labelled gauge, `flagged` the entries counted as regressions, `tags` and `bandTags` the two tags
of a version in MLflow, which `TagScore` and `TagBand` set, `attested` what `Look` found for the answer of
`/verify`, `/health` or `attestation()` and what the second read of the latter adds.  A call to MLflow that raises may
have reached it, and ends the write-back.  `mixed` is a history variable: the versions whose last write-back was overlapped
by another one, failed or was killed half-way.  A restart resets the metrics and keeps the file and the tags.

**Evidence** and its four modules.  `evidence` is what the tools report of one version: metrics, tags,
security reports, the mounted checker with its model card, flags beside the bundle and explicit
signals, each section a function on the keys it has.  `Observe` and `Lose` change one item;
`Change` scores the version again, as `score_from_evidence` does, and asks the policy for staging and
production: `outcome`.  A checker that raises (`CheckAborts`) ends its caller: there is no request and no answer.  Numbers are in parts of 10 000 or unreadable.  Each definition of
`ComplianceCheck`, `SignalAssembly`, `TrustScore` and `ModelPromotionPolicy` has the name of the function
or of the rule it stands for.  Arithmetic is exact: points in tenths, rounded as `round()` does.
A sample of twenty thousand sets of signals was compared with the Python function: scores, advice and plans
agree, except that where the exact score is a tie the binary fraction may round to the
other side (one point, 2 % of the sample), and the points that follow from that score.

**RetrainPipeline.**  `at[r]` is the step run `r` is about to take, `tries[r]` the attempts of its task,
`held[r]` what the task has read and not yet used, and three variables are the files under `/tmp`.
`train_model` is three steps (read, register, write), `compute_trust_score`
three, `opa_promotion_gate` two, `register_model` two (search, alias).  `Crash` is any exception or a
dead worker before any step; a gate that denies raises, and so is retried like a crash.  A
version is the result it was trained with.  A PSI is in units of 0.00001, because the
drift monitor compares the measured value and sends one that is rounded to 0.0001.

**Rollback.**  `engine` is where the loop is (`at`, the index of the model) and what it has read: the
version whose run it looks up, the version it takes for the current one, the target.  `ReadChampion`,
`ReadVersion`, `ReadMetrics` and `FindPrevious` are the four requests to MLflow, `Post` the one to the service;
`MlflowFails` and `PostFails` are their exceptions.  `stage`, `alias` and `metrics` are the
registry, which `Register`, `Log`, `Transition` and `SetAlias` change between any two requests.
A run may state its own number as `mlflow_version`, the number of another version, none, or one whose `str()` is not
digits, such as the double `2.0` that MLflow makes of every metric (`Text`): `CurrentVersion` is 0 for the last two.
Digits reach the engine only from a server that writes an integral number without its fraction.
Three alias names count for the engine, and `alias` is the first of them in MLflow's list.  History variables:
`served` (ever champion), `condemned` (run ever degraded), `held` (stages a version ever had) and `mislogged`
(runs that ever held the number of another version).  A run whose metric is the text `NaN` raises out of the loop.

**RunbookIndex.**  `run[r]` is a background task from `Ensure` and `Create` (the collection) over `List`
(the base of the ids is the clock modulo `Wrap`), `Read` and `Upsert` for each file to `Finish`;
`EnsureFails` ends it, `ReadFails` skips a file that cannot be read, `UpsertFails` one whose points may be stored all
the same.  A text may have more chunks than `Stride`, the ids set aside for a file.  `points` maps an
id to the chunk that was written to it last.  `query` is one question, which also creates the
collection and sets the gauge.  `undisturbed` is history: no other run was active at the
start of this one, or has started since.

**Gates.**  `gate` is the gate a behaviour follows, `basis` what it decides on, `source` what
the service behind it has seen.  `Decide` and `Realise` are one sample of the shadow evaluators, `Arrive`
one more alert in the batch of `correlate_alerts`, `Forecast` one more load of a history,
`Measure` one metric of a use case.  The distances of `AlertCorrelation` are exact: they are in seconds, where the
code has parts of the horizon of 1200 seconds, and squared.

**MergeQueue.**  `pr[p]` is a pull request as GitHub has it: its head, the worst part of its checks
(`count_checks`), whether it can be merged, what holds it up, and how long nothing has touched it.  `job[j]`
is where a job is: `view` before its next `gh pr view`, then `update`, `rebase`, `hold` or `merge` when it has
decided on that request, with the head it has read, the seconds it has waited (counted in sleeps),
`behind_updates`, whether it counted other workflows at its start (`ci`), and whether its `gh` may know and may lack
`--match-head-commit` (`pin`: the answers that are possible, which the first merge, where it first matters, reduces to one).  `Look` reads and decides by the first rule that fits, in the order of `process_pr`;
skips and sleeps are part of it.  `Update`, `Rebase`, `Hold` and `Merge` are the requests, each of which may also fail.
`Hold` is `hold_nonsecurity_major`: it stands in the condition of an `if`, where `set -e` does not count, so that a job
whose request fails goes on to merge, no longer `sure`.  With the option GitHub merges only the head the job names; without, whatever
head there is (`Matches`).  When it merges one it looks again at the others.  `Abort` is a request that fails under `set -e`, or the 30 minutes.
`Outside` is what people, GitHub and CI do, `Age` that time passes.  `clear` is history: the checks of this head were green
once, or it was without checks for `quiet_age`, or neither; `vetted` says whether the job that merged was sure,
had counted the workflows and could name the head.

A module of proofs may extend two machines; that is why the specifications of `Rollback` and `Gates` are called
`EngineSpec` and `GatesSpec`, with their parts.

## 3. Runs

| run | instance | checks |
|---|---|---|
| `breaker` | 3 threads, threshold 2, window 2, clock to 4 | `ThresholdOpens`, `OpenWasCounted`, `OpenWindowHonoured`, `CallsReturn` |
| `self_healing` | 2 threads, 6 requests of which 2 are received, 2 attempts, TTL 2, clock to 2, 3 failures | `TypeOK`, `ExecutedOnlyWhenAllowed`, `SequentialDuplicateSuppressed`, `ExecutedRepliesAreTrue`, `ImplementsGate`, `EveryRequestAnswered` |
| `self_healing_duplicate` (violation) | 3 received | `NoDoubleExecution` |
| `trust_ledger` | file of up to 5 lines, every kind of damage | `UndamagedVerifies`, `DamageLocated`, `VerifiedIsComplete` |
| `trust_service` | 2 threads, 8 requests of which 3 are received, edits and deletions, symmetry | `AcknowledgedIsRecorded`, `CountedRegressionsAreReal`, `TagsAreRecorded`, `TagsAgree`, `NoFalseIntegrityAlarm`, `AttestationCoversHead` |
| `evidence` | a version in order, 32 items with 1 to 3 readings, up to 3 changes | `WorseNeverScoresHigher`, `KnockoutsBlock`, `CompliantIsDocumented`, `OneCapPlanReaches` |
| `retrain` | 2 runs one after the other, 1 registration from outside, every crash | `TypeOK`, `TrustIsOwn`, `DriftedRunsNeverSucceed`, `ImplementsPromotion`, `RunsEnd` |
| `retrain_overlap` (violation) | the same 2 runs, overlapping | `ChallengerPassed` |
| `rollback` | 2 models, 3 versions, 3 changes, 1 failed request | `SubmittedIsJustified`, `DegradedIsFound` |
| `runbook` | 2 files, 3 texts, 2 ids for each, 2 runs, 1 question, 1 edit, 1 failure | `TypeOK`, `UndisturbedRunsComplete`, `GaugeNeverOverstates` |
| `merge_queue` | 2 pull requests (the owner's, a major update of Dependabot), a scheduled and a watching job, a `gh` that may not know the option, 2 heads, 3 events, 1 aborted job | `MergedWasClear`, `JobsEnd`, `EligibleMerged` |
| `gates` | 10 samples, 6 of 11 alerts, histories of 5 loads, all metrics of all 23 use cases | `BetterEvidenceKeepsApproval`, `HeaviestMetricBlocks`, `LaterAlertsOnlyJoin` |

The type invariants of the breaker, the trust ledger, the trust service, the rollback engine and the merge
queue are proved (`TypeCorrect`) and not run.

**Bounds.**  Three threads are what the breaker needs for its worst case: one between count and
store, one that succeeds, one that evaluates `state`.  A threshold and an attempt count of two let
the breaker open between two attempts of a request and within one; clocks run past one window, and
for the cache past one TTL.  Two requests are a first execution and its duplicate; the safety
properties of the service are proved for any number.  The values of the requests put one on each side of
every test of the handler.  The ledger needs three lines for a link with two neighbours and two more
to append behind damage and behind a line that was cut short.
Two retrain runs are the least that can leave something in `/tmp` for one another; the data
sets pass all gates, fail one, or fail validation, and the three PSI values lie below, just at
and above the threshold.  Three changes of the evidence are two broken rules and a third item that
hides or restores one; the readings put each signal inside its transform, without credit, unreadable or
under its other name.  Two models are what the rollback loop needs to lose one behind the
other, three versions a champion with one to go back to and a newer one, three changes an alias that moves
between two requests.  Chunks of 3 characters with an overlap of 1 stand for 400 and 80, a stride of 2 ids
for 1000: one text has more chunks than that, one has a blank window, one just fits.  Ten samples cross
`MinSamples` = 5 with room to lose and regain an approval; six alerts are two groups with an
outlier each; each metric of a use case is met, half met, far off, zero or a text.  For the
merge queue the quiet time is one tick and each wait is one sleep; two heads are the first and the one of an update or a push; three events
let one pull request become ready (two) while the checks of the other fail (one).  The request that counts the workflows does not
fail in this run (`CountMayFail`), and the update of Dependabot is a major one, so that it is merged only when the look for
that fails; `MergedHeadsWereClear` is proved without these restrictions.  Every bound is a constant
named `Max...` and appears only in guards.  Most modules have an explicit step `Quiet` for
clients that are done, so deadlock is checked; `MCTrustLedger.cfg` switches it off, because
a ledger with an unreadable line does stop, `MCRunbookIndex.cfg`, because its two runs and
its question end, and those of the merge queue, because all pull requests may be closed.

**Symmetry** is used over threads in `trust_service` only, which has no liveness property: no expression
distinguishes threads.

**Fairness.**  `CircuitBreaker` and `SelfHealing` assume weak fairness of the steps of a
thread that is in a call: worker threads are scheduled, and `httpx` bounds every request to OPA by 5
seconds.  `RetrainPipeline` assumes it of a queued run's start and of the steps of a task.  `Rollback`
assumes it of the loop: it is started again and again by its CronJob (the header of `auto_rollback.py`), and each
of its requests has a timeout.  `MergeQueue` assumes it of the steps of a job (the runner executes it) and of the
start of the scheduled job (`cron: "*/5 * * * *"`).  Nothing is assumed of clients, the clock, OPA, MLflow, triggers or
crashes: OPA may fail for ever and every task may crash at every attempt.

### What the runs show

The properties of the passing runs hold.  Some of them say less than one would wish, and the reason is
in the code:

* `OpenWasCounted` needs the exception `overtaken`: a success that is recorded between another thread's
  count and its store of the opening time leaves an open circuit with a count of zero.  And after the reset
  timeout every thread that evaluates `state` is let through, although the class documents one
  trial call (`resilience.py:110`).
* `SequentialDuplicateSuppressed` speaks of a request that arrives after the first one was cached, in the same process;
  for overlapping ones and for restarts see below.
* `DamageLocated` excludes the deletion of the newest entries.  The chain does not record its length, so
  the shorter file verifies, although `README.md:471` promises that a deletion makes verification
  fail at its sequence number.
* `AttestationCoversHead` is one-sided: the entries may be newer than the head hash.
* `TagsAgree` excludes versions whose last write-back was overlapped by another one, or failed or was killed between its two
  calls: their `trust_score` and `trust_band` may be of two scores until the next one, since nothing sets both at once.
* `OneCapPlanReaches` is the part of the promise of a plan that holds.  Points are added up without
  regard to the caps that stay: with estimated drop 0.20 and a spent error budget, one action is said
  to lead from 599 to GOOD (700), and with the drop gone the service itself answers 699.
* `KnockoutsBlock` excludes explicit signals: an unreadable one replaces what the scanners found and is then
  dropped by the scorer, so that the knockout is gone.
* `WorseNeverScoresHigher` compares the same set of signals: a signal that is lost is not counted
  as a bad one, and the score can rise.
* `DriftedRunsNeverSucceed` is true and hardly intended: the PSI that triggers a retrain is handed to OPA
  as the drift of the new model, and denied.  Only a PSI in (0.10, 0.10005) is rounded to a
  value OPA accepts.
* `SubmittedIsJustified` promises an earlier version only for a run that never held the number of another one: the engine
  believes what the run says (`auto_rollback.py:193`), and with a larger number it may roll "back" to the blamed version or a newer one.
* `DegradedIsFound` ends with the finding.  Whether a request follows depends on the number the run states, see below; and a
  model behind one whose run holds the text `NaN` is not reached.
* `UndisturbedRunsComplete` speaks of the texts there are ids enough for, also beside longer ones, and `GaugeNeverOverstates` of
  collections no run has finished with a longer one: such a run counts chunks that its own next file has overwritten.
* `MergedWasClear` speaks of merges of a job that counted the workflows, knows `--match-head-commit` and learnt whether the
  update is a major one.  When the count fails it is 0 (`auto-merge.yml:74`), and a pull request without checks is merged at
  once; without the option (`have_match=0`, lines 76-79 and 174-178) any head is, also one pushed after the look.  It counts a head as
  clear that was without checks for the quiet time, see below.  And it speaks of the head only: a review or a check that
  fails after the look stops the merge only if GitHub's rules do.
* `EligibleMerged` speaks of pull requests that are up to date.  One of Dependabot's that falls behind twice may
  stay: a rebase is not requested while the last comment is such a request.
* `BetterEvidenceKeepsApproval` excludes forecasts while every load was 0: their mean error counts as 0.

Two runs find a statement of the repository violated; `PROJECT.json` quotes each:

1. *Double execution* (`self_healing_duplicate`).  Two overlapping requests of one key both miss the cache and both execute
   (`services/self-healing/src/main.py:79-80`, `README.md:440`).
2. *An ungated challenger* (`retrain_overlap`).  `register_model` takes the latest version of the name.  With two runs at
   once (the DAG sets no `max_active_runs`) it is the other run's, which no gate has judged.

The models also reach states that contradict these statements.  Each follows from a definition or two, so it has no
property and no run of its own; the properties above are stated so as not to claim more:

* A caller that repeats a request within the TTL, but after a restart, has it executed again: the cache is a dict of the process
  (`services/self-healing/src/main.py:82` against 79-80; `Restart`, `Put`).
* The gauge has the band as a label and the series of an earlier band is never removed, so that `ModelTrustSubprime`, which takes
  the least, goes on firing for a version that has recovered (`observability/alerts/rules/platform.yml:141` against 139 and 148; `Publish`).
* A version a model is rolled back to need not have been in production: any present stage of Production, Staging or Archived
  will do (`platform/rollback/auto_rollback.py:133` against 118; `Candidates`).
* No job of the repository logs `mlflow_version`, so the champion is version 0, nothing is older, and a degraded model stays
  (`auto_rollback.py:193` against 3-4; `CurrentVersion`).  A job that logged it would not be enough: `str()` of the double has to be digits.
* The chunks of a file beyond the thousandth are overwritten by the next file's, in a run that ends well
  (`services/runbook-agent/src/main.py:437` against 410; `Id`).
* In a repository with CI a scheduled job merges a pull request that CI has never reported on, once nothing has touched it for 15
  minutes (`auto-merge.yml:298` against 7-8 and 41-42; `Rules`).
* When the request of `hold_nonsecurity_major` fails, where `set -e` does not count, a major update is merged
  (`auto-merge.yml:136` against 8; `Hold`).

Run `retrain` therefore assumes `Overlap = FALSE`: runs follow one another, and nobody registers
a version while one is active.  That is a precondition of the deployment, not something the
code enforces.

## 4. Proofs

Every theorem holds for all values of the constants that satisfy the named assumptions; the bounds are
arbitrary natural numbers.

**CircuitBreaker_proofs** (assumes `BreakerAssumption`).  `TypeCorrect`, `NoLostOpening`,
`OpenIsCountedOrOvertaken`, `WindowHonoured`.  The type invariant and the two state properties are
inductive; the window property is an action property that follows from the type invariant.

**SelfHealing_proofs.**  The lemma `ServiceDrivesBreaker` shows that every step of the service is one of the
breaker or leaves it alone, so that the breaker's type invariant can be reused through `INSTANCE`.
`TypeCorrect` uses it with the types of the threads and of the shared state.  `FailClosed` rests on
`AllPassed`: what a thread has established when it has come to a stage (a known action, a namespace
outside the hard-coded list, an answer that allows), which is inductive, while the set of executed requests by
itself says nothing about the thread about to add to it.  `RepliesTrue` adds that
the cache holds true reports.  `GateImplemented` is the refinement: each action maps to a step of
`RemediationGate` or to a stutter.  `DuplicatesSuppressed` rests on `AllRemembered`: for each completed
execution there is one of its key, cached no earlier, that has expired or is in the cache.

**TrustLedger_proofs** (assumes `LedgerAssumption`).  `NoFalseAlarm`, `DamageIsLocated` and
`NothingLost` follow from one inductive invariant, `Shape /\ Told`: while the file is
readable, an undamaged chain has no broken link and holds everything written, and a damaged one has its first
broken link at the damage.  It has to speak of readable files only, since a torn line may
hide anything, and to say that torn lines stay: a file that is unreadable remains so.  `TypeCorrect`
is its first part.  The lemmas at the end say what a caller may rely on: `LedgerGrows` (a file nobody
edits only grows, and an entry that is `Entered` stays so: its line was ended, or another one follows
it), `AppendEnters`, `WrittenStays` and `LoggedStep`.

**TrustService_proofs** (assumes `TrustAssumption`, from which `LedgerConstants` has the ledger's).  The lemma `ServiceUsesLedger` (each
step of the service is a step or a stutter of the ledger) gives `ServiceKeepsChain`, the ledger's
guarantee under concurrent requests.  The other seven theorems (`TypeCorrect`, `AcknowledgedEntriesStay`,
`RegressionsReal`, `TagsTrue`, `TagsOfOneScore`, `NoFalseScrape`, `HeadsCovered`) are all the invariants of the service that
TLC checks.  They follow from one `IInv`: the ledger's invariant, the requests the threads hold
(`ReqType`, `Held`), and a part for each promise that says what a thread knows *between* its calls of
the ledger, when its lock is free.  `Acknowledged`: the thread's entry is in the file for good, or the file can no longer
be read and the thread, which has yet to verify it, will find out.  `Preceded`: the entry a score is compared with was written
before its own.  `Gauges`: a verification of an unedited file that has not yet reached the gauge or the answer succeeded.  `Tagging`: what a thread
between the two calls to MLflow has set as `trust_score` is still there, unless its version is `mixed`.
`Attesting`: the number of entries an attestation has counted is one the file still has.  `Greatest`
(a set of line numbers has a greatest one, from the well-foundedness of the naturals) is what makes
`history[-1]` a line of the file.

**RetrainPipeline_proofs** (assumes `PipelineAssumption`).  `TypeCorrect` holds for any runs, whether or not they
overlap; it needs `TInv`, the types with what a task relies on (`Ready`: the file its predecessor wrote exists,
a result names a registered version).  The others assume `~Overlap` and use `IInv`: `TInv`,
`Solo` (one active run), `Recorded` (history variables speak of registered versions; the alias passed)
and `Established(r)`, what is known of the *latest* version when run `r` comes to a step: from the training on,
the result file is of it, at the gate the trust score is of it or absent, at the search OPA
and the holdout evaluation have passed it.  Without it `ImplementsPromotion` is not inductive, since `search`
takes whichever version is the latest.  `PromotionImplemented` maps `RegisterOutside` and `LogModel` to
`Register`, the gate and the holdout evaluation to `Pass`, and the alias to `Promote`; failures and retries stutter, because a
task starts again from files that are still of the latest version.  `TrustIsTheVersions` and
`DriftedRunsFail` are two more conjuncts.  The counterexample of `retrain_overlap` is the reason why
`~Overlap` cannot be dropped.

**Release_proofs** holds two components: what puts a version into service and what takes it out again.

*The rollback engine* (assumes `RollbackAssumption`).  `EngineTypeCorrect` and `RollbacksAreJustified`, for any
models, metrics and number of versions.  A request is justified by what was true when its parts were read,
which the registry may have taken back since; the history variables keep it.  `EngineInv` is the
conjunction of `Registry` (types, and each registered version has a run), `SeenRuns` (what the registry holds
now, the history has: champions, degraded runs, stages, numbers of other versions), `Loop` (what the engine has established
when it has come to a request: the version it looks up has served, from the search on it is condemned and the current
version is zero or that version, or the run once held another number; at the post the target is smaller than the current version and
had a stage), `Sent` and `EngineCounts`.  `SubmittedIsJustified` alone
says nothing of the request about to be posted.  What runs log is not restricted.

*The merge queue* (assumes `QueueAssumption`).  `TypeCorrect`, and `MergedHeadsWereClear`, for any pull requests, jobs, heads and
events, whether or not there is CI, the count may fail or the option may be missing.  `IInv` is `TInv` (types, and a job about to
update has not updated before), `Honest` (the history of
each pull request: green checks were green, a head merged by a vetted job was clear), that no vetted job has merged a major update, and
`Knows`: a job about to ask for the commits or to merge has read a head that is the present one or an older one, clear
if the job has counted the workflows and the head is still the same (`Seen`), and a job that is sure is not about to merge a
major update (`Minor`).  `MergedWasClear` alone says nothing of a job about to merge.  Each step of the world is shown once to keep what `Seen` needs (`Moved`: the head is a later one, or the
same and what its history says stays), each step of a job once to leave the others alone (`Goes`), so that
the invariant does not look at the actions again.

**RunbookIndex_proofs** (assumes `IndexAssumption`).  `TypeCorrect`, `UndisturbedComplete` and `GaugeHonest`, for any
files and texts, any number of runs, every chunk size, overlap, stride and wrap.  One `IInv` carries all
three: `TInv` (types and the order of a run), `Alone` (while a run is undisturbed no other one is active),
`Whole` (the chunks of the texts an undisturbed run is done with are among the points) and
`Counted` (a run has counted no more chunks than there are points with its ids), with the gauge.  (`Counted` speaks of runs all of whose texts had ids enough; distinct ids are what makes their number the number of points.)
`Counted` is what
`GaugeNeverOverstates` lacks to be inductive: a run adds up the chunks of its files in a local
variable and writes the gauge from it much later, while other runs overwrite points of the same ids.  The
chunks of a file are numbered by rank among its windows that are not blank, and that the ranks are
distinct, and below the stride for a text that `Fits`, is a fact about finite sets of numbers shown there.

**Evidence_proofs** (assumes `EvidenceAssumption`: what is observed is a number where a number is read, or
`Unreadable`, and a flag where a flag is read).  `WorseScoresNoHigher`, `KnockoutsHold`, `CompliantDocumented` and
`PlansReach` are all the properties of the run `evidence`, for any evidence to begin with, any
readings and any number of changes, thresholds and weights of the code included.  The inductive
invariant is `Scored`: the evidence is readable, and the answer is the one to it.  It is easily
inductive, since a change scores the version anew; the work is in the operators.

* Sums.  `SumFunction` is a fold that takes elements in an order nobody knows.  `SumExists` and `SumsAgree` find the
  function that gives the sum of every subset, by an induction over finite sets, carried out with
  sets instead of predicates (`SubsetInd`); `SumMonotone`, `SumLinear` and `SumSingle` follow.
* The score.  Each transform moves in one direction (`ContributionMonotone`), so does the mean over the same
  signals (`EarnedMonotone`), the rounding (`RoundMonotone`) and the lowest of the caps (`WorseIsCapped`: a rule
  that is broken stays broken when the evidence gets worse).
* The knockouts.  `SecuritySignal` and `MetricSignal` follow a fact from the scanners and from each of its names
  through the precedence of `assemble_signals`; `BrokenRuleCaps` gives the cap, and `NotForProduction` and
  `NowhereAllowed` set it against the limits of the policy: 699 and 599 against 700 and 600.
* The verdict.  `ErrorsPassed` says which of the checks a compliant version passed, `VerdictSignals` what the
  assembly makes of the same tags under its own names.
* The plan.  `LiftedByOne`: each cap is lifted by exactly one action of the table, and `BonusOfOne`: that action alone gets
  the points the cap holds back.  It leads every ranking, is the best of its pillar and so in every plan that is not empty
  (`CappedPlan`); what it gets is counted once, and the rest is what the actions recover (`RegainedIs`).

The same module has the gates that let a model act (assumes `GatesAssumption`: samples and bounds are numbers,
a time is one or `NoTime` or `BadTime`; and `MeasuredAssumption`: a metric is measured to be a number or a text).
`HeaviestMetricNeeded`, `BetterEvidenceApproves` and `LaterAlertsJoin` are all the properties of the run
`gates`, for any alerts, loads, measured values and bounds; the thresholds and weights are those of the code.
The inductive invariant is `GInv`: a gate decides on evidence of its kind (counts for the shadow evaluators,
a finite batch of alerts, numbers or texts for the metrics of a use case, whether a job measured them or one
of the two services computed them).

* The tables.  `UseCasesFit` goes through the entries of `UC_METRICS` and shows of each use case what the score relies on
  (`Fits`): weights are positive, a threshold is not 0 where the code divides by it, and the metrics of weight 3
  outweigh the distance from the threshold to 100.
* The score.  `ScoreMonotone`: a metric that is as good or better never gets less, in each direction and with the partial
  scores.  `SumGrows` adds up metrics of which some were missing, `HeaviestNeeded` leaves one out.
* The shadow evaluators (`RightDecisionKeepsApproval`, `GoodForecastKeepsApproval`, for any counts): all rates move the
  right way, and a forecast within the tolerance (10 %) lowers the mean error or keeps it below the one that is allowed (15 %).
  `ApprovedIsMostlyRight` says what an approval means: at most one action in ten was wrong.
* The services.  `CorrelationMeasured` and `ForecastMeasured` show that what they report can be scored.
* The clusters.  A component is what rounds of taking in neighbours reach.  `Chains` has the rounds go on until nothing is
  added, which in a finite batch comes after as many rounds as there are alerts; so two alerts
  of a component reach the same ones (`ComponentSame`), and a batch with more alerts has larger components
  (`ComponentGrows`).  `NearStays` is where the property could fail: a later alert must not move
  the others, which is true because time is scaled by a constant and counted from the earliest alert.

*Only model-checked*: liveness (`CallsReturn`, `EveryRequestAnswered`, `RunsEnd`, `DegradedIsFound`,
`JobsEnd`, `EligibleMerged`), which needs fairness and ENABLED.  Every other property of a passing run is the statement of a
theorem.  Induction is used only over sets: the library's induction theorems take a predicate as a parameter,
which the provers here cannot instantiate.

## 5. Abstractions and what is not modelled

Metrics are left out where no property reads them, as are log lines, texts and the times of the
backoff.  Self-healing runs with two replicas (`infra/kubernetes/base/self-healing/deployment.yaml:21`),
each with a cache and a breaker of its own; one is modelled, and a second only adds another way to
execute twice.  The ledger has one process (replicas 1, `Recreate`); loss of data the operating system has
acknowledged is not modelled.  Writes of the files under `/tmp` are atomic: a torn one
makes the reading task raise, which is `Crash`.  The trust service is an arbitrary answer in
`RetrainPipeline`, with `ledger_integrity_ok` true whenever there is an entry, as the DAG computes it; OPA's rule
about a broken ledger therefore never fires there.

Signals are readable numbers or are dropped; a NaN is not among them.  The targets of the score are
the default ones.  `Rollback` has the dry run switched off, lists all versions of a model (the code asks for
20) and starts no two loops at once; what the service makes of a request is `SelfHealing`.
`RunbookIndex` leaves out embeddings and the content of questions and answers, and Qdrant applies upserts in their
order.  In `AlertCorrelation` DBSCAN is what it is for `min_samples` 2, the components of a
graph, and the silhouette coefficient is an input; the endpoint in front of it answers fixed
numbers.  In `MergeQueue` an event may start its job at any time, the list of open pull requests is not
cut at 50, the request to disable auto-merge (`auto-merge.yml:241`) has no effect, Dependabot answers with a push or
not at all, and the look at the last comment and the new comment are one step.  `EvalScore` leaves out the guard `1e-9` and the rounding to one decimal of the printed score; of a
forecast the exact fraction is kept.

Not modelled: `ragas_eval.py`, `trust_score_demo.py`, `audit_readme.py` and `validate_data.py`, which call the parts
above in a fixed order and write reports; `generate_model_card`, which writes a text (and raises on every
call: a condition stands inside a format specifier); anomaly detector and cost optimizer, which are a
library call and fixed answers; the n8n workflow; telemetry set-up; data generators; manifests and dashboards.

## 6. Plan

What is left, in the order of importance:

1. What `retry_call` and the breaker promise together: how many requests reach an OPA that is down.
2. A second replica of self-healing.
