------------------------- MODULE RetrainPipeline_proofs -------------------------
(***************************************************************************)
(* Proofs about the retrain DAG for any number of runs, any data, drift    *)
(* and scores, and any crash and retry of its tasks.  The types hold for   *)
(* runs that overlap too; what the pipeline promises is proved for runs    *)
(* that follow one another.                                                *)
(***************************************************************************)
EXTENDS RetrainPipeline, TLAPS, SequenceTheorems

Data == FeastData \cup {Fallback}

(* The steps after a result was written.                                   *)
Trained == Steps \ ({"pull", "validate"} \cup Task.read)

Produced(v, n) == v \in AnyResult /\ v.of \in 1..n

(* What the task of a run relies on when it comes to a step.               *)
Ready(r) ==
    /\ at[r] \in Steps \ {"pull"} => training_data # Nothing
    /\ at[r] \in Trained => train_result # Nothing
    /\ at[r] = "log_model" => held[r] \in Data
    /\ at[r] \in {"write_result", "score", "gate"} => Produced(held[r], Len(versions))
    /\ at[r] = "alias" => held[r] \in 0..Len(versions)

Places == Steps \cup Ended \cup {"none", "queued"}

Registered ==
    /\ versions \in Seq(AnyResult \cup {Nothing})
    /\ \A i \in 1..Len(versions) : versions[i] = Nothing \/ Produced(versions[i], Len(versions))
    /\ challenger \in 0..Len(versions)

Written ==
    /\ training_data \in Data \cup {Nothing}
    /\ train_result = Nothing \/ Produced(train_result, Len(versions))

Started ==
    /\ at \in [Runs -> Places]
    /\ tries \in [Runs -> 0..Retries + 1]
    /\ conf \in [Runs -> Nat]
    /\ DOMAIN held = Runs

TInv == Started /\ Written /\ Registered /\ \A r \in Runs : Ready(r)

-----------------------------------------------------------------------------

(* What has been established of the latest version when run r comes to a   *)
(* step.                                                                   *)
Latest == Len(versions)

Judged(v) == \E j \in judged : j.of = v

Established(r) ==
    /\ at[r] = "write_result" => held[r].of = Latest /\ held[r].drift_psi = conf[r]
    /\ at[r] \in Trained => train_result.of = Latest /\ train_result.drift_psi = conf[r]
    /\ at[r] \in {"score", "gate"} => held[r] = train_result
    /\ at[r] = "write_trust" => held[r] = NoTrust \/ held[r].of = Latest
    /\ at[r] \in {"evidence", "gate"} => trust_result = NoTrust \/ trust_result.of = Latest
    /\ at[r] \in {"holdout", "search", "alias"} => Judged(Latest)
    /\ at[r] \in {"search", "alias"} => Latest \in held_out
    /\ at[r] = "alias" => held[r] = Latest
    /\ at[r] \in {"holdout", "search", "alias", "success"} => conf[r] <= RETRAIN_PSI_THRESHOLD

Solo == \A q, r \in Runs : Active(q) /\ Active(r) => q = r

(* The history variables speak of registered versions.                     *)
Recorded ==
    /\ \A j \in judged : j.of \in 1..Latest
    /\ held_out \subseteq 1..Latest
    /\ TrustIsOwn /\ ChallengerPassed

IInv == TInv /\ Solo /\ Recorded /\ \A r \in Runs : Established(r)

-----------------------------------------------------------------------------

LEMMA StepNames ==
    Steps = {"pull", "validate", "read", "log_model", "write_result", "report", "score",
             "write_trust", "evidence", "gate", "holdout", "search", "alias"}
<1>1. Tasks = {"pull", "validate", "read", "report", "evidence", "holdout", "search"}
  BY DEF Tasks, Task
<1>2. /\ Task["pull"] = {"pull"} /\ Task["validate"] = {"validate"}
      /\ Task["read"] = {"read", "log_model", "write_result"}
      /\ Task["report"] = {"report", "score", "write_trust"}
      /\ Task["evidence"] = {"evidence", "gate"} /\ Task["holdout"] = {"holdout"}
      /\ Task["search"] = {"search", "alias"}
  BY DEF Task
<1> QED
  BY <1>1, <1>2 DEF Steps

LEMMA TrainedNames ==
    Trained = {"report", "score", "write_trust", "evidence", "gate", "holdout", "search", "alias"}
BY StepNames DEF Trained, Task

(* A task starts again with its first step.                                *)
LEMMA FirstSteps ==
    ASSUME NEW s \in Tasks, NEW step \in Task[s]
    PROVE  \/ s = "pull" /\ step = "pull"
           \/ s = "validate" /\ step = "validate"
           \/ s = "read" /\ step \in {"read", "log_model", "write_result"}
           \/ s = "report" /\ step \in {"report", "score", "write_trust"}
           \/ s = "evidence" /\ step \in {"evidence", "gate"}
           \/ s = "holdout" /\ step = "holdout"
           \/ s = "search" /\ step \in {"search", "alias"}
BY DEF Tasks, Task

-----------------------------------------------------------------------------

(* Run r moves to a place and holds a value.                               *)
Moves(r, place, value) ==
    /\ at' = [at EXCEPT ![r] = place]
    /\ DOMAIN held' = Runs /\ held'[r] = value
    /\ \A q \in Runs : q # r => held'[q] = held[q]
    /\ tries' \in [Runs -> 0..Retries + 1]
    /\ conf' \in [Runs -> Nat]
    /\ at[r] # "none" => conf' = conf
    /\ \A q \in Runs : q # r => conf'[q] = conf[q]

(* One run moves; registry and files change at most by something of their  *)
(* type.                                                                   *)
LEMMA TypesFrame ==
    ASSUME TInv, NEW r \in Runs, NEW place \in Places, NEW value,
           Moves(r, place, value), Registered', Len(versions) <= Len(versions'),
           training_data' = training_data \/ training_data' \in Data,
           train_result' = train_result \/ Produced(train_result', Len(versions')),
           place \in Steps \ {"pull"} => training_data' # Nothing,
           place \in Trained => train_result' # Nothing,
           place = "log_model" => value \in Data,
           place \in {"write_result", "score", "gate"} => Produced(value, Len(versions')),
           place = "alias" => value \in 0..Len(versions')
    PROVE  TInv'
<1>1. Started'
  BY DEF TInv, Started, Moves
<1>2. Len(versions) \in Nat /\ Len(versions') \in Nat
  BY DEF TInv, Registered
<1>3. \A v : Produced(v, Len(versions)) => Produced(v, Len(versions'))
  BY <1>2 DEF Produced
<1>4. Nothing \notin Data /\ \A n : ~Produced(Nothing, n)
  BY PipelineAssumption DEF PipelineAssumption, Data, Produced
<1>5. Written'
  BY <1>3 DEF TInv, Written
<1>6. ASSUME NEW q \in Runs
      PROVE  Ready(q)'
  <2>1. CASE q = r
    BY <2>1 DEF TInv, Started, Ready, Moves
  <2>2. CASE q # r
    <3>1. at'[q] = at[q] /\ held'[q] = held[q] /\ Ready(q)
      BY <2>2 DEF TInv, Started, Moves
    <3>2. /\ training_data # Nothing => training_data' # Nothing
          /\ train_result # Nothing => train_result' # Nothing
      BY <1>4
    <3>3. held[q] \in 0..Len(versions) => held[q] \in 0..Len(versions')
      BY <1>2
    <3> QED
      BY <1>3, <3>1, <3>2, <3>3 DEF Ready
  <2> QED
    BY <2>1, <2>2
<1> QED
  BY <1>1, <1>5, <1>6 DEF TInv

(* The same for a step that leaves the registry alone.                     *)
LEMMA RegistryStays ==
    ASSUME TInv, UNCHANGED registry
    PROVE  Registered' /\ Len(versions) <= Len(versions')
<1>1. Len(versions) \in Nat
  BY DEF TInv, Registered
<1> QED
  BY <1>1 DEF TInv, Registered, registry

LEMMA GotoMoves ==
    ASSUME TInv, NEW r \in Runs, NEW step, NEW value, Goto(r, step, value)
    PROVE  Moves(r, step, value)
BY DEF TInv, Started, Goto, Moves

LEMMA FinishMoves ==
    ASSUME TInv, NEW r \in Runs, NEW step, Finish(r, step)
    PROVE  Moves(r, step, Nothing)
<1>1. 1 \in 0..Retries + 1
  BY DEF Retries
<1> QED
  BY <1>1 DEF TInv, Started, Finish, Moves

(* A failed task leaves files and registry alone, and its run goes back to *)
(* the first step of the task or has failed.                               *)
LEMMA FailureMoves ==
    ASSUME TInv, NEW r \in Runs, TaskFails(r)
    PROVE  /\ \E place \in Places :
                /\ Moves(r, place, Nothing)
                /\ place = "failed" \/ \E s \in Tasks : at[r] \in Task[s] /\ place = s
           /\ UNCHANGED <<files, registry, history>>
<1>1. /\ tries[r] \in 0..3 /\ tries \in [Runs -> 0..3] /\ Retries = 2
      /\ conf' = conf /\ conf \in [Runs -> Nat] /\ DOMAIN held = Runs
      /\ held' = [held EXCEPT ![r] = Nothing]
  BY DEF TInv, Started, TaskFails, Retries
<1>2. CASE tries[r] <= Retries
  <2>1. PICK s \in Tasks : at[r] \in Task[s] /\ at' = [at EXCEPT ![r] = s]
    BY <1>1, <1>2 DEF TaskFails
  <2>2. s \in Places
    BY <2>1, FirstSteps, StepNames DEF Places
  <2>3. tries' = [tries EXCEPT ![r] = tries[r] + 1] /\ tries[r] + 1 \in 0..3
    BY <1>1, <1>2 DEF TaskFails
  <2>4. Moves(r, s, Nothing)
    BY <1>1, <2>1, <2>3 DEF Moves
  <2> QED
    BY <2>1, <2>2, <2>4 DEF TaskFails
<1>3. CASE ~(tries[r] <= Retries)
  <2>1. at' = [at EXCEPT ![r] = "failed"] /\ tries' = tries
    BY <1>1, <1>3 DEF TaskFails
  <2>2. Moves(r, "failed", Nothing)
    BY <1>1, <2>1 DEF Moves
  <2>3. "failed" \in Places
    BY DEF Places, Ended
  <2> QED
    BY <2>2, <2>3 DEF TaskFails
<1> QED
  BY <1>2, <1>3

-----------------------------------------------------------------------------

LEMMA InitTypes == Init => TInv
<1> SUFFICES ASSUME Init PROVE TInv
  OBVIOUS
<1>1. Len(versions) = 0 /\ versions \in Seq(AnyResult \cup {Nothing})
  BY DEF Init
<1>2. Started
  BY DEF Init, Started, Places, Retries
<1>3. Written /\ Registered
  BY <1>1 DEF Init, Written, Registered
<1>4. \A r \in Runs : Ready(r)
  BY StepNames, TrainedNames DEF Init, Ready
<1> QED
  BY <1>2, <1>3, <1>4 DEF TInv

LEMMA TriggerTypes ==
    ASSUME TInv, NEW r \in Runs, NEW psi_score \in Nat, Trigger(r, psi_score)
    PROVE  TInv' /\ Moves(r, "queued", held[r]) /\ UNCHANGED <<files, registry, history>>
<1>1. Moves(r, "queued", held[r])
  BY DEF TInv, Started, Trigger, Moves
<1>2. "queued" \in Places /\ "queued" \notin Steps /\ "queued" \notin Trained
  BY StepNames, TrainedNames DEF Places
<1>3. Registered' /\ Len(versions) <= Len(versions')
  BY RegistryStays DEF Trigger
<1> QED
  BY <1>1, <1>2, <1>3, TypesFrame DEF Trigger, files

LEMMA StartTypes ==
    ASSUME TInv, NEW r \in Runs, Start(r)
    PROVE  TInv' /\ Moves(r, "pull", held[r]) /\ UNCHANGED <<files, registry, history>>
<1>1. Moves(r, "pull", held[r])
  BY DEF TInv, Started, Start, Moves, Retries
<1>2. "pull" \in Places /\ "pull" \notin Trained
  BY StepNames, TrainedNames DEF Places
<1>3. Registered' /\ Len(versions) <= Len(versions')
  BY RegistryStays DEF Start
<1> QED
  BY <1>1, <1>2, <1>3, TypesFrame DEF Start, files

(* Another version at the end of the registry.                             *)
LEMMA AppendRegisters ==
    ASSUME TInv, NEW v, v = Nothing \/ Produced(v, Len(versions) + 1),
           versions' = Append(versions, v), challenger' = challenger
    PROVE  Registered' /\ Len(versions') = Len(versions) + 1 /\ Len(versions) \in Nat
<1>1. versions \in Seq(AnyResult \cup {Nothing}) /\ Len(versions) \in Nat
  BY DEF TInv, Registered
<1>2. v \in AnyResult \cup {Nothing}
  BY DEF Produced
<1>3. /\ versions' \in Seq(AnyResult \cup {Nothing})
      /\ Len(versions') = Len(versions) + 1
      /\ \A i \in 1..Len(versions') :
            versions'[i] = IF i <= Len(versions) THEN versions[i] ELSE v
  BY <1>1, <1>2, AppendProperties
<1>4. \A w : Produced(w, Len(versions)) => Produced(w, Len(versions'))
  BY <1>1, <1>3 DEF Produced
<1> QED
  BY <1>1, <1>3, <1>4 DEF TInv, Registered

(* A failed task had started, and where it starts again it can rely on     *)
(* what it relied on before.                                               *)
LEMMA FailureTypes ==
    ASSUME TInv, NEW r \in Runs, TaskFails(r), at[r] \in Steps
    PROVE  TInv'
<1>1. PICK place \in Places :
        /\ Moves(r, place, Nothing)
        /\ place = "failed" \/ \E s \in Tasks : at[r] \in Task[s] /\ place = s
  BY FailureMoves
<1>2. UNCHANGED <<files, registry>>
  BY FailureMoves
<1>3. Registered' /\ Len(versions) <= Len(versions')
  BY <1>2, RegistryStays
<1>4. \/ place = "failed"
      \/ place \in {"pull", "validate", "read"}
         /\ (place \in Steps \ {"pull"} => at[r] \in Steps \ {"pull"})
      \/ place \in {"report", "evidence", "holdout", "search"} /\ at[r] \in Trained
  BY <1>1, FirstSteps, StepNames, TrainedNames
<1>5. /\ place \in Steps \ {"pull"} => training_data' # Nothing
      /\ place \in Trained => train_result' # Nothing
      /\ place \notin {"log_model", "write_result", "score", "gate", "alias"}
  BY <1>2, <1>4, StepNames, TrainedNames DEF TInv, Ready, files
<1> QED
  BY <1>1, <1>2, <1>3, <1>5, TypesFrame DEF files

LEMMA PullTypes ==
    ASSUME TInv, NEW r \in Runs, Pull(r)
    PROVE  TInv'
<1>1. Moves(r, "validate", Nothing)
  BY FinishMoves DEF Pull
<1>2. "validate" \in Places /\ "validate" \notin Trained
  BY StepNames, TrainedNames DEF Places
<1>3. Registered' /\ Len(versions) <= Len(versions')
  BY RegistryStays DEF Pull
<1>4. training_data' \in Data /\ training_data' # Nothing
  BY PipelineAssumption DEF PipelineAssumption, Pull, Data
<1> QED
  BY <1>1, <1>2, <1>3, <1>4, TypesFrame DEF Pull

LEMMA ValidateTypes ==
    ASSUME TInv, NEW r \in Runs, Validate(r)
    PROVE  TInv'
<1>1. at[r] = "validate" /\ at[r] \in Steps \ {"pull"} /\ training_data # Nothing
  BY StepNames DEF TInv, Ready, Validate
<1>2. CASE Valid(training_data)
  <2>1. Finish(r, "read") /\ UNCHANGED <<files, registry, history>>
    BY <1>2 DEF Validate
  <2>2. Moves(r, "read", Nothing)
    BY <2>1, FinishMoves
  <2>3. "read" \in Places /\ "read" \notin Trained
    BY StepNames, TrainedNames DEF Places
  <2>4. Registered' /\ Len(versions) <= Len(versions')
    BY <2>1, RegistryStays
  <2> QED
    BY <1>1, <2>1, <2>2, <2>3, <2>4, TypesFrame DEF files
<1>3. CASE ~Valid(training_data)
  BY <1>1, <1>3, FailureTypes DEF Validate
<1> QED
  BY <1>2, <1>3

LEMMA ReadDataTypes ==
    ASSUME TInv, NEW r \in Runs, ReadData(r)
    PROVE  TInv'
<1>1. at[r] \in Steps \ {"pull"} /\ training_data # Nothing /\ training_data \in Data
  BY StepNames DEF TInv, Ready, Written, ReadData
<1>2. Moves(r, "log_model", training_data)
  BY GotoMoves DEF ReadData
<1>3. "log_model" \in Places /\ "log_model" \notin Trained
  BY StepNames, TrainedNames DEF Places
<1>4. Registered' /\ Len(versions) <= Len(versions')
  BY RegistryStays DEF ReadData
<1> QED
  BY <1>1, <1>2, <1>3, <1>4, TypesFrame DEF ReadData, files

LEMMA ResultIsProduced ==
    ASSUME TInv, NEW r \in Runs, NEW d \in Data
    PROVE  /\ Produced(Result(r, d), Len(versions) + 1)
           /\ Result(r, d).of = Len(versions) + 1
           /\ Result(r, d).drift_psi = conf[r]
<1>1. d.rows \in Nat /\ d.accuracy \in Nat /\ d.f1 \in Nat
  BY PipelineAssumption DEF PipelineAssumption, Data
<1>2. Len(versions) \in Nat /\ conf[r] \in Nat
  BY DEF TInv, Registered, Started
<1>3. (d.rows + 4) \div 5 \in Nat
  BY <1>1
<1> QED
  BY <1>1, <1>2, <1>3 DEF Result, Produced, AnyResult

LEMMA LogModelTypes ==
    ASSUME TInv, NEW r \in Runs, LogModel(r)
    PROVE  TInv' /\ Len(versions') = Len(versions) + 1 /\ Len(versions) \in Nat
<1>1. held[r] \in Data /\ training_data # Nothing
  BY StepNames DEF TInv, Ready, LogModel
<1>2. Produced(Result(r, held[r]), Len(versions) + 1)
  BY <1>1, ResultIsProduced
<1>3. versions' = Append(versions, Result(r, held[r])) /\ challenger' = challenger
  BY DEF LogModel
<1>4. Registered' /\ Len(versions') = Len(versions) + 1 /\ Len(versions) \in Nat
  BY <1>2, <1>3, AppendRegisters
<1>5. Moves(r, "write_result", Result(r, held[r]))
  BY GotoMoves DEF LogModel
<1>6. "write_result" \in Places /\ "write_result" \notin Trained
  BY StepNames, TrainedNames DEF Places
<1>7. UNCHANGED <<training_data, train_result>>
  BY DEF LogModel, files
<1>8. Len(versions) <= Len(versions') /\ Produced(Result(r, held[r]), Len(versions'))
  BY <1>2, <1>4
<1>9. TInv'
  BY <1>1, <1>4, <1>5, <1>6, <1>7, <1>8, TypesFrame
<1> QED
  BY <1>4, <1>9

LEMMA WriteResultTypes ==
    ASSUME TInv, NEW r \in Runs, WriteResult(r)
    PROVE  TInv'
<1>1. Produced(held[r], Len(versions)) /\ training_data # Nothing
  BY StepNames DEF TInv, Ready, WriteResult
<1>2. held[r] # Nothing
  BY <1>1, PipelineAssumption DEF PipelineAssumption, Produced
<1>3. Moves(r, "report", Nothing)
  BY FinishMoves DEF WriteResult
<1>4. "report" \in Places
  BY StepNames DEF Places
<1>5. Registered' /\ Len(versions) <= Len(versions') /\ Len(versions') = Len(versions)
  BY RegistryStays DEF WriteResult, registry
<1>6. training_data' = training_data /\ train_result' = held[r]
  BY DEF WriteResult
<1> QED
  BY <1>1, <1>2, <1>3, <1>4, <1>5, <1>6, TypesFrame

(* The steps after a result was written leave it there, and the versions.  *)
LEMMA LaterTypes ==
    ASSUME TInv, NEW r \in Runs, at[r] \in Trained,
           NEW place \in Trained \cup {"success"}, NEW value, Moves(r, place, value),
           UNCHANGED <<training_data, train_result, versions>>,
           challenger' \in 0..Len(versions),
           place \in {"score", "gate"} => value = train_result,
           place = "alias" => value \in 0..Len(versions)
    PROVE  TInv'
<1>1. training_data # Nothing /\ train_result # Nothing
  BY StepNames, TrainedNames DEF TInv, Ready
<1>2. Produced(train_result, Len(versions)) /\ Len(versions) \in Nat
  BY <1>1 DEF TInv, Written, Registered
<1>3. place \in Places /\ place \notin {"log_model", "write_result"}
  BY StepNames, TrainedNames DEF Places, Ended
<1>4. Registered' /\ Len(versions) <= Len(versions')
  BY <1>2 DEF TInv, Registered
<1> QED
  BY <1>1, <1>2, <1>3, <1>4, TypesFrame

LEMMA LaterStepTypes ==
    ASSUME TInv, NEW r \in Runs,
           \/ ReadResult(r) \/ Score(r) \/ WriteTrust(r) \/ ReadEvidence(r)
           \/ Gate(r) \/ Holdout(r) \/ Search(r) \/ SetAlias(r)
    PROVE  TInv'
<1>1. /\ {"score", "write_trust", "evidence", "gate", "holdout", "search", "alias"} \subseteq Trained
      /\ at[r] \in Trained /\ at[r] \in Steps
  BY StepNames, TrainedNames
     DEF ReadResult, Score, WriteTrust, ReadEvidence, Gate, Holdout, Search, SetAlias
<1>2. /\ Len(versions) \in Nat /\ Len(versions) \in 0..Len(versions)
      /\ challenger \in 0..Len(versions)
  BY DEF TInv, Registered
<1>3. CASE ReadResult(r)
  <2>1. Moves(r, "score", train_result)
    BY <1>3, GotoMoves DEF ReadResult
  <2> QED
    BY <1>1, <1>2, <1>3, <2>1, LaterTypes DEF ReadResult, files, registry
<1>4. CASE Score(r)
  <2>1. PICK value : Goto(r, "write_trust", value)
    BY <1>4 DEF Score
  <2>2. Moves(r, "write_trust", value)
    BY <2>1, GotoMoves
  <2> QED
    BY <1>1, <1>2, <1>4, <2>2, LaterTypes DEF Score, files, registry
<1>5. CASE WriteTrust(r)
  <2>1. Moves(r, "evidence", Nothing)
    BY <1>5, FinishMoves DEF WriteTrust
  <2> QED
    BY <1>1, <1>2, <1>5, <2>1, LaterTypes DEF WriteTrust, registry
<1>6. CASE ReadEvidence(r)
  <2>1. Moves(r, "gate", train_result)
    BY <1>6, GotoMoves DEF ReadEvidence
  <2> QED
    BY <1>1, <1>2, <1>6, <2>1, LaterTypes DEF ReadEvidence, files, registry
<1>7. CASE Gate(r)
  <2>1. CASE TaskFails(r)
    BY <1>1, <2>1, FailureTypes
  <2>2. CASE ~TaskFails(r)
    <3>1. Finish(r, "holdout") /\ UNCHANGED <<files, registry>>
      BY <1>7, <2>2 DEF Gate
    <3>2. Moves(r, "holdout", Nothing)
      BY <3>1, FinishMoves
    <3> QED
      BY <1>1, <1>2, <3>1, <3>2, LaterTypes DEF files, registry
  <2> QED
    BY <2>1, <2>2
<1>8. CASE Holdout(r)
  <2>1. CASE TaskFails(r)
    BY <1>1, <2>1, FailureTypes
  <2>2. CASE ~TaskFails(r)
    <3>1. Finish(r, "search") /\ UNCHANGED <<files, registry>>
      BY <1>8, <2>2 DEF Holdout
    <3>2. Moves(r, "search", Nothing)
      BY <3>1, FinishMoves
    <3> QED
      BY <1>1, <1>2, <3>1, <3>2, LaterTypes DEF files, registry
  <2> QED
    BY <2>1, <2>2
<1>9. CASE Search(r)
  <2>1. CASE Goto(r, "alias", Len(versions))
    <3>1. Moves(r, "alias", Len(versions))
      BY <2>1, GotoMoves
    <3> QED
      BY <1>1, <1>2, <1>9, <3>1, LaterTypes DEF Search, files, registry
  <2>2. CASE Finish(r, "success")
    <3>1. Moves(r, "success", Nothing)
      BY <2>2, FinishMoves
    <3> QED
      BY <1>1, <1>2, <1>9, <3>1, TrainedNames, LaterTypes DEF Search, files, registry
  <2> QED
    BY <1>9, <2>1, <2>2 DEF Search
<1>10. CASE SetAlias(r)
  <2>1. Moves(r, "success", Nothing)
    BY <1>10, FinishMoves DEF SetAlias
  <2>2. held[r] \in 0..Len(versions)
    BY <1>10 DEF TInv, Ready, SetAlias
  <2>3. challenger' \in 0..Len(versions)
    BY <1>2, <1>10, <2>2 DEF SetAlias
  <2> QED
    BY <1>1, <1>10, <2>1, <2>3, TrainedNames, LaterTypes DEF SetAlias, files
<1> QED
  BY <1>3, <1>4, <1>5, <1>6, <1>7, <1>8, <1>9, <1>10

LEMMA OutsideTypes == ASSUME TInv, RegisterOutside PROVE TInv'
<1>1. versions' = Append(versions, Nothing) /\ challenger' = challenger
  BY DEF RegisterOutside
<1>2. Registered' /\ Len(versions') = Len(versions) + 1 /\ Len(versions) \in Nat
  BY <1>1, AppendRegisters
<1>3. UNCHANGED <<at, tries, conf, held, training_data, train_result>>
  BY DEF RegisterOutside, files
<1>4. \A v : Produced(v, Len(versions)) => Produced(v, Len(versions'))
  BY <1>2 DEF Produced
<1>5. \A r \in Runs : Ready(r)'
  <2> TAKE r \in Runs
  <2>1. Ready(r)
    BY DEF TInv
  <2>2. held[r] \in 0..Len(versions) => held[r] \in 0..Len(versions')
    BY <1>2
  <2> QED
    BY <1>3, <1>4, <2>1, <2>2 DEF Ready
<1> QED
  BY <1>2, <1>3, <1>4, <1>5 DEF TInv, Started, Written

LEMMA StepTypes == ASSUME TInv, NEW r \in Runs, Step(r) PROVE TInv'
BY PullTypes, ValidateTypes, ReadDataTypes, LogModelTypes, WriteResultTypes, LaterStepTypes
   DEF Step

LEMMA TypesKept == TInv /\ [Next]_vars => TInv'
<1> SUFFICES ASSUME TInv, [Next]_vars PROVE TInv'
  OBVIOUS
<1>1. ASSUME NEW r \in Runs, Manual(r) PROVE TInv'
  BY <1>1, TriggerTypes DEF Manual
<1>2. ASSUME NEW r \in Runs, NEW psi \in Psi, CheckDrift(r, psi) PROVE TInv'
  <2>1. Rounded(psi) \in Nat
    BY PipelineAssumption DEF PipelineAssumption, Rounded
  <2> QED
    BY <1>2, <2>1, TriggerTypes DEF CheckDrift
<1>3. ASSUME NEW r \in Runs, Start(r) \/ Step(r) \/ Crash(r) PROVE TInv'
  BY <1>3, StartTypes, StepTypes, FailureTypes DEF Crash, Active
<1>4. ASSUME UNCHANGED vars PROVE TInv'
  BY <1>4 DEF vars, files, registry, TInv, Started, Written, Registered, Ready, Produced
<1> QED
  BY <1>1, <1>2, <1>3, <1>4, OutsideTypes DEF Next, Quiet

(* The types, and that each task finds the file its predecessor wrote, for *)
(* any runs, crashes and retries, in whatever order the runs overlap.      *)
THEOREM TypeCorrect == Spec => []TypeOK
<1>1. TInv => TypeOK
  BY DEF TInv, Started, Written, Registered, Ready, TypeOK, Places, Trained, Data, Produced,
     Version, AnyResult
<1> QED
  BY <1>1, InitTypes, TypesKept, PTL DEF Spec

-----------------------------------------------------------------------------

(* What the abstract specification speaks of does not change.              *)
LEMMA PromiseStutters ==
    ASSUME Recorded, UNCHANGED <<registry, history>>
    PROVE  Recorded' /\ UNCHANGED Promise!vars
BY DEF Recorded, TrustIsOwn, ChallengerPassed, Passed, Latest, registry, history, Promise!vars

(* The run that moves was the active one, or there was none.               *)
LEMMA OthersWait ==
    ASSUME TInv, Solo, NEW r \in Runs, NEW place, NEW value, Moves(r, place, value),
           Active(r) \/ \A q \in Runs : ~Active(q)
    PROVE  Solo' /\ \A q \in Runs : q # r => ~Active(q)
<1>1. \A q \in Runs : q # r => at'[q] = at[q] /\ ~Active(q)
  BY DEF TInv, Started, Moves, Solo
<1> QED
  BY <1>1 DEF Solo, Active

(* Of a run that is not active only its drift matters.                     *)
LEMMA OthersKeep ==
    ASSUME TInv, Solo, NEW r \in Runs, NEW place, NEW value, Moves(r, place, value),
           Active(r) \/ \A q \in Runs : ~Active(q),
           \A q \in Runs : Established(q), Established(r)'
    PROVE  Solo' /\ \A q \in Runs : Established(q)'
<1>1. Solo' /\ \A q \in Runs : q # r => ~Active(q)
  BY OthersWait
<1>2. ASSUME NEW q \in Runs, q # r
      PROVE  Established(q)'
  <2>1. at'[q] = at[q] /\ conf'[q] = conf[q]
    BY <1>2 DEF TInv, Started, Moves
  <2>2. at[q] \notin Steps /\ at[q] \notin Trained
    BY <1>1, <1>2, StepNames, TrainedNames DEF Active
  <2> QED
    BY <1>2, <2>1, <2>2, StepNames DEF Established
<1> QED
  BY <1>1, <1>2

(* Everything that run r established, for a step to a place of its.        *)
LEMMA Establishes ==
    ASSUME TInv, NEW r \in Runs, NEW place, NEW value, Moves(r, place, value), at[r] # "none",
           place = "write_result" => value.of = Latest' /\ value.drift_psi = conf[r],
           place \in Trained =>
                train_result'.of = Latest' /\ train_result'.drift_psi = conf[r],
           place \in {"score", "gate"} => value = train_result',
           place = "write_trust" => value = NoTrust \/ value.of = Latest',
           place \in {"evidence", "gate"} => trust_result' = NoTrust \/ trust_result'.of = Latest',
           place \in {"holdout", "search", "alias"} => Judged(Latest)',
           place \in {"search", "alias"} => Latest' \in held_out',
           place = "alias" => value = Latest',
           place \in {"holdout", "search", "alias", "success"} => conf[r] <= RETRAIN_PSI_THRESHOLD
    PROVE  Established(r)'
<1>1. at'[r] = place /\ held'[r] = value /\ conf'[r] = conf[r]
  BY DEF TInv, Started, Moves
<1> QED
  BY <1>1 DEF Established

-----------------------------------------------------------------------------

(* What a step of run r has to keep.                                       *)
Kept(r) == Established(r)' /\ Recorded' /\ [Promise!Next]_(Promise!vars)

LEMMA StartKeeps == ASSUME IInv, NEW r \in Runs, Start(r) PROVE Kept(r)
<1>1. Moves(r, "pull", held[r]) /\ UNCHANGED <<files, registry, history>> /\ at[r] # "none"
  BY StartTypes DEF IInv, Start
<1> QED
  BY <1>1, Establishes, PromiseStutters, TrainedNames DEF IInv, Kept

(* A task that starts again finds what was established before it.          *)
LEMMA FailureKeeps ==
    ASSUME IInv, NEW r \in Runs, TaskFails(r), at[r] \in Steps
    PROVE  Kept(r)
<1>1. PICK place \in Places :
        /\ Moves(r, place, Nothing)
        /\ place = "failed" \/ \E s \in Tasks : at[r] \in Task[s] /\ place = s
  BY FailureMoves DEF IInv
<1>2. UNCHANGED <<files, registry, history>>
  BY FailureMoves DEF IInv
<1>3. \/ place \in {"failed", "pull", "validate", "read"}
      \/ place = "report" /\ at[r] \in Trained
      \/ place = "evidence" /\ at[r] \in {"evidence", "gate"} /\ at[r] \in Trained
      \/ place = "holdout" /\ at[r] = "holdout" /\ at[r] \in Trained
      \/ place = "search" /\ at[r] \in {"search", "alias"} /\ at[r] \in Trained
  BY <1>1, FirstSteps, StepNames, TrainedNames
<1>4. at[r] # "none" /\ Established(r)
  BY StepNames DEF IInv
<1>5. UNCHANGED <<train_result, trust_result, versions, judged, held_out>>
  BY <1>2 DEF files, registry, history
<1>6. /\ place \in Trained => train_result'.of = Latest' /\ train_result'.drift_psi = conf[r]
      /\ place = "evidence" => trust_result' = NoTrust \/ trust_result'.of = Latest'
      /\ place \in {"holdout", "search"} => Judged(Latest)' /\ conf[r] <= RETRAIN_PSI_THRESHOLD
      /\ place = "search" => Latest' \in held_out'
      /\ place \notin {"write_result", "score", "gate", "write_trust", "alias", "success"}
  BY <1>3, <1>4, <1>5, TrainedNames DEF Established, Latest, Judged
<1>7. Established(r)'
  BY <1>1, <1>4, <1>6, Establishes DEF IInv
<1> QED
  BY <1>2, <1>7, PromiseStutters DEF IInv, Kept

LEMMA EarlyKeep ==
    ASSUME IInv, NEW r \in Runs, Pull(r) \/ Validate(r) \/ ReadData(r)
    PROVE  Kept(r)
<1>1. at[r] # "none" /\ at[r] \in Steps
  BY StepNames DEF Pull, Validate, ReadData
<1>2. CASE TaskFails(r)
  BY <1>1, <1>2, FailureKeeps
<1>3. CASE ~TaskFails(r)
  <2>1. UNCHANGED <<registry, history>>
    BY <1>3 DEF Pull, Validate, ReadData
  <2>2. PICK place \in {"validate", "read", "log_model"} :
            \E value : Moves(r, place, value)
    BY <1>3, GotoMoves, FinishMoves DEF IInv, Pull, Validate, ReadData
  <2> QED
    BY <1>1, <2>1, <2>2, Establishes, PromiseStutters, TrainedNames DEF IInv, Kept
<1> QED
  BY <1>2, <1>3

(* The version that is registered is the latest one.                       *)
LEMMA LogModelKeeps == ASSUME IInv, NEW r \in Runs, LogModel(r) PROVE Kept(r)
<1>1. held[r] \in Data /\ at[r] # "none"
  BY DEF IInv, TInv, Ready, LogModel
<1>2. Latest' = Latest + 1 /\ Latest \in Nat
  BY LogModelTypes DEF IInv, Latest
<1>3. Result(r, held[r]).of = Latest' /\ Result(r, held[r]).drift_psi = conf[r]
  BY <1>1, <1>2, ResultIsProduced DEF IInv, Latest
<1>4. Moves(r, "write_result", Result(r, held[r]))
  BY GotoMoves DEF IInv, LogModel
<1>5. Established(r)'
  BY <1>1, <1>3, <1>4, Establishes, TrainedNames DEF IInv
<1>6. UNCHANGED <<challenger, judged, held_out>>
  BY DEF LogModel, history
<1>7. Recorded'
  BY <1>2, <1>6 DEF IInv, Recorded, TrustIsOwn, ChallengerPassed, Passed
<1>8. Promise!Register
  BY <1>2, <1>6 DEF Promise!Register, Passed, Latest
<1> QED
  BY <1>5, <1>7, <1>8 DEF Kept, Promise!Next

LEMMA HandOverKeeps ==
    ASSUME IInv, NEW r \in Runs,
           WriteResult(r) \/ ReadResult(r) \/ Score(r) \/ WriteTrust(r) \/ ReadEvidence(r)
    PROVE  Kept(r)
<1>1. /\ TInv /\ Established(r) /\ at[r] # "none"
      /\ UNCHANGED <<registry, history>> /\ UNCHANGED Latest
  BY DEF IInv, WriteResult, ReadResult, Score, WriteTrust, ReadEvidence, registry, Latest
<1>2. CASE WriteResult(r)
  <2>1. Moves(r, "report", Nothing)
    BY <1>1, <1>2, FinishMoves DEF WriteResult
  <2>2. train_result'.of = Latest' /\ train_result'.drift_psi = conf[r]
    BY <1>1, <1>2 DEF WriteResult, Established
  <2> QED
    BY <1>1, <2>1, <2>2, Establishes, PromiseStutters DEF IInv, Kept
<1>3. CASE ~WriteResult(r)
  <2>1. train_result' = train_result /\ train_result.of = Latest /\ train_result.drift_psi = conf[r]
    BY <1>1, <1>3, TrainedNames
       DEF Established, ReadResult, Score, WriteTrust, ReadEvidence, files
  <2>2. CASE ReadResult(r)
    <3>1. Moves(r, "score", train_result)
      BY <1>1, <2>2, GotoMoves DEF ReadResult
    <3> QED
      BY <1>1, <2>1, <3>1, Establishes, PromiseStutters DEF IInv, Kept
  <2>3. CASE Score(r)
    <3>1. PICK value : Goto(r, "write_trust", value) /\ (value = NoTrust \/ value.of = held[r].of)
      <4> DEFINE answer(s) == [of |-> held[r].of, score |-> s, ledger_integrity_ok |-> TRUE]
      <4>1. \A s : answer(s).of = held[r].of
        OBVIOUS
      <4>2. \/ \E s \in Scores : Goto(r, "write_trust", answer(s))
            \/ Goto(r, "write_trust", NoTrust)
        BY <2>3 DEF Score
      <4> HIDE DEF answer
      <4> QED
        BY <4>1, <4>2
    <3>2. Moves(r, "write_trust", value)
      BY <1>1, <3>1, GotoMoves
    <3>3. value = NoTrust \/ value.of = Latest'
      BY <1>1, <2>1, <2>3, <3>1 DEF Score, Established
    <3> QED
      BY <1>1, <2>1, <3>2, <3>3, Establishes, PromiseStutters DEF IInv, Kept
  <2>4. CASE WriteTrust(r)
    <3>1. Moves(r, "evidence", Nothing)
      BY <1>1, <2>4, FinishMoves DEF WriteTrust
    <3>2. trust_result' = NoTrust \/ trust_result'.of = Latest'
      BY <1>1, <2>4 DEF WriteTrust, Established
    <3> QED
      BY <1>1, <2>1, <3>1, <3>2, Establishes, PromiseStutters DEF IInv, Kept
  <2>5. CASE ReadEvidence(r)
    <3>1. Moves(r, "gate", train_result)
      BY <1>1, <2>5, GotoMoves DEF ReadEvidence
    <3>2. trust_result' = NoTrust \/ trust_result'.of = Latest'
      BY <1>1, <2>5 DEF ReadEvidence, Established, files
    <3> QED
      BY <1>1, <2>1, <3>1, <3>2, Establishes, PromiseStutters DEF IInv, Kept
  <2> QED
    BY <1>3, <2>2, <2>3, <2>4, <2>5
<1> QED
  BY <1>2, <1>3

(* What OPA allows is within its drift limit.                              *)
LEMMA AllowedDrift ==
    ASSUME NEW in, allow(in), in.drift_score \in Nat
    PROVE  in.drift_score <= MaxDriftScore
<1>1. Fired(MetricRule(in)) = {}
  BY DEF allow, Denied
<1>2. MetricRule(in)["drift"] = (in.drift_score > MaxDriftScore) /\ "drift" \in DOMAIN MetricRule(in)
  BY DEF MetricRule
<1>3. ~(in.drift_score > MaxDriftScore)
  BY <1>1, <1>2 DEF Fired
<1> QED
  BY <1>3 DEF MaxDriftScore

LEMMA GateKeeps == ASSUME IInv, NEW r \in Runs, Gate(r) PROVE Kept(r)
<1>1. TInv /\ Established(r) /\ Recorded /\ at[r] = "gate" /\ at[r] \in Steps /\ at[r] \in Trained
  BY StepNames, TrainedNames DEF IInv, Gate
<1>2. CASE TaskFails(r)
  BY <1>1, <1>2, FailureKeeps
<1>3. CASE ~TaskFails(r)
  <2>1. /\ allow(opa_input(held[r]))
        /\ judged' = judged \cup {[of |-> held[r].of, trust |-> trust_result]}
        /\ Finish(r, "holdout")
        /\ UNCHANGED <<files, registry, held_out>>
    BY <1>3 DEF Gate
  <2>2. /\ held[r] = train_result /\ held[r].of = Latest /\ held[r].drift_psi = conf[r]
        /\ trust_result = NoTrust \/ trust_result.of = Latest
    BY <1>1 DEF Established
  <2>3. Produced(held[r], Latest)
    BY <1>1 DEF TInv, Ready, Latest
  <2>4. Latest \in 1..Latest /\ Latest' = Latest /\ conf[r] \in Nat
    BY <1>1, <2>1, <2>2, <2>3 DEF Produced, registry, Latest, TInv, Started
  <2>5. conf[r] <= RETRAIN_PSI_THRESHOLD
    <3>1. opa_input(held[r]).drift_score = conf[r]
      BY <2>2 DEF opa_input
    <3>2. conf[r] <= MaxDriftScore
      BY <2>1, <2>4, <3>1, AllowedDrift
    <3> QED
      BY <3>2 DEF MaxDriftScore, RETRAIN_PSI_THRESHOLD
  <2>6. Moves(r, "holdout", Nothing)
    BY <1>1, <2>1, FinishMoves
  <2> DEFINE entry == [of |-> held[r].of, trust |-> trust_result]
  <2>7. entry.of = Latest /\ entry.trust = trust_result
    BY <2>2
  <2>8. judged' = judged \cup {entry}
    BY <2>1
  <2> HIDE DEF entry
  <2>9. Judged(Latest)'
    BY <2>4, <2>7, <2>8 DEF Judged
  <2>10. Established(r)'
    BY <1>1, <2>1, <2>2, <2>4, <2>5, <2>6, <2>9, Establishes DEF files
  <2>11. Passed' \in {Passed, Passed \cup {Latest}}
    BY <2>1, <2>7, <2>8 DEF Passed
  <2>12. UNCHANGED <<versions, challenger, held_out>>
    BY <2>1 DEF registry
  <2>13. Recorded'
    BY <1>1, <2>2, <2>4, <2>7, <2>8, <2>11, <2>12 DEF Recorded, TrustIsOwn, ChallengerPassed, Latest
  <2>14. [Promise!Next]_(Promise!vars)
    BY <2>4, <2>11, <2>12 DEF Promise!Next, Promise!Pass, Promise!vars, Latest
  <2> QED
    BY <2>10, <2>13, <2>14 DEF Kept
<1> QED
  BY <1>2, <1>3

LEMMA HoldoutKeeps == ASSUME IInv, NEW r \in Runs, Holdout(r) PROVE Kept(r)
<1>1. TInv /\ Established(r) /\ Recorded /\ at[r] = "holdout" /\ at[r] \in Steps /\ at[r] \in Trained
  BY StepNames, TrainedNames DEF IInv, Holdout
<1>2. CASE TaskFails(r)
  BY <1>1, <1>2, FailureKeeps
<1>3. CASE ~TaskFails(r)
  <2>1. /\ held_out' = held_out \cup {train_result.of}
        /\ Finish(r, "search")
        /\ UNCHANGED <<files, registry, judged>>
    BY <1>3 DEF Holdout
  <2>2. /\ train_result.of = Latest /\ train_result.drift_psi = conf[r]
        /\ Judged(Latest) /\ conf[r] <= RETRAIN_PSI_THRESHOLD
    BY <1>1 DEF Established
  <2>3. UNCHANGED <<versions, challenger, judged, train_result>> /\ Latest' = Latest
    BY <2>1 DEF registry, files, Latest
  <2>4. Latest \in 1..Latest
    BY <1>1, <2>2 DEF Judged, Recorded
  <2>5. Moves(r, "search", Nothing)
    BY <1>1, <2>1, FinishMoves
  <2>6. Judged(Latest)' /\ Latest' \in held_out'
    BY <2>1, <2>2, <2>3 DEF Judged
  <2>7. Established(r)'
    BY <1>1, <2>2, <2>3, <2>5, <2>6, Establishes
  <2>8. Passed' \in {Passed, Passed \cup {Latest}}
    BY <2>1, <2>2, <2>3 DEF Passed
  <2>9. Recorded'
    BY <1>1, <2>1, <2>2, <2>3, <2>4, <2>8 DEF Recorded, TrustIsOwn, ChallengerPassed
  <2>10. [Promise!Next]_(Promise!vars)
    BY <2>3, <2>4, <2>8 DEF Promise!Next, Promise!Pass, Promise!vars, Latest
  <2> QED
    BY <2>7, <2>9, <2>10 DEF Kept
<1> QED
  BY <1>2, <1>3

LEMMA SearchKeeps == ASSUME IInv, NEW r \in Runs, Search(r) PROVE Kept(r)
<1>1. /\ TInv /\ Established(r) /\ at[r] = "search" /\ at[r] \in Trained
      /\ UNCHANGED <<files, registry, history>>
  BY TrainedNames DEF IInv, Search
<1>2. /\ train_result'.of = Latest' /\ train_result'.drift_psi = conf[r]
      /\ Judged(Latest)' /\ Latest' \in held_out' /\ Latest' = Latest
      /\ conf[r] <= RETRAIN_PSI_THRESHOLD
  BY <1>1 DEF Established, Judged, Latest, files, registry, history
<1>3. Moves(r, "alias", Latest) \/ Moves(r, "success", Nothing)
  BY <1>1, GotoMoves, FinishMoves DEF Search, Latest
<1>4. Established(r)'
  BY <1>1, <1>2, <1>3, Establishes, TrainedNames
<1> QED
  BY <1>1, <1>4, PromiseStutters DEF IInv, Kept

(* The alias moves to the latest version, which passed, or stays.          *)
LEMMA SetAliasKeeps == ASSUME IInv, NEW r \in Runs, SetAlias(r) PROVE Kept(r)
<1>1. TInv /\ Established(r) /\ Recorded /\ at[r] = "alias"
  BY DEF IInv, SetAlias
<1>2. /\ held[r] = Latest /\ Judged(Latest) /\ Latest \in held_out
      /\ conf[r] <= RETRAIN_PSI_THRESHOLD
  BY <1>1 DEF Established
<1>3. UNCHANGED <<versions, judged, held_out>> /\ Latest' = Latest /\ Passed' = Passed
  BY DEF SetAlias, history, Latest, Passed
<1>4. Moves(r, "success", Nothing)
  BY <1>1, FinishMoves DEF SetAlias
<1>5. Established(r)'
  BY <1>1, <1>2, <1>4, Establishes, TrainedNames
<1>6. Latest \in Passed /\ Latest >= challenger
  BY <1>1, <1>2 DEF Judged, Passed, TInv, Registered, Latest
<1>7. challenger' \in {challenger, Latest}
  BY <1>2 DEF SetAlias
<1>8. Recorded'
  BY <1>1, <1>3, <1>6, <1>7 DEF Recorded, TrustIsOwn, ChallengerPassed
<1>9. [Promise!Next]_(Promise!vars)
  BY <1>3, <1>6, <1>7 DEF Promise!Next, Promise!Promote, Promise!vars, Latest
<1> QED
  BY <1>5, <1>8, <1>9 DEF Kept

LEMMA StepKeeps == ASSUME IInv, NEW r \in Runs, Step(r) PROVE Kept(r)
BY EarlyKeep, LogModelKeeps, HandOverKeeps, GateKeeps, HoldoutKeeps, SearchKeeps, SetAliasKeeps
   DEF Step

-----------------------------------------------------------------------------

LEMMA InitInv == Init => IInv /\ Promise!Init
<1> SUFFICES ASSUME Init PROVE IInv /\ Promise!Init
  OBVIOUS
<1>1. TInv
  BY InitTypes
<1>2. Len(versions) = 0 /\ Passed = {} /\ challenger = 0
  BY DEF Init, Passed
<1>3. \A r \in Runs : at[r] = "none"
  BY DEF Init
<1>4. Solo /\ \A r \in Runs : Established(r)
  BY <1>3, StepNames, TrainedNames DEF Solo, Active, Established
<1>5. Recorded
  BY DEF Init, Recorded, TrustIsOwn, ChallengerPassed
<1> QED
  BY <1>1, <1>2, <1>4, <1>5 DEF IInv, Promise!Init

(* A trigger may come at any time: its run only waits.                     *)
LEMMA TriggerKeepsInv ==
    ASSUME IInv, NEW r \in Runs, NEW psi_score \in Nat, Trigger(r, psi_score)
    PROVE  IInv' /\ UNCHANGED Promise!vars
<1>1. /\ TInv' /\ Moves(r, "queued", held[r]) /\ UNCHANGED <<files, registry, history>>
      /\ at[r] = "none"
  BY TriggerTypes DEF IInv, Trigger
<1>2. /\ at'[r] = "queued"
      /\ \A q \in Runs : q # r => at'[q] = at[q] /\ held'[q] = held[q] /\ conf'[q] = conf[q]
  BY <1>1 DEF IInv, TInv, Started, Moves
<1>3. Solo'
  BY <1>2, StepNames DEF IInv, Solo, Active
<1>4. ASSUME NEW q \in Runs
      PROVE  Established(q)'
  <2>1. CASE q = r
    BY <1>2, <2>1, TrainedNames DEF Established
  <2>2. CASE q # r
    BY <1>1, <1>2, <2>2 DEF IInv, Established, Judged, Latest, files, registry, history
  <2> QED
    BY <2>1, <2>2
<1> QED
  BY <1>1, <1>3, <1>4, PromiseStutters DEF IInv

(* A step of an active run, or the start of one while there is none.       *)
LEMMA RunKeepsInv ==
    ASSUME IInv, NEW r \in Runs, TInv', Kept(r), NEW place, NEW value, Moves(r, place, value),
           Active(r) \/ \A q \in Runs : ~Active(q)
    PROVE  IInv' /\ [Promise!Next]_(Promise!vars)
BY OthersKeep DEF IInv, Kept

LEMMA StepMoves ==
    ASSUME TInv, NEW r \in Runs, Step(r)
    PROVE  Active(r) /\ \E place, value : Moves(r, place, value)
<1>1. Active(r)
  BY StepNames DEF Active, Step, Pull, Validate, ReadData, LogModel, WriteResult, ReadResult,
     Score, WriteTrust, ReadEvidence, Gate, Holdout, Search, SetAlias
<1>2. ASSUME TaskFails(r)
      PROVE  \E place, value : Moves(r, place, value)
  BY <1>2, FailureMoves
<1>3. ASSUME ~TaskFails(r)
      PROVE  \E place, value : Moves(r, place, value)
  <2>1. \/ \E place : Finish(r, place)
        \/ \E place, value : Goto(r, place, value)
    BY <1>3 DEF Step, Pull, Validate, ReadData, LogModel, WriteResult, ReadResult,
       Score, WriteTrust, ReadEvidence, Gate, Holdout, Search, SetAlias
  <2> QED
    BY <2>1, GotoMoves, FinishMoves
<1> QED
  BY <1>1, <1>2, <1>3

(* Nobody registers a version while a run is active.                       *)
LEMMA OutsideKeepsInv ==
    ASSUME IInv, RegisterOutside, ~Overlap
    PROVE  IInv' /\ Promise!Register
<1>1. \A r \in Runs : ~Active(r)
  BY DEF RegisterOutside
<1>2. /\ versions' = Append(versions, Nothing)
      /\ UNCHANGED <<at, conf, challenger, judged, held_out>>
  BY DEF RegisterOutside, history
<1>3. Latest' = Latest + 1 /\ Latest \in Nat
  BY <1>2, AppendRegisters DEF IInv, Latest
<1>4. TInv'
  BY OutsideTypes DEF IInv
<1>5. Solo'
  BY <1>2 DEF IInv, Solo, Active
<1>6. ASSUME NEW r \in Runs
      PROVE  Established(r)'
  <2>1. at[r] \notin Steps /\ at[r] \notin Trained
    BY <1>1, <1>6, StepNames, TrainedNames DEF Active
  <2> QED
    BY <1>2, <2>1, StepNames DEF IInv, Established
<1>7. Recorded'
  BY <1>2, <1>3 DEF IInv, Recorded, TrustIsOwn, ChallengerPassed, Passed
<1>8. Promise!Register
  BY <1>2, <1>3 DEF Promise!Register, Passed, Latest
<1> QED
  BY <1>4, <1>5, <1>6, <1>7, <1>8 DEF IInv

LEMMA NextKeepsInv ==
    ASSUME ~Overlap, IInv, [Next]_vars
    PROVE  IInv' /\ [Promise!Next]_(Promise!vars)
<1>1. ASSUME NEW r \in Runs, Manual(r)
      PROVE  IInv' /\ [Promise!Next]_(Promise!vars)
  BY <1>1, TriggerKeepsInv DEF Manual
<1>2. ASSUME NEW r \in Runs, NEW psi \in Psi, CheckDrift(r, psi)
      PROVE  IInv' /\ [Promise!Next]_(Promise!vars)
  <2>1. Rounded(psi) \in Nat
    BY PipelineAssumption DEF PipelineAssumption, Rounded
  <2> QED
    BY <1>2, <2>1, TriggerKeepsInv DEF CheckDrift
<1>3. ASSUME NEW r \in Runs, Start(r)
      PROVE  IInv' /\ [Promise!Next]_(Promise!vars)
  <2>1. \A q \in Runs : ~Active(q)
    BY <1>3 DEF Start
  <2> QED
    BY <1>3, <2>1, StartTypes, StartKeeps, RunKeepsInv DEF IInv
<1>4. ASSUME NEW r \in Runs, Step(r)
      PROVE  IInv' /\ [Promise!Next]_(Promise!vars)
  <2>1. TInv' /\ Kept(r)
    BY <1>4, StepTypes, StepKeeps DEF IInv
  <2>2. Active(r) /\ \E place, value : Moves(r, place, value)
    BY <1>4, StepMoves DEF IInv
  <2> QED
    BY <2>1, <2>2, RunKeepsInv
<1>5. ASSUME NEW r \in Runs, Crash(r)
      PROVE  IInv' /\ [Promise!Next]_(Promise!vars)
  <2>1. TaskFails(r) /\ at[r] \in Steps
    BY <1>5 DEF Crash, Active
  <2>2. TInv' /\ Kept(r)
    BY <2>1, FailureTypes, FailureKeeps DEF IInv
  <2>3. \E place, value : Moves(r, place, value)
    BY <2>1, FailureMoves DEF IInv
  <2> QED
    BY <2>1, <2>2, <2>3, RunKeepsInv DEF Active
<1>6. CASE RegisterOutside
  BY <1>6, OutsideKeepsInv DEF Promise!Next
<1>7. CASE UNCHANGED vars
  <2>1. TInv'
    BY TypesKept DEF IInv
  <2>2. Solo' /\ \A r \in Runs : Established(r)'
    BY <1>7 DEF IInv, Solo, Active, Established, Judged, Latest, vars, files, registry, history
  <2> QED
    BY <1>7, <2>1, <2>2, PromiseStutters DEF IInv, vars
<1> QED
  BY <1>1, <1>2, <1>3, <1>4, <1>5, <1>6, <1>7 DEF Next, Quiet

(* Runs that follow one another keep what their tasks have established.    *)
THEOREM Invariance == ASSUME ~Overlap PROVE Spec => []IInv
BY InitInv, NextKeepsInv, PTL DEF Spec

(* The alias only ever moves forward, to a version that OPA and the        *)
(* holdout evaluation passed: the DAG implements the abstract promotion,   *)
(* whatever crashes and is retried, if its runs do not overlap.            *)
THEOREM PromotionImplemented == ASSUME ~Overlap PROVE Spec => ImplementsPromotion
BY InitInv, NextKeepsInv, Invariance, PTL DEF Spec, ImplementsPromotion, Promise!Spec

(* OPA judges a version by its own trust score or by none, never by one    *)
(* that an earlier attempt or run left in /tmp/trust_result.json.          *)
THEOREM TrustIsTheVersions == ASSUME ~Overlap PROVE Spec => []TrustIsOwn
<1>1. IInv => TrustIsOwn
  BY DEF IInv, Recorded
<1> QED
  BY <1>1, Invariance, PTL

(* A run that the drift monitor asked for fails at the gate, for the PSI   *)
(* it was asked for with, unless that is rounded down to the threshold.    *)
THEOREM DriftedRunsFail == ASSUME ~Overlap PROVE Spec => []DriftedRunsNeverSucceed
<1>1. IInv => DriftedRunsNeverSucceed
  <2> SUFFICES ASSUME IInv, NEW r \in Runs, at[r] = "success"
               PROVE  ~(conf[r] > RETRAIN_PSI_THRESHOLD)
    BY DEF DriftedRunsNeverSucceed
  <2>1. conf[r] <= RETRAIN_PSI_THRESHOLD /\ conf[r] \in Nat
    BY DEF IInv, TInv, Started, Established
  <2> QED
    BY <2>1 DEF RETRAIN_PSI_THRESHOLD
<1> QED
  BY <1>1, Invariance, PTL
=============================================================================
