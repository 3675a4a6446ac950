--------------------------- MODULE PipelineProofs ---------------------------
(***************************************************************************)
(* Theorems about Pipeline, for every set of pipelines and of scripts, any *)
(* number of runs and of gates, and a process that may die at every write. *)
(***************************************************************************)
EXTENDS Pipeline, TLAPS

-----------------------------------------------------------------------------
(***************************************************************************)
(* The inductive invariant.                                                *)
(***************************************************************************)
Outcomes == {"SUCCEEDED", "STOPPED", "FAILED"}
Going == {"STAGE", "GATE", "SUMMARIZE"}

Statuses == {"ABSENT", "WORKING", "AWAITING", "NO_CANDIDATES", "SMOKED", "SMOKE_FAILED", "INVALID",
             "FAILED", "REJECTED", "DONE"}

Records == [status : Statuses, run : Nat \cup {None}, planner : Planners \cup {None}]

Processes == [phase : Going \cup {"DOWN", "ENDED"}, pipeline : Pipelines \cup {None},
              options : Options \cup {None}, stages : Seq(Outcomes),
              gates : Seq([stage : Stages, decision : Decisions]),
              trouble : SUBSET {"STAGE", "SUMMARY"}]

Typed ==
    /\ disk \in [Pipelines -> [Stages -> Records]]
    /\ DOMAIN summary = Pipelines
    /\ proc \in Processes
    /\ runs \in Nat

\* No record is of a run to come.
Past == \A p \in Pipelines, stage \in Stages : disk[p][stage].run \in 0 .. runs \cup {None}

Record(stage) == disk[proc.pipeline][stage]

AllSucceeded == \A i \in DOMAIN proc.stages : proc.stages[i] = "SUCCEEDED"

\* A stage that succeeded has its record of this run, a finished one unless it is the
\* research that found nothing; no record of this run is of a stage still to come.
Active ==
    proc.phase # "DOWN" =>
        /\ proc.pipeline \in Pipelines /\ proc.options \in Options
        /\ Len(proc.stages) <= Evaluation
        /\ proc.phase \in {"STAGE", "GATE"} => Len(proc.stages) < Evaluation /\ AllSucceeded
        /\ proc.phase = "GATE" => Record(Len(proc.stages) + 1).run = runs
        /\ \A stage \in DOMAIN proc.stages : proc.stages[stage] = "SUCCEEDED" =>
              Record(stage).run = runs /\ (stage # Research => Record(stage).status = "DONE")
        /\ \A stage \in Stages : stage > Len(proc.stages) + 1 => Record(stage).run # runs

Sound == Typed /\ Past /\ Active /\ BuiltOnItsOwnRun /\ SucceededIsWhole

-----------------------------------------------------------------------------
(***************************************************************************)
(* What a step of a stage does, whichever stage it is.                     *)
(***************************************************************************)
\* The records before are finished ones of this run.
Founded(stage) ==
    \A before \in 1 .. stage - 1 : Record(before).run = runs /\ Record(before).status = "DONE"

Touches(stage) ==
    \/ disk' = disk
    \/ Founded(stage) /\ \E status \in Statuses : Writes(stage, status)

Stays(stage) ==
    /\ proc'.phase = "GATE"
    /\ proc'.stages = proc.stages
    /\ disk'[proc.pipeline][stage].run = runs

Ended(stage) ==
    \E outcome \in Outcomes :
        /\ proc'.phase = Route(outcome, stage)
        /\ proc'.stages = Append(proc.stages, outcome)
        /\ outcome = "SUCCEEDED" =>
            /\ disk'[proc.pipeline][stage].run = runs
            /\ stage # Research => disk'[proc.pipeline][stage].status = "DONE"

StageStep(stage) ==
    /\ proc.phase \in {"STAGE", "GATE"}
    /\ stage = Len(proc.stages) + 1
    /\ Touches(stage)
    /\ \/ proc' = NoProcess
       \/ /\ proc' \in Processes
          /\ proc'.pipeline = proc.pipeline /\ proc'.options = proc.options
          /\ Stays(stage) \/ Ended(stage)
    /\ UNCHANGED <<summary, runs>>

LEMMA NoProcessTyped == NoProcess \in Processes
  BY DEF NoProcess, Processes, Going

\* The record that is written, and those that are not.
LEMMA WritesOne ==
  ASSUME Sound, proc.phase # "DOWN", NEW stage \in Stages, NEW status \in Statuses, Writes(stage, status)
  PROVE  /\ disk' \in [Pipelines -> [Stages -> Records]]
         /\ disk'[proc.pipeline][stage].run = runs /\ disk'[proc.pipeline][stage].status = status
         /\ \A other \in Stages \ {stage} : disk'[proc.pipeline][other] = disk[proc.pipeline][other]
         /\ \A p \in Pipelines \ {proc.pipeline} : disk'[p] = disk[p]
<1> DEFINE written == [status |-> status, run |-> runs,
                       planner |-> IF stage = Adaptation THEN proc.options.planner ELSE None]
<1>1. proc.pipeline \in Pipelines /\ proc.options \in Options
  BY DEF Sound, Active
<1>2. disk' = [disk EXCEPT ![proc.pipeline][stage] = written]
  BY DEF Writes
<1>3. written \in Records
  BY <1>1 DEF Records, Options, Sound, Typed
<1> HIDE DEF written
<1>4. disk'[proc.pipeline][stage] = written
  BY <1>1, <1>2 DEF Sound, Typed
<1>5. disk' \in [Pipelines -> [Stages -> Records]]
  BY <1>1, <1>2, <1>3 DEF Sound, Typed
<1>6. /\ \A other \in Stages \ {stage} : disk'[proc.pipeline][other] = disk[proc.pipeline][other]
      /\ \A p \in Pipelines \ {proc.pipeline} : disk'[p] = disk[p]
  BY <1>1, <1>2 DEF Sound, Typed
<1> QED
  BY <1>4, <1>5, <1>6 DEF written

\* The records before the stage at hand are of this run; only that of the research may
\* be an unfinished one, and only until the repository stage has looked at it.
LEMMA StageIsFounded ==
  ASSUME Sound, proc.phase \in {"STAGE", "GATE"}, NEW stage \in Stages, stage = Len(proc.stages) + 1,
         stage # Repository \/ proc.phase = "GATE" \/ Ready(stage)
  PROVE  Founded(stage)
<1>1. proc.stages \in Seq(Outcomes) /\ AllSucceeded
  BY DEF Sound, Typed, Processes, Active
<1>2. ASSUME NEW before \in 1 .. stage - 1
      PROVE  /\ before \in DOMAIN proc.stages /\ before \in Stages
             /\ Record(before).run = runs /\ (before # Research => Record(before).status = "DONE")
  <2>1. before \in DOMAIN proc.stages
    BY <1>1, <1>2
  <2> QED
    BY <1>1, <1>2, <2>1 DEF Sound, Active, AllSucceeded, Stages, Research, Evaluation
<1>3. CASE stage = Research
  BY <1>3 DEF Founded, Research
<1>4. CASE stage = Repository /\ proc.phase = "GATE"
  BY <1>4 DEF Founded, Sound, Active, BuiltOnItsOwnRun, Record
<1>5. CASE stage = Repository /\ Ready(stage)
  BY <1>2, <1>5 DEF Founded, Ready, Status, Record, Research, Repository
<1>6. CASE stage > Repository
  <2>1. Repository \in 1 .. stage - 1 /\ Research \in 1 .. Repository - 1
    BY <1>6 DEF Stages, Repository, Research, Evaluation
  <2>2. Record(Repository).run = runs
    BY <1>2, <2>1
  <2>3. Record(Research).status = "DONE"
    BY <2>1, <2>2, <1>2 DEF Sound, BuiltOnItsOwnRun, Record
  <2> QED
    BY <1>2, <2>3 DEF Founded
<1> QED
  BY <1>3, <1>4, <1>5, <1>6 DEF Stages, Repository, Research, Evaluation

\* A stage that ends is routed on while it succeeds and stages are left.
LEMMA EndsShape ==
  ASSUME NEW state \in Processes, NEW outcome \in Outcomes
  PROVE  /\ Ends(state, outcome) \in Processes
         /\ Ends(state, outcome).phase = Route(outcome, Len(state.stages) + 1)
         /\ Ends(state, outcome).stages = Append(state.stages, outcome)
         /\ Ends(state, outcome).pipeline = state.pipeline
         /\ Ends(state, outcome).options = state.options
<1>1. state.stages \in Seq(Outcomes)
  BY DEF Processes
<1>2. Append(state.stages, outcome) \in Seq(Outcomes)
  BY <1>1
<1>3. Route(outcome, Len(state.stages) + 1) \in {"STAGE", "SUMMARIZE"}
  BY DEF Route
<1> QED
  BY <1>2, <1>3 DEF Ends, Processes, Going

LEMMA BreaksShape ==
  ASSUME NEW state \in Processes, Breaks(state), state.stages = proc.stages,
         state.pipeline = proc.pipeline, state.options = proc.options
  PROVE  /\ proc' \in Processes
         /\ proc'.pipeline = proc.pipeline /\ proc'.options = proc.options
         /\ proc'.phase = Route("FAILED", Len(proc.stages) + 1)
         /\ proc'.stages = Append(proc.stages, "FAILED")
<1> DEFINE troubled == [state EXCEPT !.trouble = state.trouble \cup {"STAGE"}]
<1>1. /\ troubled \in Processes /\ troubled.stages = proc.stages
      /\ troubled.pipeline = proc.pipeline /\ troubled.options = proc.options
  BY DEF Processes
<1>2. proc' = Ends(troubled, "FAILED")
  BY DEF Breaks
<1> HIDE DEF troubled
<1> QED
  BY <1>1, <1>2, EndsShape DEF Outcomes

LEMMA FailsTheStage ==
  ASSUME Sound, proc.phase \in {"STAGE", "GATE"}, NEW stage \in Stages, stage = Len(proc.stages) + 1,
         Breaks(proc) \/ Finishes("FAILED"), Touches(stage), UNCHANGED <<summary, runs>>
  PROVE  StageStep(stage)
<1>1. proc \in Processes
  BY DEF Sound, Typed
<1>2. /\ proc' \in Processes
      /\ proc'.pipeline = proc.pipeline /\ proc'.options = proc.options
      /\ proc'.phase = Route("FAILED", stage)
      /\ proc'.stages = Append(proc.stages, "FAILED")
  BY <1>1, BreaksShape, EndsShape DEF Finishes, Outcomes
<1> QED
  BY <1>2 DEF StageStep, Ended, Outcomes

\* A stage that writes its record and then waits, ends or dies.
LEMMA WritesAndMoves ==
  ASSUME Sound, proc.phase \in {"STAGE", "GATE"}, NEW stage \in Stages, stage = Len(proc.stages) + 1,
         Founded(stage), NEW status \in Statuses, Writes(stage, status), UNCHANGED <<summary, runs>>,
         \/ Pauses \/ Dies \/ Breaks(proc) \/ Finishes("FAILED")
         \/ Finishes("SUCCEEDED") /\ (stage # Research => status = "DONE")
  PROVE  StageStep(stage)
<1>1. Touches(stage)
  BY DEF Touches
<1>2. proc \in Processes
  BY DEF Sound, Typed
<1>3. disk'[proc.pipeline][stage].run = runs /\ disk'[proc.pipeline][stage].status = status
  BY WritesOne
<1>4. CASE Pauses
  <2>1. /\ proc' \in Processes
        /\ proc'.phase = "GATE" /\ proc'.stages = proc.stages
        /\ proc'.pipeline = proc.pipeline /\ proc'.options = proc.options
    BY <1>2, <1>4 DEF Pauses, Processes, Going
  <2> QED
    BY <1>1, <1>3, <2>1 DEF StageStep, Stays
<1>5. CASE Dies
  BY <1>1, <1>5 DEF StageStep, Dies
<1>6. CASE Breaks(proc) \/ Finishes("FAILED")
  BY <1>1, <1>6, FailsTheStage
<1>7. CASE Finishes("SUCCEEDED") /\ (stage # Research => status = "DONE")
  <2>1. /\ proc' \in Processes
        /\ proc'.pipeline = proc.pipeline /\ proc'.options = proc.options
        /\ proc'.phase = Route("SUCCEEDED", stage)
        /\ proc'.stages = Append(proc.stages, "SUCCEEDED")
    BY <1>2, <1>7, EndsShape DEF Finishes, Outcomes
  <2> QED
    BY <1>1, <1>3, <1>7, <2>1 DEF StageStep, Ended, Outcomes
<1> QED
  BY <1>4, <1>5, <1>6, <1>7

LEMMA BreaksUnwritten ==
  ASSUME Sound, proc.phase \in {"STAGE", "GATE"}, NEW stage \in Stages, stage = Len(proc.stages) + 1,
         Breaks(proc), UNCHANGED <<disk, summary, runs>>
  PROVE  StageStep(stage)
  BY FailsTheStage DEF Touches

LEMMA ResearchSteps ==
  ASSUME Sound, ResearchStage
  PROVE  StageStep(Research)
<1>1. /\ proc.phase = "STAGE" /\ Research \in Stages /\ Research = Len(proc.stages) + 1
      /\ UNCHANGED <<summary, runs>>
  BY DEF ResearchStage, Running, Stages, Research, Evaluation
<1>2. Founded(Research)
  BY <1>1, StageIsFounded DEF Research, Repository
<1>3. CASE Breaks(proc) /\ UNCHANGED disk
  BY <1>1, <1>3, BreaksUnwritten
<1>4. CASE Writes(Research, "AWAITING") /\ (Pauses \/ Dies)
  BY <1>1, <1>2, <1>4, WritesAndMoves DEF Statuses
<1>5. CASE Writes(Research, "NO_CANDIDATES") /\ (Finishes("SUCCEEDED") \/ Breaks(proc) \/ Dies)
  BY <1>1, <1>2, <1>5, WritesAndMoves DEF Statuses
<1> QED
  BY <1>3, <1>4, <1>5 DEF ResearchStage

LEMMA NotReadySteps ==
  ASSUME Sound, NEW stage \in Stages, NotReady(stage)
  PROVE  StageStep(stage)
  BY FailsTheStage DEF NotReady, Running, Touches

LEMMA RepositoryOrTrainingSteps ==
  ASSUME Sound, NEW stage \in Stages, RepositoryOrTrainingStage(stage)
  PROVE  StageStep(stage)
<1>1. /\ proc.phase = "STAGE" /\ stage = Len(proc.stages) + 1 /\ Ready(stage)
      /\ UNCHANGED <<summary, runs>>
  BY DEF RepositoryOrTrainingStage, Running
<1>2. Founded(stage)
  BY <1>1, StageIsFounded
<1>3. CASE UNCHANGED disk /\ Breaks(proc)
  BY <1>1, <1>3, BreaksUnwritten
<1>4. CASE \/ Writes(stage, "AWAITING") /\ (Pauses \/ Dies)
           \/ Writes(stage, "FAILED") /\ Breaks(proc)
           \/ Writes(stage, "WORKING") /\ Dies
  BY <1>1, <1>2, <1>4, WritesAndMoves DEF Statuses
<1> QED
  BY <1>3, <1>4 DEF RepositoryOrTrainingStage

LEMMA AdaptationSteps ==
  ASSUME Sound, AdaptationStage
  PROVE  StageStep(Adaptation)
<1>1. /\ proc.phase = "STAGE" /\ Adaptation \in Stages /\ Adaptation = Len(proc.stages) + 1
      /\ Adaptation # Repository /\ UNCHANGED <<summary, runs>>
  BY DEF AdaptationStage, Running, Stages, Research, Repository, Adaptation, Evaluation
<1>2. Founded(Adaptation)
  BY <1>1, StageIsFounded
<1>3. CASE UNCHANGED disk /\ Breaks(proc)
  BY <1>1, <1>3, BreaksUnwritten
<1>4. CASE \/ Writes(Adaptation, "AWAITING") /\ (Pauses \/ Dies)
           \/ Writes(Adaptation, "SMOKE_FAILED") /\ Finishes("FAILED")
           \/ Writes(Adaptation, "SMOKED") /\ Dies
           \/ Writes(Adaptation, "FAILED") /\ Breaks(proc)
           \/ Writes(Adaptation, "WORKING") /\ Dies
  BY <1>1, <1>2, <1>4, WritesAndMoves DEF Statuses
<1> QED
  BY <1>3, <1>4 DEF AdaptationStage

LEMMA EvaluationSteps ==
  ASSUME Sound, EvaluationStage
  PROVE  StageStep(Evaluation)
<1>1. /\ proc.phase = "STAGE" /\ Evaluation \in Stages /\ Evaluation = Len(proc.stages) + 1
      /\ Evaluation # Repository /\ UNCHANGED <<summary, runs>>
  BY DEF EvaluationStage, Running, Stages, Research, Repository, Evaluation
<1>2. Founded(Evaluation)
  BY <1>1, StageIsFounded
<1>3. CASE UNCHANGED disk /\ Breaks(proc)
  BY <1>1, <1>3, BreaksUnwritten
<1>4. CASE \/ Writes(Evaluation, "DONE") /\ (Finishes("SUCCEEDED") \/ Dies)
           \/ Writes(Evaluation, "INVALID") /\ (Breaks(proc) \/ Dies)
  BY <1>1, <1>2, <1>4, WritesAndMoves DEF Statuses
<1> QED
  BY <1>3, <1>4 DEF EvaluationStage

LEMMA NoDecisionSteps ==
  ASSUME Sound, NEW stage \in Gated, NoDecision(stage)
  PROVE  StageStep(stage)
<1>1. stage \in Stages
  BY DEF Gated, Stages, Research, Training, Evaluation
<1> QED
  BY <1>1, BreaksUnwritten DEF NoDecision, Waiting

\* A gate that is answered leaves the stage at its gate, or ends it, or the run.
LEMMA ResumeSteps ==
  ASSUME Sound, NEW stage \in Gated, NEW decision \in Decisions, Resume(stage, decision)
  PROVE  StageStep(stage)
<1> DEFINE resumed == Resumed(stage, decision)
           gate == [stage |-> stage, decision |-> decision]
           asked == [proc EXCEPT !.gates = Append(proc.gates, gate)]
<1>1. /\ stage \in Stages /\ proc.phase = "GATE" /\ stage = Len(proc.stages) + 1
      /\ UNCHANGED <<summary, runs>>
  BY DEF Resume, Waiting, Gated, Stages, Research, Training, Evaluation
<1>2. Founded(stage)
  BY <1>1, StageIsFounded
<1>3. resumed \in {"DONE", "REJECTED", "AWAITING"}
  BY DEF Resumed, Decisions, Gated, Research, Repository, Adaptation, Training
<1>4. /\ asked \in Processes /\ asked.stages = proc.stages /\ asked.phase = "GATE"
      /\ asked.pipeline = proc.pipeline /\ asked.options = proc.options
  <2>1. gate \in [stage : Stages, decision : Decisions] /\ proc \in Processes
    BY <1>1 DEF Sound, Typed
  <2>2. Append(proc.gates, gate) \in Seq([stage : Stages, decision : Decisions])
    BY <2>1 DEF Processes
  <2> QED
    BY <1>1, <2>1, <2>2 DEF Processes
<1> HIDE DEF resumed, asked
<1>5. CASE /\ Writes(stage, resumed)
           /\ \/ resumed = "DONE" /\ proc' = Ends(asked, "SUCCEEDED")
              \/ resumed = "REJECTED" /\ proc' = Ends(asked, "STOPPED")
              \/ resumed = "AWAITING" /\ proc' = asked
  <2>1. disk'[proc.pipeline][stage].run = runs /\ disk'[proc.pipeline][stage].status = resumed
    BY <1>1, <1>3, <1>5, WritesOne DEF Statuses
  <2>2. Touches(stage)
    BY <1>2, <1>3, <1>5 DEF Touches, Statuses
  <2>3. CASE resumed = "AWAITING" /\ proc' = asked
    BY <1>1, <1>4, <2>1, <2>2, <2>3 DEF StageStep, Stays
  <2>4. ASSUME NEW outcome \in Outcomes, proc' = Ends(asked, outcome),
               outcome = "SUCCEEDED" => resumed = "DONE"
        PROVE  StageStep(stage)
    BY <1>1, <1>4, <2>1, <2>2, <2>4, EndsShape DEF StageStep, Ended
  <2> QED
    BY <1>5, <2>3, <2>4 DEF Outcomes
<1>6. CASE /\ Writes(stage, resumed) \/ Writes(stage, "FAILED") \/ UNCHANGED disk
           /\ Breaks(asked)
  <2>1. Touches(stage)
    BY <1>2, <1>3, <1>6 DEF Touches, Statuses
  <2>2. /\ proc' \in Processes
        /\ proc'.pipeline = proc.pipeline /\ proc'.options = proc.options
        /\ proc'.phase = Route("FAILED", stage)
        /\ proc'.stages = Append(proc.stages, "FAILED")
    BY <1>1, <1>4, <1>6, BreaksShape
  <2> QED
    BY <1>1, <2>1, <2>2 DEF StageStep, Ended, Outcomes
<1>7. CASE (Writes(stage, resumed) \/ Writes(stage, "WORKING")) /\ Dies
  BY <1>1, <1>2, <1>3, <1>7, WritesAndMoves DEF Statuses
<1> QED
  BY <1>5, <1>6, <1>7 DEF Resume, resumed, asked

-----------------------------------------------------------------------------
(***************************************************************************)
(* The steps.                                                              *)
(***************************************************************************)
\* What a stage does to the records keeps every record of this run over finished ones.
LEMMA TouchesRecords ==
  ASSUME Sound, NEW stage \in Stages, StageStep(stage)
  PROVE  /\ disk' \in [Pipelines -> [Stages -> Records]]
         /\ Past'
         /\ \A other \in Stages \ {stage} : disk'[proc.pipeline][other] = Record(other)
         /\ \A other \in Stages : disk'[proc.pipeline][other].run = runs =>
               \A before \in 1 .. other - 1 :
                   disk'[proc.pipeline][before].run = runs /\ disk'[proc.pipeline][before].status = "DONE"
<1>1. /\ proc.phase # "DOWN" /\ stage = Len(proc.stages) + 1 /\ runs' = runs
      /\ proc.pipeline \in Pipelines
  BY DEF StageStep, Sound, Active
<1>2. CASE disk' = disk
  BY <1>1, <1>2 DEF Sound, Typed, Past, BuiltOnItsOwnRun, Record
<1>3. ASSUME Founded(stage), NEW status \in Statuses, Writes(stage, status)
      PROVE  /\ disk' \in [Pipelines -> [Stages -> Records]]
             /\ Past'
             /\ \A other \in Stages \ {stage} : disk'[proc.pipeline][other] = Record(other)
             /\ \A other \in Stages : disk'[proc.pipeline][other].run = runs =>
                   \A before \in 1 .. other - 1 :
                       /\ disk'[proc.pipeline][before].run = runs
                       /\ disk'[proc.pipeline][before].status = "DONE"
  <2>1. /\ disk' \in [Pipelines -> [Stages -> Records]]
        /\ disk'[proc.pipeline][stage].run = runs
        /\ \A other \in Stages \ {stage} : disk'[proc.pipeline][other] = Record(other)
        /\ \A p \in Pipelines \ {proc.pipeline} : disk'[p] = disk[p]
    BY <1>1, <1>3, WritesOne DEF Record
  <2>2. Past'
    BY <1>1, <2>1 DEF Past, Sound, Typed, Record
  <2>3. ASSUME NEW other \in Stages, disk'[proc.pipeline][other].run = runs,
               NEW before \in 1 .. other - 1
        PROVE  /\ disk'[proc.pipeline][before].run = runs
               /\ disk'[proc.pipeline][before].status = "DONE"
    <3>1. other <= stage
      BY <1>1, <2>1, <2>3 DEF Sound, Active, Record, Stages, Research, Evaluation
    <3>2. before \in Stages \ {stage}
      BY <3>1, <2>3 DEF Stages, Research, Evaluation
    <3>3. Record(before).run = runs /\ Record(before).status = "DONE"
      BY <1>1, <1>3, <2>1, <2>3, <3>1 DEF Founded, Sound, BuiltOnItsOwnRun, Record
    <3> QED
      BY <2>1, <3>2, <3>3
  <2> QED
    BY <2>1, <2>2, <2>3
<1> QED
  BY <1>2, <1>3 DEF StageStep, Touches

LEMMA StageStepSound ==
  ASSUME Sound, NEW stage \in Stages, StageStep(stage)
  PROVE  Sound'
<1>1. /\ proc.phase \in {"STAGE", "GATE"} /\ stage = Len(proc.stages) + 1
      /\ runs' = runs /\ summary' = summary
  BY DEF StageStep
<1>2. /\ disk' \in [Pipelines -> [Stages -> Records]] /\ Past'
      /\ \A other \in Stages \ {stage} : disk'[proc.pipeline][other] = Record(other)
  BY TouchesRecords
<1>3. SucceededIsWhole'
  BY <1>1 DEF Sound, SucceededIsWhole
<1>4. CASE proc' = NoProcess
  <2>1. Typed' /\ Active' /\ BuiltOnItsOwnRun'
    BY <1>1, <1>2, <1>4, NoProcessTyped DEF Sound, Typed, Active, BuiltOnItsOwnRun, NoProcess
  <2> QED
    BY <1>2, <1>3, <2>1 DEF Sound
<1>5. CASE /\ proc' \in Processes
           /\ proc'.pipeline = proc.pipeline /\ proc'.options = proc.options
           /\ Stays(stage) \/ Ended(stage)
  <2>1. Typed'
    BY <1>1, <1>2, <1>5 DEF Sound, Typed
  <2>2. BuiltOnItsOwnRun'
    BY <1>1, <1>5, TouchesRecords DEF BuiltOnItsOwnRun
  <2>3. /\ proc.pipeline \in Pipelines /\ proc.options \in Options
        /\ Len(proc.stages) < Evaluation /\ AllSucceeded
        /\ \A i \in DOMAIN proc.stages :
              Record(i).run = runs /\ (i # Research => Record(i).status = "DONE")
        /\ \A other \in Stages : other > stage => Record(other).run # runs
        /\ proc.stages \in Seq(Outcomes)
    BY <1>1 DEF Sound, Active, AllSucceeded, Typed, Processes
  <2>4. CASE Stays(stage)
    <3>1. proc'.stages = proc.stages /\ proc'.phase = "GATE" /\ Record(stage)'.run = runs
      BY <1>5, <2>4 DEF Stays, Record
    <3>2. \A i \in DOMAIN proc.stages : i \in Stages \ {stage}
      BY <1>1, <2>3 DEF Stages, Research, Evaluation
    <3>3. \A other \in Stages \ {stage} : Record(other)' = Record(other)
      BY <1>2, <1>5 DEF Record
    <3> QED
      BY <1>1, <1>2, <1>3, <1>5, <2>1, <2>2, <2>3, <3>1, <3>2, <3>3 DEF Sound, Active, AllSucceeded
  <2>5. CASE Ended(stage)
    <3>1. PICK outcome \in Outcomes :
            /\ proc'.phase = Route(outcome, stage)
            /\ proc'.stages = Append(proc.stages, outcome)
            /\ outcome = "SUCCEEDED" =>
                  Record(stage)'.run = runs /\ (stage # Research => Record(stage)'.status = "DONE")
      BY <1>5, <2>5 DEF Ended, Record
    <3>2. /\ DOMAIN proc'.stages = 1 .. stage /\ Len(proc'.stages) = stage
          /\ proc'.stages[stage] = outcome
          /\ \A i \in 1 .. stage - 1 : proc'.stages[i] = proc.stages[i] /\ i \in DOMAIN proc.stages
      BY <1>1, <2>3, <3>1
    <3>3. \A other \in Stages \ {stage} : Record(other)' = Record(other)
      BY <1>2, <1>5 DEF Record
    <3>4. proc'.phase # "GATE" /\ stage <= Evaluation
          /\ (proc'.phase = "STAGE" => outcome = "SUCCEEDED" /\ stage < Evaluation)
      BY <1>1, <2>3, <3>1 DEF Route, Stages, Research, Evaluation
    <3>5. AllSucceeded' \/ outcome # "SUCCEEDED"
      BY <2>3, <3>2 DEF AllSucceeded
    <3>6. ASSUME NEW i \in DOMAIN proc'.stages, proc'.stages[i] = "SUCCEEDED"
          PROVE  Record(i)'.run = runs /\ (i # Research => Record(i)'.status = "DONE")
      <4>1. CASE i = stage
        BY <3>1, <3>2, <3>6, <4>1
      <4>2. CASE i # stage
        <5>1. i \in 1 .. stage - 1 /\ i \in Stages \ {stage}
          BY <1>1, <2>3, <3>2, <3>4, <4>2 DEF Stages, Research, Evaluation
        <5> QED
          BY <2>3, <3>2, <3>3, <5>1
      <4> QED
        BY <4>1, <4>2
    <3>7. \A other \in Stages : other > stage + 1 => Record(other)'.run # runs
      BY <1>1, <2>3, <3>3 DEF Stages, Research, Evaluation
    <3>8. Active'
      BY <1>1, <1>5, <2>3, <3>2, <3>4, <3>5, <3>6, <3>7 DEF Active
    <3> QED
      BY <1>2, <1>3, <2>1, <2>2, <3>8 DEF Sound
  <2> QED
    BY <1>5, <2>4, <2>5
<1> QED
  BY <1>4, <1>5 DEF StageStep

\* A run that begins finds no record of its own.
LEMMA RunSound ==
  ASSUME Sound, NEW p \in Pipelines, NEW options \in Options, Run(p, options)
  PROVE  Sound'
<1> DEFINE begun == [NoProcess EXCEPT !.phase = "STAGE", !.pipeline = p, !.options = options]
<1>1. proc' = begun /\ runs' = runs + 1 /\ disk' = disk /\ summary' = summary
  BY DEF Run
<1>2. /\ begun \in Processes /\ begun.stages = <<>> /\ begun.phase = "STAGE"
      /\ begun.pipeline = p /\ begun.options = options
  BY NoProcessTyped DEF NoProcess, Processes, Going
<1> HIDE DEF begun
<1>3. Typed'
  BY <1>1, <1>2 DEF Sound, Typed
<1>4. \A q \in Pipelines, stage \in Stages :
         disk[q][stage].run \in 0 .. runs \cup {None} /\ disk[q][stage].run # runs + 1
  BY PipelineAssumption DEF Sound, Past, Typed
<1>5. Past'
  BY <1>1, <1>4 DEF Past, Sound, Typed
<1>6. Active'
  BY <1>1, <1>2, <1>4 DEF Active, AllSucceeded, Record, Evaluation
<1>7. BuiltOnItsOwnRun'
  BY <1>1, <1>2, <1>4 DEF BuiltOnItsOwnRun
<1>8. SucceededIsWhole'
  BY <1>1 DEF Sound, SucceededIsWhole
<1> QED
  BY <1>3, <1>5, <1>6, <1>7, <1>8 DEF Sound

LEMMA CrashSound ==
  ASSUME Sound, Crash
  PROVE  Sound'
  BY NoProcessTyped DEF Crash, Dies, Sound, Typed, Past, Active, BuiltOnItsOwnRun, SucceededIsWhole, NoProcess

\* The summary that says SUCCEEDED is made of the five records of this run.
LEMMA BuiltIsWhole ==
  ASSUME Sound, proc.phase = "SUMMARIZE", Consistent(Built), Built.status = "SUCCEEDED"
  PROVE  /\ \A stage \in Stages : Built.evidence[stage] = Built.run
         /\ Gated \subseteq Built.approved
<1>1. /\ \A stage \in Stages : Built.evidence[stage] # None
      /\ Gated \subseteq Built.approved
      /\ proc.stages = [stage \in Stages |-> "SUCCEEDED"]
  BY DEF Consistent
<1>2. ASSUME NEW stage \in Stages
      PROVE  Built.evidence[stage] = runs
  <2>1. Record(stage).run = runs
    BY <1>1 DEF Sound, Active
  <2>2. Built.evidence[stage] = Record(stage).run
    BY <1>1 DEF Built, Record
  <2> QED
    BY <2>1, <2>2
<1>3. Built.run = runs
  BY DEF Built
<1> QED
  BY <1>1, <1>2, <1>3

\* With its summary a run is over.
LEMMA SummarizeEnds ==
  ASSUME Sound, Summarize
  PROVE  \/ proc' = NoProcess
         \/ /\ proc' \in Processes /\ proc'.phase = "ENDED" /\ proc'.stages = proc.stages
            /\ proc'.pipeline = proc.pipeline /\ proc'.options = proc.options
<1>1. proc \in Processes
  BY DEF Sound, Typed
<1> QED
  BY <1>1 DEF Summarize, Leaves, Dies, Processes

LEMMA SummarizeSound ==
  ASSUME Sound, Summarize
  PROVE  Sound'
<1>1. /\ proc.phase = "SUMMARIZE" /\ proc.pipeline \in Pipelines
      /\ UNCHANGED <<watermark, disk, runs>>
  BY DEF Summarize, Sound, Active
<1>2. \/ proc' = NoProcess
      \/ /\ proc' \in Processes /\ proc'.phase = "ENDED" /\ proc'.stages = proc.stages
         /\ proc'.pipeline = proc.pipeline /\ proc'.options = proc.options
  BY SummarizeEnds
<1>3. DOMAIN summary' = Pipelines
  BY DEF Summarize, Sound, Typed
<1>4. Typed' /\ Past' /\ Active' /\ BuiltOnItsOwnRun'
  <2>1. Typed'
    BY <1>1, <1>2, <1>3, NoProcessTyped DEF Sound, Typed
  <2>2. Past'
    BY <1>1 DEF Sound, Past
  <2>3. CASE proc' = NoProcess
    BY <2>1, <2>2, <2>3 DEF Active, BuiltOnItsOwnRun, NoProcess
  <2>4. CASE proc' # NoProcess
    <3>1. Active'
      BY <1>1, <1>2, <2>4 DEF Sound, Active, Record
    <3>2. BuiltOnItsOwnRun'
      BY <1>1, <1>2, <2>4 DEF Sound, BuiltOnItsOwnRun
    <3> QED
      BY <2>1, <2>2, <3>1, <3>2
  <2> QED
    BY <2>3, <2>4
<1>5. SucceededIsWhole'
  <2>1. CASE UNCHANGED summary
    BY <2>1 DEF Sound, SucceededIsWhole
  <2>2. CASE Consistent(Built) /\ summary' = [summary EXCEPT ![proc.pipeline] = Built]
    <3>1. summary'[proc.pipeline] = Built
      BY <1>1, <2>2 DEF Sound, Typed
    <3>2. \A p \in Pipelines \ {proc.pipeline} : summary'[p] = summary[p]
      BY <2>2 DEF Sound, Typed
    <3> QED
      BY <1>1, <2>2, <3>1, <3>2, BuiltIsWhole DEF Sound, SucceededIsWhole
  <2> QED
    BY <2>1, <2>2 DEF Summarize
<1> QED
  BY <1>4, <1>5 DEF Sound

\* Every step of the graph and of its gates is a step of a stage or the summary.
LEMMA NextSteps ==
  ASSUME Sound, Next
  PROVE  \/ Crash \/ Summarize
         \/ \E stage \in Stages : StageStep(stage)
         \/ \E p \in Pipelines, options \in Options : Run(p, options)
<1>1. ResearchStage \/ AdaptationStage \/ EvaluationStage => \E stage \in Stages : StageStep(stage)
  BY ResearchSteps, AdaptationSteps, EvaluationSteps DEF Stages, Research, Adaptation, Evaluation
<1>2. ASSUME NEW stage \in Stages, NotReady(stage) \/ RepositoryOrTrainingStage(stage)
      PROVE  StageStep(stage)
  BY <1>2, NotReadySteps, RepositoryOrTrainingSteps
<1>3. ASSUME NEW stage \in Gated,
             NoDecision(stage) \/ \E decision \in Decisions : Resume(stage, decision)
      PROVE  stage \in Stages /\ StageStep(stage)
  BY <1>3, NoDecisionSteps, ResumeSteps DEF Gated, Stages, Research, Training, Evaluation
<1> QED
  BY <1>1, <1>2, <1>3 DEF Next, Work, Human

LEMMA SoundInit == Init => Sound
<1> SUFFICES ASSUME Init PROVE Sound
  OBVIOUS
<1>1. NoRecord \in Records /\ NoRecord.run = None
  BY DEF NoRecord, Records, Statuses
<1>2. Typed /\ Past /\ Active /\ BuiltOnItsOwnRun /\ SucceededIsWhole
  BY <1>1, NoProcessTyped
     DEF Init, Typed, Past, Active, BuiltOnItsOwnRun, SucceededIsWhole, NoProcess, NoSummary
<1> QED
  BY <1>2 DEF Sound

LEMMA SoundStep == Sound /\ [Next]_vars => Sound'
<1> SUFFICES ASSUME Sound, [Next]_vars PROVE Sound'
  OBVIOUS
<1>1. CASE Next
  BY <1>1, NextSteps, StageStepSound, RunSound, CrashSound, SummarizeSound
<1>2. CASE UNCHANGED vars
  BY <1>2 DEF vars, Sound, Typed, Past, Active, AllSucceeded, Record, BuiltOnItsOwnRun, SucceededIsWhole
<1> QED
  BY <1>1, <1>2

-----------------------------------------------------------------------------
(***************************************************************************)
(* The theorems.                                                           *)
(***************************************************************************)
LEMMA AlwaysSound == Spec => []Sound
  BY SoundInit, SoundStep, PTL DEF Spec

\* A stage writes its record only over finished records of the same run, whatever
\* records, and whatever watermark, the runs before have left.
THEOREM BuiltFresh == Spec => []BuiltOnItsOwnRun
  BY AlwaysSound, PTL DEF Sound

\* A summary that says SUCCEEDED is of one run: its five artifacts and its four approvals.
THEOREM SuccessWhole == Spec => []SucceededIsWhole
  BY AlwaysSound, PTL DEF Sound

\* The graph, its gates, its deaths and its reruns are the serial chain of Chain.
THEOREM PipelineIsChain == Spec => IsChain
<1>1. Init => Serial!ChainInit
  BY DEF Init, NoProcess, Serial!ChainInit
<1>2. ASSUME Sound, [Next]_vars
      PROVE  [Serial!ChainNext]_Serial!chainVars
  <2>1. ASSUME NEW stage \in Stages, StageStep(stage)
        PROVE  [Serial!ChainNext]_Serial!chainVars
    <3>1. /\ proc.phase \in Going /\ proc.stages \in Seq(Outcomes)
          /\ Len(proc.stages) < Evaluation /\ AllSucceeded
      BY <1>2, <2>1 DEF StageStep, Going, Sound, Typed, Processes, Active
    <3>2. CASE proc' = NoProcess
      BY <3>1, <3>2 DEF NoProcess, Going, Serial!ChainNext, Serial!Close
    <3>3. CASE Stays(stage)
      BY <3>1, <3>3 DEF Stays, Going, Serial!chainVars
    <3>4. CASE Ended(stage)
      <4>1. PICK outcome \in Outcomes :
              proc'.phase \in Going /\ proc'.stages = Append(proc.stages, outcome)
        BY <3>4 DEF Ended, Route, Going
      <4>2. Serial!Finish(outcome)
        BY <3>1, <4>1 DEF Serial!Finish, AllSucceeded, Going
      <4> QED
        BY <4>2 DEF Serial!ChainNext, Serial!Outcomes, Outcomes
    <3> QED
      BY <2>1, <3>2, <3>3, <3>4 DEF StageStep
  <2>2. ASSUME NEW p \in Pipelines, NEW options \in Options, Run(p, options)
        PROVE  [Serial!ChainNext]_Serial!chainVars
    BY <2>2 DEF Run, NoProcess, Serial!ChainNext, Serial!Begin
  <2>3. CASE Crash
    BY <1>2, <2>3 DEF Sound, Typed, Processes, Going, Crash, Dies, NoProcess, Serial!ChainNext, Serial!Close
  <2>4. CASE Summarize
    <3>1. proc.phase = "SUMMARIZE"
      BY <2>4 DEF Summarize
    <3>2. proc' = NoProcess \/ (proc'.phase = "ENDED" /\ proc'.stages = proc.stages)
      BY <1>2, <2>4, SummarizeEnds
    <3> QED
      BY <3>1, <3>2 DEF NoProcess, Serial!ChainNext, Serial!Close
  <2>5. CASE UNCHANGED vars
    BY <2>5 DEF vars, Serial!chainVars
  <2> QED
    BY <1>2, <2>1, <2>2, <2>3, <2>4, <2>5, NextSteps
<1> QED
  BY <1>1, <1>2, AlwaysSound, PTL DEF Spec, IsChain, Serial!ChainSpec
=============================================================================
