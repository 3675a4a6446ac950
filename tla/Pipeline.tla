------------------------------ MODULE Pipeline ------------------------------
(***************************************************************************)
(* The offline pipeline: the graph of workflows/pipeline.py, the driver of *)
(* pipeline/fixture_runtime.py that runs a child workflow to its end, the  *)
(* summaries of services/pipeline_models.py and the command line of        *)
(* cli/pipeline.py, over one workspace.                                    *)
(*                                                                         *)
(* A child is what the modules Research, Repository, Adaptation and        *)
(* Training say of a first invocation: it writes its record, waits at its  *)
(* gate, and ends.  A record here is its status and the run that wrote it; *)
(* DONE is COMPLETED, ACCEPTED or SUCCEEDED.  Every checkpoint is in       *)
(* memory: a run that dies is run again from its first stage, over what    *)
(* the stores hold.                                                        *)
(***************************************************************************)
EXTENDS Naturals, Sequences, FiniteSets

CONSTANTS
    Pipelines,
    Scripts,    \* the decision lists of --decisions
    MaxRuns,    \* bound: command lines that run the graph
    MaxGates,   \* bound: decisions of one run
    None        \* the absent value

ASSUME PipelineAssumption == None \notin Nat

VARIABLES
    watermark,  \* the research root has a watermark, FIXTURE_NOW
    disk,       \* the record of each child
    summary,    \* sample/<workflow_id>/summary.json
    proc,       \* the process and its PipelineState
    runs        \* runs of the graph so far

vars == <<watermark, disk, summary, proc, runs>>

Research == 1
Repository == 2
Adaptation == 3
Training == 4
Evaluation == 5
Stages == Research .. Evaluation
Gated == Research .. Training

\* FIXTURE_NOW does not move: hours before it at which the one paper that can be
\* recommended was published, the overlap, and the lookback of a first run.
PaperAge == 2
Overlap == 1
Lookback == 24

Planners == {"scripted", "dashscope"}
Decisions == {"APPROVE", "EDIT", "REJECT"}
Options == {options \in [mode : {"interactive", "auto", "explicit"}, script : Scripts \cup {<<>>},
                         planner : Planners, scenario : {"happy", "smoke-failure"}] :
              options.mode = "explicit" <=> options.script # <<>>}

NoRecord == [status |-> "ABSENT", run |-> None, planner |-> None]
NoSummary == [status |-> "ABSENT"]
NoProcess == [phase |-> "DOWN", pipeline |-> None, options |-> None,
              stages |-> <<>>, gates |-> <<>>, trouble |-> {}]

Init ==
    /\ watermark = FALSE
    /\ disk = [p \in Pipelines |-> [stage \in Stages |-> NoRecord]]
    /\ summary = [p \in Pipelines |-> NoSummary]
    /\ proc = NoProcess
    /\ runs = 0

-----------------------------------------------------------------------------
Status(stage) == disk[proc.pipeline][stage].status

Writes(stage, status) ==
    disk' = [disk EXCEPT ![proc.pipeline][stage] =
                [status |-> status, run |-> runs,
                 planner |-> IF stage = Adaptation THEN proc.options.planner ELSE None]]

Running(stage) == proc.phase = "STAGE" /\ Len(proc.stages) + 1 = stage
Waiting(stage) == proc.phase = "GATE" /\ Len(proc.stages) + 1 = stage

\* Mutant: a stage that was rejected is passed over.
Route_PastRejection(outcome, stage) ==
    IF outcome # "FAILED" /\ stage < Evaluation THEN "STAGE" ELSE "SUMMARIZE"

\* route_after_stage
Route(outcome, stage) ==
    IF outcome = "SUCCEEDED" /\ stage < Evaluation THEN "STAGE" ELSE "SUMMARIZE"

\* run_stage returns: the outcome is appended and routed on.
Ends(state, outcome) ==
    [state EXCEPT !.stages = Append(@, outcome), !.phase = Route(outcome, Len(state.stages) + 1)]

Finishes(outcome) == proc' = Ends(proc, outcome)

\* A planner, a tool or a store fails: FAILED or DRIVER_FAILED.
Breaks(state) == proc' = Ends([state EXCEPT !.trouble = @ \cup {"STAGE"}], "FAILED")

Pauses == proc' = [proc EXCEPT !.phase = "GATE"]

\* The process dies.  The last one of a behaviour does not.
Dies == runs < MaxRuns /\ proc' = NoProcess

-----------------------------------------------------------------------------
\* The command line runs the graph unless there is a summary to reuse or refuse.
Run(p, options) ==
    /\ proc.phase \in {"DOWN", "ENDED"}
    /\ summary[p] = NoSummary
    /\ runs < MaxRuns
    /\ runs' = runs + 1
    /\ proc' = [NoProcess EXCEPT !.phase = "STAGE", !.pipeline = p, !.options = options]
    /\ UNCHANGED <<watermark, disk, summary>>

Crash ==
    /\ proc.phase \notin {"DOWN", "ENDED"}
    /\ Dies
    /\ UNCHANGED <<watermark, disk, summary, runs>>

\* The paper is inside the retrieval window.
Found == PaperAge <= IF watermark THEN Overlap ELSE Lookback

ResearchStage ==
    /\ Running(Research)
    /\ \/ Found /\ Writes(Research, "AWAITING") /\ (Pauses \/ Dies) /\ UNCHANGED watermark
       \/ /\ ~ Found
          /\ Writes(Research, "NO_CANDIDATES")
          /\ \/ watermark' = TRUE /\ Finishes("SUCCEEDED")
             \/ UNCHANGED watermark /\ (Breaks(proc) \/ Dies)
       \/ Breaks(proc) /\ UNCHANGED <<disk, watermark>>
    /\ UNCHANGED <<summary, runs>>

\* Mutant: the stage before has left a record.
Ready_Recorded(stage) == Status(stage - 1) # "ABSENT"

\* _assemble, and the first node of the adaptation, ask for the record before.
Ready(stage) == Status(stage - 1) = "DONE"

NotReady(stage) ==
    /\ stage \in {Repository, Adaptation, Training}
    /\ Running(stage)
    /\ ~ Ready(stage)
    /\ Finishes("FAILED")
    /\ UNCHANGED <<watermark, disk, summary, runs>>

\* The repository candidate, or the frozen training spec, waits for its gate.
RepositoryOrTrainingStage(stage) ==
    /\ stage \in {Repository, Training}
    /\ Running(stage)
    /\ Ready(stage)
    /\ \/ Writes(stage, "AWAITING") /\ (Pauses \/ Dies)
       \/ Writes(stage, "FAILED") /\ Breaks(proc)
       \/ UNCHANGED disk /\ Breaks(proc)
       \/ Writes(stage, "WORKING") /\ Dies
    /\ UNCHANGED <<watermark, summary, runs>>

\* In the scenario smoke-failure the patch fails its smoke test and so does its repair.
AdaptationStage ==
    /\ Running(Adaptation)
    /\ Ready(Adaptation)
    /\ \/ /\ proc.options.scenario = "happy"
          /\ Writes(Adaptation, "AWAITING")
          /\ Pauses \/ Dies
       \/ /\ proc.options.scenario = "smoke-failure"
          /\ \/ Writes(Adaptation, "SMOKE_FAILED") /\ Finishes("FAILED")
             \/ Writes(Adaptation, "SMOKED") /\ Dies
       \/ Writes(Adaptation, "FAILED") /\ Breaks(proc)
       \/ UNCHANGED disk /\ Breaks(proc)
       \/ Writes(Adaptation, "WORKING") /\ Dies
    /\ UNCHANGED <<watermark, summary, runs>>

\* The evaluation is written once; an INVALID one is written as well.
EvaluationStage ==
    /\ Running(Evaluation)
    /\ \/ /\ Status(Evaluation) = "ABSENT"
          /\ \/ /\ Status(Training) = "DONE"
                /\ Writes(Evaluation, "DONE")
                /\ Finishes("SUCCEEDED") \/ Dies
             \/ Writes(Evaluation, "INVALID") /\ (Breaks(proc) \/ Dies)
       \/ Breaks(proc) /\ UNCHANGED disk
    /\ UNCHANGED <<watermark, summary, runs>>

-----------------------------------------------------------------------------
\* DecisionProvider.decide: the decisions it may give at this gate.
Decided ==
    LET turn == Len(proc.gates) + 1 IN
    CASE proc.options.mode = "interactive" -> Decisions
      [] proc.options.mode = "auto" -> {"APPROVE"}
      [] proc.options.mode = "explicit" ->
            IF turn \in DOMAIN proc.options.script THEN {proc.options.script[turn]} ELSE {}

\* An entry that is no decision, or a script that is at its end: no gate record.
NoDecision(stage) ==
    /\ Waiting(stage)
    /\ proc.options.mode = "interactive" \/ Decided = {}
    /\ Breaks(proc)
    /\ UNCHANGED <<watermark, disk, summary, runs>>

\* What the child does with the answer: an edit of the plan or of the training
\* spec comes back to the gate, an edit of the selection or of the URL does not.
Resumed(stage, decision) ==
    CASE decision = "REJECT" -> "REJECTED"
      [] decision = "EDIT" /\ stage \in {Adaptation, Training} -> "AWAITING"
      [] decision = "APPROVE" \/ stage \in {Research, Repository} -> "DONE"

\* The gate record is appended before the child is resumed.  The research child
\* writes its result and then the watermark, whatever the decision.
Resume(stage, decision) ==
    /\ Waiting(stage)
    /\ decision \in Decided
    /\ Len(proc.gates) < MaxGates
    /\ LET resumed == Resumed(stage, decision)
           asked == [proc EXCEPT !.gates = Append(@, [stage |-> stage, decision |-> decision])]
       IN
       \/ /\ Writes(stage, resumed)
          /\ watermark' = (watermark \/ stage = Research)
          /\ \/ resumed = "DONE" /\ proc' = Ends(asked, "SUCCEEDED")
             \/ resumed = "REJECTED" /\ proc' = Ends(asked, "STOPPED")
             \/ resumed = "AWAITING" /\ proc' = asked
       \/ /\ \/ stage = Research /\ Writes(stage, resumed)      \* no watermark
             \/ stage # Research /\ Writes(stage, "FAILED")
             \/ UNCHANGED disk
          /\ Breaks(asked)
          /\ UNCHANGED watermark
       \/ /\ Writes(stage, resumed) \/ (stage # Research /\ Writes(stage, "WORKING"))
          /\ Dies
          /\ UNCHANGED watermark
    /\ UNCHANGED <<summary, runs>>

-----------------------------------------------------------------------------
\* build_summary reads the children's records from their stores.
Evident(p, stage) ==
    disk[p][stage].status \in
        CASE stage \in {Research, Repository, Training} -> {"DONE"}
          [] stage = Adaptation -> {"SMOKED", "SMOKE_FAILED", "AWAITING", "DONE", "REJECTED"}
          [] stage = Evaluation -> {"DONE", "INVALID"}

Outcome == proc.stages[Len(proc.stages)]

Approved == {gate.stage : gate \in {proc.gates[i] : i \in DOMAIN proc.gates} \cap
                                       [stage : Stages, decision : {"APPROVE"}]}

Built ==
    [status |-> Outcome, options |-> proc.options, approved |-> Approved, run |-> runs,
     evidence |-> [stage \in Stages |->
         IF Evident(proc.pipeline, stage) THEN disk[proc.pipeline][stage].run ELSE None]]

PlannerMatches(built) ==
    built.evidence[Adaptation] # None =>
        disk[proc.pipeline][Adaptation].planner = built.options.planner

\* Mutant: the gates of a successful summary are not looked at.
Consistent_AnyGates(built) ==
    /\ PlannerMatches(built)
    /\ built.status = "SUCCEEDED" => None \notin {built.evidence[stage] : stage \in Stages}

\* PipelineSummary._consistent_summary
Consistent(built) ==
    /\ PlannerMatches(built)
    /\ built.status = "SUCCEEDED" =>
        /\ None \notin {built.evidence[stage] : stage \in Stages}
        /\ Gated \subseteq built.approved
        /\ proc.stages = [stage \in Stages |-> "SUCCEEDED"]

Leaves == proc' = [proc EXCEPT !.phase = "ENDED"]

\* A summary that is not consistent, or cannot be written, ends the run without one.
Summarize ==
    /\ proc.phase = "SUMMARIZE"
    /\ \/ /\ Consistent(Built)
          /\ summary' = [summary EXCEPT ![proc.pipeline] = Built]
          /\ Leaves \/ Dies
       \/ /\ Consistent(Built)
          /\ proc' = [proc EXCEPT !.phase = "ENDED", !.trouble = @ \cup {"SUMMARY"}]
          /\ UNCHANGED summary
       \/ ~ Consistent(Built) /\ Leaves /\ UNCHANGED summary
    /\ UNCHANGED <<watermark, disk, runs>>

Work ==
    \/ ResearchStage \/ AdaptationStage \/ EvaluationStage \/ Summarize
    \/ \E stage \in Stages : NotReady(stage) \/ RepositoryOrTrainingStage(stage)

Human ==
    \E stage \in Gated : NoDecision(stage) \/ \E decision \in Decisions : Resume(stage, decision)

Next == Crash \/ Work \/ Human \/ \E p \in Pipelines, options \in Options : Run(p, options)

Spec == Init /\ [][Next]_vars

-----------------------------------------------------------------------------
(***************************************************************************)
(* Properties.                                                             *)
(***************************************************************************)
\* The pipeline is a chain: "Failure or human rejection stops downstream execution".
Serial == INSTANCE Chain WITH
    Length <- Evaluation,
    ended <- proc.stages,
    open <- proc.phase \in {"STAGE", "GATE", "SUMMARIZE"}

IsChain == Serial!ChainSpec

\* A child writes a record only over finished records of the same run: what an
\* earlier run left on disk is never what a later stage builds on.
BuiltOnItsOwnRun ==
    proc.phase # "DOWN" =>
        LET records == disk[proc.pipeline] IN
        \A stage \in Stages : records[stage].run = runs =>
            \A before \in 1 .. stage - 1 :
                records[before].run = runs /\ records[before].status = "DONE"

\* A summary says SUCCEEDED only of a run whose five artifacts are its own and
\* whose four gates a human, or the sample's script, approved.
SucceededIsWhole ==
    \A p \in Pipelines : summary[p].status = "SUCCEEDED" =>
        /\ \A stage \in Stages : summary[p].evidence[stage] = summary[p].run
        /\ Gated \subseteq summary[p].approved

\* "Failure or human rejection ... produces an explicit terminal record": a run
\* that ended, on a disk that takes its writes, has a summary.
TerminalRecord ==
    proc.phase = "ENDED" /\ "SUMMARY" \notin proc.trouble => summary[proc.pipeline] # NoSummary
=============================================================================
