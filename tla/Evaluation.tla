----------------------------- MODULE Evaluation -----------------------------
(***************************************************************************)
(* The evaluation workflow of one workflow_id: the graph of                *)
(* workflows/evaluation.py and nodes/evaluation.py, the engine that every  *)
(* node but the last runs anew over the files of a training workflow       *)
(* (services/evaluation_engine.py), and the write-once evaluation.json and *)
(* report.md of services/evaluation_store.py.                              *)
(*                                                                         *)
(* The engine reads one file after another and nothing locks them: a       *)
(* training workflow, or a person, may write between two reads.  The files *)
(* of a run, and the five project fixtures, are one input each.  A content *)
(* is fit or not (missing, malformed or contradicting itself), belongs to  *)
(* one frozen spec, and gives the metrics of its predictions; its edition  *)
(* stands for its bytes, and a file never gets earlier bytes again.        *)
(***************************************************************************)
EXTENDS GraphRun, Integers, Sequences, FiniteSets

CONSTANTS
    Specs,       \* frozen training specs
    Metrics,     \* what predictions may give
    Trained,     \* the spec that was trained first, and what its runs gave
    MinDelta,    \* minimum_practical_delta, in the unit of Metrics
    MaxDrop,     \* max_severe_recall_drop
    MaxChanges,  \* bound: writes to the inputs
    Edited       \* an output that a person left unreadable, or of another id or conclusion

ASSUME EvaluationAssumption ==
    /\ Trained \in [spec : Specs, baseline : Metrics, candidate : Metrics]
    /\ None \notin Specs \cup Metrics
    /\ Metrics \subseteq [macro : Int, balanced : Int, severe : Int]
    /\ MinDelta \in Nat
    /\ MaxDrop \in Nat
    /\ MaxChanges \in Nat

VARIABLES
    disk,   \* the input files
    past,   \* history: what disk has been
    seen,   \* the inputs the running engine has read, in its order
    out     \* evaluation.json and report.md

vars == <<disk, past, seen, out, graphVars>>

Policy == 1
Record == 2
FrozenSpec == 3
Baseline == 4
Candidate == 5
Fixtures == 6
Inputs == Policy .. Fixtures
Runs == {Baseline, Candidate}
OfASpec == Record .. Candidate

Contents == [fit : BOOLEAN, spec : Specs \cup {None}, metrics : Metrics \cup {None},
             edition : 0 .. MaxChanges]
ContentsOf(input) == {content \in Contents :
    /\ content.spec # None <=> content.fit /\ input \in OfASpec
    /\ content.metrics # None <=> content.fit /\ input \in Runs}

Conclusions == {"IMPROVED", "REGRESSED", "NO_CLEAR_IMPROVEMENT", "INVALID"}
\* edited: a person changed what neither evaluation_id nor conclusion is compared for.
Results == [inputs : Seq(Contents), conclusion : Conclusions, edited : BOOLEAN]
Outputs == {"evaluation", "report"}
Carries == [id : Seq(Contents), conclusion : Conclusions \cup {None},
            status : {"PENDING", "RUNNING", "COMPLETED", "FAILED"}]
Engines == {"load_training_outputs", "validate_comparability", "invalid_result",
            "compute_metrics", "decide_conclusion", "persist_evaluation"}
Nodes == Engines \cup {"START", "render_report", "END"}
Pending == [id |-> <<>>, conclusion |-> None, status |-> "PENDING"]

\* A training workflow has succeeded.
Init ==
    /\ disk = [input \in Inputs |->
                  [fit |-> TRUE, spec |-> IF input \in OfASpec THEN Trained.spec ELSE None,
                   metrics |-> CASE input = Baseline -> Trained.baseline
                                 [] input = Candidate -> Trained.candidate
                                 [] OTHER -> None,
                   edition |-> 0]]
    /\ past = {disk}
    /\ seen = <<>>
    /\ out = [output \in Outputs |-> None]
    /\ GraphInit(Pending)

-----------------------------------------------------------------------------
\* Mutant: the candidate's artifacts may be of another spec.
Sound_AnyCandidate(read) == \A input \in DOMAIN read :
    /\ read[input].fit
    /\ input \in OfASpec \ {Candidate} => read[input].spec = read[Record].spec

\* What has been read is fit and of the spec that training.json names.
Sound(read) == \A input \in DOMAIN read :
    /\ read[input].fit
    /\ input \in OfASpec => read[input].spec = read[Record].spec

\* compute_evaluation returns: every read but the baseline's is followed by its checks.
Finished(read) ==
    /\ Len(read) \notin {0, Baseline}
    /\ Len(read) = Fixtures \/ ~ Sound(read)

OutputsLoaded(read) == Len(read) = Fixtures

\* candidate minus baseline
MetricDelta(baseline, candidate) == [m \in DOMAIN baseline |-> candidate[m] - baseline[m]]

\* Mutant: a loss of exactly the practical delta is tolerated.
DecideConclusion_OpenLoss(delta) ==
    IF - delta.severe > MaxDrop \/ delta.macro < - MinDelta THEN "REGRESSED"
    ELSE IF delta.macro >= MinDelta /\ delta.balanced >= 0 THEN "IMPROVED"
    ELSE "NO_CLEAR_IMPROVEMENT"

DecideConclusion(delta) ==
    IF - delta.severe > MaxDrop \/ delta.macro <= - MinDelta THEN "REGRESSED"
    ELSE IF delta.macro >= MinDelta /\ delta.balanced >= 0 THEN "IMPROVED"
    ELSE "NO_CLEAR_IMPROVEMENT"

\* The EvaluationResult; evaluation_id is the hash of what was read.
Result(read) ==
    [inputs |-> read,
     conclusion |-> IF OutputsLoaded(read) /\ Sound(read)
                    THEN DecideConclusion(MetricDelta(read[Baseline].metrics,
                                                      read[Candidate].metrics))
                    ELSE "INVALID",
     edited |-> FALSE]

-----------------------------------------------------------------------------
Read ==
    /\ \E node \in Engines : At(node)
    /\ ~ Finished(seen)
    /\ seen' = Append(seen, disk[Len(seen) + 1])
    /\ UNCHANGED <<disk, past, out, graphVars>>

Fails == GoesTo("END", [ckpt.carry EXCEPT !.status = "FAILED"])

\* The engine of a node has returned a result, or EvaluationEngineError.
Computed(node) == At(node) /\ Finished(seen) /\ seen' = <<>> /\ UNCHANGED <<disk, past, recorder>>
Usable == seen[Policy].fit
Invalid == Result(seen).conclusion = "INVALID"

\* Mutant: the inputs are not compared with those the run began with.
IdentityIsStable_Assumed == TRUE

IdentityIsStable == ckpt.carry.id \in {<<>>, seen}

Running(conclusion) == [id |-> seen, conclusion |-> conclusion, status |-> "RUNNING"]

LoadTrainingOutputs ==
    /\ Computed("load_training_outputs")
    /\ IF Usable
       THEN GoesTo(IF OutputsLoaded(seen) THEN "validate_comparability" ELSE "invalid_result",
                   Running(None))
       ELSE Fails
    /\ UNCHANGED out

ValidateComparability ==
    /\ Computed("validate_comparability")
    /\ IF Usable /\ IdentityIsStable
       THEN GoesTo(IF Invalid THEN "invalid_result" ELSE "compute_metrics", Running(None))
       ELSE Fails
    /\ UNCHANGED out

ComputeMetricsNode ==
    /\ Computed("compute_metrics")
    /\ IF Usable /\ ~ Invalid /\ IdentityIsStable
       THEN GoesTo("decide_conclusion", Running(None))
       ELSE Fails
    /\ UNCHANGED out

Decide ==
    /\ Computed("decide_conclusion")
    /\ IF Usable /\ ~ Invalid /\ IdentityIsStable
       THEN GoesTo("persist_evaluation", Running(Result(seen).conclusion))
       ELSE Fails
    /\ UNCHANGED out

\* Mutant: a file that is there is replaced.
WriteOnce_Replaces(output, result, node, carry) ==
    \/ out' = [out EXCEPT ![output] = result] /\ GoesTo(node, carry)
    \/ Fails /\ UNCHANGED out

\* Mutant: a file that is there is taken for the one to write.
WriteOnce_TakesAny(output, result, node, carry) ==
    \/ /\ out[output] = None
       /\ out' = [out EXCEPT ![output] = result]
       /\ GoesTo(node, carry)
    \/ out[output] # None /\ GoesTo(node, carry) /\ UNCHANGED out

\* _write_once: the same bytes are reused; others, a file that cannot be read, or a
\* refused write, fail the run.
WriteOnce(output, result, node, carry) ==
    \/ /\ out[output] = None
       /\ out' = [out EXCEPT ![output] = result]
       /\ GoesTo(node, carry)
    \/ out[output] = result /\ GoesTo(node, carry) /\ UNCHANGED out
    \/ Fails /\ UNCHANGED out

InvalidResult ==
    /\ Computed("invalid_result")
    /\ IF Usable /\ Invalid /\ IdentityIsStable
       THEN WriteOnce("evaluation", Result(seen), "render_report", Running("INVALID"))
       ELSE Fails /\ UNCHANGED out

PersistEvaluation ==
    /\ Computed("persist_evaluation")
    /\ IF Usable /\ ~ Invalid /\ IdentityIsStable
          /\ ckpt.carry.conclusion = Result(seen).conclusion
       THEN WriteOnce("evaluation", Result(seen), "render_report",
                      Running(ckpt.carry.conclusion))
       ELSE Fails /\ UNCHANGED out

\* A readable evaluation.json with the id and the conclusion that carry names.
IsOf(evaluation, carry) ==
    /\ evaluation \notin {None, Edited}
    /\ evaluation.inputs = carry.id
    /\ evaluation.conclusion = carry.conclusion

\* The report of an evaluation, which may leave out what a person edited.
Renderings(evaluation) == {evaluation, [evaluation EXCEPT !.edited = FALSE]}

\* The report is of evaluation.json, which must be the one of this run by its id and
\* conclusion; the rest of its content is not compared.
RenderReport ==
    /\ At("render_report")
    /\ IF IsOf(out["evaluation"], ckpt.carry)
       THEN \E report \in Renderings(out["evaluation"]) :
               WriteOnce("report", report, "END", [ckpt.carry EXCEPT !.status = "COMPLETED"])
       ELSE Fails /\ UNCHANGED out
    /\ UNCHANGED <<disk, past, seen, recorder>>

-----------------------------------------------------------------------------
\* Anyone writes an input: a training workflow that runs again, or a person.
Change(input, content) ==
    /\ Cardinality(past) <= MaxChanges
    /\ content.edition = Cardinality(past)
    /\ disk' = [disk EXCEPT ![input] = content]
    /\ past' = past \cup {disk'}
    /\ UNCHANGED <<seen, out, graphVars>>

\* What an edit makes of an output.
Edits(output) ==
    {Edited} \cup IF output = "evaluation"
                  THEN {[inputs |-> out[output].inputs, conclusion |-> out[output].conclusion,
                         edited |-> TRUE]}
                  ELSE {}

\* A person edits an output.
Edit(output) ==
    /\ out[output] \notin {None, Edited}
    /\ \E edit \in Edits(output) : out' = [out EXCEPT ![output] = edit]
    /\ UNCHANGED <<disk, past, seen, graphVars>>

Invoke ==
    /\ GraphInvoke("load_training_outputs", Pending)
    /\ seen' = <<>>
    /\ UNCHANGED <<disk, past, out>>

Commit == GraphCommit /\ UNCHANGED <<disk, past, seen, out>>
Resume == GraphResume /\ UNCHANGED <<disk, past, seen, out>>
Crash == GraphCrash /\ seen' = <<>> /\ UNCHANGED <<disk, past, out>>

Step ==
    \/ Read
    \/ LoadTrainingOutputs
    \/ ValidateComparability
    \/ ComputeMetricsNode
    \/ Decide
    \/ InvalidResult
    \/ PersistEvaluation
    \/ RenderReport
    \/ Commit

Next ==
    \/ Step
    \/ \E input \in Inputs : \E content \in ContentsOf(input) : Change(input, content)
    \/ \E output \in Outputs : Edit(output)
    \/ Invoke \/ Resume \/ Crash

Spec == Init /\ [][Next]_vars

-----------------------------------------------------------------------------
\* Every variable keeps its type.
TypeOK ==
    /\ disk \in [Inputs -> Contents]
    /\ past \subseteq [Inputs -> Contents]
    /\ seen \in Seq(Contents)
    /\ out \in [Outputs -> Results \cup {None, Edited}]
    /\ GraphType(Nodes, Carries, {})

\* What the engine would read in the files of one moment.
Snapshot(files) == {read \in {[input \in 1 .. n |-> files[input]] : n \in Inputs} :
    /\ Finished(read)
    /\ \A n \in 1 .. Len(read) - 1 : ~ Finished(SubSeq(read, 1, n))}

\* evaluation.json as the workflow wrote it
AsWritten(evaluation) == evaluation \notin {None, Edited} /\ ~ evaluation.edited

\* evaluation.json, until a person edits it, is what the engine gives for files that lay
\* on the disk together, although each engine reads them one by one and locks none.
EvaluatedAsItWas ==
    AsWritten(out["evaluation"]) =>
        \E files \in past : \E read \in Snapshot(files) : out["evaluation"] = Result(read)

\* A verdict other than INVALID is about two runs of the one spec that training.json
\* names, all fit at one moment.
VerdictOfOneSpec ==
    LET evaluation == out["evaluation"] IN
    AsWritten(evaluation) /\ evaluation.conclusion # "INVALID" =>
        \E files \in past : \A input \in Inputs :
            /\ files[input] = evaluation.inputs[input]
            /\ files[input].fit
            /\ input \in OfASpec => files[input].spec = files[Record].spec

\* Which run is the baseline does not decide who is better: what is an improvement is
\* a regression when the roles are swapped, at the very boundary too.
ImprovementTurnsAround ==
    \A macro, balanced, severe \in Int :
        DecideConclusion([macro |-> macro, balanced |-> balanced, severe |-> severe]) = "IMPROVED"
        => DecideConclusion([macro |-> -macro, balanced |-> -balanced, severe |-> -severe])
              = "REGRESSED"

\* A verdict that the candidate is the better run would be, with the two runs swapped,
\* that it is the worse one: what counts as a gain at a threshold counts as a loss.
VerdictTurnsAround ==
    LET evaluation == out["evaluation"]
        metrics(run) == evaluation.inputs[run].metrics
    IN  AsWritten(evaluation) /\ evaluation.conclusion = "IMPROVED" =>
            DecideConclusion(MetricDelta(metrics(Candidate), metrics(Baseline))) = "REGRESSED"

OutputsKept == \A output \in Outputs :
    out[output] # None =>
        \/ out'[output] = out[output]
        \/ UNCHANGED <<seen, graphVars>> /\ out'[output] \in Edits(output)

\* No workflow step replaces an output, its own or one a person edited.
OutputsWriteOnce == [][OutputsKept]_vars

\* What the step of a node leaves behind: evaluation.json is, byte for byte, what the
\* node computed when it goes on to the report, and a completed run's report is of the
\* evaluation.json that lies beside it, with the run's own id and conclusion.
OnItsOutputs ==
    LET carry == proc'.to.carry IN
    /\ proc'.to.node = "render_report" =>
          out'["evaluation"] = [inputs |-> carry.id, conclusion |-> carry.conclusion,
                                edited |-> FALSE]
    /\ carry.status = "COMPLETED" =>
          /\ IsOf(out'["evaluation"], carry)
          /\ out'["report"] \in Renderings(out'["evaluation"])

\* A run goes on only over the evaluation it computed itself and completes only over an
\* evaluation of its id and conclusion with its report, whatever earlier runs left and a
\* person edited; an edit after the first that keeps both is reported, as in the code.
CompletesOnItsOutputs ==
    [][proc.phase = "READY" /\ proc'.phase = "WROTE" => OnItsOutputs]_vars
=============================================================================
