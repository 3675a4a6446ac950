------------------------------ MODULE Training ------------------------------
(***************************************************************************)
(* The training workflow of one workflow_id: the LangGraph graph of        *)
(* workflows/training.py and nodes/training.py, the JSON store it writes,  *)
(* the local executor and the training subprocess it starts.               *)
(*                                                                         *)
(* What survives a crash of the driving process is the store (record,      *)
(* specs, outputs), the checkpoint (ckpt) and any training subprocess      *)
(* already started (children).  A node is one step from its first read to  *)
(* its last store write, because it awaits nothing but the executor; the   *)
(* checkpoint is committed by a step of its own, so a crash may fall       *)
(* between a node's write and its checkpoint, and the node then runs again *)
(* on the store it has already changed.                                    *)
(*                                                                         *)
(* A content hash is the hashed content itself: no two contents collide.   *)
(***************************************************************************)
EXTENDS Naturals, FiniteSets

CONSTANTS
    Contents,      \* what freeze_training_spec hashes besides the revision
    ApprovalIds,   \* approval_id values a human may use
    Pids,          \* bound: training subprocesses ever started
    MaxRevision,   \* bound: submission revisions (a human EDITs below it)
    MaxLives,      \* bound: invocations of the graph, first one included
    None           \* the absent value

Roles == {"BASELINE", "CANDIDATE"}
Revisions == 1 .. MaxRevision
Specs == [rev : Revisions, content : Contents]
Runs == Revisions \X Roles

ASSUME TrainingAssumption ==
    /\ MaxRevision \in Nat \ {0}
    /\ MaxLives \in Nat
    /\ None \notin Specs \cup Contents \cup ApprovalIds \cup Pids

VARIABLES
    record,     \* training.json, the evidence index of the workflow
    specs,      \* the spec-r<revision>.json files
    outputs,    \* the runs/<run_id> directories
    children,   \* the training subprocesses, alive or ended
    ckpt,       \* the last committed checkpoint of the graph
    proc,       \* the process that drives the graph
    recorder,   \* the approvals in the process's InMemoryApprovalRecorder
    life,       \* how many times the graph has been invoked
    approved    \* history: every spec whose approval was recorded

vars == <<record, specs, outputs, children, ckpt, proc, recorder, life, approved>>

Decisions == {"APPROVE", "EDIT", "REJECT"}
Reviews == [id : ApprovalIds, decision : Decisions, subject : Specs]
Answers == {answer \in [id : ApprovalIds, decision : Decisions, subject : Specs,
                        edit : Contents \cup {None}] :
              answer.edit # None => answer.decision = "EDIT"}

Ended == {"SUCCEEDED", "FAILED", "CANCELLED", "REJECTED"}
Statuses == Ended \cup {"ABSENT", "INPUT_VALIDATED", "AWAITING_APPROVAL",
                        "EDIT_REQUESTED", "RUNNING"}
Nodes == {"START", "validate_input", "freeze_submission", "training_gate",
          "revise_submission", "run_baseline", "run_candidate",
          "collect_outputs", "END"}
Outcomes == Ended \cup {"OPEN", "INPUT_INVALID"}
Stages == {"UNUSED", "SPAWNED", "LOADED", "WRITING", "LOGGING", "EXIT_0", "EXIT_1"}

(***************************************************************************)
(* The run a spec gives to a role: _run_id hashes workflow, revision and   *)
(* role, not the spec's content.                                           *)
(***************************************************************************)
RunOf(spec, role) == <<spec.rev, role>>
RoleOf(node) == IF node = "run_baseline" THEN "BASELINE" ELSE "CANDIDATE"

NoRecord == [status |-> "ABSENT", spec |-> None, gate |-> None,
             approval |-> None, edit |-> None, reviews |-> {},
             results |-> [role \in Roles |-> None], point |-> "NONE"]

Fresh == [NoRecord EXCEPT !.status = "INPUT_VALIDATED"]
NoOutput == [stage |-> "ABSENT", spec |-> None]
NoChild == [stage |-> "UNUSED", run |-> None, wanted |-> None,
            spec |-> None, life |-> 0]

Idle(phase) == [phase |-> phase, next |-> "START", gate |-> None,
                outcome |-> "OPEN", pid |-> None]

Init ==
    /\ record = NoRecord
    /\ specs = [rev \in Revisions |-> None]
    /\ outputs = [run \in Runs |-> NoOutput]
    /\ children = [pid \in Pids |-> NoChild]
    /\ ckpt = [node |-> "START", gate |-> None, request |-> None, outcome |-> "OPEN"]
    /\ proc = Idle("DOWN")
    /\ recorder = {}
    /\ life = 0
    /\ approved = {}

-----------------------------------------------------------------------------
(***************************************************************************)
(* The driving process.                                                    *)
(***************************************************************************)
store == <<record, specs, outputs>>

\* A node wrote its last record: the graph has still to commit the checkpoint.
Wrote(next, gate, outcome) ==
    proc' = [phase |-> "WROTE", next |-> next, gate |-> gate,
             outcome |-> outcome, pid |-> None]

\* A node raised: the checkpoint stays before it and the invocation ends.
Raise == proc' = Idle("RAISED")

\* The node's last write; no node catches it when it is refused.
Records(updated, next, outcome) ==
    \/ record' = updated /\ Wrote(next, None, outcome)
    \/ UNCHANGED record /\ Raise

At(node) == proc.phase = "READY" /\ ckpt.node = node

\* The graph commits the checkpoint of the node that has just returned.
Commit ==
    /\ proc.phase = "WROTE"
    /\ ckpt' = [ckpt EXCEPT !.node = proc.next, !.gate = proc.gate,
                            !.outcome = proc.outcome]
    /\ proc' = Idle("READY")
    /\ UNCHANGED <<store, children, recorder, life, approved>>

\* ainvoke(initial state): from START, whatever the store holds already.
Invoke(request) ==
    /\ proc.phase \in {"DOWN", "RAISED"} \/ At("END")
    /\ life < MaxLives
    /\ ckpt' = [node |-> "validate_input", gate |-> None, request |-> request,
                outcome |-> "OPEN"]
    /\ proc' = Idle("READY")
    /\ recorder' = {}
    /\ life' = life + 1
    /\ UNCHANGED <<store, children, approved>>

\* A new runtime on a shared checkpointer continues at the checkpointed node.
Resume ==
    /\ proc.phase \in {"DOWN", "RAISED"}
    /\ ckpt.node \notin {"START", "END"}
    /\ life < MaxLives
    /\ proc' = Idle("READY")
    /\ recorder' = {}
    /\ life' = life + 1
    /\ UNCHANGED <<store, children, ckpt, approved>>

\* The same process invokes the thread again; it keeps its recorder.
Retry ==
    /\ proc.phase = "RAISED"
    /\ proc' = Idle("READY")
    /\ UNCHANGED <<store, children, ckpt, recorder, life, approved>>

\* The process dies; a started subprocess is not told and goes on.
Crash ==
    /\ proc.phase # "DOWN"
    /\ life < MaxLives
    /\ proc' = Idle("DOWN")
    /\ recorder' = {}
    /\ UNCHANGED <<store, children, ckpt, life, approved>>

-----------------------------------------------------------------------------
(***************************************************************************)
(* validate_input, freeze_submission and revise_submission.  Whether the   *)
(* adaptation evidence is accepted, the fixture hashes match and the edit  *)
(* is within bounds is left open: each node takes either branch.           *)
(***************************************************************************)
ValidateInput ==
    /\ At("validate_input")
    /\ \/ /\ record' = Fresh
          /\ Wrote("freeze_submission", None, "OPEN")
       \/ /\ Wrote("END", None, "INPUT_INVALID")
          /\ UNCHANGED record
    /\ UNCHANGED <<specs, outputs, children, ckpt, recorder, life, approved>>

\* Mutant: a new revision starts with an empty review history.
Awaiting_DropsReviews(spec) ==
    [record EXCEPT !.status = "AWAITING_APPROVAL", !.spec = spec, !.gate = spec,
                   !.approval = None, !.edit = None, !.reviews = {}]

Awaiting(spec) ==
    [record EXCEPT !.status = "AWAITING_APPROVAL", !.spec = spec, !.gate = spec,
                   !.approval = None, !.edit = None]

Failed == [record EXCEPT !.status = "FAILED", !.gate = None, !.edit = None]

WriteSpec(spec) == specs' = [specs EXCEPT ![spec.rev] = spec]

\* The common tail of freeze and revise: write the spec, then the record.
Freeze(spec) ==
    /\ \/ /\ WriteSpec(spec)
          /\ record' = Awaiting(spec)
          /\ Wrote("training_gate", spec, "OPEN")
          /\ UNCHANGED recorder
       \/ /\ WriteSpec(spec) \/ UNCHANGED specs   \* either write may be refused
          /\ Records(Failed, "END", "FAILED")
          /\ UNCHANGED recorder
       \/ /\ life < MaxLives                      \* a crash between the two writes
          /\ WriteSpec(spec)
          /\ proc' = Idle("DOWN")
          /\ recorder' = {}
          /\ UNCHANGED record
    /\ UNCHANGED <<outputs, children, ckpt, life, approved>>

FreezeSubmission ==
    /\ At("freeze_submission")
    /\ record.status = "INPUT_VALIDATED"
    /\ Freeze([rev |-> 1, content |-> ckpt.request])

CanRevise ==
    /\ record.status = "EDIT_REQUESTED"
    /\ record.edit # None
    /\ record.spec # None

ReviseSubmission ==
    /\ At("revise_submission")
    /\ CanRevise
    /\ Freeze([rev |-> record.spec.rev + 1, content |-> record.edit])

\* A node re-executed over its own earlier write finds a status it refuses.
FreezeRaises ==
    /\ \/ At("freeze_submission") /\ record.status # "INPUT_VALIDATED"
       \/ At("revise_submission") /\ ~CanRevise
    /\ Raise
    /\ UNCHANGED <<store, children, ckpt, recorder, life, approved>>

-----------------------------------------------------------------------------
(***************************************************************************)
(* training_gate.  The node runs again from its start when the human       *)
(* resumes it, so its checks hold at the decision; pausing changes nothing.*)
(***************************************************************************)
GateMatches ==
    /\ record.status = "AWAITING_APPROVAL"
    /\ record.spec # None
    /\ record.gate # None
    /\ ckpt.gate = record.gate
    /\ specs[record.spec.rev] = record.spec
    /\ record.gate = record.spec

\* The answer targets the exact submission; the recorder takes an approval id
\* again only with the same approval.
Admissible(answer) ==
    /\ answer.subject = record.spec
    /\ \A kept \in recorder : kept.id = answer.id => kept = answer

Reviewed(answer, status, edit) ==
    [record EXCEPT
        !.status = status, !.gate = None, !.edit = edit, !.approval = answer.id,
        !.reviews = @ \cup {[id |-> answer.id, decision |-> answer.decision,
                             subject |-> answer.subject]}]

\* Mutant: an EDIT is kept as the approval of the submission it edits.
GateDecides_EditApproves(answer) ==
    /\ At("training_gate")
    /\ GateMatches
    /\ Admissible(answer)
    /\ recorder' = recorder \cup {answer}
    /\ record' = Reviewed([answer EXCEPT !.decision = "APPROVE"], "RUNNING", answer.edit)
    /\ Wrote("run_baseline", None, "OPEN")
    /\ approved' = IF answer.decision = "APPROVE" THEN approved \cup {answer.subject}
                                                  ELSE approved
    /\ UNCHANGED <<specs, outputs, children, ckpt, life>>

GateDecides(answer) ==
    /\ At("training_gate")
    /\ GateMatches
    /\ Admissible(answer)
    /\ recorder' = recorder \cup {answer}
    /\ \/ /\ answer.decision = "APPROVE"
          /\ record' = Reviewed(answer, "RUNNING", record.edit)
          /\ Wrote("run_baseline", None, "OPEN")
          /\ approved' = approved \cup {answer.subject}
       \/ /\ answer.decision = "REJECT"
          /\ record' = Reviewed(answer, "REJECTED", record.edit)
          /\ Wrote("END", None, "REJECTED")
          /\ UNCHANGED approved
       \/ /\ answer.decision = "EDIT"
          /\ answer.edit # None
          /\ record.spec.rev < MaxRevision
          /\ record' = Reviewed(answer, "EDIT_REQUESTED", answer.edit)
          /\ Wrote("revise_submission", None, "OPEN")
          /\ UNCHANGED approved
    /\ UNCHANGED <<specs, outputs, children, ckpt, life>>

\* The gate's own checks fail or the answer is refused; or the recorder has kept
\* it already when approval_edits finds no edit or the record is not written.
GateRaises(answer) ==
    /\ At("training_gate")
    /\ \/ ~(GateMatches /\ Admissible(answer)) /\ UNCHANGED recorder
       \/ /\ GateMatches
          /\ Admissible(answer)
          /\ recorder' = recorder \cup {answer}
    /\ Raise
    /\ UNCHANGED <<store, children, ckpt, life, approved>>

-----------------------------------------------------------------------------
(***************************************************************************)
(* run_baseline and run_candidate: _approved_spec, the cancellation check, *)
(* then LocalTrainingExecutor.run.                                         *)
(***************************************************************************)
ExactApproval ==
    /\ record.status = "RUNNING"
    /\ record.spec # None
    /\ record.approval # None
    /\ specs[record.spec.rev] = record.spec
    /\ \E review \in record.reviews :
        /\ review.id = record.approval
        /\ review.decision = "APPROVE"
        /\ review.subject = record.spec

RunNodes == {"run_baseline", "run_candidate"}

AtRun == \E node \in RunNodes : At(node)

CanRun ==
    /\ ExactApproval
    /\ ckpt.node = "run_candidate" => record.results["BASELINE"] # None

Role == RoleOf(ckpt.node)
Output == outputs[RunOf(record.spec, Role)]

RunRaises ==
    /\ AtRun
    /\ ~CanRun
    /\ Raise
    /\ UNCHANGED <<store, children, ckpt, recorder, life, approved>>

\* Mutant: the cancelled outcome reaches the graph state and not the store.
RunCancelled_NotRecorded ==
    /\ AtRun
    /\ CanRun
    /\ Wrote("END", None, "CANCELLED")
    /\ UNCHANGED <<store, children, ckpt, recorder, life, approved>>

RunCancelled ==
    /\ AtRun
    /\ CanRun
    /\ Records([record EXCEPT !.status = "CANCELLED",
                    !.point = IF Role = "BASELINE" THEN "BEFORE_BASELINE"
                                                   ELSE "BETWEEN_RUNS"],
               "END", "CANCELLED")
    /\ UNCHANGED <<specs, outputs, children, ckpt, recorder, life, approved>>

\* Mutant: complete artifacts are trusted whatever spec they carry.
Valid_AnySpec(output, spec) == output.stage = "COMPLETE"

\* _validate_artifacts: all files are there and carry the frozen spec's hash.
Valid(output, spec) == output.stage = "COMPLETE" /\ output.spec = spec

RunFails == Records(Failed, "END", "FAILED")

NextRun == IF Role = "BASELINE" THEN "run_candidate" ELSE "collect_outputs"

\* Mutant: the result names the approval, not the submission.
RunSucceeds_NamesApproval ==
    Records([record EXCEPT !.results[Role] = record.approval], NextRun, "OPEN")

RunSucceeds == Records([record EXCEPT !.results[Role] = record.spec], NextRun, "OPEN")

\* The executor answers without starting anything: a manifest is there and is
\* validated for reuse, a directory is there without one, or the entrypoint's
\* hash or the start of the subprocess is refused.
RunWithoutStart ==
    /\ AtRun
    /\ CanRun
    /\ \/ /\ Output.stage \in {"MANIFEST", "COMPLETE"}
          /\ IF Valid(Output, record.spec) THEN RunSucceeds ELSE RunFails
       \/ Output.stage = "EMPTY" /\ RunFails
       \/ Output.stage = "ABSENT" /\ RunFails
    /\ UNCHANGED <<specs, outputs, children, ckpt, recorder, life, approved>>

RunStarts(pid) ==
    /\ AtRun
    /\ CanRun
    /\ Output.stage = "ABSENT"
    /\ children[pid] = NoChild
    /\ children' = [children EXCEPT ![pid] =
                        [stage |-> "SPAWNED", run |-> RunOf(record.spec, Role),
                         wanted |-> record.spec, spec |-> None, life |-> life]]
    /\ proc' = [Idle("CALL") EXCEPT !.pid = pid]
    /\ UNCHANGED <<store, ckpt, recorder, life, approved>>

\* Mutant: only a zero exit is taken for an end of the subprocess.
RunReturns_OnlySuccess ==
    /\ proc.phase = "CALL"
    /\ children[proc.pid].stage = "EXIT_0"
    /\ IF Valid(Output, record.spec) THEN RunSucceeds ELSE RunFails
    /\ UNCHANGED <<specs, outputs, children, ckpt, recorder, life, approved>>

\* subprocess.run returns: a zero exit is followed by artifact validation.
RunReturns ==
    /\ proc.phase = "CALL"
    /\ \/ /\ children[proc.pid].stage = "EXIT_0"
          /\ IF Valid(Output, record.spec) THEN RunSucceeds ELSE RunFails
       \/ children[proc.pid].stage = "EXIT_1" /\ RunFails
    /\ UNCHANGED <<specs, outputs, children, ckpt, recorder, life, approved>>

Alive(pid) == children[pid].stage \in {"SPAWNED", "LOADED", "WRITING", "LOGGING"}

\* max_walltime_seconds passed: subprocess.run kills its child and raises.
RunTimesOut ==
    /\ proc.phase = "CALL"
    /\ Alive(proc.pid)
    /\ children' = [children EXCEPT ![proc.pid].stage = "EXIT_1"]
    /\ RunFails
    /\ UNCHANGED <<specs, outputs, ckpt, recorder, life, approved>>

CollectOutputs ==
    /\ At("collect_outputs")
    /\ ExactApproval
    /\ \A role \in Roles : record.results[role] # None
    /\ \/ /\ \A role \in Roles :
              LET output == outputs[RunOf(record.spec, role)]
              IN  /\ output.stage \in {"MANIFEST", "COMPLETE"}
                  /\ output.spec = record.spec
          /\ record' = [record EXCEPT !.status = "SUCCEEDED"]
          /\ Wrote("END", None, "SUCCEEDED")
       \/ RunFails      \* a file is missing or does not parse, or the write is refused
    /\ UNCHANGED <<specs, outputs, children, ckpt, recorder, life, approved>>

CollectRaises ==
    /\ At("collect_outputs")
    /\ ~ (ExactApproval /\ \A role \in Roles : record.results[role] # None)
    /\ Raise
    /\ UNCHANGED <<store, children, ckpt, recorder, life, approved>>

-----------------------------------------------------------------------------
(***************************************************************************)
(* The subprocess (fixtures/training/synthetic_linear_cpu.py).             *)
(***************************************************************************)
ChildStep(pid, stage, spec) ==
    children' = [children EXCEPT ![pid].stage = stage, ![pid].spec = spec]

OutputStep(pid, stage, spec) ==
    outputs' = [outputs EXCEPT ![children[pid].run] = [stage |-> stage, spec |-> spec]]

\* It reads the spec at --spec-ref and checks that content against its own hash.
ChildLoads(pid) ==
    /\ children[pid].stage = "SPAWNED"
    /\ ChildStep(pid, "LOADED", specs[children[pid].run[1]])
    /\ UNCHANGED <<store, ckpt, proc, recorder, life, approved>>

\* Mutant: the output directory may exist already (exist_ok=True).
ChildOpens_ExistOk(pid) ==
    /\ children[pid].stage = "LOADED"
    /\ OutputStep(pid, "EMPTY", None)
    /\ ChildStep(pid, "WRITING", children[pid].spec)
    /\ UNCHANGED <<record, specs, ckpt, proc, recorder, life, approved>>

\* It refuses an output directory that exists, and creates the one it will fill.
ChildOpens(pid) ==
    /\ children[pid].stage = "LOADED"
    /\ IF outputs[children[pid].run].stage = "ABSENT"
       THEN /\ OutputStep(pid, "EMPTY", None)
            /\ ChildStep(pid, "WRITING", children[pid].spec)
       ELSE ChildStep(pid, "EXIT_1", children[pid].spec) /\ UNCHANGED outputs
    /\ UNCHANGED <<record, specs, ckpt, proc, recorder, life, approved>>

\* metrics.json, predictions.json and manifest.json; the log comes last.
ChildWritesManifest(pid) ==
    /\ children[pid].stage = "WRITING"
    /\ OutputStep(pid, "MANIFEST", children[pid].spec)
    /\ ChildStep(pid, "LOGGING", children[pid].spec)
    /\ UNCHANGED <<record, specs, ckpt, proc, recorder, life, approved>>

ChildWritesLog(pid) ==
    /\ children[pid].stage = "LOGGING"
    /\ OutputStep(pid, "COMPLETE", children[pid].spec)
    /\ ChildStep(pid, "EXIT_0", children[pid].spec)
    /\ UNCHANGED <<record, specs, ckpt, proc, recorder, life, approved>>

\* Any exception, the walltime check of _train included, ends in exit code 1.
ChildFails(pid) ==
    /\ Alive(pid)
    /\ ChildStep(pid, "EXIT_1", children[pid].spec)
    /\ UNCHANGED <<store, ckpt, proc, recorder, life, approved>>

Child(pid) ==
    \/ ChildLoads(pid) \/ ChildOpens(pid) \/ ChildWritesManifest(pid)
    \/ ChildWritesLog(pid) \/ ChildFails(pid)

-----------------------------------------------------------------------------
Work ==   \* what the process does by itself, without the human
    \/ Commit \/ ValidateInput \/ FreezeSubmission \/ ReviseSubmission
    \/ FreezeRaises \/ RunRaises \/ RunCancelled \/ RunWithoutStart
    \/ (\E pid \in Pids : RunStarts(pid)) \/ RunReturns \/ RunTimesOut
    \/ CollectOutputs \/ CollectRaises

Next ==
    \/ \E request \in Contents : Invoke(request)
    \/ Resume
    \/ Retry
    \/ Crash
    \/ Work
    \/ \E answer \in Answers : GateDecides(answer) \/ GateRaises(answer)
    \/ \E pid \in Pids : Child(pid)

Spec == Init /\ [][Next]_vars

\* Python keeps executing the node it is in; the executor's timeout bounds the
\* wait for the subprocess, so nothing is assumed of the subprocess or the human.
FairSpec == Spec /\ WF_vars(Work)

-----------------------------------------------------------------------------
(***************************************************************************)
(* Properties.                                                             *)
(***************************************************************************)
RecordType ==
    [status : Statuses, spec : Specs \cup {None}, gate : Specs \cup {None},
     approval : ApprovalIds \cup {None}, edit : Contents \cup {None},
     reviews : SUBSET Reviews, results : [Roles -> Specs \cup {None}],
     point : {"NONE", "BEFORE_BASELINE", "BETWEEN_RUNS"}]
OutputType == [stage : {"ABSENT", "EMPTY", "MANIFEST", "COMPLETE"},
               spec : Specs \cup {None}]
ChildType == [stage : Stages, run : Runs \cup {None}, wanted : Specs \cup {None},
              spec : Specs \cup {None}, life : 0 .. MaxLives]
CkptType == [node : Nodes, gate : Specs \cup {None},
             request : Contents \cup {None}, outcome : Outcomes]
Phases == {"DOWN", "READY", "CALL", "WROTE", "RAISED"}
ProcType == [phase : Phases, next : Nodes, gate : Specs \cup {None},
             outcome : Outcomes, pid : Pids \cup {None}]

\* Every variable keeps its type.
TypeOK ==
    /\ record \in RecordType
    /\ specs \in [Revisions -> Specs \cup {None}]
    /\ outputs \in [Runs -> OutputType]
    /\ children \in [Pids -> ChildType]
    /\ ckpt \in CkptType
    /\ proc \in ProcType
    /\ recorder \subseteq Answers
    /\ life \in 0 .. MaxLives
    /\ approved \in SUBSET Specs

\* No training subprocess is ever started for a submission no human approved,
\* through any sequence of edits, crashes, resumes and repeated invocations
\* (the RUN_SUBMISSION gate and _approved_spec).
StartedOnlyIfApproved ==
    \A pid \in Pids : children[pid].stage # "UNUSED" => children[pid].wanted \in approved

\* At most one subprocess writes into a run directory, also when an orphan of a
\* crashed process races the subprocess its re-executed node starts.
OneWriter ==
    \A p, q \in Pids :
        /\ children[p].stage \in {"WRITING", "LOGGING"}
        /\ children[q].stage \in {"WRITING", "LOGGING"}
        /\ children[p].run = children[q].run
        => p = q

\* A recorded run result always stands on complete outputs that the very spec
\* under the record's approval produced: reuse, orphans and repeated invocations
\* of one workflow_id never hand a result of another spec to the workflow.
ResultsFromApprovedSpec ==
    \A role \in Roles :
        record.results[role] # None =>
            /\ record.results[role] = record.spec
            /\ record.spec \in approved
            /\ outputs[RunOf(record.spec, role)].stage = "COMPLETE"
            /\ outputs[RunOf(record.spec, role)].spec = record.spec

\* What the three invariants above rest on: an approving review names an approved
\* submission; a subprocess that writes finds the directory as it left it; and no
\* result exists while the submission may still change.
Evidence ==
    /\ \A review \in record.reviews : review.decision = "APPROVE" => review.subject \in approved
    /\ \A pid \in Pids :
        /\ children[pid].stage = "WRITING" => outputs[children[pid].run].stage = "EMPTY"
        /\ children[pid].stage = "LOGGING" => outputs[children[pid].run].stage = "MANIFEST"
    /\ record.status \in {"ABSENT", "INPUT_VALIDATED", "AWAITING_APPROVAL", "EDIT_REQUESTED",
                          "REJECTED"}
          => \A role \in Roles : record.results[role] = None

\* A run directory only ever advances, and what produced it never changes.
Rank == [ABSENT |-> 0, EMPTY |-> 1, MANIFEST |-> 2, COMPLETE |-> 3]
OutputsWriteOnce ==
    [][\A run \in Runs :
          /\ Rank[outputs[run].stage] <= Rank[outputs'[run].stage]
          /\ outputs[run].spec # None => outputs'[run].spec = outputs[run].spec]_outputs

\* Between two invocations from START the evidence only grows: a review is
\* never dropped, a result never withdrawn, and the revision moves by one, and
\* only after an EDIT of the revision it leaves was recorded.
EvidenceGrows ==
    [][record' # Fresh /\ record.status # "ABSENT" =>
          /\ record.reviews \subseteq record'.reviews
          /\ \A role \in Roles :
                record.results[role] # None => record'.results[role] = record.results[role]
          /\ record.spec # None /\ record'.spec # record.spec =>
                /\ record'.spec.rev = record.spec.rev + 1
                /\ \E review \in record.reviews :
                      review.decision = "EDIT" /\ review.subject = record.spec]_record

\* The statuses the store may hold while the checkpoint is before a node: those
\* the node accepts, and those it writes itself before its checkpoint.
StatusesAt ==
    [freeze_submission |-> {"INPUT_VALIDATED", "AWAITING_APPROVAL", "FAILED"},
     training_gate     |-> {"AWAITING_APPROVAL", "RUNNING", "REJECTED", "EDIT_REQUESTED"},
     revise_submission |-> {"EDIT_REQUESTED", "AWAITING_APPROVAL", "FAILED"},
     run_baseline      |-> {"RUNNING", "CANCELLED", "FAILED"},
     run_candidate     |-> {"RUNNING", "CANCELLED", "FAILED"},
     collect_outputs   |-> {"RUNNING", "SUCCEEDED", "FAILED"}]

\* The store is at most one node ahead of the checkpoint and never behind it:
\* whatever the crashes, an ended graph and its record agree on how it ended.
StoreFollowsCheckpoint ==
    /\ ckpt.node \in DOMAIN StatusesAt => record.status \in StatusesAt[ckpt.node]
    /\ ckpt.node = "END" /\ ckpt.outcome # "INPUT_INVALID" => record.status = ckpt.outcome
    /\ ckpt.node \in {"run_candidate", "collect_outputs"} => record.results["BASELINE"] # None

\* A process that goes to run an approved submission brings its record to an end, or
\* raises, whatever the subprocess does and earlier lives left in its directory: it
\* never waits for a subprocess, or turns between its nodes, for ever.
ApprovedEnds ==
    proc.phase # "DOWN" /\ ckpt.node = "run_baseline"
        ~> record.status \in Ended \/ proc.phase \in {"DOWN", "RAISED"}

\* ControlledTrainingTool: "Execute one exact frozen run": the spec a subprocess
\* trains is the spec it was started for.
ExecutesExactRun ==
    \A pid \in Pids : children[pid].stage \in {"WRITING", "LOGGING", "EXIT_0"}
                        => children[pid].spec = children[pid].wanted
=============================================================================
