----------------------------- MODULE Adaptation -----------------------------
(***************************************************************************)
(* The adaptation workflow of one workflow_id: the graph of                *)
(* workflows/adaptation.py and nodes/adaptation.py, the JSON store, the    *)
(* patch tool and the smoke runner with the files they leave behind.       *)
(*                                                                         *)
(* A plan is a revision, whether the automatic repair touched it, and the  *)
(* content of its proposal.  compile_adaptation_config puts exactly these  *)
(* in the patched file, so the hash of a patch is the plan it was compiled *)
(* from.                                                                   *)
(***************************************************************************)
EXTENDS GraphRun, AdaptationPlanner, FiniteSets

CONSTANTS
    ApprovalIds,
    MaxRevision    \* bound: a human EDITs only below this revision

Revisions == 1 .. MaxRevision + 1
Plans == [rev : Revisions, repaired : BOOLEAN, content : Contents]
Traces == [tools : SUBSET RequiredPlannerTools, content : Contents]

ASSUME AdaptationAssumption ==
    /\ MaxRevision \in Nat \ {0}
    /\ None \notin Plans \cup Contents \cup ApprovalIds \cup Revisions \cup Traces

VARIABLES
    record,    \* adaptation.json
    trace,     \* planner-trace.json: the tools and the proposal of its loop
    plans,     \* the plan-r<revision>.json files
    patches,   \* the workspace, change.patch and manifest of a revision
    smokes     \* the smoke result of a revision

store == <<record, trace, plans, patches, smokes>>
planning == <<planner, trace>>
vars == <<store, planner, graphVars>>

Decisions == {"APPROVE", "EDIT", "REJECT"}
Answers == {answer \in [id : ApprovalIds, decision : Decisions, subject : Plans,
                        edit : Contents \cup {None}] :
              answer.edit # None => answer.decision = "EDIT"}
Reviews == [id : ApprovalIds, decision : Decisions, subject : Plans]
Nodes == {"START", "load_and_compare_inputs", "plan_adaptation", "generate_bounded_patch",
          "run_bounded_smoke", "repair_patch_once", "patch_acceptance_gate", "END"}
Statuses == {"ABSENT", "INPUT_VALIDATED", "PLANNED", "PATCHED", "REPAIRING",
             "AWAITING_APPROVAL", "ACCEPTED", "REJECTED", "FAILED"}

NoAttempt == [hash |-> None, smoke |-> "NONE"]
NoPatch == [stage |-> "ABSENT", hash |-> None]
NoRecord == [status |-> "ABSENT", plan |-> None, repairs |-> 0, gate |-> None,
             accepted |-> None, approval |-> None, reviews |-> {},
             attempts |-> [rev \in Revisions |-> NoAttempt]]
Fresh == [NoRecord EXCEPT !.status = "INPUT_VALIDATED"]
NoCarry == [gate |-> None, attempt |-> None]

Init ==
    /\ record = NoRecord
    /\ trace = None
    /\ planner = NoPlanner
    /\ plans = [rev \in Revisions |-> None]
    /\ patches = [rev \in Revisions |-> NoPatch]
    /\ smokes = [rev \in Revisions |-> NoAttempt]
    /\ GraphInit(NoCarry)

-----------------------------------------------------------------------------
\* _terminal_failure: a FAILED record without a gate, and the graph ends; its write may
\* be refused, and raises.
FailedRecord == [record EXCEPT !.status = "FAILED", !.gate = None]
EndsFailed == record' = FailedRecord /\ GoesTo("END", NoCarry)
Fails == EndsFailed \/ (UNCHANGED record /\ Raises)

Carrying(gate, attempt) == [gate |-> gate, attempt |-> attempt]

LoadAndCompareInputs ==
    /\ At("load_and_compare_inputs")
    /\ \/ record' = Fresh /\ GoesTo("plan_adaptation", NoCarry)
       \/ /\ record' \in {[NoRecord EXCEPT !.status = "FAILED"], record}
          /\ GoesTo("END", NoCarry)
    /\ UNCHANGED <<planning, plans, patches, smokes, recorder>>

WritePlan(plan) == plans' = [plans EXCEPT ![plan.rev] = plan]

CanPlan == At("plan_adaptation") /\ record.status = "INPUT_VALIDATED"

\* plan_adaptation reads its facts again, which may fail, and runs the planner.
BeginPlanning ==
    /\ CanPlan
    /\ planner.phase = "OFF"
    /\ \/ PlannerStart /\ UNCHANGED <<record, ckpt, proc, life, invocations>>
       \/ UNCHANGED planner /\ Fails
    /\ UNCHANGED <<trace, plans, patches, smokes, recorder>>

RunPlanner == CanPlan /\ PlannerStep /\ UNCHANGED <<store, graphVars>>

PlannerFailed ==
    /\ CanPlan
    /\ planner.phase = "FAILED"
    /\ planner' = NoPlanner
    /\ Fails
    /\ UNCHANGED <<trace, plans, patches, smokes, recorder>>

Planned(content) == [rev |-> 1, repaired |-> FALSE, content |-> content]
Traced(content) == [tools |-> planner.executed, content |-> content]

\* Mutant: the trace is written last, when the record names it already.
PlanAdaptation_TraceLast(content) ==
    /\ CanPlan
    /\ planner.phase = "DONE"
    /\ planner.proposal = {content}
    /\ planner' = NoPlanner
    /\ WritePlan(Planned(content))
    /\ record' = [record EXCEPT !.status = "PLANNED", !.plan = 1]
    /\ \/ /\ trace' = Traced(content)
          /\ GoesTo("generate_bounded_patch", NoCarry)
          /\ UNCHANGED recorder
       \/ UNCHANGED trace /\ StopsShort
    /\ UNCHANGED <<patches, smokes>>

\* The compiler takes the proposal: the trace, the plan and the record are written
\* in this order.
PlanAdaptation(content) ==
    /\ CanPlan
    /\ planner.phase = "DONE"
    /\ planner.proposal = {content}
    /\ planner' = NoPlanner
    /\ \/ /\ trace' = Traced(content)
          /\ WritePlan(Planned(content))
          /\ record' = [record EXCEPT !.status = "PLANNED", !.plan = 1]
          /\ GoesTo("generate_bounded_patch", NoCarry)
          /\ UNCHANGED recorder
       \/ /\ trace' = Traced(content)
          /\ WritePlan(Planned(content)) \/ UNCHANGED plans
          /\ \/ UNCHANGED record /\ StopsShort
             \/ Fails /\ UNCHANGED recorder
       \/ UNCHANGED <<trace, plans>> /\ Fails /\ UNCHANGED recorder    \* not written at all
    /\ UNCHANGED <<patches, smokes>>

CanGenerate == record.status = "PLANNED" /\ record.plan # None

Patched(patch) ==
    /\ record' = [record EXCEPT !.status = "PATCHED", !.gate = None, !.accepted = None,
                    !.approval = None,
                    !.attempts[patch.rev] = [hash |-> patch, smoke |-> "NONE"]]
    /\ GoesTo("run_bounded_smoke", Carrying(ckpt.carry.gate, patch.rev))

LeavesPatch(rev, stage, hash) ==
    patches' = [patches EXCEPT ![rev] = [stage |-> stage, hash |-> hash]]

\* Mutant: the patch tool makes the patch again over what is there.
GenerateBoundedPatch_Overwrites ==
    /\ At("generate_bounded_patch")
    /\ CanGenerate
    /\ LeavesPatch(record.plan, "DONE", plans[record.plan])
    /\ Patched(plans[record.plan])
    /\ UNCHANGED <<planning, plans, smokes, recorder>>

\* FixturePatchTool.apply: a manifest that is there is reused unless it conflicts
\* in base commit, plan id or revision, which a plan of other inputs may do; a
\* workspace without a manifest is refused; otherwise the patch is made.
GenerateBoundedPatch ==
    /\ At("generate_bounded_patch")
    /\ CanGenerate
    /\ LET plan == plans[record.plan]
           patch == patches[record.plan]
       IN
       \/ /\ patch.stage = "DONE"
          /\ \/ Patched(patch.hash) /\ UNCHANGED recorder
             \/ patch.hash # plan /\ Fails /\ UNCHANGED recorder
             \/ UNCHANGED record /\ StopsShort
          /\ UNCHANGED patches
       \/ /\ patch.stage = "WORKSPACE"
          /\ Fails
          /\ UNCHANGED <<patches, recorder>>
       \/ /\ patch.stage = "ABSENT"
          /\ \/ /\ LeavesPatch(plan.rev, "DONE", plan)
                /\ Patched(plan)
                /\ UNCHANGED recorder
             \/ /\ \/ LeavesPatch(plan.rev, "DONE", plan)
                   \/ LeavesPatch(plan.rev, "WORKSPACE", None)
                   \/ UNCHANGED patches
                /\ Fails
                /\ UNCHANGED recorder
             \/ /\ \/ LeavesPatch(plan.rev, "DONE", plan)
                   \/ LeavesPatch(plan.rev, "WORKSPACE", None)
                /\ UNCHANGED record
                /\ StopsShort
    /\ UNCHANGED <<planning, plans, smokes>>

Attempt == record.attempts[ckpt.carry.attempt]

CanSmoke ==
    /\ record.status = "PATCHED"
    /\ ckpt.carry.attempt # None
    /\ Attempt # NoAttempt

\* Mutant: the count of repairs is not looked at.
Smoked_Unbounded(patch, result) ==
    LET tried == [record EXCEPT !.attempts[patch.rev].smoke = result]
    IN  \/ /\ result = "PASSED"
           /\ record' = [tried EXCEPT !.status = "AWAITING_APPROVAL", !.gate = patch]
           /\ GoesTo("patch_acceptance_gate", Carrying(patch, patch.rev))
        \/ /\ result = "FAILED"
           /\ record' = [tried EXCEPT !.status = "REPAIRING"]
           /\ GoesTo("repair_patch_once", ckpt.carry)

\* Mutant: whatever the smoke says after the repair goes to the human.
Smoked_Optimistic(patch, result) ==
    LET tried == [record EXCEPT !.attempts[patch.rev].smoke = result]
    IN  \/ /\ result = "PASSED" \/ record.repairs # 0
           /\ record' = [tried EXCEPT !.status = "AWAITING_APPROVAL", !.gate = patch]
           /\ GoesTo("patch_acceptance_gate", Carrying(patch, patch.rev))
        \/ /\ result = "FAILED"
           /\ record.repairs = 0
           /\ record' = [tried EXCEPT !.status = "REPAIRING"]
           /\ GoesTo("repair_patch_once", ckpt.carry)

\* The result of a finished smoke decides between gate, the one repair and failure.
Smoked(patch, result) ==
    LET tried == [record EXCEPT !.attempts[patch.rev].smoke = result]
    IN  \/ /\ result = "PASSED"
           /\ record' = [tried EXCEPT !.status = "AWAITING_APPROVAL", !.gate = patch]
           /\ GoesTo("patch_acceptance_gate", Carrying(patch, patch.rev))
        \/ /\ result = "FAILED"
           /\ record.repairs = 0
           /\ record' = [tried EXCEPT !.status = "REPAIRING"]
           /\ GoesTo("repair_patch_once", ckpt.carry)
        \/ /\ result = "FAILED"
           /\ record.repairs # 0
           /\ record' = [tried EXCEPT !.status = "FAILED", !.gate = None]
           /\ GoesTo("END", NoCarry)

\* FixtureSmokeRunner.run reuses a result of the same patch; the stages of a new
\* one pass or fail, and the tool itself may fail before it has a result.
RunBoundedSmoke ==
    /\ At("run_bounded_smoke")
    /\ CanSmoke
    /\ LET patch == patches[ckpt.carry.attempt].hash
           kept == smokes[patch.rev]
       IN
       \/ /\ kept # NoAttempt
          /\ IF kept.hash = patch THEN Smoked(patch, kept.smoke) ELSE Fails
          /\ UNCHANGED <<smokes, recorder>>
       \/ /\ kept = NoAttempt
          /\ \E result \in {"PASSED", "FAILED"} :
              /\ smokes' = [smokes EXCEPT ![patch.rev] = [hash |-> patch, smoke |-> result]]
              /\ \/ (Smoked(patch, result) \/ Fails) /\ UNCHANGED recorder
                 \/ UNCHANGED record /\ StopsShort
       \/ Fails /\ UNCHANGED <<smokes, recorder>>
    /\ UNCHANGED <<planning, plans, patches>>

FailedAttempts == {rev \in Revisions : /\ record.attempts[rev].smoke = "FAILED"
                                       /\ smokes[rev].smoke = "FAILED"}

CanRepair ==
    /\ record.status = "REPAIRING"
    /\ record.repairs = 0
    /\ record.plan # None
    /\ FailedAttempts # {}

\* Mutant: the repair smokes the same patch again.
RepairPatchOnce_Resmokes ==
    /\ At("repair_patch_once")
    /\ CanRepair
    /\ record' = [record EXCEPT !.status = "PATCHED"]
    /\ GoesTo("run_bounded_smoke", ckpt.carry)
    /\ UNCHANGED <<planning, plans, patches, smokes, recorder>>

\* The edge after this node is unconditional: a repair that fails still goes to
\* generate_bounded_patch, which refuses a FAILED record.
RepairPatchOnce ==
    /\ At("repair_patch_once")
    /\ CanRepair
    /\ LET plan == plans[record.plan]
           repaired == [plan EXCEPT !.rev = @ + 1, !.repaired = TRUE]
       IN
       \/ /\ ~plan.repaired
          /\ WritePlan(repaired)
          /\ \/ /\ record' = [record EXCEPT !.status = "PLANNED", !.plan = repaired.rev,
                                            !.repairs = 1]
                /\ GoesTo("generate_bounded_patch", NoCarry)
                /\ UNCHANGED recorder
             \/ UNCHANGED record /\ StopsShort
       \/ /\ \/ /\ record' = FailedRecord   \* repaired before, or a file is refused
                /\ GoesTo("generate_bounded_patch", ckpt.carry)
             \/ UNCHANGED record /\ Raises
          /\ (~plan.repaired /\ WritePlan(repaired)) \/ UNCHANGED plans
          /\ UNCHANGED recorder
    /\ UNCHANGED <<planning, patches, smokes>>

-----------------------------------------------------------------------------
\* patch_acceptance_gate, at the decision: it runs again from its start then.
GateMatches ==
    /\ record.status = "AWAITING_APPROVAL"
    /\ record.gate # None
    /\ record.plan # None
    /\ ckpt.carry.gate = record.gate
    /\ record.attempts[record.gate.rev] = [hash |-> record.gate, smoke |-> "PASSED"]
    /\ smokes[record.gate.rev] = [hash |-> record.gate, smoke |-> "PASSED"]

Targets(answer) == answer.subject = record.gate

\* Mutant: only the last review is kept.
Reviewed_LastOnly(answer, status) ==
    [record EXCEPT !.status = status, !.approval = answer.id,
        !.reviews = {[id |-> answer.id, decision |-> answer.decision,
                      subject |-> answer.subject]}]

Reviewed(answer, status) ==
    [record EXCEPT !.status = status, !.approval = answer.id,
        !.reviews = @ \cup {[id |-> answer.id, decision |-> answer.decision,
                             subject |-> answer.subject]}]

\* APPROVE and REJECT: the recorder first, then the record, which may be refused.
GateDecides(answer) ==
    /\ At("patch_acceptance_gate")
    /\ GateMatches
    /\ Targets(answer)
    /\ answer.decision # "EDIT"
    /\ Accepts(answer)
    /\ Keeps(answer)
    /\ \/ /\ answer.decision = "REJECT"
          /\ record' = Reviewed(answer, "REJECTED")
          /\ GoesTo("END", NoCarry)
       \/ /\ answer.decision = "APPROVE"
          /\ record' = [Reviewed(answer, "ACCEPTED") EXCEPT !.accepted = record.gate]
          /\ GoesTo("END", NoCarry)
       \/ UNCHANGED record /\ Raises
    /\ UNCHANGED <<planning, plans, patches, smokes>>

\* Mutant: the edit changes the plan in place.
GateEdits_InPlace(answer) ==
    /\ At("patch_acceptance_gate")
    /\ GateMatches
    /\ Targets(answer)
    /\ answer.decision = "EDIT" /\ answer.edit # None
    /\ Accepts(answer)
    /\ Keeps(answer)
    /\ WritePlan([plans[record.plan] EXCEPT !.content = answer.edit])
    /\ record' = [Reviewed(answer, "PLANNED") EXCEPT !.gate = None, !.accepted = None,
                                                      !.approval = None]
    /\ GoesTo("generate_bounded_patch", NoCarry)
    /\ UNCHANGED <<planning, patches, smokes>>

\* EDIT: the next plan is on disk before the recorder may refuse the approval.
GateEdits(answer) ==
    /\ At("patch_acceptance_gate")
    /\ GateMatches
    /\ Targets(answer)
    /\ answer.decision = "EDIT" /\ answer.edit # None
    /\ plans[record.plan].rev < MaxRevision
    /\ LET edited == [plans[record.plan] EXCEPT !.rev = @ + 1, !.content = answer.edit] IN
        /\ WritePlan(edited)
        /\ \/ /\ Accepts(answer)
              /\ Keeps(answer)
              /\ \/ /\ record' = [Reviewed(answer, "PLANNED") EXCEPT
                                    !.plan = edited.rev, !.gate = None, !.accepted = None,
                                    !.approval = None]
                    /\ GoesTo("generate_bounded_patch", NoCarry)
                 \/ UNCHANGED record /\ Raises
           \/ ~Accepts(answer) /\ UNCHANGED record /\ Raises /\ UNCHANGED recorder
           \/ UNCHANGED record /\ Dies
    /\ UNCHANGED <<planning, patches, smokes>>

GateRaises(answer) ==
    /\ At("patch_acceptance_gate")
    /\ \/ ~GateMatches
       \/ ~Targets(answer)
       \/ answer.decision = "EDIT" /\ answer.edit = None      \* edits out of bounds
       \/ answer.decision # "EDIT" /\ ~Accepts(answer)
    /\ Raises
    /\ UNCHANGED <<store, planner, recorder>>

\* A node that finds the record in a status it does not accept.
NodeRaises ==
    /\ \/ At("plan_adaptation") /\ record.status # "INPUT_VALIDATED"
       \/ At("generate_bounded_patch") /\ ~CanGenerate
       \/ At("run_bounded_smoke") /\ ~CanSmoke
       \/ At("repair_patch_once") /\ ~CanRepair
    /\ Raises
    /\ UNCHANGED <<store, planner, recorder>>

-----------------------------------------------------------------------------
Commit == GraphCommit /\ UNCHANGED <<store, planner>>
Invoke == GraphInvoke("load_and_compare_inputs", NoCarry) /\ UNCHANGED <<store, planner>>
Resume == GraphResume /\ UNCHANGED <<store, planner>>
Retry == GraphRetry /\ UNCHANGED <<store, planner>>
Crash == GraphCrash /\ planner' = NoPlanner /\ UNCHANGED store

Work ==
    \/ Commit \/ LoadAndCompareInputs
    \/ BeginPlanning \/ RunPlanner \/ PlannerFailed
    \/ \E content \in Contents : PlanAdaptation(content)
    \/ GenerateBoundedPatch \/ RunBoundedSmoke \/ RepairPatchOnce \/ NodeRaises

Next ==
    \/ Invoke \/ Resume \/ Retry \/ Crash
    \/ Work
    \/ \E answer \in Answers : GateDecides(answer) \/ GateEdits(answer) \/ GateRaises(answer)

Spec == Init /\ [][Next]_vars
FairSpec == Spec /\ WF_vars(Work)

-----------------------------------------------------------------------------
\* What waits at the gate, or was accepted there, is a patch on disk that passed
\* its own smoke, whatever was edited, repaired, reused or interrupted before
\* ("Interrupt on an exact smoke-passed patch").
GatedPatchPassed ==
    record.status \in {"AWAITING_APPROVAL", "ACCEPTED"} =>
        /\ record.gate # None
        /\ patches[record.gate.rev] = [stage |-> "DONE", hash |-> record.gate]
        /\ smokes[record.gate.rev] = [hash |-> record.gate, smoke |-> "PASSED"]
        /\ record.status = "ACCEPTED" => record.accepted = record.gate

\* The plan of a record is the one its trace is about, with every observation made
\* and the proposal validated, whichever planning was interrupted or repeated
\* ("planner trace must contain every required tool").
PlanIsTraced ==
    record.plan # None =>
        /\ trace # None
        /\ trace.tools = RequiredPlannerTools
        /\ trace.content = plans[1].content

\* Every revision after the first is accounted for in the record, by the repair
\* or by one EDIT review: no crash or retry consumes or repeats a revision.
RevisionsAccounted ==
    record.plan # None =>
        record.plan = 1 + record.repairs
            + Cardinality({review \in record.reviews : review.decision = "EDIT"})

\* After its repair an invocation never repairs again, also not for a patch a
\* human edited ("the sole deterministic repair").
RepairedOnce ==
    [][record' # Fresh /\ (record.repairs = 1 \/ record.status = "FAILED") =>
          /\ record'.status # "REPAIRING"
          /\ record'.repairs = record.repairs \/ record'.status = "FAILED"]_record

\* A patch and a smoke result are never replaced, also not by a later invocation
\* of the same workflow ("Immutable evidence for one deterministic patch revision").
EvidenceImmutable ==
    [][\A rev \in Revisions :
          /\ patches[rev].stage = "DONE" => patches'[rev] = patches[rev]
          /\ smokes[rev] # NoAttempt => smokes'[rev] = smokes[rev]]_<<patches, smokes>>

\* The gate shows one plan and one patch: in the first invocation the patch is the
\* one of that plan.  (A later one plans again and finds the first patch in place.)
GatedPatchIsThePlans ==
    record.status = "AWAITING_APPROVAL" /\ invocations = 1 => record.gate = plans[record.plan]

\* A process that keeps running comes to the gate, to an end, or raises.
Settles ==
    proc.phase = "READY"
        ~> ckpt.node \in {"patch_acceptance_gate", "END"} \/ proc.phase \in {"RAISED", "DOWN"}
=============================================================================
