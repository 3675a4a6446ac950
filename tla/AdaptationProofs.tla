-------------------------- MODULE AdaptationProofs --------------------------
(***************************************************************************)
(* Theorems about Adaptation, for every set of proposals and of approval   *)
(* ids, any bound on the revisions, and any number of invocations and of   *)
(* processes, each of which may die at every write.                        *)
(***************************************************************************)
EXTENDS Adaptation, FiniteSetTheorems, TLAPS

-----------------------------------------------------------------------------
(***************************************************************************)
(* The inductive invariant.                                                *)
(***************************************************************************)
Ahead == Nodes \ {"START", "load_and_compare_inputs"}

Attempts == [hash : Plans \cup {None}, smoke : {"NONE", "PASSED", "FAILED"}]

Patches == [stage : {"ABSENT", "WORKSPACE", "DONE"}, hash : Plans \cup {None}]

Carries == [gate : Plans \cup {None}, attempt : Revisions \cup {None}]

RecordType == [status : Statuses, plan : Revisions \cup {None}, repairs : {0, 1},
               gate : Plans \cup {None}, accepted : Plans \cup {None},
               approval : ApprovalIds \cup {None}, reviews : SUBSET Reviews,
               attempts : [Revisions -> Attempts]]

PlannerType == [phase : {"OFF", "MODEL", "DONE", "FAILED"}, turns : Nat,
                executed : SUBSET RequiredPlannerTools, proposal : SUBSET Contents]

Graph == GraphType(Nodes, Carries, Answers)

Typed ==
    /\ record \in RecordType
    /\ trace \in Traces \cup {None}
    /\ planner \in PlannerType
    /\ plans \in [Revisions -> Plans \cup {None}]
    /\ patches \in [Revisions -> Patches]
    /\ smokes \in [Revisions -> Attempts]
    /\ Graph

\* A loop that is over has called every required tool.
PlannedInFull == planner.phase = "DONE" => planner.executed = RequiredPlannerTools

Edits(reviews) == {review \in reviews : review.decision = "EDIT"}

\* What the record says of itself: each EDIT review is of a revision before the plan.
Counted ==
    /\ record.status = "INPUT_VALIDATED" => record = Fresh
    /\ record.plan # None /\ record.repairs = 0 => record.plan <= MaxRevision
    /\ RevisionsAccounted
    /\ IsFiniteSet(record.reviews)
    /\ \A review \in Edits(record.reviews) : record.plan # None /\ review.subject.rev < record.plan
    /\ record.status = "AWAITING_APPROVAL" =>
          record.plan # None /\ record.gate # None /\ record.gate.rev = record.plan

PlanStands ==
    /\ \A rev \in Revisions : plans[rev] # None => plans[rev].rev = rev
    /\ record.plan # None => plans[record.plan] # None
    /\ PlanIsTraced

\* A smoke result is of the patch of its revision.
EvidenceStands ==
    /\ \A rev \in Revisions : patches[rev].stage = "DONE" =>
          patches[rev].hash # None /\ patches[rev].hash.rev = rev
    /\ \A rev \in Revisions : smokes[rev] # NoAttempt =>
          patches[rev].stage = "DONE" /\ smokes[rev].hash = patches[rev].hash
    /\ GatedPatchPassed

Carried(node, carry) ==
    /\ carry.attempt # None => patches[carry.attempt].stage = "DONE"
    /\ node = "run_bounded_smoke" /\ record.status = "PATCHED" => carry.attempt = record.plan

Returning == [node : Ahead, carry : Carries]

Promised == proc.phase = "WROTE" => proc.to \in Returning /\ Carried(proc.to.node, proc.to.carry)

\* What a checkpoint carries is of the patch that was made last.
Driven ==
    /\ Carried(ckpt.node, ckpt.carry)
    /\ Promised
    /\ ckpt.node = "START" => proc.phase = "DOWN"
    /\ invocations = 0 => ckpt.node = "START"

NothingPatched == \A rev \in Revisions : patches[rev].stage # "DONE"

\* In a first invocation every patch is of the plan of its revision.
First ==
    invocations <= 1 =>
        /\ ckpt.node \in {"START", "load_and_compare_inputs", "plan_adaptation"} => NothingPatched
        /\ proc.phase = "WROTE" /\ proc.to.node = "plan_adaptation" => NothingPatched
        /\ \A rev \in Revisions : patches[rev].stage = "DONE" =>
              record.plan # None /\ rev <= record.plan /\ patches[rev].hash = plans[rev]

Sound == Typed /\ PlannedInFull /\ Counted /\ PlanStands /\ EvidenceStands /\ Driven /\ First

-----------------------------------------------------------------------------
(***************************************************************************)
(* How the graph moves.                                                    *)
(***************************************************************************)
\* The thread stays at its checkpoint: the node has returned, or it has not.
Returned(node, carry) ==
    /\ Graph'
    /\ ckpt' = ckpt /\ invocations' = invocations
    /\ proc'.phase = "WROTE" /\ proc'.to = [node |-> node, carry |-> carry]

Stopped ==
    /\ Graph'
    /\ ckpt' = ckpt /\ invocations' = invocations
    /\ proc'.phase \in {"RAISED", "DOWN"}

LEMMA Returns ==
  ASSUME Graph, NEW node \in Nodes, NEW carry \in Carries, GoesTo(node, carry), recorder' \subseteq Answers
  PROVE  Returned(node, carry)
<1>1. proc' = [phase |-> "WROTE", to |-> [node |-> node, carry |-> carry]] /\ UNCHANGED <<ckpt, life, invocations>>
  BY DEF GoesTo
<1>2. Graph'
  BY <1>1 DEF Graph, GraphType
<1> QED
  BY <1>1, <1>2 DEF Returned

LEMMA Stops ==
  ASSUME Graph, Raises \/ Dies \/ StopsShort, recorder' \subseteq Answers
  PROVE  Stopped
  BY DEF Raises, Dies, StopsShort, Idle, Graph, GraphType, Stopped

LEMMA NoCarryTyped == NoCarry \in Carries /\ NoCarry.attempt = None
  BY DEF NoCarry, Carries

LEMMA EndsThere ==
  ASSUME Graph, GoesTo("END", NoCarry), UNCHANGED recorder
  PROVE  Returned("END", NoCarry)
<1>1. recorder' \subseteq Answers
  BY DEF Graph, GraphType
<1> QED
  BY <1>1, Returns, NoCarryTyped DEF Nodes

-----------------------------------------------------------------------------
(***************************************************************************)
(* What keeps the parts of the invariant.                                  *)
(***************************************************************************)
LEMMA NoRecordTyped == NoRecord \in RecordType
<1>1. NoAttempt \in Attempts
  BY DEF NoAttempt, Attempts
<1> QED
  BY <1>1 DEF NoRecord, RecordType, Statuses

\* A record whose plan, repairs and reviews stay is counted as before.
LEMMA CountKept ==
  ASSUME Typed, Counted, record' \in RecordType,
         record'.plan = record.plan, record'.repairs = record.repairs, record'.reviews = record.reviews,
         record'.status \notin {"INPUT_VALIDATED", "AWAITING_APPROVAL"}
  PROVE  Counted'
  BY DEF Counted, RevisionsAccounted

LEMMA FailedCounted ==
  ASSUME Typed, Counted, record' = FailedRecord
  PROVE  /\ record' \in RecordType /\ Counted'
         /\ record'.plan = record.plan /\ record'.status = "FAILED" /\ record'.repairs = record.repairs
<1>1. /\ record' \in RecordType
      /\ record'.plan = record.plan /\ record'.repairs = record.repairs
      /\ record'.reviews = record.reviews /\ record'.status = "FAILED"
  BY DEF FailedRecord, Typed, RecordType, Statuses
<1> QED
  BY <1>1, CountKept

\* A plan that is written leaves the plans that are written standing.
LEMMA WritesOnePlan ==
  ASSUME Typed, PlanStands, NEW plan \in Plans, WritePlan(plan)
  PROVE  /\ plans' \in [Revisions -> Plans \cup {None}]
         /\ plans'[plan.rev] = plan
         /\ \A rev \in Revisions \ {plan.rev} : plans'[rev] = plans[rev]
         /\ \A rev \in Revisions : plans'[rev] # None => plans'[rev].rev = rev
<1>1. plan.rev \in Revisions
  BY DEF Plans
<1>2. /\ plans' \in [Revisions -> Plans \cup {None}]
      /\ plans'[plan.rev] = plan
      /\ \A rev \in Revisions \ {plan.rev} : plans'[rev] = plans[rev]
  BY <1>1 DEF WritePlan, Typed
<1> QED
  BY <1>1, <1>2 DEF PlanStands

\* The plan of the record stays, and so do those of the revisions before it.
WritesAhead ==
    \/ UNCHANGED plans
    \/ \E plan \in Plans : WritePlan(plan) /\ (record.plan # None => plan.rev > record.plan)

LEMMA PlanKept ==
  ASSUME Typed, PlanStands, record'.plan \in {record.plan, None}, WritesAhead,
         record'.plan # None => UNCHANGED trace
  PROVE  plans' \in [Revisions -> Plans \cup {None}] /\ PlanStands'
<1>0. 1 \in Revisions /\ record.plan \in Revisions \cup {None} /\ \A rev \in Revisions : rev \in Nat /\ rev >= 1
  BY AdaptationAssumption DEF Revisions, Typed, RecordType
<1>1. CASE UNCHANGED plans
  BY <1>1 DEF Typed, PlanStands, PlanIsTraced
<1>2. ASSUME NEW plan \in Plans, WritePlan(plan), record.plan # None => plan.rev > record.plan
      PROVE  plans' \in [Revisions -> Plans \cup {None}] /\ PlanStands'
  <2>1. /\ plans' \in [Revisions -> Plans \cup {None}]
        /\ plans'[plan.rev] = plan
        /\ \A rev \in Revisions \ {plan.rev} : plans'[rev] = plans[rev]
        /\ \A rev \in Revisions : plans'[rev] # None => plans'[rev].rev = rev
    BY <1>2, WritesOnePlan
  <2>0. plan.rev \in Revisions /\ (record.plan # None => plan.rev # 1 /\ plan.rev # record.plan)
    BY <1>0, <1>2 DEF Plans
  <2>2. record'.plan # None => plans'[record'.plan] # None
    BY <1>0, <2>0, <2>1 DEF PlanStands
  <2>3. PlanIsTraced'
    BY <1>0, <2>0, <2>1 DEF PlanStands, PlanIsTraced
  <2> QED
    BY <2>1, <2>2, <2>3 DEF PlanStands
<1> QED
  BY <1>1, <1>2 DEF WritesAhead

\* A patch or a smoke result that is there stays.
Kept ==
    \A rev \in Revisions :
        /\ patches[rev].stage = "DONE" => patches'[rev] = patches[rev]
        /\ smokes[rev] # NoAttempt => smokes'[rev] = smokes[rev]

LEMMA DrivenKept ==
  ASSUME Typed, Driven, Kept, ckpt.node # "START",
         record' = record \/ record'.status # "PATCHED" \/ ckpt.node # "run_bounded_smoke",
         \/ Stopped
         \/ \E node \in Ahead, carry \in Carries :
               Returned(node, carry) /\ Carried(node, carry)'
  PROVE  Driven'
<1>1. ckpt' = ckpt /\ invocations' = invocations
  BY DEF Stopped, Returned
<1>2. ckpt.carry.attempt \in Revisions \cup {None}
  BY DEF Typed, Graph, GraphType, Carries
<1>3. Carried(ckpt.node, ckpt.carry)'
  BY <1>1, <1>2 DEF Driven, Carried, Kept
<1>4. Promised'
  <2>1. CASE Stopped
    BY <2>1 DEF Stopped, Promised
  <2>2. ASSUME NEW node \in Ahead, NEW carry \in Carries, Returned(node, carry), Carried(node, carry)'
        PROVE  Promised'
    <3>1. proc'.to = [node |-> node, carry |-> carry]
      BY <2>2 DEF Returned
    <3> QED
      BY <2>2, <3>1 DEF Promised, Carried, Returning
  <2> QED
    BY <2>1, <2>2
<1> QED
  BY <1>1, <1>3, <1>4 DEF Driven, Carried

\* Where patches, smoke results and the gate stay, they stand; so they do under a
\* record that neither awaits approval nor was accepted.
LEMMA EvidenceKept ==
  ASSUME EvidenceStands, UNCHANGED <<patches, smokes>>,
         record' = record \/ record'.status \notin {"AWAITING_APPROVAL", "ACCEPTED"}
  PROVE  EvidenceStands'
  BY DEF EvidenceStands, GatedPatchPassed

\* Past the planning of a first invocation, patches are of the plans as long as the
\* plans that are written are of revisions to come.
LEMMA FirstKept ==
  ASSUME Typed, First, UNCHANGED patches, invocations' = invocations, ckpt' = ckpt,
         proc'.phase = "WROTE" => proc'.to.node # "plan_adaptation",
         record'.plan = record.plan \/ NothingPatched,
         WritesAhead \/ NothingPatched
  PROVE  First'
<1>1. CASE NothingPatched
  BY <1>1 DEF First, NothingPatched
<1>2. CASE UNCHANGED plans /\ record'.plan = record.plan
  BY <1>2 DEF First, NothingPatched
<1>3. ASSUME NEW plan \in Plans, WritePlan(plan), record.plan # None => plan.rev > record.plan,
             record'.plan = record.plan
      PROVE  First'
  <2>1. record.plan \in Revisions \cup {None} /\ plan.rev \in Revisions /\ Revisions \subseteq Nat
    BY AdaptationAssumption DEF Revisions, Typed, RecordType, Plans
  <2>2. \A rev \in Revisions \ {plan.rev} : plans'[rev] = plans[rev]
    BY <1>3, <2>1 DEF WritePlan, Typed
  <2>3. ASSUME NEW rev \in Revisions, patches[rev].stage = "DONE", invocations <= 1
        PROVE  plans'[rev] = plans[rev]
    <3>1. record.plan # None /\ rev <= record.plan
      BY <2>3 DEF First
    <3>2. rev \in Nat /\ plan.rev \in Nat /\ record.plan \in Nat
      BY <2>1, <3>1
    <3>3. rev # plan.rev
      BY <1>3, <3>1, <3>2
    <3> QED
      BY <2>2, <3>3
  <2> QED
    BY <1>3, <2>3 DEF First, NothingPatched
<1> QED
  BY <1>1, <1>2, <1>3 DEF WritesAhead

-----------------------------------------------------------------------------
(***************************************************************************)
(* The nodes.                                                              *)
(***************************************************************************)
\* A node that fails, whatever plan it has written for a revision to come.
LEMMA FailsSound ==
  ASSUME Sound, record' = FailedRecord, UNCHANGED <<patches, smokes>>,
         trace' = trace \/ (record.plan = None /\ trace' \in Traces),
         planner' \in {planner, NoPlanner},
         ckpt.node \notin {"START", "load_and_compare_inputs"},
         WritesAhead,
         NEW node \in Ahead \ {"plan_adaptation"}, NEW carry \in Carries,
         Returned(node, carry), Carried(node, carry)
  PROVE  Sound'
<1>1. /\ record' \in RecordType /\ Counted'
      /\ record'.plan = record.plan /\ record'.status = "FAILED"
  BY FailedCounted DEF Sound
<1>3. plans' \in [Revisions -> Plans \cup {None}] /\ PlanStands'
  BY <1>1, PlanKept DEF Sound
<1>4. Typed' /\ PlannedInFull'
  <2>1. NoPlanner \in PlannerType /\ NoPlanner.phase = "OFF"
    BY DEF NoPlanner, PlannerType
  <2> QED
    BY <1>1, <1>3, <2>1 DEF Sound, Typed, PlannedInFull, Returned
<1>5. EvidenceStands'
  BY <1>1, EvidenceKept DEF Sound
<1>6. Driven'
  <2>1. Kept /\ Carried(node, carry)'
    BY <1>1 DEF Kept, Carried
  <2> QED
    BY <1>1, <2>1, DrivenKept DEF Sound
<1>7. First'
  <2>1. proc'.to.node # "plan_adaptation" /\ ckpt' = ckpt /\ invocations' = invocations
    BY DEF Returned
  <2> QED
    BY <1>1, <2>1, FirstKept DEF Sound
<1> QED
  BY <1>1, <1>3, <1>4, <1>5, <1>6, <1>7 DEF Sound

LEMMA FailsToTheEnd ==
  ASSUME Sound, EndsFailed, UNCHANGED <<patches, smokes, recorder>>,
         trace' = trace \/ (record.plan = None /\ trace' \in Traces),
         planner' \in {planner, NoPlanner},
         ckpt.node \notin {"START", "load_and_compare_inputs"},
         WritesAhead
  PROVE  Sound'
<1>1. Returned("END", NoCarry) /\ record' = FailedRecord
  BY EndsThere DEF EndsFailed, Sound, Typed
<1>2. "END" \in Ahead \ {"plan_adaptation"}
  BY DEF Ahead, Nodes
<1>3. Carried("END", NoCarry)
  BY NoCarryTyped DEF Carried
<1> QED
  BY <1>1, <1>2, <1>3, NoCarryTyped, FailsSound

\* A node that raises or dies before its record, whatever plan of a revision to come,
\* patch or smoke result it leaves.
LEMMA StopsSound ==
  ASSUME Sound, Stopped, UNCHANGED <<record, patches, smokes>>,
         trace' = trace \/ (record.plan = None /\ trace' \in Traces),
         planner' \in {planner, NoPlanner},
         ckpt.node \notin {"START", "load_and_compare_inputs"},
         WritesAhead
  PROVE  Sound'
<1>2. plans' \in [Revisions -> Plans \cup {None}] /\ PlanStands'
  BY PlanKept DEF Sound
<1>3. Typed' /\ PlannedInFull'
  <2>1. NoPlanner \in PlannerType /\ NoPlanner.phase = "OFF"
    BY DEF NoPlanner, PlannerType
  <2> QED
    BY <1>2, <2>1 DEF Sound, Typed, PlannedInFull, Stopped
<1>4. EvidenceStands' /\ Counted'
  BY EvidenceKept DEF Sound, Counted, RevisionsAccounted
<1>5. Driven'
  <2>1. Kept
    BY DEF Kept
  <2> QED
    BY <2>1, DrivenKept DEF Sound
<1>6. First'
  BY FirstKept DEF Sound, Stopped
<1> QED
  BY <1>2, <1>3, <1>4, <1>5, <1>6 DEF Sound

\* A node that fails and records it, or raises when that is refused.
LEMMA FailsSomehow ==
  ASSUME Sound, Fails, UNCHANGED <<patches, smokes, recorder>>,
         trace' = trace \/ (record.plan = None /\ trace' \in Traces),
         planner' \in {planner, NoPlanner},
         ckpt.node \notin {"START", "load_and_compare_inputs"},
         WritesAhead
  PROVE  Sound'
<1>1. CASE EndsFailed
  BY <1>1, FailsToTheEnd
<1>2. CASE UNCHANGED record /\ Raises
  <2>1. Graph /\ recorder' \subseteq Answers
    BY DEF Sound, Typed, Graph, GraphType
  <2>2. Stopped
    BY <1>2, <2>1, Stops
  <2> QED
    BY <1>2, <2>2, StopsSound
<1> QED
  BY <1>1, <1>2 DEF Fails

\* A fresh record, a failed one or the one of before: an invocation begins.
LEMMA FreshCounted ==
  ASSUME record' \in {Fresh, [NoRecord EXCEPT !.status = "FAILED"]}
  PROVE  /\ record' \in RecordType /\ Counted' /\ record'.plan = None
         /\ record'.status \in {"INPUT_VALIDATED", "FAILED"}
<1>1. /\ record' \in RecordType
      /\ record'.plan = None /\ record'.reviews = {} /\ record'.repairs = 0
      /\ record'.status \in {"INPUT_VALIDATED", "FAILED"}
      /\ record'.status = "INPUT_VALIDATED" => record' = Fresh
  BY NoRecordTyped DEF Fresh, NoRecord, RecordType, Statuses
<1>2. Counted'
  BY <1>1, FS_EmptySet DEF Counted, RevisionsAccounted, Edits, Fresh, NoRecord
<1> QED
  BY <1>1, <1>2

LEMMA LoadSound ==
  ASSUME Sound, LoadAndCompareInputs
  PROVE  Sound'
<1>1. /\ ckpt.node = "load_and_compare_inputs" /\ UNCHANGED <<planner, trace, plans, patches, smokes, recorder>>
      /\ record' \in {Fresh, [NoRecord EXCEPT !.status = "FAILED"], record}
  BY DEF LoadAndCompareInputs, At, planning
<1>2. \E node \in {"plan_adaptation", "END"} : Returned(node, NoCarry)
  <2>1. Graph /\ recorder' \subseteq Answers
    BY <1>1 DEF Sound, Typed, Graph, GraphType
  <2> QED
    BY <2>1, Returns, NoCarryTyped DEF LoadAndCompareInputs, Nodes
<1>3. record' \in RecordType /\ Counted' /\ record'.plan \in {record.plan, None}
  BY <1>1, FreshCounted DEF Sound, Typed, Counted, RevisionsAccounted
<1>4. plans' \in [Revisions -> Plans \cup {None}] /\ PlanStands'
  BY <1>1, <1>3, PlanKept DEF Sound, WritesAhead
<1>5. Typed' /\ PlannedInFull'
  BY <1>1, <1>2, <1>3 DEF Sound, Typed, PlannedInFull, Returned
<1>6. EvidenceStands'
  BY <1>1, FreshCounted, EvidenceKept DEF Sound
<1>7. Driven'
  <2>1. Kept /\ \A node \in {"plan_adaptation", "END"} : node \in Ahead /\ Carried(node, NoCarry)'
    BY <1>1, NoCarryTyped DEF Kept, Carried, Ahead, Nodes
  <2> QED
    BY <1>1, <1>2, <2>1, NoCarryTyped, DrivenKept DEF Sound
<1>8. First'
  BY <1>1, <1>2 DEF Sound, First, NothingPatched, Returned
<1> QED
  BY <1>3, <1>4, <1>5, <1>6, <1>7, <1>8 DEF Sound

\* The planner's own steps.
LEMMA PlannerStepTyped ==
  ASSUME planner \in PlannerType, PlannedInFull, PlannerStep \/ PlannerStart
  PROVE  planner' \in PlannerType /\ PlannedInFull'
<1>1. CASE PlannerStart
  BY <1>1 DEF PlannerStart, NoPlanner, PlannerType, PlannedInFull
<1>2. CASE PlannerEnds
  <2>1. planner' = [planner EXCEPT !.turns = planner.turns + 1, !.phase = "DONE"]
    BY <1>2 DEF PlannerEnds
  <2>2. planner.turns + 1 \in Nat
    BY DEF PlannerType
  <2>3. planner.executed = RequiredPlannerTools
    BY <1>2 DEF PlannerEnds, PlannerType
  <2> QED
    BY <2>1, <2>2, <2>3 DEF PlannerType, PlannedInFull
<1>3. CASE PlannerFails
  BY <1>3 DEF PlannerFails, PlannerType, PlannedInFull
<1>4. ASSUME NEW tool \in PlannerObservations, ObserveFacts(tool)
      PROVE  planner' \in PlannerType /\ PlannedInFull'
  <2>1. planner' = [planner EXCEPT !.turns = planner.turns + 1, !.executed = planner.executed \cup {tool}]
    BY <1>4 DEF ObserveFacts, Executed
  <2>2. planner.executed \cup {tool} \in SUBSET RequiredPlannerTools /\ planner.turns + 1 \in Nat
    BY DEF PlannerType, RequiredPlannerTools
  <2>3. planner.phase = "MODEL"
    BY <1>4 DEF ObserveFacts, PlannerTurn
  <2> QED
    BY <2>1, <2>2, <2>3 DEF PlannerType, PlannedInFull
<1>5. ASSUME NEW content \in Contents, ValidateAdaptationPlan(content)
      PROVE  planner' \in PlannerType /\ PlannedInFull'
  <2> DEFINE tools == planner.executed \cup {"validate_adaptation_plan"}
  <2>1. planner' = [planner EXCEPT !.turns = planner.turns + 1, !.executed = tools, !.proposal = {content}]
    BY <1>5 DEF ValidateAdaptationPlan, Executed
  <2>2. tools \in SUBSET RequiredPlannerTools /\ planner.turns + 1 \in Nat /\ {content} \in SUBSET Contents
    BY DEF PlannerType, RequiredPlannerTools
  <2>3. planner.phase = "MODEL"
    BY <1>5 DEF ValidateAdaptationPlan, PlannerTurn
  <2> QED
    BY <2>1, <2>2, <2>3 DEF PlannerType, PlannedInFull
<1> QED
  BY <1>1, <1>2, <1>3, <1>4, <1>5 DEF PlannerStep

LEMMA PlanningSound ==
  ASSUME Sound, BeginPlanning \/ RunPlanner \/ PlannerFailed
  PROVE  Sound'
<1>1. CanPlan /\ ckpt.node = "plan_adaptation"
  BY DEF BeginPlanning, RunPlanner, PlannerFailed, CanPlan, At
<1>2. CASE (PlannerStart \/ PlannerStep) /\ UNCHANGED <<store, graphVars>>
  <2>1. planner' \in PlannerType /\ PlannedInFull'
    BY <1>2, PlannerStepTyped DEF Sound, Typed
  <2> QED
    BY <1>2, <2>1 DEF Sound, Typed, Graph, GraphType, Counted, RevisionsAccounted, PlanStands, PlanIsTraced,
         EvidenceStands, GatedPatchPassed, Driven, Carried, Promised, First, NothingPatched, store, graphVars
<1>3. CASE planner' \in {planner, NoPlanner} /\ Fails /\ UNCHANGED <<trace, plans, patches, smokes, recorder>>
  BY <1>1, <1>3, FailsSomehow DEF WritesAhead
<1> QED
  BY <1>2, <1>3 DEF BeginPlanning, RunPlanner, PlannerFailed, store, graphVars

LEMMA PlanAdaptationSound ==
  ASSUME Sound, NEW content \in Contents, PlanAdaptation(content)
  PROVE  Sound'
<1>1. /\ ckpt.node = "plan_adaptation" /\ proc.phase = "READY" /\ record = Fresh /\ record.plan = None
      /\ planner.executed = RequiredPlannerTools /\ planner' = NoPlanner /\ UNCHANGED <<patches, smokes>>
  BY DEF PlanAdaptation, CanPlan, At, Sound, Counted, PlannedInFull, Fresh, NoRecord
<1>2. Planned(content) \in Plans /\ Planned(content).rev = 1 /\ Planned(content).content = content
  BY AdaptationAssumption DEF Planned, Plans, Revisions
<1>3. Traced(content) \in Traces /\ Traced(content).tools = RequiredPlannerTools /\ Traced(content).content = content
  BY <1>1 DEF Traced, Traces
<1>4. WritePlan(Planned(content)) \/ UNCHANGED plans => WritesAhead
  BY <1>1, <1>2 DEF WritesAhead
<1>5. CASE /\ trace' = Traced(content)
           /\ WritePlan(Planned(content))
           /\ record' = [record EXCEPT !.status = "PLANNED", !.plan = 1]
           /\ GoesTo("generate_bounded_patch", NoCarry)
           /\ UNCHANGED recorder
  <2>1. Returned("generate_bounded_patch", NoCarry)
    <3>1. Graph /\ recorder' \subseteq Answers
      BY <1>5 DEF Sound, Typed, Graph, GraphType
    <3> QED
      BY <1>5, <3>1, Returns, NoCarryTyped DEF Nodes
  <2>2. /\ record' \in RecordType
        /\ record'.plan = 1 /\ record'.status = "PLANNED" /\ record'.repairs = 0 /\ record'.reviews = {}
    <3>1. record.repairs = 0 /\ record.reviews = {} /\ record \in RecordType /\ 1 \in Revisions
      BY <1>1, AdaptationAssumption DEF Fresh, NoRecord, Sound, Typed, Revisions
    <3> QED
      BY <1>5, <3>1 DEF RecordType, Statuses
  <2>3. Counted'
    <3>1. 1 # None /\ 1 <= MaxRevision
      BY AdaptationAssumption DEF Revisions
    <3>2. Edits({}) = {} /\ Cardinality({}) = 0 /\ IsFiniteSet({})
      BY FS_EmptySet DEF Edits
    <3> QED
      BY <2>2, <3>1, <3>2 DEF Counted, RevisionsAccounted, Edits
  <2>4. /\ plans' \in [Revisions -> Plans \cup {None}]
        /\ plans'[1] = Planned(content)
        /\ \A rev \in Revisions : plans'[rev] # None => plans'[rev].rev = rev
    BY <1>2, <1>5, WritesOnePlan DEF Sound
  <2>5. PlanStands'
    BY <1>2, <1>3, <1>5, <2>2, <2>4, AdaptationAssumption DEF PlanStands, PlanIsTraced
  <2>6. Typed' /\ PlannedInFull'
    <3>1. NoPlanner \in PlannerType /\ NoPlanner.phase = "OFF"
      BY DEF NoPlanner, PlannerType
    <3> QED
      BY <1>1, <1>3, <1>5, <2>1, <2>2, <2>4, <3>1 DEF Sound, Typed, PlannedInFull, Returned
  <2>7. EvidenceStands'
    BY <1>1, <2>2, EvidenceKept DEF Sound
  <2>8. Driven'
    <3>1. Kept /\ "generate_bounded_patch" \in Ahead /\ Carried("generate_bounded_patch", NoCarry)'
      BY <1>1, NoCarryTyped DEF Kept, Carried, Ahead, Nodes
    <3> QED
      BY <1>1, <2>1, <2>2, <3>1, NoCarryTyped, DrivenKept DEF Sound
  <2>9. First'
    BY <1>1, <2>1 DEF Sound, First, NothingPatched, Returned
  <2> QED
    BY <2>3, <2>5, <2>6, <2>7, <2>8, <2>9 DEF Sound
<1>6. CASE /\ trace' = Traced(content) \/ UNCHANGED trace
           /\ WritePlan(Planned(content)) \/ UNCHANGED plans
           /\ Fails /\ UNCHANGED recorder
  BY <1>1, <1>3, <1>4, <1>6, FailsSomehow
<1>7. CASE /\ trace' = Traced(content)
           /\ WritePlan(Planned(content)) \/ UNCHANGED plans
           /\ UNCHANGED record /\ StopsShort
  <2>1. Graph /\ recorder' \subseteq Answers
    BY <1>7 DEF StopsShort, Dies, Sound, Typed, Graph, GraphType
  <2>2. Stopped
    BY <1>7, <2>1, Stops
  <2> QED
    BY <1>1, <1>3, <1>4, <1>7, <2>2, StopsSound
<1> QED
  BY <1>5, <1>6, <1>7 DEF PlanAdaptation

-----------------------------------------------------------------------------
(***************************************************************************)
(* The patch, its smoke and its repair.                                    *)
(***************************************************************************)
\* The plan of a record, and the patch of its revision.
LEMMA PlanAtHand ==
  ASSUME Sound, record.plan # None
  PROVE  /\ record.plan \in Revisions
         /\ plans[record.plan] \in Plans /\ plans[record.plan].rev = record.plan
  BY DEF Sound, Typed, RecordType, PlanStands

\* What is left on disk of a patch that is made: nothing, a workspace, or all of it.
LEMMA LeavesSome ==
  ASSUME Sound, record.plan # None, patches[record.plan].stage = "ABSENT",
         \/ LeavesPatch(record.plan, "DONE", plans[record.plan])
         \/ LeavesPatch(record.plan, "WORKSPACE", None)
         \/ UNCHANGED patches,
         UNCHANGED smokes
  PROVE  /\ patches' \in [Revisions -> Patches] /\ Kept
         /\ \A rev \in Revisions \ {record.plan} : patches'[rev] = patches[rev]
         /\ patches'[record.plan].stage = "DONE" =>
               patches'[record.plan] = [stage |-> "DONE", hash |-> plans[record.plan]]
<1>1. record.plan \in Revisions /\ plans[record.plan] \in Plans /\ patches \in [Revisions -> Patches]
  BY PlanAtHand DEF Sound, Typed
<1>2. ASSUME NEW stage \in {"WORKSPACE", "DONE"}, NEW hash \in Plans \cup {None},
             LeavesPatch(record.plan, stage, hash)
      PROVE  /\ patches' \in [Revisions -> Patches]
             /\ \A rev \in Revisions \ {record.plan} : patches'[rev] = patches[rev]
             /\ patches'[record.plan] = [stage |-> stage, hash |-> hash]
  <2>1. [stage |-> stage, hash |-> hash] \in Patches
    BY DEF Patches
  <2> QED
    BY <1>1, <1>2, <2>1 DEF LeavesPatch
<1>3. /\ patches' \in [Revisions -> Patches]
      /\ \A rev \in Revisions \ {record.plan} : patches'[rev] = patches[rev]
      /\ patches'[record.plan].stage = "DONE" =>
            patches'[record.plan] = [stage |-> "DONE", hash |-> plans[record.plan]]
  <2>1. CASE LeavesPatch(record.plan, "DONE", plans[record.plan])
    BY <1>1, <1>2, <2>1
  <2>2. CASE LeavesPatch(record.plan, "WORKSPACE", None)
    <3>1. /\ patches' \in [Revisions -> Patches]
          /\ \A rev \in Revisions \ {record.plan} : patches'[rev] = patches[rev]
          /\ patches'[record.plan] = [stage |-> "WORKSPACE", hash |-> None]
      BY <1>2, <2>2
    <3> QED
      BY <3>1
  <2>3. CASE UNCHANGED patches
    BY <1>1, <2>3
  <2> QED
    BY <2>1, <2>2, <2>3
<1> QED
  BY <1>3 DEF Kept

\* A patch of the plan at hand stands beside the others.
LEMMA EvidenceGrows ==
  ASSUME Sound, record.plan # None, patches[record.plan].stage = "ABSENT", UNCHANGED smokes,
         patches' \in [Revisions -> Patches],
         \A rev \in Revisions \ {record.plan} : patches'[rev] = patches[rev],
         patches'[record.plan].stage = "DONE" =>
               patches'[record.plan] = [stage |-> "DONE", hash |-> plans[record.plan]],
         record' = record \/ record'.status \notin {"AWAITING_APPROVAL", "ACCEPTED"}
  PROVE  EvidenceStands'
<1>1. /\ record.plan \in Revisions
      /\ plans[record.plan] \in Plans /\ plans[record.plan].rev = record.plan /\ plans[record.plan] # None
  BY PlanAtHand, AdaptationAssumption
<1>2. \A rev \in Revisions : patches[rev].stage = "DONE" => patches'[rev] = patches[rev]
  BY <1>1
<1>3. \A rev \in Revisions : patches'[rev].stage = "DONE" =>
          patches'[rev].hash # None /\ patches'[rev].hash.rev = rev
  BY <1>1 DEF Sound, EvidenceStands
<1>4. \A rev \in Revisions : smokes'[rev] # NoAttempt =>
          patches'[rev].stage = "DONE" /\ smokes'[rev].hash = patches'[rev].hash
  BY <1>2 DEF Sound, EvidenceStands
<1>5. GatedPatchPassed'
  <2>1. record.gate \in Plans \cup {None}
    BY DEF Sound, Typed, RecordType
  <2> QED
    BY <1>2, <2>1 DEF Sound, EvidenceStands, GatedPatchPassed, Plans
<1> QED
  BY <1>3, <1>4, <1>5 DEF EvidenceStands

\* A record that was patched, and the checkpoint that names its revision.
LEMMA PatchedShape ==
  ASSUME Sound, record.plan # None, NEW patch \in Plans, patch.rev = record.plan,
         Patched(patch), UNCHANGED recorder
  PROVE  /\ record' \in RecordType /\ Counted' /\ record'.plan = record.plan /\ record'.status = "PATCHED"
         /\ Carrying(ckpt.carry.gate, record.plan) \in Carries
         /\ Returned("run_bounded_smoke", Carrying(ckpt.carry.gate, record.plan))
<1> DEFINE attempt == [hash |-> patch, smoke |-> "NONE"]
<1>1. /\ record.plan \in Revisions /\ attempt \in Attempts /\ record \in RecordType
  BY PlanAtHand DEF Attempts, Sound, Typed
<1>2. record' = [record EXCEPT !.status = "PATCHED", !.gate = None, !.accepted = None, !.approval = None,
                               !.attempts[record.plan] = attempt]
  BY DEF Patched
<1>3. [record.attempts EXCEPT ![record.plan] = attempt] \in [Revisions -> Attempts]
  BY <1>1 DEF RecordType
<1> HIDE DEF attempt
<1>4. /\ record' \in RecordType /\ record'.plan = record.plan /\ record'.status = "PATCHED"
      /\ record'.repairs = record.repairs /\ record'.reviews = record.reviews
  BY <1>1, <1>2, <1>3 DEF RecordType, Statuses
<1>5. Counted'
  BY <1>4, CountKept DEF Sound
<1>6. Carrying(ckpt.carry.gate, record.plan) \in Carries
  BY <1>1 DEF Carrying, Carries, Sound, Typed, Graph, GraphType
<1>7. Returned("run_bounded_smoke", Carrying(ckpt.carry.gate, record.plan))
  <2>1. Graph /\ recorder' \subseteq Answers
    BY DEF Sound, Typed, Graph, GraphType
  <2> QED
    BY <1>6, <2>1, Returns DEF Patched, Nodes
<1> QED
  BY <1>4, <1>5, <1>6, <1>7

LEMMA GenerateSound ==
  ASSUME Sound, GenerateBoundedPatch
  PROVE  Sound'
<1>1. /\ ckpt.node = "generate_bounded_patch" /\ proc.phase = "READY" /\ record.plan # None
      /\ UNCHANGED <<planner, trace, plans, smokes>>
  BY DEF GenerateBoundedPatch, At, CanGenerate, planning
<1>2. /\ record.plan \in Revisions
      /\ plans[record.plan] \in Plans /\ plans[record.plan].rev = record.plan
  BY <1>1, PlanAtHand
<1>3. /\ patches' \in [Revisions -> Patches] /\ Kept
      /\ \A rev \in Revisions \ {record.plan} : patches'[rev] = patches[rev]
      /\ patches'[record.plan].stage = "DONE" =>
            \/ patches'[record.plan] = patches[record.plan]
            \/ patches'[record.plan] = [stage |-> "DONE", hash |-> plans[record.plan]]
  <2>1. CASE UNCHANGED patches
    BY <1>1, <2>1 DEF Kept, Sound, Typed
  <2>2. CASE /\ patches[record.plan].stage = "ABSENT"
             /\ \/ LeavesPatch(record.plan, "DONE", plans[record.plan])
                \/ LeavesPatch(record.plan, "WORKSPACE", None)
                \/ UNCHANGED patches
    BY <1>1, <2>2, LeavesSome
  <2> QED
    BY <1>2, <2>1, <2>2 DEF GenerateBoundedPatch
<1>4. \/ record' = record /\ StopsShort
      \/ EndsFailed /\ UNCHANGED recorder
      \/ \E patch \in Plans : /\ patch.rev = record.plan /\ patches'[record.plan].stage = "DONE"
                             /\ Patched(patch) /\ UNCHANGED recorder
  <2>1. CASE patches[record.plan].stage = "DONE" /\ UNCHANGED patches
             /\ Patched(patches[record.plan].hash) /\ UNCHANGED recorder
    <3>1. patches[record.plan].hash \in Plans /\ patches[record.plan].hash.rev = record.plan
      BY <1>2, <2>1 DEF Sound, Typed, EvidenceStands, Patches
    <3> QED
      BY <2>1, <3>1
  <2>2. CASE LeavesPatch(record.plan, "DONE", plans[record.plan])
             /\ Patched(plans[record.plan]) /\ UNCHANGED recorder
    <3>1. patches'[record.plan].stage = "DONE"
      BY <1>2, <2>2 DEF LeavesPatch, Sound, Typed
    <3> QED
      BY <1>2, <2>2, <3>1
  <2>3. CASE (record' = record /\ StopsShort) \/ (Fails /\ UNCHANGED recorder)
    BY <2>3 DEF Fails, StopsShort
  <2> QED
    BY <1>2, <2>1, <2>2, <2>3 DEF GenerateBoundedPatch
<1>5. /\ record' \in RecordType /\ Counted' /\ record'.plan = record.plan
      /\ record' = record \/ record'.status \in {"FAILED", "PATCHED"}
  <2>1. CASE record' = record
    BY <2>1 DEF Sound, Typed, Counted, RevisionsAccounted
  <2>2. CASE EndsFailed
    BY <2>2, FailedCounted DEF EndsFailed, Sound
  <2>3. ASSUME NEW patch \in Plans, patch.rev = record.plan, Patched(patch), UNCHANGED recorder
        PROVE  /\ record' \in RecordType /\ Counted' /\ record'.plan = record.plan
               /\ record'.status = "PATCHED"
    BY <1>1, <2>3, PatchedShape
  <2> QED
    BY <1>4, <2>1, <2>2, <2>3
<1>6. \/ Stopped
      \/ Returned("END", NoCarry)
      \/ /\ Carrying(ckpt.carry.gate, record.plan) \in Carries
         /\ Returned("run_bounded_smoke", Carrying(ckpt.carry.gate, record.plan))
         /\ patches'[record.plan].stage = "DONE"
  <2>1. CASE StopsShort
    <3>1. Graph /\ recorder' \subseteq Answers
      BY <2>1 DEF StopsShort, Dies, Sound, Typed, Graph, GraphType
    <3> QED
      BY <2>1, <3>1, Stops
  <2>2. CASE EndsFailed /\ UNCHANGED recorder
    BY <2>2, EndsThere DEF EndsFailed, Sound, Typed
  <2>3. ASSUME NEW patch \in Plans, patch.rev = record.plan, Patched(patch), UNCHANGED recorder
        PROVE  /\ Carrying(ckpt.carry.gate, record.plan) \in Carries
               /\ Returned("run_bounded_smoke", Carrying(ckpt.carry.gate, record.plan))
    BY <1>1, <2>3, PatchedShape
  <2> QED
    BY <1>4, <2>1, <2>2, <2>3
<1>7. PlanStands'
  BY <1>1, <1>5, PlanKept DEF Sound, WritesAhead
<1>8. EvidenceStands'
  <2>1. CASE UNCHANGED patches
    BY <1>1, <1>5, <2>1, EvidenceKept DEF Sound
  <2>2. CASE patches[record.plan].stage = "ABSENT"
    BY <1>1, <1>3, <1>5, <2>2, EvidenceGrows
  <2> QED
    BY <2>1, <2>2 DEF GenerateBoundedPatch
<1>9. Typed' /\ PlannedInFull'
  BY <1>1, <1>3, <1>5, <1>6 DEF Sound, Typed, PlannedInFull, Stopped, Returned
<1>10. Driven'
  <2>1. CASE Stopped
    BY <1>1, <1>3, <2>1, DrivenKept DEF Sound
  <2>2. CASE Returned("END", NoCarry)
    <3>1. "END" \in Ahead /\ Carried("END", NoCarry)'
      BY NoCarryTyped DEF Carried, Ahead, Nodes
    <3> QED
      BY <1>1, <1>3, <2>2, <3>1, NoCarryTyped, DrivenKept DEF Sound
  <2>3. CASE /\ Carrying(ckpt.carry.gate, record.plan) \in Carries
             /\ Returned("run_bounded_smoke", Carrying(ckpt.carry.gate, record.plan))
             /\ patches'[record.plan].stage = "DONE"
    <3>1. PICK carry \in Carries : carry = Carrying(ckpt.carry.gate, record.plan)
      BY <2>3
    <3>2. "run_bounded_smoke" \in Ahead /\ Carried("run_bounded_smoke", carry)'
      BY <1>5, <2>3, <3>1 DEF Carried, Carrying, Ahead, Nodes
    <3> QED
      BY <1>1, <1>3, <2>3, <3>1, <3>2, DrivenKept DEF Sound
  <2> QED
    BY <1>6, <2>1, <2>2, <2>3
<1>11. First'
  <2>1. /\ ckpt' = ckpt /\ invocations' = invocations
        /\ proc'.phase = "WROTE" => proc'.to.node # "plan_adaptation"
    BY <1>6 DEF Stopped, Returned
  <2>2. ASSUME NEW rev \in Revisions, patches'[rev].stage = "DONE", invocations <= 1
        PROVE  record'.plan # None /\ rev <= record'.plan /\ patches'[rev].hash = plans'[rev]
    <3>1. CASE rev = record.plan /\ patches'[rev] = [stage |-> "DONE", hash |-> plans[record.plan]]
      BY <1>1, <1>2, <1>5, <3>1, AdaptationAssumption DEF Revisions
    <3>2. CASE patches'[rev] = patches[rev]
      BY <1>1, <1>5, <2>2, <3>2 DEF Sound, First
    <3> QED
      BY <1>3, <2>2, <3>1, <3>2
  <2> QED
    BY <1>1, <2>1, <2>2 DEF First
<1> QED
  BY <1>5, <1>7, <1>8, <1>9, <1>10, <1>11 DEF Sound

\* The result of a smoke: the gate, the repair or the end.
LEMMA SmokedShape ==
  ASSUME Sound, record.status = "PATCHED", record.plan # None, NEW patch \in Plans, patch.rev = record.plan,
         NEW result \in {"NONE", "PASSED", "FAILED"}, Smoked(patch, result), UNCHANGED recorder
  PROVE  /\ record' \in RecordType /\ Counted' /\ record'.plan = record.plan /\ record'.status # "PATCHED"
         /\ \/ /\ result = "PASSED"
               /\ record'.status = "AWAITING_APPROVAL" /\ record'.gate = patch
               /\ Carrying(patch, patch.rev) \in Carries
               /\ Returned("patch_acceptance_gate", Carrying(patch, patch.rev))
            \/ /\ record'.status = "REPAIRING"
               /\ Returned("repair_patch_once", ckpt.carry)
            \/ /\ record'.status = "FAILED"
               /\ Returned("END", NoCarry)
<1> DEFINE tried == [record EXCEPT !.attempts[patch.rev].smoke = result]
<1>1. /\ patch.rev \in Revisions /\ record \in RecordType
      /\ Graph /\ recorder' \subseteq Answers /\ ckpt.carry \in Carries
  BY DEF Plans, Sound, Typed, Graph, GraphType
<1>2. /\ tried \in RecordType
      /\ tried.plan = record.plan /\ tried.repairs = record.repairs /\ tried.reviews = record.reviews
  <2> DEFINE attempt == [record.attempts[patch.rev] EXCEPT !.smoke = result]
             attempts == [record.attempts EXCEPT ![patch.rev] = attempt]
  <2>1. attempt \in Attempts
    BY <1>1 DEF RecordType, Attempts
  <2>2. attempts \in [Revisions -> Attempts]
    BY <1>1, <2>1 DEF RecordType
  <2>3. tried = [record EXCEPT !.attempts = attempts]
    BY <1>1 DEF RecordType
  <2> HIDE DEF attempts, tried
  <2> QED
    BY <1>1, <2>2, <2>3 DEF RecordType
<1>3. \/ /\ result = "PASSED"
         /\ record' = [tried EXCEPT !.status = "AWAITING_APPROVAL", !.gate = patch]
         /\ GoesTo("patch_acceptance_gate", Carrying(patch, patch.rev))
      \/ record' = [tried EXCEPT !.status = "REPAIRING"] /\ GoesTo("repair_patch_once", ckpt.carry)
      \/ record' = [tried EXCEPT !.status = "FAILED", !.gate = None] /\ GoesTo("END", NoCarry)
  BY DEF Smoked
<1> HIDE DEF tried
<1>4. CASE /\ result = "PASSED"
           /\ record' = [tried EXCEPT !.status = "AWAITING_APPROVAL", !.gate = patch]
           /\ GoesTo("patch_acceptance_gate", Carrying(patch, patch.rev))
  <2>1. /\ record' \in RecordType /\ record'.status = "AWAITING_APPROVAL" /\ record'.gate = patch
        /\ record'.plan = record.plan /\ record'.repairs = record.repairs /\ record'.reviews = record.reviews
    BY <1>2, <1>4 DEF RecordType, Statuses
  <2>2. Counted'
    BY <2>1, AdaptationAssumption DEF Sound, Counted, RevisionsAccounted
  <2>3. Carrying(patch, patch.rev) \in Carries
    BY <1>1 DEF Carrying, Carries
  <2>4. Returned("patch_acceptance_gate", Carrying(patch, patch.rev))
    BY <1>1, <1>4, <2>3, Returns DEF Nodes
  <2> QED
    BY <1>4, <2>1, <2>2, <2>3, <2>4
<1>5. CASE record' = [tried EXCEPT !.status = "REPAIRING"] /\ GoesTo("repair_patch_once", ckpt.carry)
  <2>1. /\ record' \in RecordType /\ record'.status = "REPAIRING"
        /\ record'.plan = record.plan /\ record'.repairs = record.repairs /\ record'.reviews = record.reviews
    BY <1>2, <1>5 DEF RecordType, Statuses
  <2>2. Counted'
    BY <2>1, CountKept DEF Sound
  <2>3. Returned("repair_patch_once", ckpt.carry)
    BY <1>1, <1>5, Returns DEF Nodes
  <2> QED
    BY <2>1, <2>2, <2>3
<1>6. CASE record' = [tried EXCEPT !.status = "FAILED", !.gate = None] /\ GoesTo("END", NoCarry)
  <2>1. /\ record' \in RecordType /\ record'.status = "FAILED"
        /\ record'.plan = record.plan /\ record'.repairs = record.repairs /\ record'.reviews = record.reviews
    BY <1>2, <1>6 DEF RecordType, Statuses
  <2>2. Counted'
    BY <2>1, CountKept DEF Sound
  <2>3. Returned("END", NoCarry)
    BY <1>1, <1>6, EndsThere
  <2> QED
    BY <2>1, <2>2, <2>3
<1> QED
  BY <1>3, <1>4, <1>5, <1>6

LEMMA SmokeSound ==
  ASSUME Sound, RunBoundedSmoke
  PROVE  Sound'
<1> DEFINE rev == ckpt.carry.attempt
           patch == patches[rev].hash
<1>1. /\ ckpt.node = "run_bounded_smoke" /\ proc.phase = "READY" /\ record.status = "PATCHED" /\ rev # None
      /\ UNCHANGED <<planner, trace, plans, patches>>
  BY DEF RunBoundedSmoke, At, CanSmoke, planning
<1>2. /\ rev \in Revisions /\ rev = record.plan /\ record.plan # None
      /\ patches[rev].stage = "DONE" /\ patch \in Plans /\ patch.rev = rev
      /\ patches[rev] = [stage |-> "DONE", hash |-> patch]
  <2>1. rev \in Revisions /\ rev = record.plan /\ patches[rev].stage = "DONE"
    BY <1>1 DEF Sound, Typed, Graph, GraphType, Carries, Driven, Carried
  <2>2. patch \in Plans /\ patch.rev = rev /\ patches[rev] \in Patches
    BY <2>1 DEF Sound, Typed, EvidenceStands, Patches
  <2> QED
    BY <1>1, <2>1, <2>2 DEF Patches
<1> HIDE DEF rev, patch
<1>3. /\ smokes' \in [Revisions -> Attempts] /\ Kept
      /\ \A r \in Revisions : smokes'[r] # NoAttempt =>
            patches[r].stage = "DONE" /\ smokes'[r].hash = patches[r].hash
  <2>1. CASE UNCHANGED smokes
    BY <1>1, <2>1 DEF Kept, Sound, Typed, EvidenceStands
  <2>2. ASSUME smokes[rev] = NoAttempt, NEW result \in {"PASSED", "FAILED"},
               smokes' = [smokes EXCEPT ![rev] = [hash |-> patch, smoke |-> result]]
        PROVE  /\ smokes' \in [Revisions -> Attempts] /\ Kept
               /\ \A r \in Revisions : smokes'[r] # NoAttempt =>
                     patches[r].stage = "DONE" /\ smokes'[r].hash = patches[r].hash
    <3>1. [hash |-> patch, smoke |-> result] \in Attempts
      BY <1>2 DEF Attempts
    <3>2. /\ smokes' \in [Revisions -> Attempts]
          /\ smokes'[rev] = [hash |-> patch, smoke |-> result]
          /\ \A r \in Revisions \ {rev} : smokes'[r] = smokes[r]
      BY <1>2, <2>2, <3>1 DEF Sound, Typed
    <3> QED
      BY <1>1, <1>2, <2>2, <3>2 DEF Kept, Sound, EvidenceStands, patch
  <2> QED
    BY <1>2, <2>1, <2>2 DEF RunBoundedSmoke, rev, patch
<1>4. \/ EndsFailed /\ UNCHANGED recorder
      \/ UNCHANGED record /\ StopsShort
      \/ \E result \in {"NONE", "PASSED", "FAILED"} :
            smokes'[rev] = [hash |-> patch, smoke |-> result] /\ Smoked(patch, result) /\ UNCHANGED recorder
  <2>1. CASE /\ smokes[patch.rev] # NoAttempt
             /\ IF smokes[patch.rev].hash = patch THEN Smoked(patch, smokes[patch.rev].smoke) ELSE Fails
             /\ UNCHANGED <<smokes, recorder>>
    <3>1. smokes[rev] \in Attempts
      BY <1>2 DEF Sound, Typed
    <3>2. CASE smokes[rev].hash = patch
      <4>1. smokes'[rev] = [hash |-> patch, smoke |-> smokes[rev].smoke]
        BY <2>1, <3>1, <3>2 DEF Attempts
      <4> QED
        BY <1>2, <2>1, <3>1, <3>2, <4>1 DEF Attempts
    <3> QED
      BY <1>2, <2>1, <3>2 DEF Fails, StopsShort
  <2>2. ASSUME NEW result \in {"PASSED", "FAILED"},
               smokes' = [smokes EXCEPT ![patch.rev] = [hash |-> patch, smoke |-> result]],
               (Smoked(patch, result) \/ Fails) /\ UNCHANGED recorder
        PROVE  \/ Fails /\ UNCHANGED recorder
               \/ smokes'[rev] = [hash |-> patch, smoke |-> result] /\ Smoked(patch, result) /\ UNCHANGED recorder
    BY <1>2, <2>2 DEF Sound, Typed
  <2>3. CASE (Fails /\ UNCHANGED recorder) \/ (UNCHANGED record /\ StopsShort)
    BY <2>3 DEF Fails, StopsShort
  <2>4. ASSUME NEW result \in {"PASSED", "FAILED"},
               smokes'[rev] = [hash |-> patch, smoke |-> result] /\ Smoked(patch, result) /\ UNCHANGED recorder
        PROVE  \E given \in {"NONE", "PASSED", "FAILED"} :
                  smokes'[rev] = [hash |-> patch, smoke |-> given] /\ Smoked(patch, given) /\ UNCHANGED recorder
    BY <2>4
  <2> QED
    BY <2>1, <2>2, <2>3, <2>4 DEF RunBoundedSmoke, rev, patch
<1>5. /\ record' \in RecordType /\ Counted' /\ record'.plan = record.plan
      /\ record' = record \/ record'.status # "PATCHED"
      /\ GatedPatchPassed'
  <2>1. CASE UNCHANGED record
    BY <1>1, <2>1 DEF Sound, Typed, Counted, RevisionsAccounted, GatedPatchPassed
  <2>2. CASE EndsFailed
    BY <2>2, FailedCounted DEF EndsFailed, Sound, GatedPatchPassed
  <2>3. ASSUME NEW result \in {"NONE", "PASSED", "FAILED"},
               smokes'[rev] = [hash |-> patch, smoke |-> result], Smoked(patch, result), UNCHANGED recorder
        PROVE  /\ record' \in RecordType /\ Counted' /\ record'.plan = record.plan /\ record'.status # "PATCHED"
               /\ GatedPatchPassed'
    <3>1. /\ record' \in RecordType /\ Counted' /\ record'.plan = record.plan /\ record'.status # "PATCHED"
          /\ \/ result = "PASSED" /\ record'.status = "AWAITING_APPROVAL" /\ record'.gate = patch
             \/ record'.status \in {"REPAIRING", "FAILED"}
      BY <1>1, <1>2, <2>3, SmokedShape
    <3>2. patch # None
      BY <1>2, AdaptationAssumption
    <3> QED
      BY <1>1, <1>2, <2>3, <3>1, <3>2 DEF GatedPatchPassed
  <2> QED
    BY <1>4, <2>1, <2>2, <2>3
<1>6. \/ Stopped
      \/ \E node \in Ahead \ {"plan_adaptation", "run_bounded_smoke"}, carry \in Carries :
            Returned(node, carry) /\ (carry.attempt \in {None, rev})
  <2>0. {"END", "repair_patch_once", "patch_acceptance_gate"} \subseteq Ahead \ {"plan_adaptation", "run_bounded_smoke"}
    BY DEF Ahead, Nodes
  <2>1. CASE StopsShort
    <3>1. Graph /\ recorder' \subseteq Answers
      BY <2>1 DEF StopsShort, Dies, Sound, Typed, Graph, GraphType
    <3> QED
      BY <2>1, <3>1, Stops
  <2>2. CASE EndsFailed /\ UNCHANGED recorder
    BY <2>0, <2>2, EndsThere, NoCarryTyped DEF EndsFailed, Sound, Typed
  <2>3. ASSUME NEW result \in {"NONE", "PASSED", "FAILED"}, Smoked(patch, result), UNCHANGED recorder
        PROVE  \E node \in Ahead \ {"plan_adaptation", "run_bounded_smoke"}, carry \in Carries :
                  Returned(node, carry) /\ (carry.attempt \in {None, rev})
    <3>1. \/ Carrying(patch, patch.rev) \in Carries /\ Returned("patch_acceptance_gate", Carrying(patch, patch.rev))
          \/ Returned("repair_patch_once", ckpt.carry)
          \/ Returned("END", NoCarry)
      BY <1>1, <1>2, <2>3, SmokedShape
    <3>2. Carrying(patch, patch.rev).attempt = rev /\ ckpt.carry \in Carries /\ ckpt.carry.attempt = rev
      BY <1>2 DEF Carrying, rev, Sound, Typed, Graph, GraphType
    <3> QED
      BY <2>0, <3>1, <3>2, NoCarryTyped
  <2> QED
    BY <1>4, <2>1, <2>2, <2>3
<1>7. PlanStands'
  BY <1>1, <1>5, PlanKept DEF Sound, WritesAhead
<1>8. EvidenceStands'
  BY <1>1, <1>3, <1>5 DEF Sound, EvidenceStands
<1>9. Typed' /\ PlannedInFull'
  BY <1>1, <1>3, <1>5, <1>6 DEF Sound, Typed, PlannedInFull, Stopped, Returned
<1>10. Driven'
  <2>1. CASE Stopped
    BY <1>1, <1>3, <1>5, <2>1, DrivenKept DEF Sound
  <2>2. ASSUME NEW node \in Ahead \ {"plan_adaptation", "run_bounded_smoke"}, NEW carry \in Carries,
               Returned(node, carry), carry.attempt \in {None, rev}
        PROVE  Driven'
    <3>1. Carried(node, carry)'
      BY <1>1, <1>2, <2>2 DEF Carried
    <3> QED
      BY <1>1, <1>3, <1>5, <2>2, <3>1, DrivenKept DEF Sound
  <2> QED
    BY <1>6, <2>1, <2>2
<1>11. First'
  <2>1. /\ ckpt' = ckpt /\ invocations' = invocations
        /\ proc'.phase = "WROTE" => proc'.to.node # "plan_adaptation"
    <3>1. CASE Stopped
      BY <3>1 DEF Stopped
    <3>2. ASSUME NEW node \in Ahead \ {"plan_adaptation", "run_bounded_smoke"}, NEW carry \in Carries,
                 Returned(node, carry)
          PROVE  ckpt' = ckpt /\ invocations' = invocations /\ proc'.to.node # "plan_adaptation"
      BY <3>2 DEF Returned
    <3> QED
      BY <1>6, <3>1, <3>2
  <2> QED
    BY <1>1, <1>5, <2>1, FirstKept DEF Sound, WritesAhead
<1> QED
  BY <1>5, <1>7, <1>8, <1>9, <1>10, <1>11 DEF Sound

\* The plan of the next revision: no patch is of it yet.
LEMMA NextPlanSound ==
  ASSUME Sound, record.plan # None, ckpt.node \notin {"START", "load_and_compare_inputs"},
         NEW plan \in Plans, plan.rev = record.plan + 1, WritePlan(plan),
         record' \in RecordType, record'.plan = plan.rev, record'.status = "PLANNED", Counted',
         UNCHANGED <<trace, planner, patches, smokes>>,
         Returned("generate_bounded_patch", NoCarry)
  PROVE  Sound'
<1>1. /\ record.plan \in Revisions /\ plan.rev \in Revisions /\ 1 \in Revisions
      /\ \A rev \in Revisions : rev \in Nat /\ rev >= 1
      /\ ckpt' = ckpt /\ invocations' = invocations
  BY PlanAtHand, AdaptationAssumption DEF Plans, Revisions, Returned
<1>2. /\ plans' \in [Revisions -> Plans \cup {None}]
      /\ plans'[plan.rev] = plan
      /\ \A rev \in Revisions \ {plan.rev} : plans'[rev] = plans[rev]
      /\ \A rev \in Revisions : plans'[rev] # None => plans'[rev].rev = rev
  BY WritesOnePlan DEF Sound
<1>3. PlanStands'
  <2>1. plan # None /\ plan.rev # 1
    BY <1>1, AdaptationAssumption
  <2>2. PlanIsTraced'
    BY <1>1, <1>2, <2>1 DEF Sound, PlanStands, PlanIsTraced
  <2> QED
    BY <1>2, <2>1, <2>2 DEF PlanStands
<1>4. Typed' /\ PlannedInFull'
  BY <1>2 DEF Sound, Typed, PlannedInFull, Returned
<1>5. EvidenceStands'
  BY EvidenceKept DEF Sound
<1>6. Driven'
  <2>1. Kept /\ "generate_bounded_patch" \in Ahead /\ Carried("generate_bounded_patch", NoCarry)'
    BY NoCarryTyped DEF Kept, Carried, Ahead, Nodes
  <2> QED
    BY <2>1, NoCarryTyped, DrivenKept DEF Sound
<1>7. First'
  <2>1. proc'.to.node # "plan_adaptation"
    BY DEF Returned
  <2>2. ASSUME NEW rev \in Revisions, patches[rev].stage = "DONE", invocations <= 1
        PROVE  record'.plan # None /\ rev <= record'.plan /\ patches[rev].hash = plans'[rev]
    <3>1. rev <= record.plan /\ patches[rev].hash = plans[rev]
      BY <2>2 DEF Sound, First
    <3>2. rev # plan.rev /\ rev <= plan.rev
      BY <1>1, <3>1
    <3> QED
      BY <1>1, <1>2, <3>1, <3>2, AdaptationAssumption
  <2> QED
    BY <1>1, <2>1, <2>2 DEF Sound, First, NothingPatched
<1> QED
  BY <1>3, <1>4, <1>5, <1>6, <1>7 DEF Sound

\* The sets of EDIT reviews, when one is added and when another is.
LEMMA EditsGrow ==
  ASSUME Sound, NEW review, review.decision = "EDIT" => review \notin record.reviews
  PROVE  /\ IsFiniteSet(record.reviews \cup {review})
         /\ Cardinality(Edits(record.reviews)) \in Nat
         /\ Cardinality(Edits(record.reviews \cup {review})) =
               Cardinality(Edits(record.reviews)) + (IF review.decision = "EDIT" THEN 1 ELSE 0)
<1>1. IsFiniteSet(record.reviews) /\ IsFiniteSet(Edits(record.reviews))
  BY FS_Subset DEF Sound, Counted, Edits
<1>2. IsFiniteSet(record.reviews \cup {review}) /\ Cardinality(Edits(record.reviews)) \in Nat
  BY <1>1, FS_AddElement, FS_CardinalityType
<1>3. CASE review.decision = "EDIT"
  <2>1. Edits(record.reviews \cup {review}) = Edits(record.reviews) \cup {review}
    BY <1>3 DEF Edits
  <2>2. review \notin Edits(record.reviews)
    BY <1>3 DEF Edits
  <2>3. Cardinality(Edits(record.reviews) \cup {review}) = Cardinality(Edits(record.reviews)) + 1
    BY <1>1, <2>2, FS_AddElement
  <2> QED
    BY <1>2, <1>3, <2>1, <2>3
<1>4. CASE review.decision # "EDIT"
  <2>1. Edits(record.reviews \cup {review}) = Edits(record.reviews)
    BY <1>4 DEF Edits
  <2> QED
    BY <1>2, <1>4, <2>1
<1> QED
  BY <1>3, <1>4

LEMMA RepairSound ==
  ASSUME Sound, RepairPatchOnce
  PROVE  Sound'
<1> DEFINE plan == plans[record.plan]
           repaired == [plan EXCEPT !.rev = plan.rev + 1, !.repaired = TRUE]
<1>1. /\ ckpt.node = "repair_patch_once" /\ proc.phase = "READY" /\ record.plan # None /\ record.repairs = 0
      /\ UNCHANGED <<planner, trace, patches, smokes>>
  BY DEF RepairPatchOnce, At, CanRepair, planning
<1>2. plan \in Plans /\ plan.rev = record.plan /\ record.plan \in Revisions
  BY <1>1, PlanAtHand
<1>3. repaired \in Plans /\ repaired.rev = record.plan + 1
  <2>1. record.plan <= MaxRevision
    BY <1>1 DEF Sound, Counted
  <2>2. record.plan + 1 \in Revisions
    BY <1>2, <2>1, AdaptationAssumption DEF Revisions
  <2> QED
    BY <1>2, <2>2 DEF Plans
<1> HIDE DEF repaired
<1>4. WritePlan(repaired) \/ UNCHANGED plans => WritesAhead
  <2>1. record.plan + 1 > record.plan
    BY <1>2, AdaptationAssumption DEF Revisions
  <2> QED
    BY <1>3, <2>1 DEF WritesAhead
<1>5. Graph /\ UNCHANGED recorder => recorder' \subseteq Answers
  BY DEF Graph, GraphType
<1>6. CASE /\ WritePlan(repaired)
           /\ record' = [record EXCEPT !.status = "PLANNED", !.plan = repaired.rev, !.repairs = 1]
           /\ GoesTo("generate_bounded_patch", NoCarry)
           /\ UNCHANGED recorder
  <2>1. Returned("generate_bounded_patch", NoCarry)
    BY <1>5, <1>6, Returns, NoCarryTyped DEF Nodes, Sound, Typed
  <2>2. /\ record' \in RecordType /\ record'.plan = repaired.rev /\ record'.repairs = 1
        /\ record'.status = "PLANNED" /\ record'.reviews = record.reviews
    <3>1. record \in RecordType /\ repaired.rev \in Revisions
      BY <1>3 DEF Sound, Typed, Plans
    <3> QED
      BY <1>6, <3>1 DEF RecordType, Statuses
  <2>3. Counted'
    <3>1. /\ record.plan = 1 + record.repairs + Cardinality(Edits(record.reviews))
          /\ Cardinality(Edits(record.reviews)) \in Nat
      BY <1>1, FS_Subset, FS_CardinalityType DEF Sound, Counted, RevisionsAccounted, Edits
    <3>2. RevisionsAccounted'
      BY <1>1, <1>3, <2>2, <3>1 DEF RevisionsAccounted, Edits
    <3>3. \A review \in Edits(record.reviews) : review.subject.rev < record.plan /\ review.subject.rev \in Nat
      BY AdaptationAssumption DEF Sound, Counted, Typed, RecordType, Reviews, Plans, Revisions, Edits
    <3>4. \A review \in Edits(record.reviews) : review.subject.rev < record.plan + 1
      BY <1>2, <3>3, AdaptationAssumption DEF Revisions
    <3>5. repaired.rev # None
      BY <1>3, AdaptationAssumption DEF Plans
    <3> QED
      BY <1>1, <1>3, <2>2, <3>2, <3>4, <3>5 DEF Sound, Counted
  <2> QED
    BY <1>1, <1>3, <1>6, <2>1, <2>2, <2>3, NextPlanSound
<1>7. CASE WritePlan(repaired) /\ UNCHANGED record /\ StopsShort
  <2>1. recorder' \subseteq Answers /\ Graph
    BY <1>7 DEF StopsShort, Dies, Sound, Typed, Graph, GraphType
  <2>2. Stopped
    BY <1>7, <2>1, Stops
  <2> QED
    BY <1>1, <1>4, <1>7, <2>2, StopsSound
<1>8. CASE /\ record' = FailedRecord
           /\ GoesTo("generate_bounded_patch", ckpt.carry)
           /\ WritePlan(repaired) \/ UNCHANGED plans
           /\ UNCHANGED recorder
  <2>1. ckpt.carry \in Carries /\ Graph
    BY DEF Sound, Typed, Graph, GraphType
  <2>2. Returned("generate_bounded_patch", ckpt.carry)
    BY <1>5, <1>8, <2>1, Returns DEF Nodes
  <2>3. Carried("generate_bounded_patch", ckpt.carry) /\ "generate_bounded_patch" \in Ahead \ {"plan_adaptation"}
    BY DEF Sound, Driven, Carried, Ahead, Nodes
  <2> QED
    BY <1>1, <1>4, <1>8, <2>1, <2>2, <2>3, FailsSound
<1>9. CASE UNCHANGED record /\ Raises /\ UNCHANGED recorder /\ (WritePlan(repaired) \/ UNCHANGED plans)
  <2>1. Graph
    BY DEF Sound, Typed
  <2>2. Stopped
    BY <1>5, <1>9, <2>1, Stops
  <2> QED
    BY <1>1, <1>4, <1>9, <2>2, StopsSound
<1> QED
  BY <1>6, <1>7, <1>8, <1>9 DEF RepairPatchOnce, repaired

-----------------------------------------------------------------------------
(***************************************************************************)
(* The gate.                                                               *)
(***************************************************************************)
Review(answer) == [id |-> answer.id, decision |-> answer.decision, subject |-> answer.subject]

LEMMA ReviewedShape ==
  ASSUME Sound, NEW answer \in Answers, NEW status \in Statuses
  PROVE  /\ Reviewed(answer, status) \in RecordType
         /\ Reviewed(answer, status).status = status
         /\ Reviewed(answer, status).plan = record.plan
         /\ Reviewed(answer, status).repairs = record.repairs
         /\ Reviewed(answer, status).gate = record.gate
         /\ Reviewed(answer, status).reviews = record.reviews \cup {Review(answer)}
<1>1. record \in RecordType /\ Review(answer) \in Reviews /\ answer.id \in ApprovalIds
  BY DEF Sound, Typed, Answers, Review, Reviews
<1>2. record.reviews \cup {Review(answer)} \in SUBSET Reviews
  BY <1>1 DEF RecordType
<1>3. Reviewed(answer, status) = [record EXCEPT !.status = status, !.approval = answer.id,
                                     !.reviews = record.reviews \cup {Review(answer)}]
  BY DEF Reviewed, Review
<1> QED
  BY <1>1, <1>2, <1>3 DEF RecordType

\* A decision that only adds its review to the record and ends the graph.
LEMMA DecidedSound ==
  ASSUME Sound, ckpt.node = "patch_acceptance_gate", record.status = "AWAITING_APPROVAL",
         NEW answer \in Answers, answer.decision # "EDIT", recorder' \subseteq Answers,
         UNCHANGED <<planner, trace, plans, patches, smokes>>,
         record' \in RecordType, record'.plan = record.plan, record'.repairs = record.repairs,
         record'.reviews = record.reviews \cup {Review(answer)},
         record'.status \in {"REJECTED", "ACCEPTED"},
         record'.status = "ACCEPTED" => record'.gate = record.gate /\ record'.accepted = record.gate,
         GoesTo("END", NoCarry)
  PROVE  Sound'
<1>1. Returned("END", NoCarry)
  BY Returns, NoCarryTyped DEF Nodes, Sound, Typed
<1>2. Counted'
  <2>1. Review(answer).decision # "EDIT"
    BY DEF Review
  <2>2. /\ IsFiniteSet(record'.reviews)
        /\ Edits(record'.reviews) = Edits(record.reviews)
        /\ Cardinality(Edits(record'.reviews)) = Cardinality(Edits(record.reviews))
    BY <2>1, EditsGrow DEF Edits
  <2>3. RevisionsAccounted'
    BY <2>2 DEF Sound, Counted, RevisionsAccounted, Edits
  <2> QED
    BY <2>2, <2>3 DEF Sound, Counted
<1>3. Typed' /\ PlannedInFull'
  BY <1>1 DEF Sound, Typed, PlannedInFull, Returned
<1>4. PlanStands'
  BY PlanKept DEF Sound, WritesAhead
<1>5. EvidenceStands'
  BY DEF Sound, EvidenceStands, GatedPatchPassed
<1>6. Driven'
  <2>1. Kept /\ "END" \in Ahead /\ Carried("END", NoCarry)'
    BY NoCarryTyped DEF Kept, Carried, Ahead, Nodes
  <2> QED
    BY <1>1, <2>1, NoCarryTyped, DrivenKept DEF Sound
<1>7. First'
  <2>1. proc'.to.node # "plan_adaptation" /\ ckpt' = ckpt /\ invocations' = invocations
    BY <1>1 DEF Returned
  <2> QED
    BY <2>1, FirstKept DEF Sound, WritesAhead
<1> QED
  BY <1>2, <1>3, <1>4, <1>5, <1>6, <1>7 DEF Sound

LEMMA DecidesSound ==
  ASSUME Sound, NEW answer \in Answers, GateDecides(answer)
  PROVE  Sound'
<1>1. /\ ckpt.node = "patch_acceptance_gate" /\ record.status = "AWAITING_APPROVAL"
      /\ answer.decision # "EDIT" /\ UNCHANGED <<planner, trace, plans, patches, smokes>>
  BY DEF GateDecides, At, GateMatches, planning
<1>2. Graph /\ recorder' \subseteq Answers
  BY DEF GateDecides, Keeps, Sound, Typed, Graph, GraphType
<1>3. CASE record' = Reviewed(answer, "REJECTED") /\ GoesTo("END", NoCarry)
  <2>1. "REJECTED" \in Statuses
    BY DEF Statuses
  <2>2. /\ record' \in RecordType /\ record'.plan = record.plan /\ record'.repairs = record.repairs
        /\ record'.reviews = record.reviews \cup {Review(answer)} /\ record'.status = "REJECTED"
    BY <1>3, <2>1, ReviewedShape
  <2> QED
    BY <1>1, <1>2, <1>3, <2>2, DecidedSound
<1>4. CASE record' = [Reviewed(answer, "ACCEPTED") EXCEPT !.accepted = record.gate] /\ GoesTo("END", NoCarry)
  <2>1. "ACCEPTED" \in Statuses /\ record.gate \in Plans \cup {None}
    BY DEF Statuses, Sound, Typed, RecordType
  <2> DEFINE kept == Reviewed(answer, "ACCEPTED")
  <2>2. /\ kept \in RecordType /\ kept.plan = record.plan /\ kept.repairs = record.repairs
        /\ kept.reviews = record.reviews \cup {Review(answer)} /\ kept.status = "ACCEPTED"
        /\ kept.gate = record.gate
    BY <2>1, ReviewedShape
  <2> HIDE DEF kept
  <2>3. record' = [kept EXCEPT !.accepted = record.gate]
    BY <1>4 DEF kept
  <2>4. /\ record' \in RecordType /\ record'.plan = record.plan /\ record'.repairs = record.repairs
        /\ record'.reviews = record.reviews \cup {Review(answer)} /\ record'.status = "ACCEPTED"
        /\ record'.gate = record.gate /\ record'.accepted = record.gate
    BY <2>1, <2>2, <2>3 DEF RecordType
  <2> QED
    BY <1>1, <1>2, <1>4, <2>4, DecidedSound
<1>5. CASE UNCHANGED record /\ Raises
  <2>1. Stopped
    BY <1>2, <1>5, Stops
  <2> QED
    BY <1>1, <1>5, <2>1, StopsSound DEF WritesAhead
<1> QED
  BY <1>3, <1>4, <1>5 DEF GateDecides

LEMMA EditsSound ==
  ASSUME Sound, NEW answer \in Answers, GateEdits(answer)
  PROVE  Sound'
<1> DEFINE plan == plans[record.plan]
           edited == [plan EXCEPT !.rev = plan.rev + 1, !.content = answer.edit]
<1>1. /\ ckpt.node = "patch_acceptance_gate" /\ record.status = "AWAITING_APPROVAL" /\ record.plan # None
      /\ answer.decision = "EDIT" /\ answer.edit # None /\ answer.subject = record.gate
      /\ plan.rev < MaxRevision
      /\ WritePlan(edited) /\ UNCHANGED <<planner, trace, patches, smokes>>
  BY DEF GateEdits, At, GateMatches, Targets, planning
<1>2. plan \in Plans /\ plan.rev = record.plan /\ record.plan \in Revisions
  BY <1>1, PlanAtHand
<1>3. edited \in Plans /\ edited.rev = record.plan + 1
  <2>1. answer.edit \in Contents
    BY <1>1 DEF Answers
  <2>2. record.plan + 1 \in Revisions
    BY <1>1, <1>2, AdaptationAssumption DEF Revisions
  <2> QED
    BY <1>2, <2>1, <2>2 DEF Plans
<1>4. edited.rev <= MaxRevision /\ record.plan < edited.rev /\ edited.rev # None
  BY <1>1, <1>2, <1>3, AdaptationAssumption DEF Revisions, Plans
<1> HIDE DEF edited
<1>5. WritesAhead
  BY <1>1, <1>3, <1>4 DEF WritesAhead
<1>6. Graph /\ (Keeps(answer) \/ UNCHANGED recorder => recorder' \subseteq Answers)
  BY DEF Keeps, Sound, Typed, Graph, GraphType
<1>7. CASE /\ Keeps(answer)
           /\ record' = [Reviewed(answer, "PLANNED") EXCEPT
                           !.plan = edited.rev, !.gate = None, !.accepted = None, !.approval = None]
           /\ GoesTo("generate_bounded_patch", NoCarry)
  <2>1. Returned("generate_bounded_patch", NoCarry)
    BY <1>6, <1>7, Returns, NoCarryTyped DEF Nodes
  <2> DEFINE kept == Reviewed(answer, "PLANNED")
  <2>2. /\ kept \in RecordType /\ kept.repairs = record.repairs /\ kept.status = "PLANNED"
        /\ kept.reviews = record.reviews \cup {Review(answer)}
    <3>1. "PLANNED" \in Statuses
      BY DEF Statuses
    <3> QED
      BY <3>1, ReviewedShape
  <2> HIDE DEF kept
  <2>3. record' = [kept EXCEPT !.plan = edited.rev, !.gate = None, !.accepted = None, !.approval = None]
    BY <1>7 DEF kept
  <2>4. /\ record' \in RecordType /\ record'.plan = edited.rev /\ record'.repairs = record.repairs
        /\ record'.status = "PLANNED" /\ record'.reviews = record.reviews \cup {Review(answer)}
    <3>1. edited.rev \in Revisions
      BY <1>3 DEF Plans
    <3> QED
      BY <2>2, <2>3, <3>1 DEF RecordType
  <2>5. Review(answer).subject.rev = record.plan /\ Review(answer).decision = "EDIT"
    BY <1>1 DEF Review, Sound, Counted
  <2>6. Review(answer) \notin record.reviews
    <3>1. SUFFICES ASSUME Review(answer) \in record.reviews PROVE FALSE
      OBVIOUS
    <3>2. Review(answer) \in Edits(record.reviews)
      BY <2>5, <3>1 DEF Edits
    <3>3. record.plan < record.plan
      BY <2>5, <3>2 DEF Sound, Counted
    <3> QED
      BY <1>2, <3>3, AdaptationAssumption DEF Revisions
  <2>7. /\ IsFiniteSet(record'.reviews)
        /\ Cardinality(Edits(record.reviews)) \in Nat
        /\ Cardinality(Edits(record'.reviews)) = Cardinality(Edits(record.reviews)) + 1
    BY <2>4, <2>5, <2>6, EditsGrow
  <2>8. RevisionsAccounted'
    <3>1. record.plan = 1 + record.repairs + Cardinality(Edits(record.reviews)) /\ record.repairs \in {0, 1}
      BY <1>1 DEF Sound, Counted, RevisionsAccounted, Edits, Typed, RecordType
    <3>2. record'.plan = 1 + record'.repairs + Cardinality(Edits(record'.reviews))
      BY <1>3, <2>4, <2>7, <3>1
    <3> QED
      BY <3>2 DEF RevisionsAccounted, Edits
  <2>9. \A review \in Edits(record'.reviews) : review.subject.rev < record'.plan
    <3>1. \A review \in Edits(record.reviews) : review.subject.rev < record.plan /\ review.subject.rev \in Nat
      BY AdaptationAssumption DEF Sound, Counted, Typed, RecordType, Reviews, Plans, Revisions, Edits
    <3>2. ASSUME NEW review \in Edits(record'.reviews) PROVE review.subject.rev < record.plan + 1
      <4>1. review = Review(answer) \/ review \in Edits(record.reviews)
        BY <2>4 DEF Edits
      <4> QED
        BY <1>2, <2>5, <3>1, <4>1, AdaptationAssumption DEF Revisions
    <3> QED
      BY <1>3, <2>4, <3>2
  <2>10. Counted'
    BY <1>4, <2>4, <2>7, <2>8, <2>9 DEF Counted
  <2> QED
    BY <1>1, <1>3, <2>1, <2>4, <2>10, NextPlanSound
<1>8. CASE (Keeps(answer) \/ UNCHANGED recorder) /\ UNCHANGED record /\ Raises
  <2>1. Stopped
    BY <1>6, <1>8, Stops
  <2> QED
    BY <1>1, <1>5, <1>8, <2>1, StopsSound
<1>9. CASE UNCHANGED record /\ Dies
  <2>1. Stopped
    <3>1. recorder' \subseteq Answers
      BY <1>9 DEF Dies
    <3> QED
      BY <1>6, <1>9, <3>1, Stops
  <2> QED
    BY <1>1, <1>5, <1>9, <2>1, StopsSound
<1> QED
  BY <1>7, <1>8, <1>9 DEF GateEdits, edited

\* A gate that refuses its answer, and a node that refuses its record.
LEMMA RaisesSound ==
  ASSUME Sound, NodeRaises \/ \E answer \in Answers : GateRaises(answer)
  PROVE  Sound'
<1>1. /\ Raises /\ UNCHANGED <<record, trace, plans, patches, smokes, planner, recorder>>
      /\ ckpt.node \notin {"START", "load_and_compare_inputs"}
  BY DEF NodeRaises, GateRaises, At, store
<1>2. Stopped
  <2>1. Graph /\ recorder' \subseteq Answers
    BY <1>1 DEF Sound, Typed, Graph, GraphType
  <2> QED
    BY <1>1, <2>1, Stops
<1> QED
  BY <1>1, <1>2, StopsSound DEF WritesAhead

-----------------------------------------------------------------------------
(***************************************************************************)
(* The thread, and every step.                                             *)
(***************************************************************************)
\* What the files say is kept, whatever becomes of the process.
LEMMA FilesKept ==
  ASSUME Sound, UNCHANGED store, planner' \in {planner, NoPlanner}, Graph'
  PROVE  Typed' /\ PlannedInFull' /\ Counted' /\ PlanStands' /\ EvidenceStands'
<1>1. NoPlanner \in PlannerType /\ NoPlanner.phase = "OFF"
  BY DEF NoPlanner, PlannerType
<1> QED
  BY <1>1 DEF Sound, Typed, PlannedInFull, Counted, RevisionsAccounted, PlanStands, PlanIsTraced,
     EvidenceStands, GatedPatchPassed, store

LEMMA CommitSound ==
  ASSUME Sound, Commit
  PROVE  Sound'
<1>1. /\ proc.phase = "WROTE" /\ ckpt' = proc.to /\ proc' = Idle("READY")
      /\ UNCHANGED <<recorder, life, invocations, planner>> /\ UNCHANGED store
      /\ UNCHANGED <<record, patches>>
  BY DEF Commit, GraphCommit, store
<1>2. PICK node \in Ahead, carry \in Carries :
         proc.to = [node |-> node, carry |-> carry] /\ Carried(node, carry)
  <2>1. proc.to \in Returning /\ Carried(proc.to.node, proc.to.carry)
    BY <1>1 DEF Sound, Driven, Promised
  <2> QED
    BY <2>1 DEF Returning
<1>3. Graph'
  BY <1>1, <1>2 DEF Sound, Typed, Graph, GraphType, Idle, Ahead
<1>4. ckpt'.node = node /\ ckpt'.carry = carry /\ node # "START" /\ proc'.phase = "READY"
  BY <1>1, <1>2 DEF Ahead, Idle
<1>5. Driven'
  <2>1. Carried(ckpt.node, ckpt.carry)'
    BY <1>1, <1>2, <1>4 DEF Carried
  <2>2. Promised'
    BY <1>4 DEF Promised
  <2>3. invocations' # 0
    BY <1>1 DEF Sound, Driven
  <2> QED
    BY <1>4, <2>1, <2>2, <2>3 DEF Driven
<1>6. First'
  BY <1>1, <1>2, <1>4 DEF Sound, First, NothingPatched, Ahead, store
<1> QED
  BY <1>1, <1>3, <1>5, <1>6, FilesKept DEF Sound

LEMMA InvokeSound ==
  ASSUME Sound, Invoke
  PROVE  Sound'
<1>1. /\ ckpt' = [node |-> "load_and_compare_inputs", carry |-> NoCarry] /\ proc' = Idle("READY")
      /\ recorder' = {} /\ life < MaxLives /\ life' = life + 1
      /\ invocations < MaxInvocations /\ invocations' = invocations + 1
      /\ UNCHANGED store /\ UNCHANGED planner /\ UNCHANGED <<record, patches, plans>>
  BY DEF Invoke, GraphInvoke, store
<1>2. Graph' /\ invocations \in Nat
  BY <1>1, NoCarryTyped, GraphAssumption DEF Sound, Typed, Graph, GraphType, Idle, Nodes
<1>3. Driven'
  <2>1. Carried(ckpt.node, ckpt.carry)' /\ Promised'
    BY <1>1, NoCarryTyped DEF Carried, Promised, Idle
  <2> QED
    BY <1>1, <1>2, <2>1 DEF Driven
<1>4. First'
  <2>1. invocations' <= 1 => NothingPatched
    BY <1>1, <1>2 DEF Sound, Driven, First
  <2> QED
    BY <1>1, <2>1 DEF First, NothingPatched, Idle
<1> QED
  BY <1>1, <1>2, <1>3, <1>4, FilesKept DEF Sound

\* A process that goes on from the checkpoint, or is gone.
LEMMA AgainSound ==
  ASSUME Sound, UNCHANGED store, planner' \in {planner, NoPlanner},
         UNCHANGED <<ckpt, invocations>>, life' \in 0 .. MaxLives, recorder' \subseteq Answers,
         \/ proc' = Idle("READY") /\ ckpt.node # "START"
         \/ proc' = Idle("DOWN")
  PROVE  Sound'
<1>1. UNCHANGED <<record, patches, plans>> /\ proc'.phase # "WROTE"
  BY DEF store, Idle
<1>2. Graph'
  BY DEF Sound, Typed, Graph, GraphType, Idle
<1>3. Driven'
  <2>1. Carried(ckpt.node, ckpt.carry)' /\ Promised'
    BY <1>1 DEF Sound, Driven, Carried, Promised
  <2> QED
    BY <2>1 DEF Sound, Driven, Idle
<1>4. First'
  BY <1>1 DEF Sound, First, NothingPatched
<1> QED
  BY <1>2, <1>3, <1>4, FilesKept DEF Sound

LEMMA ThreadSound ==
  ASSUME Sound, Resume \/ Retry \/ Crash
  PROVE  Sound'
<1>1. Graph /\ (ckpt.node = "START" => proc.phase = "DOWN")
  BY DEF Sound, Typed, Driven
<1>2. CASE Resume
  BY <1>1, <1>2, AgainSound, GraphAssumption DEF Resume, GraphResume, Graph, GraphType
<1>3. CASE Retry
  BY <1>1, <1>3, AgainSound DEF Retry, GraphRetry, Graph, GraphType
<1>4. CASE Crash
  BY <1>1, <1>4, AgainSound DEF Crash, GraphCrash, Dies, Graph, GraphType
<1> QED
  BY <1>2, <1>3, <1>4

LEMMA SoundInit == Init => Sound
<1> SUFFICES ASSUME Init PROVE Sound
  OBVIOUS
<1>1. /\ record = NoRecord /\ trace = None /\ planner = NoPlanner
      /\ plans = [rev \in Revisions |-> None]
      /\ patches = [rev \in Revisions |-> NoPatch]
      /\ smokes = [rev \in Revisions |-> NoAttempt]
      /\ ckpt = [node |-> "START", carry |-> NoCarry] /\ proc = Idle("DOWN") /\ recorder = {}
      /\ life = 0 /\ invocations = 0
  BY DEF Init, GraphInit
<1>2. Typed /\ PlannedInFull
  <2>1. NoPlanner \in PlannerType /\ NoPlanner.phase = "OFF"
    BY DEF NoPlanner, PlannerType
  <2>2. NoPatch \in Patches /\ NoAttempt \in Attempts
    BY DEF NoPatch, Patches, NoAttempt, Attempts
  <2>3. Graph
    BY <1>1, NoCarryTyped, GraphAssumption DEF Graph, GraphType, Idle, Nodes
  <2> QED
    BY <1>1, <2>1, <2>2, <2>3, NoRecordTyped DEF Typed, PlannedInFull
<1>3. Counted
  <2>1. Edits({}) = {} /\ IsFiniteSet({})
    BY FS_EmptySet DEF Edits
  <2> QED
    BY <1>1, <2>1 DEF Counted, RevisionsAccounted, NoRecord
<1>4. PlanStands
  BY <1>1 DEF PlanStands, PlanIsTraced, NoRecord
<1>5. NothingPatched /\ EvidenceStands
  BY <1>1 DEF NothingPatched, EvidenceStands, GatedPatchPassed, NoRecord, NoPatch
<1>6. Driven /\ First
  BY <1>1, <1>5, NoCarryTyped DEF Driven, Carried, Promised, First, NothingPatched, Idle
<1> QED
  BY <1>2, <1>3, <1>4, <1>5, <1>6 DEF Sound

LEMMA SoundStep == Sound /\ [Next]_vars => Sound'
<1> SUFFICES ASSUME Sound, [Next]_vars PROVE Sound'
  OBVIOUS
<1>1. CASE Invoke
  BY <1>1, InvokeSound
<1>2. CASE Resume \/ Retry \/ Crash
  BY <1>2, ThreadSound
<1>3. CASE Commit
  BY <1>3, CommitSound
<1>4. CASE LoadAndCompareInputs
  BY <1>4, LoadSound
<1>5. CASE BeginPlanning \/ RunPlanner \/ PlannerFailed
  BY <1>5, PlanningSound
<1>6. CASE \E content \in Contents : PlanAdaptation(content)
  BY <1>6, PlanAdaptationSound
<1>7. CASE GenerateBoundedPatch
  BY <1>7, GenerateSound
<1>8. CASE RunBoundedSmoke
  BY <1>8, SmokeSound
<1>9. CASE RepairPatchOnce
  BY <1>9, RepairSound
<1>10. CASE NodeRaises \/ \E answer \in Answers : GateRaises(answer)
  BY <1>10, RaisesSound
<1>11. CASE \E answer \in Answers : GateDecides(answer)
  BY <1>11, DecidesSound
<1>12. CASE \E answer \in Answers : GateEdits(answer)
  BY <1>12, EditsSound
<1>13. CASE UNCHANGED vars
  <2>1. /\ UNCHANGED <<record, trace, plans, patches, smokes, planner>>
        /\ UNCHANGED <<ckpt, proc, recorder, life, invocations>>
    BY <1>13 DEF vars, store, graphVars
  <2> QED
    BY <2>1 DEF Sound, Typed, Graph, GraphType, PlannedInFull, Counted, RevisionsAccounted, PlanStands,
       PlanIsTraced, EvidenceStands, GatedPatchPassed, Driven, Carried, Promised, First, NothingPatched
<1> QED
  BY <1>1, <1>2, <1>3, <1>4, <1>5, <1>6, <1>7, <1>8, <1>9, <1>10, <1>11, <1>12, <1>13 DEF Next, Work

\* The inductive invariant holds in every reachable state.
THEOREM AlwaysSound == Spec => []Sound
<1>1. Init => Sound
  BY SoundInit
<1>2. Sound /\ [Next]_vars => Sound'
  BY SoundStep
<1> QED
  BY <1>1, <1>2, PTL DEF Spec

-----------------------------------------------------------------------------
(***************************************************************************)
(* What the invariant gives.                                               *)
(***************************************************************************)
\* What waits at the gate or was accepted is a patch on disk whose own smoke passed,
\* at the decision of patch_acceptance_gate and ever after.
THEOREM GatePassed == Spec => []GatedPatchPassed
<1>1. Sound => GatedPatchPassed
  BY DEF Sound, EvidenceStands
<1> QED
  BY <1>1, AlwaysSound, PTL

\* The record and its planner trace agree, whichever planning was interrupted.
THEOREM PlanTraced == Spec => []PlanIsTraced
<1>1. Sound => PlanIsTraced
  BY DEF Sound, PlanStands
<1> QED
  BY <1>1, AlwaysSound, PTL

\* The number of the current revision is one, plus the repair, plus the EDIT reviews.
THEOREM EachRevisionAccounted == Spec => []RevisionsAccounted
<1>1. Sound => RevisionsAccounted
  BY DEF Sound, Counted
<1> QED
  BY <1>1, AlwaysSound, PTL

\* In the first invocation of a workflow the gate shows the patch of its plan.
THEOREM GateShowsItsPlan == Spec => []GatedPatchIsThePlans
<1>1. Sound => GatedPatchIsThePlans
  <2> SUFFICES ASSUME Sound, record.status = "AWAITING_APPROVAL", invocations = 1
               PROVE  record.gate = plans[record.plan]
    BY DEF GatedPatchIsThePlans
  <2>1. record.gate # None /\ record.gate.rev = record.plan /\ record.plan \in Revisions
    BY PlanAtHand DEF Sound, Counted
  <2>2. patches[record.plan] = [stage |-> "DONE", hash |-> record.gate]
    BY <2>1 DEF Sound, EvidenceStands, GatedPatchPassed
  <2>3. patches[record.plan].hash = plans[record.plan]
    BY <2>1, <2>2 DEF Sound, First
  <2> QED
    BY <2>2, <2>3
<1> QED
  BY <1>1, AlwaysSound, PTL

\* What each step does to the evidence: repair_patch_once and the gate never touch it.
LEMMA EvidenceStep ==
  ASSUME Sound, [Next]_vars
  PROVE  Kept
<1>1. CASE GenerateBoundedPatch
  <2>1. record.plan # None /\ UNCHANGED smokes
    BY <1>1 DEF GenerateBoundedPatch, CanGenerate
  <2>2. CASE patches[record.plan].stage = "ABSENT"
    <3>1. plans[record.plan].rev = record.plan
      BY <2>1, PlanAtHand
    <3>2. \/ LeavesPatch(record.plan, "DONE", plans[record.plan])
          \/ LeavesPatch(record.plan, "WORKSPACE", None)
          \/ UNCHANGED patches
      BY <1>1, <2>2, <3>1 DEF GenerateBoundedPatch
    <3> QED
      BY <2>1, <2>2, <3>2, LeavesSome
  <2>3. CASE patches[record.plan].stage # "ABSENT"
    BY <1>1, <2>1, <2>3 DEF GenerateBoundedPatch, Kept
  <2> QED
    BY <2>2, <2>3
<1>2. CASE RunBoundedSmoke
  <2>1. UNCHANGED patches
    BY <1>2 DEF RunBoundedSmoke
  <2>2. \/ UNCHANGED smokes
        \/ \E at, result : smokes[at] = NoAttempt /\ smokes' = [smokes EXCEPT ![at] = result]
    BY <1>2 DEF RunBoundedSmoke
  <2> QED
    BY <2>1, <2>2 DEF Kept, Sound, Typed
<1>3. CASE UNCHANGED <<patches, smokes>>
  BY <1>3 DEF Kept
<1>4. Invoke \/ Resume \/ Retry \/ Crash \/ Commit => UNCHANGED <<patches, smokes>>
  BY DEF Invoke, Resume, Retry, Crash, Commit, store
<1>5. LoadAndCompareInputs \/ BeginPlanning \/ RunPlanner \/ PlannerFailed => UNCHANGED <<patches, smokes>>
  BY DEF LoadAndCompareInputs, BeginPlanning, RunPlanner, PlannerFailed, store
<1>6. RepairPatchOnce \/ NodeRaises \/ (\E content \in Contents : PlanAdaptation(content)) =>
        UNCHANGED <<patches, smokes>>
  BY DEF RepairPatchOnce, NodeRaises, PlanAdaptation, store
<1>7. (\E answer \in Answers : GateDecides(answer) \/ GateEdits(answer) \/ GateRaises(answer)) =>
        UNCHANGED <<patches, smokes>>
  BY DEF GateDecides, GateEdits, GateRaises, store
<1>8. UNCHANGED vars => UNCHANGED <<patches, smokes>>
  BY DEF vars, store
<1> QED
  BY <1>1, <1>2, <1>3, <1>4, <1>5, <1>6, <1>7, <1>8 DEF Next, Work

\* No invocation, crash, retry or edit replaces a patch or a smoke result that is there.
THEOREM EvidenceStays == Spec => EvidenceImmutable
<1>1. Sound /\ [Next]_vars =>
        [\A rev \in Revisions :
            /\ patches[rev].stage = "DONE" => patches'[rev] = patches[rev]
            /\ smokes[rev] # NoAttempt => smokes'[rev] = smokes[rev]]_<<patches, smokes>>
  BY EvidenceStep DEF Kept
<1> QED
  BY <1>1, AlwaysSound, PTL DEF Spec, EvidenceImmutable

\* What a step leaves of a record that was repaired or has failed.
NoSecondRepair ==
    record' # Fresh /\ (record.repairs = 1 \/ record.status = "FAILED") =>
        /\ record'.status # "REPAIRING"
        /\ record'.repairs = record.repairs \/ record'.status = "FAILED"

LEMMA RepairStep ==
  ASSUME Sound, [Next]_vars, record' # record
  PROVE  NoSecondRepair
<1>0. record \in RecordType /\ record.repairs \in {0, 1}
  BY DEF Sound, Typed, RecordType
<1>1. record' = FailedRecord => NoSecondRepair
  BY <1>0, FailedCounted DEF Sound, NoSecondRepair
<1>2. CASE LoadAndCompareInputs
  BY <1>2, FreshCounted DEF LoadAndCompareInputs, NoSecondRepair, Fresh, NoRecord
<1>3. CASE BeginPlanning \/ RunPlanner \/ PlannerFailed
  BY <1>1, <1>3 DEF BeginPlanning, RunPlanner, PlannerFailed, Fails, EndsFailed, store
<1>4. ASSUME NEW content \in Contents, PlanAdaptation(content)
      PROVE  NoSecondRepair
  <2>1. record = Fresh
    BY <1>4 DEF PlanAdaptation, CanPlan, Sound, Counted
  <2> QED
    BY <2>1 DEF NoSecondRepair, Fresh, NoRecord
<1>5. CASE GenerateBoundedPatch
  <2>1. \/ record' = FailedRecord
        \/ \E patch : Patched(patch)
    BY <1>5 DEF GenerateBoundedPatch, Fails, EndsFailed
  <2>2. ASSUME NEW patch, Patched(patch)
        PROVE  NoSecondRepair
    <3>1. record'.status = "PATCHED" /\ record'.repairs = record.repairs
      BY <1>0, <2>2 DEF Patched, RecordType
    <3> QED
      BY <3>1 DEF NoSecondRepair
  <2> QED
    BY <1>1, <2>1, <2>2
<1>6. CASE RunBoundedSmoke
  <2>1. /\ record.status = "PATCHED"
        /\ \/ record' = FailedRecord
           \/ \E patch, result : Smoked(patch, result)
    BY <1>6 DEF RunBoundedSmoke, CanSmoke, Fails, EndsFailed
  <2>2. ASSUME NEW patch, NEW result, Smoked(patch, result)
        PROVE  NoSecondRepair
    <3>1. /\ record'.repairs = record.repairs
          /\ record'.status \in {"AWAITING_APPROVAL", "FAILED"} \/ record.repairs = 0
      BY <1>0, <2>2 DEF Smoked, RecordType
    <3> QED
      BY <2>1, <3>1 DEF NoSecondRepair
  <2> QED
    BY <1>1, <2>1, <2>2
<1>7. CASE RepairPatchOnce
  BY <1>7 DEF RepairPatchOnce, CanRepair, NoSecondRepair
<1>8. ASSUME NEW answer \in Answers, GateDecides(answer) \/ GateEdits(answer) \/ GateRaises(answer)
      PROVE  NoSecondRepair
  <2>1. \E status \in {"REJECTED", "ACCEPTED", "PLANNED"} :
           /\ record'.status = status
           /\ record'.repairs = Reviewed(answer, status).repairs
    BY <1>0, <1>8 DEF GateDecides, GateEdits, GateRaises, Reviewed, RecordType, store
  <2>2. \A status \in {"REJECTED", "ACCEPTED", "PLANNED"} :
           Reviewed(answer, status).repairs = record.repairs
    BY ReviewedShape DEF Statuses
  <2> QED
    BY <2>1, <2>2 DEF NoSecondRepair
<1>9. Invoke \/ Resume \/ Retry \/ Crash \/ Commit \/ NodeRaises => UNCHANGED record
  BY DEF Invoke, Resume, Retry, Crash, Commit, NodeRaises, store
<1>10. UNCHANGED vars => UNCHANGED record
  BY DEF vars, store
<1> QED
  BY <1>2, <1>3, <1>4, <1>5, <1>6, <1>7, <1>8, <1>9, <1>10 DEF Next, Work

\* A patch is repaired once in an invocation, also after a human edited it: the guard
\* of repair_patch_once and the branch of run_bounded_smoke together.
THEOREM SoleRepair == Spec => RepairedOnce
<1>1. Sound /\ [Next]_vars =>
        [record' # Fresh /\ (record.repairs = 1 \/ record.status = "FAILED") =>
            /\ record'.status # "REPAIRING"
            /\ record'.repairs = record.repairs \/ record'.status = "FAILED"]_record
  BY RepairStep DEF NoSecondRepair
<1> QED
  BY <1>1, AlwaysSound, PTL DEF Spec, RepairedOnce
=============================================================================
