--------------------------- MODULE TrainingProofs ---------------------------
(***************************************************************************)
(* Theorems of Training for every value of its constants.                  *)
(***************************************************************************)
EXTENDS Training, TLAPS

\* A subprocess that was started was started for a run.
ChildrenKnowRun == \A pid \in Pids : children[pid].stage # "UNUSED" => children[pid].run \in Runs

\* What the control state says of the data: an invocation knows its input, a
\* pending edit has a revision left to go to, and a process that waits for a
\* subprocess holds the approved submission it started it for.
Control ==
    /\ ckpt.node # "START" \/ proc.phase # "DOWN"
         => ckpt.request \in Contents
    /\ record.status = "EDIT_REQUESTED" =>
         /\ record.spec \in Specs
         /\ record.spec.rev < MaxRevision
         /\ record.edit \in Contents
    /\ proc.phase = "CALL" =>
         /\ proc.pid \in Pids
         /\ ckpt.node \in RunNodes
         /\ CanRun
    /\ ChildrenKnowRun

LEMMA IdleType == ASSUME NEW phase \in Phases PROVE Idle(phase) \in ProcType
  BY DEF Idle, ProcType, Nodes, Outcomes, Ended

LEMMA WroteType ==
    ASSUME NEW next \in Nodes, NEW gate \in Specs \cup {None}, NEW outcome \in Outcomes,
           Wrote(next, gate, outcome)
    PROVE  proc' \in ProcType /\ proc'.phase = "WROTE" /\ proc'.next = next
  BY DEF Wrote, ProcType, Phases

LEMMA RaiseType == Raise => proc' \in ProcType /\ proc'.phase = "RAISED"
  BY IdleType DEF Raise, Phases, Idle

\* A node's last record is written, or the write is refused and the node raises.
LEMMA RecordsType ==
    ASSUME NEW updated, NEW next \in Nodes, NEW outcome \in Outcomes,
           Records(updated, next, outcome)
    PROVE  /\ proc' \in ProcType /\ proc'.phase \in {"WROTE", "RAISED"}
           /\ record' = updated \/ UNCHANGED record
  BY WroteType, RaiseType DEF Records

LEMMA InitType == Init => TypeOK /\ Control
  <1> SUFFICES ASSUME Init PROVE TypeOK /\ Control
    OBVIOUS
  <1> USE TrainingAssumption
  <1>1. NoRecord \in RecordType
    BY DEF NoRecord, RecordType, Statuses, Ended, Reviews
  <1>2. NoOutput \in OutputType /\ NoChild \in ChildType
    BY DEF NoOutput, OutputType, NoChild, ChildType, Stages
  <1>3. Idle("DOWN") \in ProcType
    BY IdleType DEF Phases
  <1>4. ckpt \in CkptType
    BY DEF Init, CkptType, Nodes, Outcomes
  <1>5. TypeOK
    BY <1>1, <1>2, <1>3, <1>4 DEF Init, TypeOK
  <1>6. Control
    BY DEF Init, Control, Idle, NoRecord, ChildrenKnowRun, NoChild
  <1> QED
    BY <1>5, <1>6

\* A reviewed or refrozen or failed record is a record again.
LEMMA FreezeType ==
    ASSUME TypeOK, Control, NEW spec \in Specs, Freeze(spec),
           ckpt.node \in {"freeze_submission", "revise_submission"},
           proc.phase = "READY"
    PROVE  TypeOK' /\ Control'
  <1> USE TrainingAssumption
  <1> USE DEF TypeOK, Control, ChildrenKnowRun
  <1>0. spec.rev \in Revisions
    BY DEF Specs
  <1>1. WriteSpec(spec) => specs' \in [Revisions -> Specs \cup {None}]
    BY <1>0 DEF WriteSpec
  <1>2. Awaiting(spec) \in RecordType /\ Failed \in RecordType
    BY DEF Awaiting, Failed, RecordType, Statuses, Ended
  <1>3. Awaiting(spec).status = "AWAITING_APPROVAL" /\ Failed.status = "FAILED"
    BY DEF Awaiting, Failed, RecordType
  <1>4. proc' \in ProcType /\ proc'.phase \in {"WROTE", "RAISED", "DOWN"}
    <2>1. CASE Wrote("training_gate", spec, "OPEN")
      BY <2>1, WroteType DEF Nodes, Outcomes
    <2>2. CASE Records(Failed, "END", "FAILED")
      BY <2>2, RecordsType DEF Nodes, Outcomes, Ended
    <2>3. CASE proc' = Idle("DOWN")
      BY <2>3, IdleType DEF Phases, Idle
    <2> QED
      BY <2>1, <2>2, <2>3 DEF Freeze
  <1>5. /\ specs' \in [Revisions -> Specs \cup {None}]
        /\ record' \in {record, Awaiting(spec), Failed}
        /\ record' = record => UNCHANGED record
        /\ recorder' \subseteq Answers
    BY <1>1 DEF Freeze, Records
  <1>6. UNCHANGED <<outputs, children, ckpt, life, approved>>
    BY DEF Freeze
  <1> QED
    BY <1>2, <1>3, <1>4, <1>5, <1>6

\* What the gate and the run nodes make of a record is a record.
LEMMA ReviewedType ==
    ASSUME record \in RecordType, NEW answer \in Answers, answer.subject = record.spec,
           NEW status \in Statuses, NEW edit \in Contents \cup {None}
    PROVE  /\ Reviewed(answer, status, edit) \in RecordType
           /\ Reviewed(answer, status, edit).status = status
           /\ Reviewed(answer, status, edit).spec = record.spec
           /\ Reviewed(answer, status, edit).edit = edit
  <1> DEFINE review == [id |-> answer.id, decision |-> answer.decision,
                        subject |-> answer.subject]
  <1>1. review \in Reviews /\ answer.id \in ApprovalIds
    BY DEF Answers, Reviews
  <1> QED
    BY <1>1 DEF Reviewed, RecordType

\* The two ways a run node ends, in an approved submission.
LEMMA RunEndsType ==
    ASSUME TypeOK, Control, ExactApproval, ckpt.node \in RunNodes,
           UNCHANGED <<specs, outputs, ckpt, recorder, life, approved>>,
           children' \in [Pids -> ChildType], ChildrenKnowRun',
           RunFails \/ RunSucceeds
    PROVE  TypeOK' /\ Control'
  <1>1. record.spec \in Specs /\ Role \in Roles
    BY DEF TypeOK, RecordType, ExactApproval, Role, RoleOf, Roles
  <1>2. record' \in RecordType /\ record'.status \in {"FAILED", "RUNNING"}
    <2>1. CASE record' = Failed
      BY <2>1 DEF Failed, TypeOK, RecordType, Statuses, Ended
    <2>2. CASE record' = [record EXCEPT !.results[Role] = record.spec]
      BY <2>2, <1>1 DEF TypeOK, RecordType, ExactApproval
    <2>3. CASE UNCHANGED record
      BY <2>3 DEF TypeOK, ExactApproval
    <2> QED
      BY <2>1, <2>2, <2>3 DEF RunFails, RunSucceeds, Records
  <1>3. proc' \in ProcType /\ proc'.phase \in {"WROTE", "RAISED"}
    <2>1. "END" \in Nodes /\ NextRun \in Nodes /\ {"FAILED", "OPEN"} \subseteq Outcomes
      BY DEF NextRun, Nodes, Outcomes, Ended
    <2> QED
      BY <2>1, RecordsType DEF RunFails, RunSucceeds
  <1>4. ckpt.request \in Contents
    BY DEF Control, RunNodes
  <1> QED
    BY <1>2, <1>3, <1>4 DEF TypeOK, Control, ChildrenKnowRun

LEMMA TypeStep == TypeOK /\ Control /\ [Next]_vars => TypeOK' /\ Control'
  <1> SUFFICES ASSUME TypeOK, Control, [Next]_vars PROVE TypeOK' /\ Control'
    OBVIOUS
  <1> USE TrainingAssumption
  <1>1. CASE Commit
    <2>1. ckpt' \in CkptType
      BY <1>1 DEF Commit, TypeOK, CkptType, ProcType
    <2>2. proc' \in ProcType /\ proc'.phase = "READY"
      BY <1>1, IdleType DEF Commit, Phases, Idle
    <2> QED
      BY <1>1, <2>1, <2>2 DEF Commit, TypeOK, Control, ChildrenKnowRun, store, CkptType
  <1>2. ASSUME NEW request \in Contents, Invoke(request) PROVE TypeOK' /\ Control'
    <2>1. ckpt' \in CkptType /\ ckpt'.request = request
      BY <1>2 DEF Invoke, CkptType, Nodes, Outcomes
    <2>2. proc' \in ProcType /\ proc'.phase = "READY"
      BY <1>2, IdleType DEF Invoke, Phases, Idle
    <2>3. life' \in 0 .. MaxLives
      BY <1>2 DEF Invoke, TypeOK
    <2> QED
      BY <1>2, <2>1, <2>2, <2>3 DEF Invoke, TypeOK, Control, ChildrenKnowRun, store
  <1>3. CASE Resume
    <2>1. proc' \in ProcType /\ proc'.phase = "READY"
      BY <1>3, IdleType DEF Resume, Phases, Idle
    <2>2. life' \in 0 .. MaxLives
      BY <1>3 DEF Resume, TypeOK
    <2> QED
      BY <1>3, <2>1, <2>2 DEF Resume, TypeOK, Control, ChildrenKnowRun, store
  <1>4. CASE Crash
    <2>1. proc' \in ProcType /\ proc'.phase = "DOWN"
      BY <1>4, IdleType DEF Crash, Phases, Idle
    <2> QED
      BY <1>4, <2>1 DEF Crash, TypeOK, Control, ChildrenKnowRun, store
  <1>5. CASE ValidateInput
    <2>1. Fresh \in RecordType /\ Fresh.status = "INPUT_VALIDATED"
      BY DEF Fresh, NoRecord, RecordType, Statuses, Ended, Reviews
    <2>2. proc' \in ProcType /\ proc'.phase = "WROTE"
      BY <1>5, WroteType DEF ValidateInput, Nodes, Outcomes, Ended
    <2> QED
      BY <1>5, <2>1, <2>2 DEF ValidateInput, TypeOK, Control, ChildrenKnowRun, At
  <1>6. CASE FreezeSubmission
    <2>1. [rev |-> 1, content |-> ckpt.request] \in Specs
      BY <1>6 DEF FreezeSubmission, At, Control, Specs, Revisions
    <2> QED
      BY <1>6, <2>1, FreezeType DEF FreezeSubmission, At
  <1>7. CASE ReviseSubmission
    <2>1. [rev |-> record.spec.rev + 1, content |-> record.edit] \in Specs
      BY <1>7 DEF ReviseSubmission, CanRevise, Control, Specs, Revisions
    <2> QED
      BY <1>7, <2>1, FreezeType DEF ReviseSubmission, At
  <1>8. CASE FreezeRaises \/ RunRaises \/ CollectRaises
    <2>1. proc' \in ProcType /\ proc'.phase = "RAISED"
      BY <1>8, IdleType DEF FreezeRaises, RunRaises, CollectRaises, Raise, Phases, Idle
    <2>2. UNCHANGED <<store, children, ckpt, recorder, life, approved>>
      BY <1>8 DEF FreezeRaises, RunRaises, CollectRaises
    <2>3. ckpt.request \in Contents
      BY <1>8 DEF Control, FreezeRaises, RunRaises, CollectRaises, AtRun, At
    <2> QED
      BY <2>1, <2>2, <2>3 DEF TypeOK, Control, ChildrenKnowRun, store
  <1>9. ASSUME NEW answer \in Answers, GateDecides(answer) PROVE TypeOK' /\ Control'
    <2>1. /\ record.spec \in Specs /\ answer.subject = record.spec
          /\ answer.id \in ApprovalIds /\ answer.edit \in Contents \cup {None}
          /\ record \in RecordType /\ record.edit \in Contents \cup {None}
      BY <1>9 DEF GateDecides, GateMatches, Admissible, TypeOK, RecordType, Answers
    <2>2. proc' \in ProcType /\ proc'.phase = "WROTE"
      BY <1>9, WroteType DEF GateDecides, Nodes, Outcomes, Ended
    <2>3. recorder' \subseteq Answers /\ approved' \in SUBSET Specs
      BY <1>9, <2>1 DEF GateDecides, TypeOK
    <2>4. UNCHANGED <<specs, outputs, children, ckpt, life>> /\ ckpt.request \in Contents
      BY <1>9 DEF GateDecides, Control, At
    <2>5. /\ record' \in RecordType
          /\ record'.status = "EDIT_REQUESTED" =>
               record'.spec \in Specs /\ record'.spec.rev < MaxRevision /\ record'.edit \in Contents
      <3>1. CASE record' = Reviewed(answer, "RUNNING", record.edit)
        BY <3>1, <2>1, ReviewedType DEF Statuses
      <3>2. CASE record' = Reviewed(answer, "REJECTED", record.edit)
        BY <3>2, <2>1, ReviewedType DEF Statuses, Ended
      <3>3. CASE /\ record' = Reviewed(answer, "EDIT_REQUESTED", answer.edit)
                 /\ answer.edit # None
                 /\ record.spec.rev < MaxRevision
        BY <3>3, <2>1, ReviewedType DEF Statuses
      <3> QED
        BY <1>9, <3>1, <3>2, <3>3 DEF GateDecides
    <2> QED
      BY <2>2, <2>3, <2>4, <2>5 DEF TypeOK, Control, ChildrenKnowRun
  <1>10. ASSUME NEW answer \in Answers, GateRaises(answer) PROVE TypeOK' /\ Control'
    <2>1. proc' \in ProcType /\ proc'.phase = "RAISED"
      BY <1>10, IdleType DEF GateRaises, Raise, Phases, Idle
    <2>2. recorder' \subseteq Answers
      BY <1>10 DEF GateRaises, TypeOK, Answers
    <2>3. UNCHANGED <<store, children, ckpt, life, approved>> /\ ckpt.request \in Contents
      BY <1>10 DEF GateRaises, Control, At
    <2> QED
      BY <2>1, <2>2, <2>3 DEF TypeOK, Control, ChildrenKnowRun, store
  <1>11. CASE RunCancelled
    <2>1. record' \in RecordType /\ record'.status \in {"RUNNING", "CANCELLED"}
      <3>1. record.status = "RUNNING"
        BY <1>11 DEF RunCancelled, CanRun, ExactApproval
      <3>2. CASE record' = [record EXCEPT !.status = "CANCELLED",
                                !.point = IF Role = "BASELINE" THEN "BEFORE_BASELINE"
                                                               ELSE "BETWEEN_RUNS"]
        BY <3>2 DEF TypeOK, RecordType, Statuses, Ended
      <3>3. CASE UNCHANGED record
        BY <3>1, <3>3 DEF TypeOK
      <3> QED
        BY <1>11, <3>2, <3>3 DEF RunCancelled, Records
    <2>2. proc' \in ProcType /\ proc'.phase \in {"WROTE", "RAISED"}
      BY <1>11, RecordsType DEF RunCancelled, Nodes, Outcomes, Ended
    <2> QED
      BY <1>11, <2>1, <2>2 DEF RunCancelled, TypeOK, Control, ChildrenKnowRun, AtRun, RunNodes, At
  <1>12. CASE RunWithoutStart
    <2>1. ExactApproval /\ ckpt.node \in RunNodes /\ (RunFails \/ RunSucceeds)
      BY <1>12 DEF RunWithoutStart, AtRun, CanRun, At
    <2>2. UNCHANGED <<specs, outputs, children, ckpt, recorder, life, approved>>
      BY <1>12 DEF RunWithoutStart
    <2>3. children' \in [Pids -> ChildType] /\ ChildrenKnowRun'
      BY <2>2 DEF TypeOK, Control, ChildrenKnowRun
    <2> QED
      BY <2>1, <2>2, <2>3, RunEndsType
  <1>13. ASSUME NEW pid \in Pids, RunStarts(pid) PROVE TypeOK' /\ Control'
    <2>1. /\ ckpt.node \in RunNodes /\ CanRun /\ ckpt.request \in Contents
          /\ record.status = "RUNNING"
      BY <1>13 DEF RunStarts, AtRun, At, CanRun, ExactApproval, RunNodes, Control
    <2>2. record.spec \in Specs /\ RunOf(record.spec, Role) \in Runs
      BY <2>1 DEF CanRun, ExactApproval, TypeOK, RecordType, RunOf, Runs, Role, RoleOf, Roles, Specs
    <2>3. children' \in [Pids -> ChildType] /\ ChildrenKnowRun'
      BY <1>13, <2>2 DEF RunStarts, TypeOK, ChildType, Stages, Control, ChildrenKnowRun
    <2>4. proc' \in ProcType /\ proc'.pid = pid
      BY <1>13 DEF RunStarts, Idle, ProcType, Phases, Nodes, Outcomes
    <2>5. UNCHANGED <<store, ckpt, recorder, life, approved>>
      BY <1>13 DEF RunStarts
    <2>6. CanRun'
      BY <2>1, <2>5 DEF CanRun, ExactApproval, store
    <2> QED
      BY <2>1, <2>3, <2>4, <2>5, <2>6 DEF TypeOK, Control, store
  <1>14. CASE RunReturns
    <2>1. ExactApproval /\ ckpt.node \in RunNodes /\ (RunFails \/ RunSucceeds)
      BY <1>14 DEF RunReturns, Control, CanRun
    <2>2. UNCHANGED <<specs, outputs, children, ckpt, recorder, life, approved>>
      BY <1>14 DEF RunReturns
    <2>3. children' \in [Pids -> ChildType] /\ ChildrenKnowRun'
      BY <2>2 DEF TypeOK, Control, ChildrenKnowRun
    <2> QED
      BY <2>1, <2>2, <2>3, RunEndsType
  <1>15. CASE RunTimesOut
    <2>1. ExactApproval /\ ckpt.node \in RunNodes /\ RunFails /\ proc.pid \in Pids
      BY <1>15 DEF RunTimesOut, Control, CanRun
    <2>2. UNCHANGED <<specs, outputs, ckpt, recorder, life, approved>>
      BY <1>15 DEF RunTimesOut
    <2>3. children' \in [Pids -> ChildType] /\ ChildrenKnowRun'
      BY <1>15, <2>1 DEF RunTimesOut, TypeOK, ChildType, Stages, Control, ChildrenKnowRun, Alive
    <2> QED
      BY <2>1, <2>2, <2>3, RunEndsType
  <1>16. CASE CollectOutputs
    <2>1. record' \in RecordType /\ record'.status \in {"RUNNING", "SUCCEEDED", "FAILED"}
      <3>1. record.status = "RUNNING"
        BY <1>16 DEF CollectOutputs, ExactApproval
      <3>2. CASE record' = Failed
        BY <3>2 DEF Failed, TypeOK, RecordType, Statuses, Ended
      <3>3. CASE record' = [record EXCEPT !.status = "SUCCEEDED"]
        BY <3>3 DEF TypeOK, RecordType, Statuses, Ended
      <3>4. CASE UNCHANGED record
        BY <3>1, <3>4 DEF TypeOK
      <3> QED
        BY <1>16, <3>2, <3>3, <3>4 DEF CollectOutputs, RunFails, Records
    <2>2. proc' \in ProcType /\ proc'.phase \in {"WROTE", "RAISED"}
      BY <1>16, WroteType, RecordsType DEF CollectOutputs, RunFails, Nodes, Outcomes, Ended
    <2> QED
      BY <1>16, <2>1, <2>2 DEF CollectOutputs, TypeOK, Control, ChildrenKnowRun, At
  <1>17. ASSUME NEW pid \in Pids, Child(pid) PROVE TypeOK' /\ Control'
    <2>1. children[pid] \in ChildType /\ children[pid].spec \in Specs \cup {None}
      BY DEF TypeOK, ChildType
    <2>2. children' \in [Pids -> ChildType] /\ ChildrenKnowRun'
      <3>1. children[pid].stage # "UNUSED" /\ children[pid].run \in Runs
        BY <1>17 DEF Child, ChildLoads, ChildOpens, ChildWritesManifest, ChildWritesLog,
             ChildFails, Alive, Control, ChildrenKnowRun
      <3>2. ASSUME NEW stage \in Stages, NEW spec \in Specs \cup {None},
                   ChildStep(pid, stage, spec)
            PROVE  children' \in [Pids -> ChildType] /\ ChildrenKnowRun'
        <4> DEFINE child == [children[pid] EXCEPT !.stage = stage, !.spec = spec]
        <4>1. children' = [children EXCEPT ![pid] = child]
          BY <3>2 DEF ChildStep, TypeOK
        <4>2. child \in ChildType /\ child.run = children[pid].run
          BY DEF TypeOK, ChildType
        <4> QED
          BY <3>1, <4>1, <4>2 DEF TypeOK, Control, ChildrenKnowRun
      <3>3. specs[children[pid].run[1]] \in Specs \cup {None}
        BY <3>1 DEF TypeOK, Runs
      <3> QED
        BY <1>17, <2>1, <3>2, <3>3 DEF Child, ChildLoads, ChildOpens, ChildWritesManifest,
             ChildWritesLog, ChildFails, Stages
    <2>3. outputs' \in [Runs -> OutputType]
      BY <1>17, <2>1 DEF Child, ChildLoads, ChildOpens, ChildWritesManifest, ChildWritesLog,
           ChildFails, OutputStep, TypeOK, OutputType, store
    <2>4. UNCHANGED <<record, specs, ckpt, proc, recorder, life, approved>>
      BY <1>17 DEF Child, ChildLoads, ChildOpens, ChildWritesManifest, ChildWritesLog,
           ChildFails, store
    <2>5. CanRun => CanRun'
      BY <2>4 DEF CanRun, ExactApproval
    <2> QED
      BY <2>2, <2>3, <2>4, <2>5 DEF TypeOK, Control, ChildrenKnowRun
  <1>18. CASE Retry
    <2>1. proc' \in ProcType /\ proc'.phase = "READY"
      BY <1>18, IdleType DEF Retry, Phases, Idle
    <2> QED
      BY <1>18, <2>1 DEF Retry, TypeOK, Control, ChildrenKnowRun, store
  <1>19. CASE UNCHANGED vars
    BY <1>19 DEF vars, TypeOK, Control, ChildrenKnowRun, CanRun, ExactApproval
  <1> QED
    BY <1>1, <1>2, <1>3, <1>4, <1>5, <1>6, <1>7, <1>8, <1>9, <1>10, <1>11, <1>12, <1>13,
       <1>14, <1>15, <1>16, <1>17, <1>18, <1>19 DEF Next, Work

\* Every reachable state has its type.
THEOREM TypeCorrect == Spec => []TypeOK
  <1>1. Init => TypeOK /\ Control
    BY InitType
  <1>2. TypeOK /\ Control /\ [Next]_vars => (TypeOK /\ Control)'
    BY TypeStep
  <1> QED
    BY <1>1, <1>2, PTL DEF Spec

-----------------------------------------------------------------------------
(***************************************************************************)
(* The evidence: who approved, who writes, what a result stands on.        *)
(***************************************************************************)
Sound ==
    /\ Evidence
    /\ StartedOnlyIfApproved
    /\ OneWriter
    /\ ResultsFromApprovedSpec

\* A step that leaves outputs, children and approved alone and keeps the
\* reviews, the submission and the results keeps everything but the third
\* conjunct of Evidence.
LEMMA SoundKept ==
    ASSUME Sound, UNCHANGED <<outputs, children>>, approved \subseteq approved',
           record'.reviews = record.reviews, record'.results = record.results,
           record'.spec = record.spec \/ \A role \in Roles : record.results[role] = None,
           record'.status = "FAILED" \/ record'.status = record.status
             \/ \A role \in Roles : record.results[role] = None
             \/ record'.status \in {"RUNNING", "CANCELLED", "SUCCEEDED"}
    PROVE  Sound'
  <1>1. Evidence'
    BY DEF Sound, Evidence
  <1>2. StartedOnlyIfApproved' /\ OneWriter'
    BY DEF Sound, StartedOnlyIfApproved, OneWriter
  <1>3. ResultsFromApprovedSpec'
    BY DEF Sound, ResultsFromApprovedSpec, Valid, RunOf
  <1> QED
    BY <1>1, <1>2, <1>3 DEF Sound

\* The two ways a run node ends: a result is recorded only after validation, for
\* a submission an exact review approved.
LEMMA SoundRunEnds ==
    ASSUME TypeOK, Sound, ExactApproval,
           UNCHANGED <<outputs, approved>>,
           UNCHANGED children,
           RunFails \/ (RunSucceeds /\ Valid(Output, record.spec))
    PROVE  Sound'
  <1>1. CASE record' = Failed \/ UNCHANGED record
    BY <1>1, SoundKept DEF Failed, TypeOK, RecordType
  <1>2. CASE /\ record' = [record EXCEPT !.results[Role] = record.spec]
             /\ Valid(Output, record.spec)
    <2>1. /\ record'.reviews = record.reviews /\ record'.status = "RUNNING"
          /\ record'.spec = record.spec
          /\ record'.results = [record.results EXCEPT ![Role] = record.spec]
      BY <1>2 DEF TypeOK, RecordType, ExactApproval
    <2>2. record.spec \in approved /\ record.results \in [Roles -> Specs \cup {None}]
      BY DEF ExactApproval, Sound, Evidence, TypeOK, RecordType
    <2>3. Evidence'
      BY <2>1 DEF Sound, Evidence
    <2>4. StartedOnlyIfApproved' /\ OneWriter'
      BY DEF Sound, StartedOnlyIfApproved, OneWriter
    <2>5. ResultsFromApprovedSpec'
      <3> SUFFICES ASSUME NEW role \in Roles, record'.results[role] # None
                   PROVE  /\ record'.results[role] = record'.spec
                          /\ record'.spec \in approved'
                          /\ Valid(outputs'[RunOf(record'.spec, role)], record'.spec)
        BY DEF ResultsFromApprovedSpec, Valid
      <3>1. CASE role = Role
        BY <3>1, <1>2, <2>1, <2>2 DEF Output, RunOf, Valid
      <3>2. CASE role # Role
        BY <3>2, <2>1, <2>2 DEF Sound, ResultsFromApprovedSpec, RunOf, Valid
      <3> QED
        BY <3>1, <3>2
    <2> QED
      BY <2>3, <2>4, <2>5 DEF Sound
  <1> QED
    BY <1>1, <1>2 DEF RunFails, RunSucceeds, Records

\* A step of a subprocess: it opens a directory nobody has, or continues in the
\* one it has alone.
LEMMA SoundChild ==
    ASSUME TypeOK, Control, Sound, NEW pid \in Pids, Child(pid)
    PROVE  Sound'
  <1> DEFINE child == children[pid]
             Writes(stage, spec) == outputs' = [outputs EXCEPT ![child.run] =
                                                   [stage |-> stage, spec |-> spec]]
  <1>1. child \in ChildType /\ child.stage # "UNUSED" /\ child.run \in Runs
    BY DEF Child, ChildLoads, ChildOpens, ChildWritesManifest, ChildWritesLog, ChildFails,
       Alive, Control, ChildrenKnowRun, TypeOK
  <1>2. UNCHANGED <<record, approved>>
    BY DEF Child, ChildLoads, ChildOpens, ChildWritesManifest, ChildWritesLog, ChildFails, store
  <1>3. /\ \A q \in Pids : q # pid => children'[q] = children[q]
        /\ children'[pid].run = child.run /\ children'[pid].wanted = child.wanted
    BY DEF Child, ChildLoads, ChildOpens, ChildWritesManifest, ChildWritesLog, ChildFails,
       ChildStep, TypeOK, ChildType
  <1>4. StartedOnlyIfApproved'
    BY <1>1, <1>2, <1>3 DEF Sound, StartedOnlyIfApproved
  <1>5. ASSUME outputs[child.run].stage # "COMPLETE",
                \A run \in Runs \ {child.run} : outputs'[run] = outputs[run]
         PROVE  ResultsFromApprovedSpec'
    <2> SUFFICES ASSUME NEW role \in Roles, record.results[role] # None
                 PROVE  Valid(outputs'[RunOf(record.spec, role)], record.spec)
      BY <1>2 DEF Sound, ResultsFromApprovedSpec, Valid
    <2>1. Valid(outputs[RunOf(record.spec, role)], record.spec)
      BY DEF Sound, ResultsFromApprovedSpec, Valid
    <2>2. RunOf(record.spec, role) \in Runs /\ RunOf(record.spec, role) # child.run
      <3>1. record.spec \in Specs
        BY DEF Sound, ResultsFromApprovedSpec, TypeOK
      <3> QED
        BY <3>1, <2>1, <1>5 DEF RunOf, Runs, Specs, Valid
    <2> QED
      BY <2>1, <2>2, <1>5 DEF Valid
  <1>6. CASE UNCHANGED outputs /\ children'[pid].stage \in {"LOADED", "EXIT_1"}
    <2>1. Evidence' /\ OneWriter'
      BY <1>2, <1>3, <1>6 DEF Sound, Evidence, OneWriter
    <2>2. ResultsFromApprovedSpec'
      BY <1>2, <1>6 DEF Sound, ResultsFromApprovedSpec, Valid, RunOf
    <2> QED
      BY <2>1, <2>2, <1>4 DEF Sound
  <1>7. CASE /\ outputs[child.run].stage = "ABSENT"
             /\ Writes("EMPTY", None)
             /\ children'[pid].stage = "WRITING"
    <2>1. outputs'[child.run].stage = "EMPTY" /\ \A run \in Runs \ {child.run} : outputs'[run] = outputs[run]
      BY <1>1, <1>7 DEF TypeOK
    <2>2. \A q \in Pids : q # pid /\ children[q].stage \in {"WRITING", "LOGGING"}
             => children[q].run # child.run /\ children[q].run \in Runs
      BY <1>7 DEF Sound, Evidence, Control, ChildrenKnowRun
    <2>3. Evidence'
      BY <1>2, <1>3, <1>7, <2>1, <2>2 DEF Sound, Evidence
    <2>4. OneWriter'
      BY <1>3, <1>7, <2>2 DEF Sound, OneWriter
    <2>5. ResultsFromApprovedSpec'
      BY <1>7, <1>5, <2>1
    <2> QED
      BY <2>3, <2>4, <2>5, <1>4 DEF Sound
  <1>8. CASE /\ child.stage \in {"WRITING", "LOGGING"}
             /\ \/ Writes("MANIFEST", child.spec) /\ children'[pid].stage = "LOGGING"
                \/ Writes("COMPLETE", child.spec) /\ children'[pid].stage = "EXIT_0"
             /\ children'[pid].spec = child.spec
    <2>1. /\ outputs[child.run].stage \in {"EMPTY", "MANIFEST"}
          /\ \A run \in Runs \ {child.run} : outputs'[run] = outputs[run]
      BY <1>1, <1>8 DEF TypeOK, Sound, Evidence
    <2>2. \A q \in Pids : q # pid /\ children[q].stage \in {"WRITING", "LOGGING"}
             => children[q].run # child.run /\ children[q].run \in Runs
      BY <1>8 DEF Sound, OneWriter, Control, ChildrenKnowRun
    <2>3. Evidence'
      <3>1. children'[pid].stage = "LOGGING" => outputs'[child.run].stage = "MANIFEST"
        BY <1>1, <1>8 DEF TypeOK
      <3> QED
        BY <1>2, <1>3, <1>8, <2>1, <2>2, <3>1 DEF Sound, Evidence
    <2>4. OneWriter'
      BY <1>3, <1>8, <2>2 DEF Sound, OneWriter
    <2>5. ResultsFromApprovedSpec'
      BY <1>5, <2>1
    <2> QED
      BY <2>3, <2>4, <2>5, <1>4 DEF Sound
  <1>9. ChildLoads(pid) \/ ChildFails(pid) => UNCHANGED outputs /\ children'[pid].stage \in {"LOADED", "EXIT_1"}
    BY DEF ChildLoads, ChildFails, ChildStep, TypeOK, ChildType, store
  <1>10. CASE ChildOpens(pid)
    BY <1>6, <1>7, <1>10 DEF ChildOpens, OutputStep, ChildStep, TypeOK, ChildType
  <1>11. CASE ChildWritesManifest(pid)
    BY <1>8, <1>11 DEF ChildWritesManifest, OutputStep, ChildStep, TypeOK, ChildType
  <1>12. CASE ChildWritesLog(pid)
    BY <1>8, <1>12 DEF ChildWritesLog, OutputStep, ChildStep, TypeOK, ChildType
  <1> QED
    BY <1>6, <1>9, <1>10, <1>11, <1>12 DEF Child

LEMMA SoundInit == Init => Sound
  BY TrainingAssumption DEF Init, Sound, Evidence, StartedOnlyIfApproved, OneWriter,
     ResultsFromApprovedSpec, NoRecord, NoChild

LEMMA SoundFreeze ==
    ASSUME TypeOK, Sound, NEW spec \in Specs, Freeze(spec),
           record.status \in {"INPUT_VALIDATED", "EDIT_REQUESTED"}
    PROVE  Sound'
  <1>1. /\ Awaiting(spec).reviews = record.reviews /\ Awaiting(spec).results = record.results
        /\ Failed.reviews = record.reviews /\ Failed.results = record.results
    BY DEF Awaiting, Failed, TypeOK, RecordType
  <1>2. \A role \in Roles : record.results[role] = None
    BY DEF Sound, Evidence
  <1>3. UNCHANGED <<outputs, children, approved>> /\ record' \in {record, Awaiting(spec), Failed}
    BY DEF Freeze, Records
  <1> QED
    BY <1>1, <1>2, <1>3, SoundKept

\* A gate decision adds one review and, when it approves, one approved spec.
LEMMA SoundDecision ==
    ASSUME TypeOK, Sound, NEW answer \in Answers, GateDecides(answer)
    PROVE  Sound'
  <1> DEFINE review == [id |-> answer.id, decision |-> answer.decision,
                        subject |-> answer.subject]
  <1>1. /\ record'.reviews = record.reviews \cup {review}
        /\ record'.results = record.results
    BY DEF GateDecides, Reviewed, TypeOK, RecordType
  <1>2. \A role \in Roles : record.results[role] = None
    BY DEF GateDecides, GateMatches, Sound, Evidence
  <1>3. /\ UNCHANGED <<outputs, children>> /\ approved \subseteq approved'
        /\ answer.decision = "APPROVE" => answer.subject \in approved'
    BY DEF GateDecides
  <1>4. Evidence'
    BY <1>1, <1>2, <1>3 DEF Sound, Evidence
  <1>5. StartedOnlyIfApproved' /\ OneWriter' /\ ResultsFromApprovedSpec'
    BY <1>1, <1>2, <1>3 DEF Sound, StartedOnlyIfApproved, OneWriter, ResultsFromApprovedSpec
  <1> QED
    BY <1>4, <1>5 DEF Sound

\* A subprocess is started for the submission whose exact approval was checked.
LEMMA SoundStart ==
    ASSUME TypeOK, Control, Sound, NEW pid \in Pids, RunStarts(pid)
    PROVE  Sound'
  <1>1. record.spec \in approved
    BY DEF RunStarts, CanRun, ExactApproval, Sound, Evidence
  <1>2. /\ children'[pid].stage = "SPAWNED" /\ children'[pid].wanted = record.spec
        /\ \A q \in Pids : q # pid => children'[q] = children[q]
        /\ UNCHANGED <<record, outputs, approved>>
    BY DEF RunStarts, TypeOK, store
  <1>3. Evidence' /\ StartedOnlyIfApproved' /\ OneWriter'
    BY <1>1, <1>2 DEF Sound, Evidence, StartedOnlyIfApproved, OneWriter
  <1>4. ResultsFromApprovedSpec'
    BY <1>2 DEF Sound, ResultsFromApprovedSpec, Valid, RunOf
  <1> QED
    BY <1>3, <1>4 DEF Sound

LEMMA SoundStep == TypeOK /\ Control /\ Sound /\ [Next]_vars => Sound'
  <1> SUFFICES ASSUME TypeOK, Control, Sound, [Next]_vars PROVE Sound'
    OBVIOUS
  <1>1. CASE UNCHANGED <<record, outputs, children, approved>>
    BY <1>1, SoundKept
  <1>2. CASE ValidateInput
    <2>1. CASE record' = Fresh
      <3>1. Fresh.reviews = {} /\ \A role \in Roles : Fresh.results[role] = None
        BY DEF Fresh, NoRecord
      <3>2. UNCHANGED <<outputs, children, approved>>
        BY <1>2 DEF ValidateInput
      <3> QED
        BY <2>1, <3>1, <3>2 DEF Sound, Evidence, StartedOnlyIfApproved, OneWriter,
           ResultsFromApprovedSpec
    <2> QED
      BY <1>1, <1>2, <2>1 DEF ValidateInput
  <1>3. CASE FreezeSubmission
    <2>1. [rev |-> 1, content |-> ckpt.request] \in Specs
      BY <1>3, TrainingAssumption DEF FreezeSubmission, At, Control, Specs, Revisions
    <2> QED
      BY <1>3, <2>1, SoundFreeze DEF FreezeSubmission
  <1>4. CASE ReviseSubmission
    <2>1. [rev |-> record.spec.rev + 1, content |-> record.edit] \in Specs
      BY <1>4, TrainingAssumption DEF ReviseSubmission, CanRevise, Control, Specs, Revisions
    <2> QED
      BY <1>4, <2>1, SoundFreeze DEF ReviseSubmission, CanRevise
  <1>5. ASSUME NEW answer \in Answers, GateDecides(answer) PROVE Sound'
    BY <1>5, SoundDecision
  <1>6. CASE RunCancelled
    <2>1. /\ record'.reviews = record.reviews /\ record'.results = record.results
          /\ record'.spec = record.spec /\ record'.status \in {"RUNNING", "CANCELLED"}
      BY <1>6 DEF RunCancelled, CanRun, ExactApproval, Records, TypeOK, RecordType
    <2> QED
      BY <1>6, <2>1, SoundKept DEF RunCancelled
  <1>7. CASE RunWithoutStart
    BY <1>7, SoundRunEnds DEF RunWithoutStart, CanRun
  <1>8. ASSUME NEW pid \in Pids, RunStarts(pid) PROVE Sound'
    BY <1>8, SoundStart
  <1>9. CASE RunReturns
    BY <1>9, SoundRunEnds DEF RunReturns, Control, CanRun
  <1>10. CASE RunTimesOut
    <2>1. /\ proc.pid \in Pids
          /\ \A q \in Pids : /\ children'[q].run = children[q].run
                             /\ children'[q].wanted = children[q].wanted
                             /\ children'[q].stage \in {children[q].stage, "EXIT_1"}
                             /\ children[q].stage = "UNUSED" => children'[q].stage = "UNUSED"
      BY <1>10 DEF RunTimesOut, Control, TypeOK, ChildType, Alive
    <2>2. /\ record'.reviews = record.reviews /\ record'.results = record.results
          /\ record'.spec = record.spec /\ record'.status \in {record.status, "FAILED"}
      BY <1>10 DEF RunTimesOut, RunFails, Records, Failed, TypeOK, RecordType
    <2>3. UNCHANGED <<outputs, approved>>
      BY <1>10 DEF RunTimesOut
    <2>4. Evidence' /\ StartedOnlyIfApproved' /\ OneWriter'
      BY <2>1, <2>2, <2>3 DEF Sound, Evidence, StartedOnlyIfApproved, OneWriter
    <2>5. ResultsFromApprovedSpec'
      BY <2>2, <2>3 DEF Sound, ResultsFromApprovedSpec, Valid, RunOf
    <2> QED
      BY <2>4, <2>5 DEF Sound
  <1>11. CASE CollectOutputs
    <2>1. /\ record'.reviews = record.reviews /\ record'.results = record.results
          /\ record'.spec = record.spec
          /\ record'.status \in {record.status, "FAILED", "SUCCEEDED"}
      BY <1>11 DEF CollectOutputs, RunFails, Records, Failed, TypeOK, RecordType
    <2> QED
      BY <1>11, <2>1, SoundKept DEF CollectOutputs
  <1>12. ASSUME NEW pid \in Pids, Child(pid) PROVE Sound'
    BY <1>12, SoundChild
  <1>13. Commit \/ Resume \/ Retry \/ Crash \/ FreezeRaises \/ RunRaises \/ CollectRaises
           => UNCHANGED <<record, outputs, children, approved>>
    BY DEF Commit, Resume, Retry, Crash, FreezeRaises, RunRaises, CollectRaises, store
  <1>14. \A request \in Contents : Invoke(request)
           => UNCHANGED <<record, outputs, children, approved>>
    BY DEF Invoke, store
  <1>15. \A answer \in Answers : GateRaises(answer)
           => UNCHANGED <<record, outputs, children, approved>>
    BY DEF GateRaises, store
  <1>16. UNCHANGED vars => UNCHANGED <<record, outputs, children, approved>>
    BY DEF vars
  <1> QED
    BY <1>1, <1>2, <1>3, <1>4, <1>5, <1>6, <1>7, <1>8, <1>9, <1>10, <1>11, <1>12, <1>13,
       <1>14, <1>15, <1>16 DEF Next, Work

LEMMA Soundness == Spec => []Sound
  <1>1. Init => TypeOK /\ Control /\ Sound
    BY InitType, SoundInit
  <1>2. TypeOK /\ Control /\ Sound /\ [Next]_vars => (TypeOK /\ Control /\ Sound)'
    BY TypeStep, SoundStep
  <1> QED
    BY <1>1, <1>2, PTL DEF Spec

\* No subprocess is started for a submission that was not approved, however
\* many edits, crashes, resumes and invocations lie between.
THEOREM OnlyApprovedStarts == Spec => []StartedOnlyIfApproved
  <1>1. Sound => StartedOnlyIfApproved
    BY DEF Sound
  <1> QED
    BY <1>1, Soundness, PTL

\* Two subprocesses never write into one run directory.
THEOREM SingleWriter == Spec => []OneWriter
  <1>1. Sound => OneWriter
    BY DEF Sound
  <1> QED
    BY <1>1, Soundness, PTL

\* Every recorded result stands on complete outputs of the approved submission.
THEOREM ResultsTrusted == Spec => []ResultsFromApprovedSpec
  <1>1. Sound => ResultsFromApprovedSpec
    BY DEF Sound
  <1> QED
    BY <1>1, Soundness, PTL

\* The strengthening that makes the three invariants inductive.
THEOREM EvidenceHolds == Spec => []Evidence
  <1>1. Sound => Evidence
    BY DEF Sound
  <1> QED
    BY <1>1, Soundness, PTL

-----------------------------------------------------------------------------
(***************************************************************************)
(* The store and the checkpoint.                                           *)
(***************************************************************************)
\* What the record shows at a node whose checkpoint carries an outcome.
Agrees(node, outcome) ==
    /\ node \in DOMAIN StatusesAt => record.status \in StatusesAt[node]
    /\ node = "END" /\ outcome # "INPUT_INVALID" => record.status = outcome
    /\ node \in {"run_candidate", "collect_outputs"} => record.results["BASELINE"] # None

\* The record agrees with the committed checkpoint, and with the one a node that
\* has just returned is about to commit.
Agreed ==
    /\ Agrees(ckpt.node, ckpt.outcome)
    /\ proc.phase = "WROTE" => Agrees(proc.next, proc.outcome)

LEMMA StatusesOfNodes ==
    /\ DOMAIN StatusesAt = {"freeze_submission", "training_gate", "revise_submission",
                            "run_baseline", "run_candidate", "collect_outputs"}
    /\ StatusesAt["freeze_submission"] = {"INPUT_VALIDATED", "AWAITING_APPROVAL", "FAILED"}
    /\ StatusesAt["training_gate"] = {"AWAITING_APPROVAL", "RUNNING", "REJECTED", "EDIT_REQUESTED"}
    /\ StatusesAt["revise_submission"] = {"EDIT_REQUESTED", "AWAITING_APPROVAL", "FAILED"}
    /\ StatusesAt["run_baseline"] = {"RUNNING", "CANCELLED", "FAILED"}
    /\ StatusesAt["run_candidate"] = {"RUNNING", "CANCELLED", "FAILED"}
    /\ StatusesAt["collect_outputs"] = {"RUNNING", "SUCCEEDED", "FAILED"}
  BY DEF StatusesAt

LEMMA AgreedInit == Init => Agreed
  BY StatusesOfNodes DEF Init, Agreed, Agrees, Idle

\* Nothing is written, and no node returns.
LEMMA AgreedKept ==
    ASSUME Agreed, UNCHANGED <<record, ckpt>>,
           proc'.phase # "WROTE" \/ UNCHANGED proc
    PROVE  Agreed'
  BY DEF Agreed, Agrees

LEMMA AgreedRaise == ASSUME Agreed, UNCHANGED <<record, ckpt>>, Raise PROVE Agreed'
  BY AgreedKept, RaiseType

\* A run node or collect_outputs ends the graph with the outcome it records.
LEMMA AgreedEnd ==
    ASSUME Agreed, UNCHANGED ckpt, ckpt.node \in RunNodes \cup {"collect_outputs"},
           record'.results = record.results,
           NEW status \in {"FAILED", "CANCELLED", "SUCCEEDED"}, record'.status = status,
           status = "CANCELLED" => ckpt.node \in RunNodes,
           status = "SUCCEEDED" => ckpt.node = "collect_outputs",
           Wrote("END", None, status)
    PROVE  Agreed'
  BY StatusesOfNodes DEF Agreed, Agrees, Wrote, RunNodes

\* A run node ends in an approved submission: it fails, or records its result.
LEMMA AgreedRunEnds ==
    ASSUME TypeOK, Agreed, CanRun, ckpt.node \in RunNodes, UNCHANGED ckpt,
           RunFails \/ RunSucceeds
    PROVE  Agreed'
  <1>1. CASE record' = Failed /\ Wrote("END", None, "FAILED")
    BY <1>1, AgreedEnd DEF Failed, TypeOK, RecordType
  <1>2. CASE /\ record' = [record EXCEPT !.results[Role] = record.spec]
             /\ Wrote(NextRun, None, "OPEN")
    <2>1. /\ record.spec # None /\ record'.status = "RUNNING"
          /\ record'.results = [record.results EXCEPT ![Role] = record.spec]
          /\ record.results \in [Roles -> Specs \cup {None}]
      BY <1>2 DEF CanRun, ExactApproval, TypeOK, RecordType
    <2>2. record'.results["BASELINE"] # None
      BY <2>1 DEF CanRun, Role, RoleOf, Roles, RunNodes
    <2>3. proc'.next \in {"run_candidate", "collect_outputs"}
      BY <1>2 DEF NextRun, Wrote
    <2> QED
      BY <2>1, <2>2, <2>3, StatusesOfNodes DEF Agreed, Agrees, RunNodes
  <1>3. CASE UNCHANGED record /\ Raise
    BY <1>3, AgreedRaise
  <1> QED
    BY <1>1, <1>2, <1>3 DEF RunFails, RunSucceeds, Records

\* A frozen submission and a refused one are both statuses of the node they
\* leave; a crash between the two writes leaves the record.
LEMMA AgreedFreeze ==
    ASSUME TypeOK, Agreed, NEW spec \in Specs, Freeze(spec),
           ckpt.node \in {"freeze_submission", "revise_submission"}
    PROVE  Agreed'
  <1>1. Awaiting(spec).status = "AWAITING_APPROVAL" /\ Failed.status = "FAILED"
    BY DEF Awaiting, Failed, TypeOK, RecordType
  <1>2. UNCHANGED ckpt
    BY DEF Freeze
  <1>3. CASE record' = Awaiting(spec) /\ Wrote("training_gate", spec, "OPEN")
    BY <1>1, <1>2, <1>3, StatusesOfNodes DEF Agreed, Agrees, Wrote
  <1>4. CASE record' = Failed /\ Wrote("END", None, "FAILED")
    BY <1>1, <1>2, <1>4, StatusesOfNodes DEF Agreed, Agrees, Wrote
  <1>5. CASE UNCHANGED record /\ proc' = Idle("DOWN")
    BY <1>2, <1>5, AgreedKept DEF Idle
  <1>6. CASE UNCHANGED record /\ Raise
    BY <1>2, <1>6, AgreedRaise
  <1> QED
    BY <1>3, <1>4, <1>5, <1>6 DEF Freeze, Records

\* A decision is a status of the gate and of the node it sends the graph to.
LEMMA AgreedDecision ==
    ASSUME TypeOK, Agreed, NEW answer \in Answers, GateDecides(answer)
    PROVE  Agreed'
  <1>1. ckpt.node = "training_gate" /\ UNCHANGED ckpt
    BY DEF GateDecides, At
  <1>2. \A status \in Statuses : \A edit :
          Reviewed(answer, status, edit).status = status
    BY DEF Reviewed, TypeOK, RecordType
  <1>3. CASE /\ record' = Reviewed(answer, "RUNNING", record.edit)
             /\ Wrote("run_baseline", None, "OPEN")
    <2>1. record'.status = "RUNNING"
      BY <1>2, <1>3 DEF Statuses
    <2> QED
      BY <1>1, <1>3, <2>1, StatusesOfNodes DEF Agreed, Agrees, Wrote
  <1>4. CASE /\ record' = Reviewed(answer, "REJECTED", record.edit)
             /\ Wrote("END", None, "REJECTED")
    <2>1. record'.status = "REJECTED"
      BY <1>2, <1>4 DEF Statuses, Ended
    <2> QED
      BY <1>1, <1>4, <2>1, StatusesOfNodes DEF Agreed, Agrees, Wrote
  <1>5. CASE /\ record' = Reviewed(answer, "EDIT_REQUESTED", answer.edit)
             /\ Wrote("revise_submission", None, "OPEN")
    <2>1. record'.status = "EDIT_REQUESTED"
      BY <1>2, <1>5 DEF Statuses
    <2> QED
      BY <1>1, <1>5, <2>1, StatusesOfNodes DEF Agreed, Agrees, Wrote
  <1> QED
    BY <1>3, <1>4, <1>5 DEF GateDecides

LEMMA AgreedStep == TypeOK /\ Control /\ Agreed /\ [Next]_vars => Agreed'
  <1> SUFFICES ASSUME TypeOK, Control, Agreed, [Next]_vars PROVE Agreed'
    OBVIOUS
  <1>1. CASE Commit
    BY <1>1 DEF Commit, Agreed, Agrees, Idle, store, TypeOK, CkptType
  <1>2. ASSUME NEW request \in Contents, Invoke(request) PROVE Agreed'
    BY <1>2, StatusesOfNodes DEF Invoke, Agreed, Agrees, Idle
  <1>3. CASE ValidateInput
    <2>1. ckpt.node = "validate_input" /\ UNCHANGED ckpt /\ Fresh.status = "INPUT_VALIDATED"
      BY <1>3 DEF ValidateInput, At, Fresh, NoRecord
    <2> QED
      BY <1>3, <2>1, StatusesOfNodes DEF ValidateInput, Agreed, Agrees, Wrote
  <1>4. CASE FreezeSubmission
    <2>1. [rev |-> 1, content |-> ckpt.request] \in Specs
      BY <1>4, TrainingAssumption DEF FreezeSubmission, At, Control, Specs, Revisions
    <2> QED
      BY <1>4, <2>1, AgreedFreeze DEF FreezeSubmission, At
  <1>5. CASE ReviseSubmission
    <2>1. [rev |-> record.spec.rev + 1, content |-> record.edit] \in Specs
      BY <1>5, TrainingAssumption DEF ReviseSubmission, CanRevise, Control, Specs, Revisions
    <2> QED
      BY <1>5, <2>1, AgreedFreeze DEF ReviseSubmission, At
  <1>6. ASSUME NEW answer \in Answers, GateDecides(answer) PROVE Agreed'
    BY <1>6, AgreedDecision
  <1>7. CASE RunCancelled
    <2>1. UNCHANGED ckpt /\ ckpt.node \in RunNodes
      BY <1>7 DEF RunCancelled, AtRun, At
    <2>2. CASE Wrote("END", None, "CANCELLED") /\ record' # record
      <3>1. record'.results = record.results /\ record'.status = "CANCELLED"
        BY <1>7, <2>2 DEF RunCancelled, Records, TypeOK, RecordType
      <3> QED
        BY <2>1, <2>2, <3>1, AgreedEnd
    <2>3. CASE UNCHANGED record /\ Raise
      BY <2>1, <2>3, AgreedRaise
    <2>4. [record EXCEPT !.status = "CANCELLED",
                   !.point = IF Role = "BASELINE" THEN "BEFORE_BASELINE"
                                                  ELSE "BETWEEN_RUNS"] # record
      BY <1>7 DEF RunCancelled, CanRun, ExactApproval, TypeOK, RecordType
    <2> QED
      BY <1>7, <2>2, <2>3, <2>4 DEF RunCancelled, Records
  <1>8. CASE RunWithoutStart
    BY <1>8, AgreedRunEnds DEF RunWithoutStart, AtRun, At
  <1>9. CASE RunReturns \/ RunTimesOut
    BY <1>9, AgreedRunEnds DEF RunReturns, RunTimesOut, Control
  <1>10. CASE CollectOutputs
    <2>1. CASE record' = Failed /\ Wrote("END", None, "FAILED")
      BY <1>10, <2>1, AgreedEnd DEF CollectOutputs, Failed, At, TypeOK, RecordType
    <2>2. CASE /\ record' = [record EXCEPT !.status = "SUCCEEDED"]
               /\ Wrote("END", None, "SUCCEEDED")
      BY <1>10, <2>2, AgreedEnd DEF CollectOutputs, At, TypeOK, RecordType
    <2>3. CASE UNCHANGED record /\ Raise
      BY <1>10, <2>3, AgreedRaise DEF CollectOutputs
    <2> QED
      BY <1>10, <2>1, <2>2, <2>3 DEF CollectOutputs, RunFails, Records
  <1>11. CASE Resume \/ Retry \/ Crash \/ FreezeRaises \/ RunRaises \/ CollectRaises
    BY <1>11, AgreedKept DEF Resume, Retry, Crash, FreezeRaises, RunRaises, CollectRaises,
       Raise, Idle, store
  <1>12. ASSUME NEW answer \in Answers, GateRaises(answer) PROVE Agreed'
    BY <1>12, AgreedKept DEF GateRaises, Raise, Idle, store
  <1>13. ASSUME NEW pid \in Pids, RunStarts(pid) PROVE Agreed'
    BY <1>13, AgreedKept DEF RunStarts, Idle, store
  <1>14. ASSUME NEW pid \in Pids, Child(pid) PROVE Agreed'
    BY <1>14, AgreedKept DEF Child, ChildLoads, ChildOpens, ChildWritesManifest,
       ChildWritesLog, ChildFails, store
  <1>15. CASE UNCHANGED vars
    BY <1>15, AgreedKept DEF vars
  <1> QED
    BY <1>1, <1>2, <1>3, <1>4, <1>5, <1>6, <1>7, <1>8, <1>9, <1>10, <1>11, <1>12, <1>13,
       <1>14, <1>15 DEF Next, Work

\* The store is at most one node ahead of the checkpoint and never behind it, at
\* whatever point the driving process dies.
THEOREM CheckpointFollowed == Spec => []StoreFollowsCheckpoint
  <1>1. Init => TypeOK /\ Control /\ Agreed
    BY InitType, AgreedInit
  <1>2. TypeOK /\ Control /\ Agreed /\ [Next]_vars => (TypeOK /\ Control /\ Agreed)'
    BY TypeStep, AgreedStep
  <1>3. Agreed => StoreFollowsCheckpoint
    BY DEF Agreed, Agrees, StoreFollowsCheckpoint
  <1> QED
    BY <1>1, <1>2, <1>3, PTL DEF Spec

-----------------------------------------------------------------------------
(***************************************************************************)
(* What a step may never do.                                               *)
(***************************************************************************)
\* A fresh record has no submission yet, and an edit is asked for by a recorded
\* EDIT of the submission that is there.
Asked ==
    /\ record.status = "INPUT_VALIDATED" => record.spec = None
    /\ record.status = "EDIT_REQUESTED" =>
          \E review \in record.reviews :
              review.decision = "EDIT" /\ review.subject = record.spec

\* What a step makes of the record it found.
Grows ==
    /\ record.reviews \subseteq record'.reviews
    /\ \A role \in Roles :
          record.results[role] # None => record'.results[role] = record.results[role]
    /\ record.spec # None /\ record'.spec # record.spec =>
          /\ record'.spec.rev = record.spec.rev + 1
          /\ \E review \in record.reviews :
                review.decision = "EDIT" /\ review.subject = record.spec

LEMMA AskedInit == Init => Asked
  BY DEF Init, Asked, NoRecord

\* A record that keeps its submission keeps what was asked about it.
LEMMA AskedKept ==
    ASSUME Asked, record'.reviews = record.reviews, record'.spec = record.spec,
           record'.results = record.results,
           record'.status = record.status
             \/ record'.status \in Ended \cup {"RUNNING", "AWAITING_APPROVAL"}
    PROVE  Asked' /\ Grows
  BY DEF Asked, Grows, Ended

\* A submission is frozen over none, or over the one whose EDIT is recorded.
LEMMA AskedFreeze ==
    ASSUME TypeOK, Asked, NEW spec \in Specs, Freeze(spec),
           record.spec # None =>
               spec.rev = record.spec.rev + 1 /\ record.status = "EDIT_REQUESTED"
    PROVE  Asked' /\ Grows
  <1>1. CASE record' = Awaiting(spec)
    <2>1. /\ record'.status = "AWAITING_APPROVAL" /\ record'.spec = spec
          /\ record'.reviews = record.reviews /\ record'.results = record.results
      BY <1>1 DEF Awaiting, TypeOK, RecordType
    <2> QED
      BY <2>1 DEF Asked, Grows
  <1>2. CASE record' = Failed
    BY <1>2, AskedKept DEF Failed, TypeOK, RecordType, Ended
  <1>3. CASE UNCHANGED record
    BY <1>3, AskedKept
  <1> QED
    BY <1>1, <1>2, <1>3 DEF Freeze, Records

\* A decision adds its review; an EDIT is what is asked for from then on.
LEMMA AskedDecision ==
    ASSUME TypeOK, Asked, NEW answer \in Answers, GateDecides(answer)
    PROVE  Asked' /\ Grows
  <1> DEFINE review == [id |-> answer.id, decision |-> answer.decision,
                        subject |-> answer.subject]
  <1>1. /\ record'.reviews = record.reviews \cup {review}
        /\ record'.results = record.results /\ record'.spec = record.spec
    BY DEF GateDecides, Reviewed, TypeOK, RecordType
  <1>2. /\ record'.status \in {"RUNNING", "REJECTED", "EDIT_REQUESTED"}
        /\ record'.status = "EDIT_REQUESTED" => answer.decision = "EDIT"
    BY DEF GateDecides, Reviewed, TypeOK, RecordType
  <1>3. review.subject = record.spec /\ review.decision = answer.decision
    BY DEF GateDecides, Admissible
  <1>4. Asked'
    BY <1>1, <1>2, <1>3 DEF Asked
  <1>5. Grows
    BY <1>1 DEF Grows
  <1> QED
    BY <1>4, <1>5

\* A result that is there already is the one the run gives again.
LEMMA AskedRunEnds ==
    ASSUME TypeOK, Sound, Asked, ExactApproval, RunFails \/ RunSucceeds
    PROVE  Asked' /\ Grows
  <1>1. CASE record' = Failed
    BY <1>1, AskedKept DEF Failed, TypeOK, RecordType, Ended
  <1>2. CASE record' = [record EXCEPT !.results[Role] = record.spec]
    <2>1. /\ record'.status = "RUNNING" /\ record'.reviews = record.reviews
          /\ record'.spec = record.spec
          /\ record'.results = [record.results EXCEPT ![Role] = record.spec]
          /\ record.results \in [Roles -> Specs \cup {None}]
      BY <1>2 DEF ExactApproval, TypeOK, RecordType
    <2>2. \A role \in Roles : record.results[role] # None => record.results[role] = record.spec
      BY DEF Sound, ResultsFromApprovedSpec
    <2> QED
      BY <2>1, <2>2 DEF Asked, Grows
  <1>3. CASE UNCHANGED record
    BY <1>3, AskedKept
  <1> QED
    BY <1>1, <1>2, <1>3 DEF RunFails, RunSucceeds, Records

\* Only a validation of the input starts the record again.
LEMMA AskedStep ==
    ASSUME TypeOK, Control, Sound, Asked, [Next]_vars
    PROVE  Asked' /\ (record' = Fresh \/ Grows)
  <1>1. CASE UNCHANGED record
    BY <1>1, AskedKept
  <1>2. CASE ValidateInput
    <2>1. CASE record' = Fresh
      BY <2>1 DEF Asked, Fresh, NoRecord
    <2> QED
      BY <1>1, <1>2, <2>1 DEF ValidateInput
  <1>3. CASE FreezeSubmission
    <2>1. [rev |-> 1, content |-> ckpt.request] \in Specs
      BY <1>3, TrainingAssumption DEF FreezeSubmission, At, Control, Specs, Revisions
    <2>2. record.spec = None
      BY <1>3 DEF FreezeSubmission, Asked
    <2> QED
      BY <1>3, <2>1, <2>2, AskedFreeze DEF FreezeSubmission
  <1>4. CASE ReviseSubmission
    <2>1. [rev |-> record.spec.rev + 1, content |-> record.edit] \in Specs
      BY <1>4, TrainingAssumption DEF ReviseSubmission, CanRevise, Control, Specs, Revisions
    <2> QED
      BY <1>4, <2>1, AskedFreeze DEF ReviseSubmission, CanRevise
  <1>5. ASSUME NEW answer \in Answers, GateDecides(answer) PROVE Asked' /\ Grows
    BY <1>5, AskedDecision
  <1>6. CASE RunCancelled \/ CollectOutputs
    <2>1. CASE CollectOutputs /\ RunFails
      BY <2>1, AskedRunEnds DEF CollectOutputs
    <2>2. CASE RunCancelled
      BY <1>1, <2>2, AskedKept DEF RunCancelled, Records, TypeOK, RecordType, Ended
    <2>3. CASE record' = [record EXCEPT !.status = "SUCCEEDED"]
      BY <2>3, AskedKept DEF TypeOK, RecordType, Ended
    <2> QED
      BY <1>6, <2>1, <2>2, <2>3 DEF CollectOutputs
  <1>7. CASE RunWithoutStart \/ RunReturns \/ RunTimesOut
    BY <1>7, AskedRunEnds DEF RunWithoutStart, RunReturns, RunTimesOut, CanRun, Control
  <1>8. Commit \/ Resume \/ Retry \/ Crash \/ FreezeRaises \/ RunRaises \/ CollectRaises
          => UNCHANGED record
    BY DEF Commit, Resume, Retry, Crash, FreezeRaises, RunRaises, CollectRaises, store
  <1>9. /\ \A request \in Contents : Invoke(request) => UNCHANGED record
        /\ \A answer \in Answers : GateRaises(answer) => UNCHANGED record
        /\ \A pid \in Pids : RunStarts(pid) \/ Child(pid) => UNCHANGED record
        /\ UNCHANGED vars => UNCHANGED record
    BY DEF Invoke, GateRaises, RunStarts, Child, ChildLoads, ChildOpens, ChildWritesManifest,
       ChildWritesLog, ChildFails, store, vars
  <1> QED
    BY <1>1, <1>2, <1>3, <1>4, <1>5, <1>6, <1>7, <1>8, <1>9 DEF Next, Work

\* Until the input is validated again no review is dropped and no result is
\* withdrawn, and a revision is left only for the next, by a recorded EDIT of it.
THEOREM EvidenceOnlyGrows == Spec => EvidenceGrows
  <1>1. Init => TypeOK /\ Control /\ Sound /\ Asked
    BY InitType, SoundInit, AskedInit
  <1>2. TypeOK /\ Control /\ Sound /\ Asked /\ [Next]_vars
          => (TypeOK /\ Control /\ Sound /\ Asked)'
    BY TypeStep, SoundStep, AskedStep
  <1>3. TypeOK /\ Control /\ Sound /\ Asked /\ [Next]_vars
          => [record' # Fresh /\ record.status # "ABSENT" =>
                /\ record.reviews \subseteq record'.reviews
                /\ \A role \in Roles :
                      record.results[role] # None => record'.results[role] = record.results[role]
                /\ record.spec # None /\ record'.spec # record.spec =>
                      /\ record'.spec.rev = record.spec.rev + 1
                      /\ \E review \in record.reviews :
                            review.decision = "EDIT" /\ review.subject = record.spec]_record
    BY AskedStep DEF Grows
  <1> QED
    BY <1>1, <1>2, <1>3, PTL DEF Spec, EvidenceGrows

\* A directory without a manifest names no spec, and the one a subprocess logs to
\* names the spec that subprocess read.
Whose ==
    /\ \A run \in Runs : outputs[run].stage \in {"ABSENT", "EMPTY"} => outputs[run].spec = None
    /\ \A pid \in Pids :
          children[pid].stage = "LOGGING" => outputs[children[pid].run].spec = children[pid].spec

\* What a step makes of a run directory.
Advances ==
    \A run \in Runs :
        /\ Rank[outputs[run].stage] <= Rank[outputs'[run].stage]
        /\ outputs[run].spec # None => outputs'[run].spec = outputs[run].spec

LEMMA WhoseInit == Init => Whose
  BY DEF Init, Whose, NoOutput, NoChild

LEMMA Ranks ==
    /\ Rank["ABSENT"] = 0 /\ Rank["EMPTY"] = 1
    /\ Rank["MANIFEST"] = 2 /\ Rank["COMPLETE"] = 3
  BY DEF Rank

\* A directory that no step touches does not move.
LEMMA AdvancesKept == ASSUME TypeOK, UNCHANGED outputs PROVE Advances
  BY Ranks DEF Advances, TypeOK, OutputType

\* The subprocesses keep what they read, but for one that is started or ends.
LEMMA WhoseKept ==
    ASSUME TypeOK, Whose, UNCHANGED outputs,
           \A pid \in Pids : children'[pid] = children[pid] \/ children'[pid].stage # "LOGGING"
    PROVE  Whose'
  BY DEF Whose

\* A subprocess moves its own directory by one stage.
LEMMA WhoseChild ==
    ASSUME TypeOK, Control, Sound, Whose, NEW pid \in Pids, Child(pid)
    PROVE  Whose' /\ Advances
  <1> DEFINE child == children[pid]
  <1>1. child \in ChildType /\ child.stage # "UNUSED" /\ child.run \in Runs
    BY DEF Child, ChildLoads, ChildOpens, ChildWritesManifest, ChildWritesLog, ChildFails,
       Alive, Control, ChildrenKnowRun, TypeOK
  <1>2. /\ \A q \in Pids : q # pid => children'[q] = children[q]
        /\ children'[pid].run = child.run
    BY DEF Child, ChildLoads, ChildOpens, ChildWritesManifest, ChildWritesLog, ChildFails,
       ChildStep, TypeOK, ChildType
  <1>3. CASE UNCHANGED outputs /\ children'[pid].stage \in {"LOADED", "EXIT_1"}
    BY <1>2, <1>3, WhoseKept, AdvancesKept
  <1>4. ASSUME NEW before, NEW after, NEW spec,
                \/ child.stage = "LOADED" /\ before = "ABSENT" /\ after = "EMPTY" /\ spec = None
                \/ child.stage = "WRITING" /\ before = "EMPTY" /\ after = "MANIFEST" /\ spec = child.spec
                \/ child.stage = "LOGGING" /\ before = "MANIFEST" /\ after = "COMPLETE" /\ spec = child.spec,
                outputs[child.run].stage = before,
                outputs' = [outputs EXCEPT ![child.run] = [stage |-> after, spec |-> spec]],
                children'[pid].stage = "LOGGING" => after = "MANIFEST",
                children'[pid].spec = child.spec
         PROVE  Whose' /\ Advances
    <2>1. /\ outputs'[child.run] = [stage |-> after, spec |-> spec]
          /\ \A run \in Runs \ {child.run} : outputs'[run] = outputs[run]
      BY <1>1, <1>4 DEF TypeOK
    <2>2. \A q \in Pids : q # pid /\ children[q].stage = "LOGGING"
             => children[q].run # child.run /\ children[q].run \in Runs
      BY <1>4 DEF Sound, OneWriter, Evidence, Control, ChildrenKnowRun
    <2>3. Whose'
      BY <1>2, <1>4, <2>1, <2>2 DEF Whose
    <2>4. Advances
      <3> SUFFICES ASSUME NEW run \in Runs
                   PROVE  /\ Rank[outputs[run].stage] <= Rank[outputs'[run].stage]
                          /\ outputs[run].spec # None => outputs'[run].spec = outputs[run].spec
        BY DEF Advances
      <3>1. CASE run # child.run
        BY <3>1, <2>1, Ranks DEF TypeOK, OutputType
      <3>2. CASE run = child.run
        <4>1. Rank[before] <= Rank[after]
          BY <1>4, Ranks
        <4>2. before = "MANIFEST" => outputs[run].spec = child.spec
          BY <1>4, <3>2 DEF Whose
        <4>3. before # "MANIFEST" => outputs[run].spec = None
          BY <1>1, <1>4, <3>2 DEF Whose
        <4> QED
          BY <1>4, <2>1, <3>2, <4>1, <4>2, <4>3
      <3> QED
        BY <3>1, <3>2
    <2> QED
      BY <2>3, <2>4
  <1>5. CASE ChildOpens(pid) /\ outputs[child.run].stage = "ABSENT"
    <2>1. /\ outputs' = [outputs EXCEPT ![child.run] = [stage |-> "EMPTY", spec |-> None]]
          /\ child.stage = "LOADED"
          /\ children'[pid].stage = "WRITING" /\ children'[pid].spec = child.spec
      BY <1>5 DEF ChildOpens, OutputStep, ChildStep, TypeOK, ChildType
    <2> QED
      BY <1>4, <1>5, <2>1
  <1>6. CASE ChildWritesManifest(pid)
    <2>1. /\ outputs' = [outputs EXCEPT ![child.run] = [stage |-> "MANIFEST", spec |-> child.spec]]
          /\ child.stage = "WRITING" /\ outputs[child.run].stage = "EMPTY"
          /\ children'[pid].stage = "LOGGING" /\ children'[pid].spec = child.spec
      BY <1>6 DEF ChildWritesManifest, OutputStep, ChildStep, TypeOK, ChildType, Sound, Evidence
    <2> QED
      BY <1>4, <2>1
  <1>7. CASE ChildWritesLog(pid)
    <2>1. /\ outputs' = [outputs EXCEPT ![child.run] = [stage |-> "COMPLETE", spec |-> child.spec]]
          /\ child.stage = "LOGGING" /\ outputs[child.run].stage = "MANIFEST"
          /\ children'[pid].stage = "EXIT_0" /\ children'[pid].spec = child.spec
      BY <1>7 DEF ChildWritesLog, OutputStep, ChildStep, TypeOK, ChildType, Sound, Evidence
    <2>2. children'[pid].stage = "LOGGING" => "COMPLETE" = "MANIFEST"
      BY <2>1
    <2> QED
      BY <1>4, <2>1, <2>2
  <1>8. /\ ChildLoads(pid) \/ ChildFails(pid)
             => UNCHANGED outputs /\ children'[pid].stage \in {"LOADED", "EXIT_1"}
        /\ ChildOpens(pid) /\ outputs[child.run].stage # "ABSENT"
             => UNCHANGED outputs /\ children'[pid].stage \in {"LOADED", "EXIT_1"}
    BY DEF ChildLoads, ChildOpens, ChildFails, ChildStep, TypeOK, ChildType, store
  <1> QED
    BY <1>3, <1>5, <1>6, <1>7, <1>8 DEF Child

LEMMA WhoseStep ==
    ASSUME TypeOK, Control, Sound, Whose, [Next]_vars
    PROVE  Whose' /\ Advances
  <1>1. CASE UNCHANGED <<outputs, children>>
    BY <1>1, WhoseKept, AdvancesKept
  <1>2. ASSUME NEW pid \in Pids, RunStarts(pid) PROVE Whose' /\ Advances
    <2>1. UNCHANGED outputs /\ \A q \in Pids :
              children'[q] = children[q] \/ children'[q].stage # "LOGGING"
      BY <1>2 DEF RunStarts, store, TypeOK
    <2> QED
      BY <2>1, WhoseKept, AdvancesKept
  <1>3. CASE RunTimesOut
    <2>1. UNCHANGED outputs /\ \A q \in Pids :
              children'[q] = children[q] \/ children'[q].stage # "LOGGING"
      BY <1>3 DEF RunTimesOut, TypeOK, ChildType
    <2> QED
      BY <2>1, WhoseKept, AdvancesKept
  <1>4. ASSUME NEW pid \in Pids, Child(pid) PROVE Whose' /\ Advances
    BY <1>4, WhoseChild
  <1>5. CASE \/ Commit \/ Resume \/ Retry \/ Crash \/ ValidateInput \/ FreezeSubmission
             \/ ReviseSubmission \/ FreezeRaises \/ RunRaises \/ RunCancelled
             \/ RunWithoutStart \/ RunReturns \/ CollectOutputs \/ CollectRaises
    <2>1. UNCHANGED <<outputs, children>>
      BY <1>5 DEF Commit, Resume, Retry, Crash, ValidateInput, FreezeSubmission,
         ReviseSubmission, Freeze, FreezeRaises, RunRaises, RunCancelled, RunWithoutStart,
         RunReturns, CollectOutputs, CollectRaises, store
    <2> QED
      BY <1>1, <2>1
  <1>6. ASSUME \/ \E request \in Contents : Invoke(request)
               \/ \E answer \in Answers : GateDecides(answer) \/ GateRaises(answer)
               \/ UNCHANGED vars
         PROVE  Whose' /\ Advances
    <2>1. UNCHANGED <<outputs, children>>
      BY <1>6 DEF Invoke, GateDecides, GateRaises, store, vars
    <2> QED
      BY <1>1, <2>1
  <1> QED
    BY <1>2, <1>3, <1>4, <1>5, <1>6 DEF Next, Work

\* A run directory only advances and never changes hands, also when orphans of
\* crashed processes race the subprocesses their re-executed nodes start.
THEOREM DirectoriesAdvance == Spec => OutputsWriteOnce
  <1>1. Init => TypeOK /\ Control /\ Sound /\ Whose
    BY InitType, SoundInit, WhoseInit
  <1>2. TypeOK /\ Control /\ Sound /\ Whose /\ [Next]_vars
          => (TypeOK /\ Control /\ Sound /\ Whose)'
    BY TypeStep, SoundStep, WhoseStep
  <1>3. TypeOK /\ Control /\ Sound /\ Whose /\ [Next]_vars
          => [\A run \in Runs :
                /\ Rank[outputs[run].stage] <= Rank[outputs'[run].stage]
                /\ outputs[run].spec # None => outputs'[run].spec = outputs[run].spec]_outputs
    BY WhoseStep DEF Advances
  <1> QED
    BY <1>1, <1>2, <1>3, PTL DEF Spec, OutputsWriteOnce
=============================================================================
