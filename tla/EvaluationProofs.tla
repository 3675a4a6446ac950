-------------------------- MODULE EvaluationProofs --------------------------
(***************************************************************************)
(* Theorems about Evaluation, for every set of specs and metrics, every    *)
(* pair of thresholds and any number of invocations and changes.           *)
(***************************************************************************)
EXTENDS Evaluation, FiniteSetTheorems, SequenceTheorems, TLAPS

\* A gain of the practical delta is a loss of it seen from the other run, and
\* decide_conclusion tests the loss first: swapping the roles of the two runs turns
\* every improvement into a regression.
THEOREM TurnsAround == ImprovementTurnsAround
<1> SUFFICES ASSUME NEW macro \in Int, NEW balanced \in Int, NEW severe \in Int,
                    DecideConclusion([macro |-> macro, balanced |-> balanced,
                                      severe |-> severe]) = "IMPROVED"
             PROVE  DecideConclusion([macro |-> -macro, balanced |-> -balanced,
                                      severe |-> -severe]) = "REGRESSED"
  BY DEF ImprovementTurnsAround
<1>1. MinDelta \in Nat
  BY EvaluationAssumption
<1>2. macro >= MinDelta
  BY DEF DecideConclusion
<1>3. -macro <= -MinDelta
  BY <1>1, <1>2
<1> QED
  BY <1>3 DEF DecideConclusion

\* _write_once writes a path that does not exist, or nothing.
LEMMA WriteOnceKeeps ==
  ASSUME NEW output \in Outputs, NEW result, NEW node, NEW carry,
         WriteOnce(output, result, node, carry)
  PROVE  /\ DOMAIN out' = DOMAIN out
         /\ \A other \in Outputs : out[other] # None => out'[other] = out[other]
<1>1. CASE out[output] = None /\ out' = [out EXCEPT ![output] = result]
  <2>0. DOMAIN out' = DOMAIN out
    BY <1>1
  <2> SUFFICES ASSUME TRUE
               PROVE  \A other \in Outputs : out[other] # None => out'[other] = out[other]
    BY <2>0
  <2> TAKE other \in Outputs
  <2> HAVE out[other] # None
  <2>1. other # output
    BY <1>1
  <2> QED
    BY <1>1, <2>1
<1>2. CASE UNCHANGED out
  BY <1>2
<1> QED
  BY <1>1, <1>2 DEF WriteOnce

\* The store holds the two outputs and nothing else.
OutputsShaped == DOMAIN out = Outputs

\* One step keeps the shape and the outputs: the three nodes that write do so by
\* WriteOnce, a person edits, and everything else leaves both files alone.
LEMMA StepKeeps ==
  ASSUME OutputsShaped, [Next]_vars
  PROVE  OutputsShaped' /\ OutputsKept
<1>1. ASSUME UNCHANGED out PROVE OutputsShaped' /\ OutputsKept
  BY <1>1 DEF OutputsShaped, OutputsKept
<1>2. ASSUME NEW output \in Outputs, NEW result, NEW node, NEW carry,
             WriteOnce(output, result, node, carry)
      PROVE  OutputsShaped' /\ OutputsKept
  BY <1>2, WriteOnceKeeps DEF OutputsShaped, OutputsKept
<1>3. CASE UNCHANGED vars
  BY <1>1, <1>3 DEF vars
<1>4. CASE Step
  <2>1. CASE Read
    BY <1>1, <2>1 DEF Read
  <2>2. CASE LoadTrainingOutputs
    BY <1>1, <2>2 DEF LoadTrainingOutputs
  <2>3. CASE ValidateComparability
    BY <1>1, <2>3 DEF ValidateComparability
  <2>4. CASE ComputeMetricsNode
    BY <1>1, <2>4 DEF ComputeMetricsNode
  <2>5. CASE Decide
    BY <1>1, <2>5 DEF Decide
  <2>6. CASE InvalidResult
    BY <1>1, <1>2, <2>6 DEF InvalidResult, Outputs
  <2>7. CASE PersistEvaluation
    BY <1>1, <1>2, <2>7 DEF PersistEvaluation, Outputs
  <2>8. CASE RenderReport
    BY <1>1, <1>2, <2>8 DEF RenderReport, Outputs
  <2>9. CASE Commit
    BY <1>1, <2>9 DEF Commit
  <2> QED
    BY <1>4, <2>1, <2>2, <2>3, <2>4, <2>5, <2>6, <2>7, <2>8, <2>9 DEF Step
<1>5. ASSUME NEW input \in Inputs, NEW content \in ContentsOf(input), Change(input, content)
      PROVE  OutputsShaped' /\ OutputsKept
  BY <1>1, <1>5 DEF Change
<1>6. ASSUME NEW output \in Outputs, Edit(output)
      PROVE  OutputsShaped' /\ OutputsKept
  <2>1. /\ UNCHANGED <<seen, graphVars>>
        /\ \E edit \in Edits(output) : out' = [out EXCEPT ![output] = edit]
    BY <1>6 DEF Edit
  <2>2. out'[output] \in Edits(output) /\ DOMAIN out' = Outputs
        /\ \A other \in Outputs : other # output => out'[other] = out[other]
    BY <2>1 DEF OutputsShaped
  <2> QED
    BY <2>1, <2>2 DEF OutputsShaped, OutputsKept
<1>7. CASE Invoke \/ Resume \/ Crash
  BY <1>1, <1>7 DEF Invoke, Resume, Crash
<1> QED
  BY <1>3, <1>4, <1>5, <1>6, <1>7 DEF Next

\* No node of the workflow, no crash and no other writer replaces evaluation.json or
\* report.md; a person does, and then it is the edited one.
THEOREM WrittenOnce == Spec => OutputsWriteOnce
<1>1. Init => OutputsShaped
  BY DEF Init, OutputsShaped
<1>2. OutputsShaped /\ [Next]_vars => OutputsShaped' /\ [OutputsKept]_vars
  BY StepKeeps
<1> QED
  BY <1>1, <1>2, PTL DEF Spec, OutputsWriteOnce

-----------------------------------------------------------------------------
(***************************************************************************)
(* The inductive invariant of EvaluatedAsItWas.  An engine that reads what *)
(* an earlier engine read proves that all of it lay on the disk at the     *)
(* moment between the two: a file that was another then would have had to  *)
(* go back.                                                                *)
(***************************************************************************)
Files == {files \in [Inputs -> Contents] : \A input \in Inputs : files[input] \in ContentsOf(input)}

\* The disk never was what it will be: editions are younger than the history.
Aging ==
    /\ past \subseteq Files /\ disk \in past
    /\ IsFiniteSet(past)
    /\ \A files \in past, input \in Inputs : files[input].edition < Cardinality(past)

NotFinishedBefore(read) == \A n \in 1 .. Len(read) - 1 : ~ Finished(SubSeq(read, 1, n))

\* What has been read is of an age that has been, and the engine has not passed its end.
Reading ==
    /\ seen \in Seq(Contents)
    /\ Len(seen) <= Fixtures
    /\ NotFinishedBefore(seen)
    /\ \A input \in DOMAIN seen : seen[input].edition < Cardinality(past)

Complete(read) ==
    /\ read \in Seq(Contents)
    /\ Len(read) \in Inputs
    /\ Finished(read)
    /\ NotFinishedBefore(read)

\* In some files of the past every input of id lay on the disk, but for those that are
\* lost for good: neither on the disk now nor read by the engine that runs.
Pinned(id, now, history, read) ==
    /\ Complete(id)
    /\ \A input \in DOMAIN id : id[input].edition < Cardinality(history)
    /\ \E files \in history : \A input \in DOMAIN id :
          files[input] # id[input] =>
              /\ now[input] # id[input]
              /\ input \in DOMAIN read => read[input] # id[input]

Deciding == Engines \ {"load_training_outputs"}

Identified ==
    /\ ckpt.node \in Deciding => Pinned(ckpt.carry.id, disk, past, seen)
    /\ proc.phase = "WROTE" /\ proc.to.node \in Deciding => Pinned(proc.to.carry.id, disk, past, seen)

AsItWas == OutputsShaped /\ Aging /\ Reading /\ Identified /\ EvaluatedAsItWas

-----------------------------------------------------------------------------
\* Neither a write of younger content nor a read of the disk brings back what is lost.
LEMMA PinnedKept ==
  ASSUME NEW id, NEW now, NEW then, NEW history, NEW longer, NEW read, NEW further,
         Pinned(id, now, history, read),
         history \subseteq longer,
         Cardinality(history) \in Nat, Cardinality(longer) \in Nat,
         Cardinality(history) <= Cardinality(longer),
         \A input \in Inputs : then[input] = now[input] \/ then[input].edition >= Cardinality(history),
         \A input \in DOMAIN further :
            (input \in DOMAIN read /\ further[input] = read[input]) \/ further[input] = now[input]
  PROVE  Pinned(id, then, longer, further)
<1>0. Complete(id) /\ id \in [1 .. Len(id) -> Contents] /\ Len(id) \in 1 .. 6
  BY DEF Pinned, Complete, Inputs, Policy, Fixtures
<1>1. Complete(id) /\ DOMAIN id \subseteq Inputs
  BY <1>0 DEF Inputs, Policy, Fixtures
<1>2. \A input \in DOMAIN id : id[input].edition \in Int /\ id[input].edition < Cardinality(history)
  <2> TAKE input \in DOMAIN id
  <2>1. id[input] \in Contents
    BY <1>0
  <2>2. id[input].edition \in 0 .. MaxChanges
    BY <2>1 DEF Contents
  <2> QED
    BY <2>2 DEF Pinned
<1>3. \A input \in DOMAIN id : id[input].edition < Cardinality(longer)
  BY <1>2
<1>4. PICK files \in history : \A input \in DOMAIN id :
         files[input] # id[input] =>
             /\ now[input] # id[input]
             /\ input \in DOMAIN read => read[input] # id[input]
  BY DEF Pinned
<1>5. ASSUME NEW input \in DOMAIN id, files[input] # id[input]
      PROVE  /\ then[input] # id[input]
             /\ input \in DOMAIN further => further[input] # id[input]
  <2>1. now[input] # id[input] /\ (input \in DOMAIN read => read[input] # id[input])
    BY <1>4, <1>5
  <2>2. then[input] = now[input] \/ then[input].edition >= Cardinality(history)
    BY <1>1, <1>5
  <2>3. then[input] # id[input]
    BY <2>1, <2>2, <1>2, <1>5
  <2> QED
    BY <2>1, <2>3
<1>6. files \in longer
  BY <1>4
<1> QED
  BY <1>1, <1>3, <1>5, <1>6 DEF Pinned

LEMMA InputNumbers ==
  /\ \A n \in Nat : n # 0 /\ n <= Fixtures => n \in Inputs
  /\ \A n \in Nat : n < Fixtures => n + 1 \in Inputs
  BY DEF Inputs, Policy, Fixtures

\* What an engine has read to its end is pinned to the disk of that moment.
LEMMA PinnedNow ==
  ASSUME Aging, Reading, Finished(seen)
  PROVE  Complete(seen) /\ Pinned(seen, disk, past, <<>>)
<1>1. Len(seen) \in Nat /\ Len(seen) # 0
  BY DEF Reading, Finished
<1>2. Complete(seen)
  <2>1. Len(seen) \in Inputs
    BY <1>1, InputNumbers DEF Reading
  <2> QED
    BY <2>1 DEF Reading, Complete
<1>3. disk \in past /\ DOMAIN <<>> = {}
  BY DEF Aging
<1> QED
  BY <1>2, <1>3 DEF Pinned, Reading

\* What two engines read one after the other is what the engine reads in the files of
\* one moment.
LEMMA ReadTwice ==
  ASSUME NEW id, NEW now, NEW history, Pinned(id, now, history, id)
  PROVE  \E files \in history : id \in Snapshot(files)
<1>1. PICK files \in history : \A input \in DOMAIN id : files[input] = id[input]
  BY DEF Pinned
<1>2. Len(id) \in Inputs /\ DOMAIN id = 1 .. Len(id) /\ id \in [1 .. Len(id) -> Contents]
  BY DEF Pinned, Complete, Inputs
<1>3. id = [input \in 1 .. Len(id) |-> files[input]]
  BY <1>1, <1>2
<1>4. Finished(id) /\ \A n \in 1 .. Len(id) - 1 : ~ Finished(SubSeq(id, 1, n))
  BY DEF Pinned, Complete, NotFinishedBefore
<1> QED
  BY <1>1, <1>2, <1>3, <1>4 DEF Snapshot

-----------------------------------------------------------------------------
(***************************************************************************)
(* How the parts of the invariant are kept.                                *)
(***************************************************************************)
\* One read more of the disk.
LEMMA ReadStep == ASSUME Aging, Reading, Read PROVE Reading'
<1>1. /\ ~ Finished(seen)
      /\ seen' = Append(seen, disk[Len(seen) + 1])
      /\ UNCHANGED <<disk, past>>
  BY DEF Read
<1>2. Len(seen) \in Nat /\ Len(seen) < Fixtures
  <2>1. Len(seen) \in Nat /\ Len(seen) <= Fixtures
    BY DEF Reading
  <2>2. ~ (Len(seen) = Fixtures)
    <3>1. Fixtures \notin {0, Baseline}
      BY DEF Fixtures, Baseline
    <3> QED
      BY <1>1, <3>1, Zenon DEF Finished
  <2>3. \A n \in Nat : n <= Fixtures /\ ~ (n = Fixtures) => n < Fixtures
    BY DEF Fixtures
  <2> QED
    BY <2>1, <2>2, <2>3
<1>3. Len(seen) + 1 \in Inputs
  BY <1>2, InputNumbers
<1>4. disk[Len(seen) + 1] \in Contents /\ disk[Len(seen) + 1].edition < Cardinality(past)
  BY <1>3 DEF Aging, Files
<1>5. /\ seen' \in Seq(Contents) /\ Len(seen') = Len(seen) + 1
      /\ \A n \in 1 .. Len(seen) : seen'[n] = seen[n]
      /\ seen'[Len(seen) + 1] = disk[Len(seen) + 1]
  BY <1>1, <1>4, AppendProperties DEF Reading
<1>6. ASSUME NEW n \in 1 .. Len(seen') - 1 PROVE ~ Finished(SubSeq(seen', 1, n))
  <2>1. n \in 1 .. Len(seen)
    BY <1>2, <1>5, <1>6
  <2>2. SubSeq(seen', 1, n) = SubSeq(seen, 1, n)
    BY <1>5, <2>1
  <2>3. CASE n = Len(seen)
    <3>1. seen \in Seq(Contents)
      BY DEF Reading
    <3>2. SubSeq(seen, 1, Len(seen)) = seen
      BY <3>1, SubSeqFull
    <3> QED
      BY <1>1, <2>2, <2>3, <3>2
  <2>4. CASE n # Len(seen)
    <3>1. n \in 1 .. Len(seen) - 1
      BY <1>2, <2>1, <2>4
    <3>2. ~ Finished(SubSeq(seen, 1, n))
      BY <3>1 DEF Reading, NotFinishedBefore
    <3> QED
      BY <2>2, <3>2
  <2> QED
    BY <2>3, <2>4
<1>7. ASSUME NEW n \in DOMAIN seen' PROVE seen'[n].edition < Cardinality(past)
  <2>1. n \in 1 .. Len(seen) + 1 /\ (n # Len(seen) + 1 => n \in 1 .. Len(seen) /\ n \in DOMAIN seen)
    BY <1>2, <1>5, <1>7 DEF Reading
  <2> QED
    BY <1>4, <1>5, <2>1 DEF Reading
<1> QED
  BY <1>1, <1>2, <1>5, <1>6, <1>7 DEF Reading, NotFinishedBefore, Fixtures

LEMMA NothingRead == ASSUME seen' = <<>> PROVE Reading'
  BY DEF Reading, NotFinishedBefore, Fixtures

\* One write more of an input.
LEMMA ChangeStep ==
  ASSUME Aging, NEW input \in Inputs, NEW content \in ContentsOf(input), Change(input, content)
  PROVE  /\ Aging'
         /\ past \subseteq past' /\ Cardinality(past) \in Nat /\ Cardinality(past') \in Nat
         /\ Cardinality(past) <= Cardinality(past')
         /\ \A other \in Inputs : disk'[other] = disk[other] \/ disk'[other].edition >= Cardinality(past)
<1>1. /\ content.edition = Cardinality(past) /\ content \in Contents
      /\ disk' = [disk EXCEPT ![input] = content] /\ past' = past \cup {disk'}
      /\ disk \in [Inputs -> Contents]
  BY DEF Change, ContentsOf, Aging, Files
<1>2. disk' \in Files /\ disk'[input] = content
      /\ \A other \in Inputs : other # input => disk'[other] = disk[other]
  BY <1>1 DEF Aging, Files
<1>3. Cardinality(past) \in Nat
  BY FS_CardinalityType DEF Aging
<1>4. ASSUME disk' \in past PROVE FALSE
  <2>1. disk'[input].edition < Cardinality(past)
    BY <1>4 DEF Aging
  <2> QED
    BY <1>1, <1>2, <1>3, <2>1
<1>5. IsFiniteSet(past') /\ Cardinality(past') = Cardinality(past) + 1
  BY <1>1, <1>4, FS_AddElement DEF Aging
<1>6. ASSUME NEW files \in past', NEW other \in Inputs
      PROVE  files[other].edition < Cardinality(past')
  <2>1. CASE files \in past
    <3>1. files[other].edition < Cardinality(past) /\ files[other] \in Contents
      BY <2>1 DEF Aging, Files
    <3>2. files[other].edition \in 0 .. MaxChanges
      BY <3>1 DEF Contents
    <3> QED
      BY <1>3, <1>5, <3>1, <3>2
  <2>2. CASE files = disk' /\ other = input
    BY <1>1, <1>2, <1>3, <1>5, <2>2
  <2>3. CASE files = disk' /\ other # input
    <3>1. files[other].edition < Cardinality(past) /\ disk[other] \in Contents /\ files[other] = disk[other]
      BY <1>2, <2>3 DEF Aging, Files
    <3>2. files[other].edition \in 0 .. MaxChanges
      BY <3>1 DEF Contents
    <3> QED
      BY <1>3, <1>5, <3>1, <3>2
  <2> QED
    BY <1>1, <2>1, <2>2, <2>3
<1>7. Aging'
  BY <1>1, <1>2, <1>5, <1>6 DEF Aging
<1> QED
  BY <1>1, <1>2, <1>3, <1>5, <1>7

\* The engine of a node has ended and the node names the next one, or fails.
LEMMA NodeStep ==
  ASSUME Aging, Reading, Identified, NEW node, Computed(node),
         \/ \E next \in Nodes : \E conclusion : GoesTo(next, Running(conclusion))
         \/ Fails
  PROVE  Aging' /\ Reading' /\ Identified'
<1>1. /\ Finished(seen) /\ seen' = <<>>
      /\ UNCHANGED <<disk, past, ckpt>>
      /\ proc'.phase = "WROTE"
  BY DEF Computed, GoesTo, Fails
<1>2. Aging' /\ Reading'
  BY <1>1, NothingRead DEF Aging
<1>3. DOMAIN <<>> = {} /\ Cardinality(past) \in Nat
  BY FS_CardinalityType DEF Aging
<1>4. ASSUME ckpt.node \in Deciding PROVE Pinned(ckpt.carry.id, disk, past, <<>>)
  <2>1. Pinned(ckpt.carry.id, disk, past, seen)
    BY <1>4 DEF Identified
  <2> QED
    BY <1>3, <2>1, PinnedKept
<1>5. ASSUME proc'.to.node \in Deciding PROVE Pinned(proc'.to.carry.id, disk, past, <<>>)
  <2>1. CASE Fails
    BY <1>5, <2>1 DEF Fails, GoesTo, Deciding, Engines
  <2>2. CASE \E next \in Nodes : \E conclusion : GoesTo(next, Running(conclusion))
    <3>1. proc'.to.carry.id = seen
      BY <2>2 DEF GoesTo, Running
    <3> QED
      BY <1>1, <3>1, PinnedNow
  <2> QED
    BY <2>1, <2>2
<1> QED
  BY <1>1, <1>2, <1>4, <1>5 DEF Identified

\* An evaluation.json that stays, or that a person edits, is still of one moment.
LEMMA EvaluationStays ==
  ASSUME EvaluatedAsItWas, past \subseteq past',
         out'["evaluation"] = out["evaluation"] \/ ~ AsWritten(out'["evaluation"])
  PROVE  EvaluatedAsItWas'
  BY DEF EvaluatedAsItWas, Snapshot, AsWritten

\* The two nodes that write evaluation.json write what the files of one moment give.
LEMMA EvaluationWritten ==
  ASSUME OutputsShaped, Identified, EvaluatedAsItWas, UNCHANGED past,
         ckpt.node \in Deciding, IdentityIsStable,
         NEW next, NEW carry, WriteOnce("evaluation", Result(seen), next, carry)
  PROVE  EvaluatedAsItWas'
<1>1. Pinned(ckpt.carry.id, disk, past, seen)
  BY DEF Identified
<1>2. ckpt.carry.id = seen
  <2>1. Len(ckpt.carry.id) \in Inputs
    BY <1>1 DEF Pinned, Complete
  <2>2. Len(<<>>) = 0 /\ 0 \notin Inputs
    BY DEF Inputs, Policy, Fixtures
  <2>3. ckpt.carry.id # <<>>
    BY <2>1, <2>2
  <2> QED
    BY <2>3 DEF IdentityIsStable
<1>3. PICK files \in past : seen \in Snapshot(files)
  BY <1>1, <1>2, ReadTwice
<1>4. CASE out' = [out EXCEPT !["evaluation"] = Result(seen)]
  <2>1. out'["evaluation"] = Result(seen)
    BY <1>4 DEF OutputsShaped, Outputs
  <2> QED
    BY <1>3, <2>1 DEF EvaluatedAsItWas, Snapshot, AsWritten
<1>5. CASE UNCHANGED out
  BY <1>5, EvaluationStays
<1> QED
  BY <1>4, <1>5 DEF WriteOnce

\* Where disk, past and out stay, the graph may go back to its checkpoint or on to the
\* node that was named.
LEMMA GraphStep ==
  ASSUME AsItWas, Invoke \/ Resume \/ Crash \/ Commit
  PROVE  Aging' /\ Reading' /\ Identified' /\ EvaluatedAsItWas'
<1>1. UNCHANGED <<disk, past, out>> /\ proc'.phase # "WROTE" /\ (UNCHANGED seen \/ seen' = <<>>)
  BY DEF Invoke, Resume, Crash, Commit, GraphInvoke, GraphResume, GraphCrash, GraphCommit, Dies, Idle
<1>2. Aging' /\ EvaluatedAsItWas'
  BY <1>1, EvaluationStays DEF AsItWas, Aging
<1>3. Reading'
  BY <1>1, NothingRead DEF AsItWas, Reading, NotFinishedBefore
<1>4. ASSUME NEW id, Pinned(id, disk, past, seen) PROVE Pinned(id, disk, past, seen')
  <2>1. DOMAIN <<>> = {} /\ Cardinality(past) \in Nat
    BY FS_CardinalityType DEF AsItWas, Aging
  <2> QED
    BY <1>1, <1>4, <2>1, PinnedKept
<1>5. ckpt'.node \in Deciding => Pinned(ckpt'.carry.id, disk, past, seen)
  <2>1. CASE Commit
    BY <2>1 DEF Commit, GraphCommit, AsItWas, Identified
  <2>2. CASE Invoke
    BY <2>2 DEF Invoke, GraphInvoke, Deciding
  <2>3. CASE Resume \/ Crash
    BY <2>3 DEF Resume, Crash, GraphResume, GraphCrash, Dies, AsItWas, Identified
  <2> QED
    BY <2>1, <2>2, <2>3
<1>6. ckpt'.node \in Deciding => Pinned(ckpt'.carry.id, disk, past, seen')
  BY <1>4, <1>5
<1>7. Identified'
  BY <1>1, <1>6 DEF Identified
<1> QED
  BY <1>2, <1>3, <1>7

\* The engine reads, or its files are written: the graph stands still.
LEMMA ReadOrChangeStep ==
  ASSUME AsItWas,
         Read \/ \E input \in Inputs : \E content \in ContentsOf(input) : Change(input, content)
  PROVE  Aging' /\ Reading' /\ Identified' /\ EvaluatedAsItWas'
<1>1. UNCHANGED <<out, ckpt, proc>>
  BY DEF Read, Change, graphVars
<1>2. /\ Aging' /\ Reading' /\ past \subseteq past'
      /\ Cardinality(past) \in Nat /\ Cardinality(past') \in Nat
      /\ Cardinality(past) <= Cardinality(past')
      /\ \A other \in Inputs : disk'[other] = disk[other] \/ disk'[other].edition >= Cardinality(past)
      /\ \A n \in DOMAIN seen' : (n \in DOMAIN seen /\ seen'[n] = seen[n]) \/ seen'[n] = disk[n]
  <2>1. CASE Read
    <3>1. Reading' /\ UNCHANGED <<disk, past>> /\ seen' = Append(seen, disk[Len(seen) + 1])
      BY <2>1, ReadStep DEF Read, AsItWas
    <3>2. Aging' /\ Cardinality(past) \in Nat
      BY <3>1, FS_CardinalityType DEF AsItWas, Aging
    <3>3. \A n \in DOMAIN seen' : (n \in DOMAIN seen /\ seen'[n] = seen[n]) \/ seen'[n] = disk[n]
      BY <3>1 DEF AsItWas, Reading
    <3> QED
      BY <3>1, <3>2, <3>3
  <2>2. ASSUME NEW input \in Inputs, NEW content \in ContentsOf(input), Change(input, content)
        PROVE  /\ Aging' /\ UNCHANGED seen /\ past \subseteq past'
               /\ Cardinality(past) \in Nat /\ Cardinality(past') \in Nat
               /\ Cardinality(past) <= Cardinality(past')
               /\ \A other \in Inputs : disk'[other] = disk[other] \/ disk'[other].edition >= Cardinality(past)
    BY <2>2, ChangeStep DEF AsItWas, Change
  <2>3. ASSUME UNCHANGED seen,
               Cardinality(past) \in Nat, Cardinality(past') \in Nat,
               Cardinality(past) <= Cardinality(past')
        PROVE  Reading'
    <3>1. ASSUME NEW n \in DOMAIN seen PROVE seen[n].edition < Cardinality(past')
      <4>1. seen[n] \in Contents /\ seen[n].edition < Cardinality(past)
        BY DEF AsItWas, Reading
      <4>2. seen[n].edition \in 0 .. MaxChanges
        BY <4>1 DEF Contents
      <4> QED
        BY <2>3, <4>1, <4>2
    <3> QED
      BY <2>3, <3>1 DEF AsItWas, Reading, NotFinishedBefore
  <2>4. CASE \E input \in Inputs : \E content \in ContentsOf(input) : Change(input, content)
    BY <2>2, <2>3, <2>4
  <2> QED
    BY <2>1, <2>4
<1>3. ASSUME NEW id, Pinned(id, disk, past, seen) PROVE Pinned(id, disk', past', seen')
  BY <1>2, <1>3, PinnedKept
<1>4. Identified'
  BY <1>1, <1>3 DEF AsItWas, Identified
<1>5. EvaluatedAsItWas'
  BY <1>1, <1>2, EvaluationStays DEF AsItWas
<1> QED
  BY <1>2, <1>4, <1>5

\* The engine of a node has ended: its node goes on without an output, writes
\* evaluation.json, or the last node writes the report.
LEMMA ComputedStep ==
  ASSUME AsItWas,
         \/ LoadTrainingOutputs \/ ValidateComparability \/ ComputeMetricsNode \/ Decide
         \/ InvalidResult \/ PersistEvaluation
  PROVE  Aging' /\ Reading' /\ Identified' /\ EvaluatedAsItWas'
<1>1. ASSUME NEW node \in Engines, Computed(node), UNCHANGED out,
             (\E next \in Nodes : \E conclusion : GoesTo(next, Running(conclusion))) \/ Fails
      PROVE  Aging' /\ Reading' /\ Identified' /\ EvaluatedAsItWas'
  <2>1. Aging' /\ Reading' /\ Identified'
    BY <1>1, NodeStep DEF AsItWas
  <2>2. EvaluatedAsItWas'
    BY <1>1, EvaluationStays DEF AsItWas, Computed
  <2> QED
    BY <2>1, <2>2
<1>2. ASSUME NEW node \in Deciding, Computed(node), IdentityIsStable, NEW conclusion,
             WriteOnce("evaluation", Result(seen), "render_report", Running(conclusion))
      PROVE  Aging' /\ Reading' /\ Identified' /\ EvaluatedAsItWas'
  <2>1. "render_report" \in Nodes
    BY DEF Nodes
  <2>2. (\E next \in Nodes : \E given : GoesTo(next, Running(given))) \/ Fails
    BY <1>2, <2>1 DEF WriteOnce
  <2>3. Aging' /\ Reading' /\ Identified'
    BY <1>2, <2>2, NodeStep DEF AsItWas
  <2>4. ckpt.node \in Deciding /\ UNCHANGED past
    BY <1>2 DEF Computed, At, Fails, GoesTo, WriteOnce
  <2>5. EvaluatedAsItWas'
    BY <1>2, <2>4, EvaluationWritten DEF AsItWas
  <2> QED
    BY <2>3, <2>5
<1>3. CASE LoadTrainingOutputs
  BY <1>1, <1>3 DEF LoadTrainingOutputs, Engines, Nodes
<1>4. CASE ValidateComparability
  BY <1>1, <1>4 DEF ValidateComparability, Engines, Nodes
<1>5. CASE ComputeMetricsNode
  BY <1>1, <1>5 DEF ComputeMetricsNode, Engines, Nodes
<1>6. CASE Decide
  BY <1>1, <1>6 DEF Decide, Engines, Nodes
<1>7. CASE InvalidResult
  BY <1>1, <1>2, <1>7 DEF InvalidResult, Engines, Deciding
<1>8. CASE PersistEvaluation
  BY <1>1, <1>2, <1>8 DEF PersistEvaluation, Engines, Deciding
<1> QED
  BY <1>3, <1>4, <1>5, <1>6, <1>7, <1>8

\* Neither the report nor a person changes what was read or what evaluation.json is of.
LEMMA OutputStep ==
  ASSUME AsItWas, RenderReport \/ \E output \in Outputs : Edit(output)
  PROVE  Aging' /\ Reading' /\ Identified' /\ EvaluatedAsItWas'
<1>1. UNCHANGED <<disk, past, seen, ckpt>>
  BY DEF RenderReport, Edit, graphVars, WriteOnce, Fails, GoesTo
<1>2. proc'.phase = "WROTE" /\ proc'.to.node \in Deciding => UNCHANGED proc
  <2>1. CASE RenderReport
    <3>1. proc'.to.node = "END"
      BY <2>1 DEF RenderReport, WriteOnce, Fails, GoesTo
    <3> QED
      BY <3>1 DEF Deciding, Engines
  <2>2. ASSUME NEW output \in Outputs, Edit(output) PROVE UNCHANGED proc
    BY <2>2 DEF Edit, graphVars
  <2> QED
    BY <2>1, <2>2
<1>3. out'["evaluation"] = out["evaluation"] \/ ~ AsWritten(out'["evaluation"])
  <2>0. DOMAIN out = Outputs /\ Outputs = {"evaluation", "report"}
    BY DEF AsItWas, OutputsShaped, Outputs
  <2>1. CASE RenderReport
    BY <2>0, <2>1 DEF RenderReport, WriteOnce
  <2>2. ASSUME Edit("evaluation") PROVE ~ AsWritten(out'["evaluation"])
    <3>1. PICK edit \in Edits("evaluation") : out' = [out EXCEPT !["evaluation"] = edit]
      BY <2>2 DEF Edit
    <3>2. out'["evaluation"] = edit
      BY <2>0, <3>1
    <3>3. CASE edit = Edited
      BY <3>2, <3>3 DEF AsWritten
    <3>4. CASE edit.edited
      BY <3>2, <3>4 DEF AsWritten
    <3> QED
      BY <3>1, <3>3, <3>4 DEF Edits
  <2>3. ASSUME Edit("report") PROVE out'["evaluation"] = out["evaluation"]
    BY <2>0, <2>3 DEF Edit
  <2> QED
    BY <2>0, <2>1, <2>2, <2>3
<1>4. Aging' /\ Reading'
  BY <1>1 DEF AsItWas, Aging, Reading, NotFinishedBefore
<1>5. EvaluatedAsItWas'
  BY <1>1, <1>3, EvaluationStays DEF AsItWas
<1>6. Identified'
  BY <1>1, <1>2 DEF AsItWas, Identified
<1> QED
  BY <1>4, <1>5, <1>6

LEMMA AsItWasKept == ASSUME AsItWas, [Next]_vars PROVE AsItWas'
<1>1. OutputsShaped'
  BY StepKeeps DEF AsItWas
<1>2. CASE UNCHANGED vars
  BY <1>2 DEF vars, graphVars, AsItWas, OutputsShaped, Aging, Reading, NotFinishedBefore,
              Identified, EvaluatedAsItWas, AsWritten
<1>3. CASE Next
  <2>1. CASE Invoke \/ Resume \/ Crash \/ Commit
    BY <1>1, <2>1, GraphStep DEF AsItWas
  <2>2. CASE Read \/ \E input \in Inputs : \E content \in ContentsOf(input) : Change(input, content)
    BY <1>1, <2>2, ReadOrChangeStep DEF AsItWas
  <2>3. CASE \/ LoadTrainingOutputs \/ ValidateComparability \/ ComputeMetricsNode \/ Decide
             \/ InvalidResult \/ PersistEvaluation
    BY <1>1, <2>3, ComputedStep DEF AsItWas
  <2>4. CASE RenderReport \/ \E output \in Outputs : Edit(output)
    BY <1>1, <2>4, OutputStep DEF AsItWas
  <2> QED
    BY <1>3, <2>1, <2>2, <2>3, <2>4 DEF Next, Step
<1> QED
  BY <1>2, <1>3

LEMMA AsItWasFirst == Init => AsItWas
<1> SUFFICES ASSUME Init PROVE AsItWas
  OBVIOUS
<1>1. OutputsShaped /\ EvaluatedAsItWas
  BY DEF Init, OutputsShaped, EvaluatedAsItWas, AsWritten, Outputs
<1>2. disk \in Files
  <2>1. ASSUME NEW input \in Inputs PROVE disk[input] \in ContentsOf(input)
    <3>1. /\ Trained.spec \in Specs /\ Trained.spec # None
          /\ Trained.baseline \in Metrics /\ Trained.baseline # None
          /\ Trained.candidate \in Metrics /\ Trained.candidate # None
      BY EvaluationAssumption
    <3>2. disk[input] = [fit |-> TRUE, spec |-> IF input \in OfASpec THEN Trained.spec ELSE None,
                         metrics |-> CASE input = Baseline -> Trained.baseline
                                       [] input = Candidate -> Trained.candidate
                                       [] OTHER -> None,
                         edition |-> 0]
      BY DEF Init
    <3>3. 0 \in 0 .. MaxChanges
      BY EvaluationAssumption
    <3>4. CASE input = Baseline
      BY <3>1, <3>2, <3>3, <3>4 DEF ContentsOf, Contents, Runs, Baseline, Candidate
    <3>5. CASE input = Candidate
      BY <3>1, <3>2, <3>3, <3>5 DEF ContentsOf, Contents, Runs, Baseline, Candidate
    <3>6. CASE input # Baseline /\ input # Candidate
      BY <3>1, <3>2, <3>3, <3>6 DEF ContentsOf, Contents, Runs
    <3> QED
      BY <3>4, <3>5, <3>6
  <2>2. disk = [input \in Inputs |-> disk[input]]
    BY DEF Init
  <2>3. \A input \in Inputs : ContentsOf(input) \subseteq Contents
    BY DEF ContentsOf
  <2> QED
    BY <2>1, <2>2, <2>3 DEF Files
<1>3. Aging
  <2>1. IsFiniteSet(past) /\ Cardinality(past) = 1
    BY FS_Singleton DEF Init
  <2>2. past = {disk}
    BY DEF Init
  <2>3. \A input \in Inputs : disk[input].edition = 0
    BY DEF Init
  <2>4. \A files \in past, input \in Inputs : files[input].edition < Cardinality(past)
    BY <2>1, <2>2, <2>3
  <2> QED
    BY <1>2, <2>1, <2>2, <2>4 DEF Aging
<1>4. Reading
  BY DEF Init, Reading, NotFinishedBefore, Fixtures
<1>5. Identified
  BY DEF Init, GraphInit, Idle, Identified, Deciding, Engines
<1> QED
  BY <1>1, <1>3, <1>4, <1>5 DEF AsItWas

\* What a verdict was computed from lay on the disk together, however a training
\* workflow or a person wrote between the reads and between the nodes.
THEOREM EvaluatedTogether == Spec => []EvaluatedAsItWas
<1>1. AsItWas /\ [Next]_vars => AsItWas'
  BY AsItWasKept
<1>2. AsItWas => EvaluatedAsItWas
  BY DEF AsItWas
<1> QED
  BY AsItWasFirst, <1>1, <1>2, PTL DEF Spec

\* A verdict compares two runs of the spec of training.json.
THEOREM OneSpec == Spec => []VerdictOfOneSpec
<1>1. EvaluatedAsItWas => VerdictOfOneSpec
  <2> SUFFICES ASSUME EvaluatedAsItWas, AsWritten(out["evaluation"]),
                      out["evaluation"].conclusion # "INVALID"
               PROVE  \E files \in past : \A input \in Inputs :
                         /\ files[input] = out["evaluation"].inputs[input]
                         /\ files[input].fit
                         /\ input \in OfASpec => files[input].spec = files[Record].spec
    BY DEF VerdictOfOneSpec
  <2>0. PICK files \in past : \E read \in Snapshot(files) : out["evaluation"] = Result(read)
    BY DEF EvaluatedAsItWas
  <2>1. PICK read \in Snapshot(files) : out["evaluation"] = Result(read)
    BY <2>0
  <2>2. OutputsLoaded(read) /\ Sound(read) /\ out["evaluation"].inputs = read
    BY <2>1 DEF Result
  <2>3. PICK n \in Inputs : read = [input \in 1 .. n |-> files[input]]
    BY DEF Snapshot
  <2>4. n = Fixtures
    <3>1. n \in Nat
      BY DEF Inputs, Policy, Fixtures
    <3>2. Len(read) = n
      BY <2>3, <3>1
    <3> QED
      BY <2>2, <3>2 DEF OutputsLoaded
  <2>5. \A input \in Inputs : input \in DOMAIN read /\ read[input] = files[input]
    BY <2>3, <2>4 DEF Inputs, Policy
  <2>6. Record \in Inputs
    BY DEF Record, Inputs, Policy, Fixtures
  <2> QED
    BY <2>2, <2>5, <2>6 DEF Sound
<1> QED
  BY <1>1, EvaluatedTogether, PTL

\* A verdict that the candidate is better would be, with the runs swapped, that it is
\* worse: the differences are of two measured metrics, so they turn exactly.
THEOREM VerdictsTurn == Spec => []VerdictTurnsAround
<1>1. AsItWas => VerdictTurnsAround
  <2> DEFINE read == out["evaluation"].inputs
  <2> SUFFICES ASSUME AsItWas, AsWritten(out["evaluation"]),
                      out["evaluation"].conclusion = "IMPROVED"
               PROVE  DecideConclusion(MetricDelta(read[Candidate].metrics, read[Baseline].metrics))
                         = "REGRESSED"
    BY DEF VerdictTurnsAround
  <2>0. PICK files \in past : \E given \in Snapshot(files) : out["evaluation"] = Result(given)
    BY DEF AsItWas, EvaluatedAsItWas
  <2>1. PICK given \in Snapshot(files) : out["evaluation"] = Result(given)
    BY <2>0
  <2>2. /\ OutputsLoaded(given) /\ Sound(given) /\ read = given
        /\ DecideConclusion(MetricDelta(given[Baseline].metrics, given[Candidate].metrics)) = "IMPROVED"
    BY <2>1 DEF Result
  <2>3. PICK n \in Inputs : given = [input \in 1 .. n |-> files[input]]
    BY DEF Snapshot
  <2>4. n = Fixtures
    <3>1. n \in Nat
      BY DEF Inputs, Policy, Fixtures
    <3>2. Len(given) = n
      BY <2>3, <3>1
    <3> QED
      BY <2>2, <3>2 DEF OutputsLoaded
  <2>5. ASSUME NEW run \in Runs
        PROVE  given[run].metrics \in [macro : Int, balanced : Int, severe : Int]
    <3>1. run \in 1 .. 6 /\ run \in Inputs
      BY DEF Runs, Baseline, Candidate, Inputs, Policy, Fixtures
    <3>2. given[run] = files[run] /\ run \in DOMAIN given
      BY <2>3, <2>4, <3>1 DEF Fixtures
    <3>3. files[run] \in ContentsOf(run)
      BY <3>1 DEF AsItWas, Aging, Files
    <3>4. given[run].metrics \in Metrics \cup {None} /\ given[run].metrics # None
      BY <2>2, <3>2, <3>3 DEF Sound, ContentsOf, Contents
    <3> QED
      BY <3>4, EvaluationAssumption
  <2>6. PICK base, other \in [macro : Int, balanced : Int, severe : Int] :
           given[Baseline].metrics = base /\ given[Candidate].metrics = other
    BY <2>5 DEF Runs
  <2> DEFINE gain == [macro |-> other.macro - base.macro, balanced |-> other.balanced - base.balanced,
                      severe |-> other.severe - base.severe]
             loss == [macro |-> -gain.macro, balanced |-> -gain.balanced, severe |-> -gain.severe]
  <2>7. MetricDelta(base, other) = gain
    BY DEF MetricDelta
  <2>8. MetricDelta(other, base) = loss
    BY DEF MetricDelta
  <2>9. DecideConclusion(gain) = "IMPROVED"
    BY <2>2, <2>6, <2>7
  <2>10. gain.macro \in Int /\ gain.balanced \in Int /\ gain.severe \in Int
    OBVIOUS
  <2>11. DecideConclusion(loss) = "REGRESSED"
    BY <2>9, <2>10, TurnsAround DEF ImprovementTurnsAround
  <2> QED
    BY <2>2, <2>6, <2>8, <2>11
<1> QED
  BY AsItWasFirst, AsItWasKept, <1>1, PTL DEF Spec

-----------------------------------------------------------------------------
(***************************************************************************)
(* Types.  The inputs keep theirs by AsItWas; the outputs and the          *)
(* checkpoints are made of what the engine has read.                       *)
(***************************************************************************)
Returning == [node : Nodes, carry : Carries]

Typed ==
    /\ out \in [Outputs -> Results \cup {None, Edited}]
    /\ GraphType(Nodes, Carries, {})
    /\ proc.phase = "WROTE" => proc.to \in Returning

LEMMA ResultTyped == ASSUME Reading PROVE Result(seen) \in Results
<1>1. \A delta : DecideConclusion(delta) \in Conclusions
  BY DEF DecideConclusion, Conclusions
<1> QED
  BY <1>1 DEF Result, Results, Conclusions, Reading

\* A node that returns a checkpoint of the right type keeps the graph's type.
LEMMA ReturnTyped ==
  ASSUME Typed, NEW node \in Nodes, NEW carry \in Carries, GoesTo(node, carry), UNCHANGED recorder
  PROVE  GraphType(Nodes, Carries, {})' /\ proc'.to \in Returning
<1>1. [node |-> node, carry |-> carry] \in Returning
  BY DEF Returning
<1>2. proc' = [phase |-> "WROTE", to |-> [node |-> node, carry |-> carry]]
  BY DEF GoesTo
<1> QED
  BY <1>1, <1>2 DEF GoesTo, Typed, GraphType, Returning

LEMMA FailsTyped ==
  ASSUME Typed, Fails, UNCHANGED recorder
  PROVE  GraphType(Nodes, Carries, {})' /\ proc'.to \in Returning
<1>1. ckpt.carry \in Carries
  BY DEF Typed, GraphType
<1>2. [ckpt.carry EXCEPT !.status = "FAILED"] \in Carries /\ "END" \in Nodes
  BY <1>1 DEF Carries, Nodes
<1> QED
  BY <1>2, ReturnTyped DEF Fails

LEMMA NodeTyped ==
  ASSUME Typed, Reading, UNCHANGED recorder,
         \/ /\ \E next \in Nodes : \E conclusion \in Conclusions \cup {None} : GoesTo(next, Running(conclusion))
            /\ UNCHANGED out
         \/ Fails /\ UNCHANGED out
         \/ \E conclusion \in Conclusions \cup {None} :
               WriteOnce("evaluation", Result(seen), "render_report", Running(conclusion))
  PROVE  Typed'
<1>1. \A conclusion \in Conclusions \cup {None} : Running(conclusion) \in Carries
  BY DEF Running, Carries, Reading
<1>2. out' \in [Outputs -> Results \cup {None, Edited}]
  BY ResultTyped DEF WriteOnce, Typed
<1>3. Fails \/ \E next \in Nodes : \E conclusion \in Conclusions \cup {None} : GoesTo(next, Running(conclusion))
  BY DEF WriteOnce, Nodes
<1>4. GraphType(Nodes, Carries, {})' /\ proc'.to \in Returning
  BY <1>1, <1>3, FailsTyped, ReturnTyped
<1> QED
  BY <1>2, <1>4 DEF Typed

LEMMA ReportTyped == ASSUME Typed, RenderReport PROVE Typed'
<1>1. ckpt.carry \in Carries
  BY DEF Typed, GraphType
<1>2. [ckpt.carry EXCEPT !.status = "COMPLETED"] \in Carries /\ "END" \in Nodes
  BY <1>1 DEF Carries, Nodes
<1>3. Fails \/ GoesTo("END", [ckpt.carry EXCEPT !.status = "COMPLETED"])
  BY DEF RenderReport, WriteOnce
<1>4. GraphType(Nodes, Carries, {})' /\ proc'.to \in Returning
  BY <1>2, <1>3, FailsTyped, ReturnTyped DEF RenderReport
<1>5. out' \in [Outputs -> Results \cup {None, Edited}]
  <2>1. CASE UNCHANGED out
    BY <2>1 DEF Typed
  <2>2. ASSUME NEW report \in Renderings(out["evaluation"]), IsOf(out["evaluation"], ckpt.carry),
               out' = [out EXCEPT !["report"] = report]
        PROVE  out' \in [Outputs -> Results \cup {None, Edited}]
    <3>1. out["evaluation"] \in Results
      BY <2>2 DEF IsOf, Typed, Outputs
    <3>2. report \in Results
      BY <3>1 DEF Renderings, Results
    <3> QED
      BY <2>2, <3>2 DEF Typed
  <2> QED
    BY <2>1, <2>2 DEF RenderReport, WriteOnce
<1> QED
  BY <1>4, <1>5 DEF Typed

\* Neither the start of a process, its end, nor a commit makes anything new.
LEMMA GraphTyped == ASSUME Typed, Invoke \/ Resume \/ Crash \/ Commit PROVE Typed'
<1>1. UNCHANGED out /\ proc' \in {Idle("READY"), Idle("DOWN")}
  BY DEF Invoke, Resume, Crash, Commit, GraphInvoke, GraphResume, GraphCrash, GraphCommit, Dies
<1>2. ckpt' \in Returning
  <2>1. Pending \in Carries /\ "load_training_outputs" \in Nodes
    BY DEF Pending, Carries, Nodes, Engines
  <2> QED
    BY <2>1 DEF Invoke, Resume, Crash, Commit, GraphInvoke, GraphResume, GraphCrash, GraphCommit, Dies,
                Typed, GraphType, Returning
<1>3. recorder' = {} /\ life' \in 0 .. MaxLives /\ invocations' \in 0 .. MaxInvocations
  BY GraphAssumption DEF Invoke, Resume, Crash, Commit, GraphInvoke, GraphResume, GraphCrash, GraphCommit,
                         Dies, Typed, GraphType
<1> QED
  BY <1>1, <1>2, <1>3 DEF Typed, GraphType, Returning, Idle

LEMMA TypedKept == ASSUME AsItWas, Typed, [Next]_vars PROVE Typed'
<1>1. CASE UNCHANGED <<out, graphVars>>
  BY <1>1 DEF graphVars, Typed, GraphType
<1>2. CASE Read \/ UNCHANGED vars
  BY <1>1, <1>2 DEF Read, vars
<1>3. ASSUME NEW input \in Inputs, NEW content \in ContentsOf(input), Change(input, content) PROVE Typed'
  BY <1>1, <1>3 DEF Change
<1>4. ASSUME NEW output \in Outputs, Edit(output) PROVE Typed'
  <2>1. out[output] \in Results
    BY <1>4 DEF Edit, Typed
  <2>2. Edits(output) \subseteq Results \cup {None, Edited}
    <3>1. [inputs |-> out[output].inputs, conclusion |-> out[output].conclusion, edited |-> TRUE]
             \in Results
      BY <2>1 DEF Results
    <3> QED
      BY <3>1, Zenon DEF Edits
  <2>3. out' \in [Outputs -> Results \cup {None, Edited}]
    BY <1>4, <2>2 DEF Edit, Typed
  <2>4. UNCHANGED graphVars
    BY <1>4 DEF Edit
  <2> QED
    BY <2>3, <2>4 DEF graphVars, Typed, GraphType
<1>5. CASE LoadTrainingOutputs
  BY <1>5, NodeTyped DEF LoadTrainingOutputs, Computed, AsItWas, Nodes, Engines
<1>6. CASE ValidateComparability
  BY <1>6, NodeTyped DEF ValidateComparability, Computed, AsItWas, Nodes, Engines
<1>7. CASE ComputeMetricsNode
  BY <1>7, NodeTyped DEF ComputeMetricsNode, Computed, AsItWas, Nodes, Engines
<1>8. CASE Decide
  <2>1. Result(seen).conclusion \in Conclusions
    BY ResultTyped DEF AsItWas, Results
  <2> QED
    BY <1>8, <2>1, NodeTyped DEF Decide, Computed, AsItWas, Nodes, Engines
<1>9. CASE InvalidResult
  BY <1>9, NodeTyped DEF InvalidResult, Computed, AsItWas, Conclusions
<1>10. CASE PersistEvaluation
  <2>1. Result(seen).conclusion \in Conclusions
    BY ResultTyped DEF AsItWas, Results
  <2> QED
    BY <1>10, <2>1, NodeTyped DEF PersistEvaluation, Computed, AsItWas
<1>11. CASE RenderReport
  BY <1>11, ReportTyped
<1>12. CASE Invoke \/ Resume \/ Crash \/ Commit
  BY <1>12, GraphTyped
<1> QED
  BY <1>2, <1>3, <1>4, <1>5, <1>6, <1>7, <1>8, <1>9, <1>10, <1>11, <1>12 DEF Next, Step

LEMMA TypedFirst == Init => Typed
<1>1. Pending \in Carries /\ "START" \in Nodes
  BY DEF Pending, Carries, Nodes
<1> QED
  BY <1>1, GraphAssumption DEF Init, GraphInit, Idle, Typed, GraphType

\* Every variable keeps its type: among others, a checkpoint names a node of the graph,
\* and the inputs of a verdict are contents that an engine has read.
THEOREM TypeCorrect == Spec => []TypeOK
<1>1. AsItWas /\ Typed /\ [Next]_vars => AsItWas' /\ Typed'
  BY AsItWasKept, TypedKept
<1>2. AsItWas /\ Typed => TypeOK
  BY DEF AsItWas, Aging, Files, Reading, Typed, TypeOK
<1> QED
  BY AsItWasFirst, TypedFirst, <1>1, <1>2, PTL DEF Spec

-----------------------------------------------------------------------------
(***************************************************************************)
(* Completion.                                                             *)
(***************************************************************************)
Returns == proc.phase = "READY" /\ proc'.phase = "WROTE"

\* A node that goes on to another engine, or fails, owes nothing to the outputs.
LEMMA OwesNothing ==
  ASSUME Typed,
         \/ Fails
         \/ \E next \in Engines : \E conclusion \in Conclusions \cup {None} : GoesTo(next, Running(conclusion))
  PROVE  OnItsOutputs
<1>1. CASE Fails
  <2>1. ckpt.carry \in Carries
    BY DEF Typed, GraphType
  <2>2. [ckpt.carry EXCEPT !.status = "FAILED"].status = "FAILED"
    BY <2>1 DEF Carries
  <2> QED
    BY <1>1, <2>2 DEF Fails, GoesTo, OnItsOutputs
<1>2. ASSUME NEW next \in Engines, NEW conclusion \in Conclusions \cup {None}, GoesTo(next, Running(conclusion))
      PROVE  OnItsOutputs
  BY <1>2 DEF GoesTo, Running, OnItsOutputs, Engines
<1> QED
  BY <1>1, <1>2

\* evaluation.json is written with the result just computed, or was that result already.
LEMMA EvaluationOwed ==
  ASSUME Typed, WriteOnce("evaluation", Result(seen), "render_report", Running(Result(seen).conclusion))
  PROVE  OnItsOutputs
<1> DEFINE carry == Running(Result(seen).conclusion)
<1>1. CASE Fails
  BY <1>1, OwesNothing
<1>2. CASE GoesTo("render_report", carry) /\ out'["evaluation"] = Result(seen)
  <2>1. /\ proc'.to.carry = carry
        /\ carry.id = seen /\ carry.conclusion = Result(seen).conclusion /\ carry.status = "RUNNING"
    BY <1>2 DEF GoesTo, Running
  <2>2. Result(seen) = [inputs |-> seen, conclusion |-> Result(seen).conclusion, edited |-> FALSE]
    BY DEF Result
  <2> QED
    BY <1>2, <2>1, <2>2 DEF OnItsOutputs
<1>3. DOMAIN out = Outputs
  BY DEF Typed
<1> QED
  BY <1>1, <1>2, <1>3 DEF WriteOnce, Outputs

\* The report is written from an evaluation of the run's own id and conclusion, or was
\* its report already.
LEMMA ReportOwed == ASSUME Typed, RenderReport PROVE OnItsOutputs
<1> DEFINE done == [ckpt.carry EXCEPT !.status = "COMPLETED"]
<1>1. CASE Fails
  BY <1>1, OwesNothing
<1>2. ASSUME NEW report \in Renderings(out["evaluation"]), IsOf(out["evaluation"], ckpt.carry),
             GoesTo("END", done),
             out' = [out EXCEPT !["report"] = report] \/ (out["report"] = report /\ UNCHANGED out)
      PROVE  OnItsOutputs
  <2>1. ckpt.carry \in Carries /\ DOMAIN out = Outputs
    BY DEF Typed, GraphType
  <2>2. done.id = ckpt.carry.id /\ done.conclusion = ckpt.carry.conclusion
    BY <2>1 DEF Carries
  <2>3. proc'.to.carry = done /\ proc'.to.node = "END"
    BY <1>2 DEF GoesTo
  <2>4. out'["evaluation"] = out["evaluation"] /\ out'["report"] = report
    BY <1>2, <2>1 DEF Outputs
  <2> QED
    BY <1>2, <2>2, <2>3, <2>4 DEF OnItsOutputs, IsOf, Renderings
<1>3. ASSUME NEW report \in Renderings(out["evaluation"]), IsOf(out["evaluation"], ckpt.carry),
             WriteOnce("report", report, "END", done)
      PROVE  OnItsOutputs
  <2>1. \/ Fails
        \/ /\ GoesTo("END", done)
           /\ out' = [out EXCEPT !["report"] = report] \/ (out["report"] = report /\ UNCHANGED out)
    BY <1>3, Zenon DEF WriteOnce
  <2> QED
    BY <1>1, <1>2, <1>3, <2>1, Zenon
<1>4. \/ Fails
      \/ /\ IsOf(out["evaluation"], ckpt.carry)
         /\ \E report \in Renderings(out["evaluation"]) : WriteOnce("report", report, "END", done)
  BY Zenon DEF RenderReport
<1> QED
  BY <1>1, <1>3, <1>4

LEMMA ReturnStep == ASSUME AsItWas, Typed, [Next]_vars PROVE Returns => OnItsOutputs
<1>1. CASE UNCHANGED proc
  BY <1>1 DEF Returns
<1>2. CASE \/ Read \/ UNCHANGED vars
           \/ \E input \in Inputs : \E content \in ContentsOf(input) : Change(input, content)
           \/ \E output \in Outputs : Edit(output)
  BY <1>1, <1>2 DEF Read, Change, Edit, vars, graphVars
<1>3. CASE Invoke \/ Resume \/ Crash \/ Commit
  BY <1>3 DEF Invoke, Resume, Crash, Commit, GraphInvoke, GraphResume, GraphCrash, GraphCommit,
              Dies, Idle, Returns
<1>4. Result(seen).conclusion \in Conclusions
  BY ResultTyped DEF AsItWas, Results
<1>5. CASE LoadTrainingOutputs
  BY <1>5, OwesNothing DEF LoadTrainingOutputs, Engines
<1>6. CASE ValidateComparability \/ ComputeMetricsNode
  BY <1>6, OwesNothing DEF ValidateComparability, ComputeMetricsNode, Engines
<1>7. CASE Decide
  BY <1>4, <1>7, OwesNothing DEF Decide, Engines
<1>8. CASE InvalidResult
  BY <1>8, OwesNothing, EvaluationOwed DEF InvalidResult, Invalid
<1>9. CASE PersistEvaluation
  BY <1>9, OwesNothing, EvaluationOwed DEF PersistEvaluation
<1>10. CASE RenderReport
  BY <1>10, ReportOwed
<1> QED
  BY <1>2, <1>3, <1>5, <1>6, <1>7, <1>8, <1>9, <1>10 DEF Next, Step

\* A run goes on to its report only over the evaluation it computed itself, and completes
\* only over an evaluation of its own id and conclusion with the report of it, whatever
\* earlier runs wrote and a person edited.
THEOREM CompletedOnItsOutputs == Spec => CompletesOnItsOutputs
<1>1. AsItWas /\ Typed /\ [Next]_vars => AsItWas' /\ Typed'
  BY AsItWasKept, TypedKept
<1>2. AsItWas /\ Typed /\ [Next]_vars
        => [proc.phase = "READY" /\ proc'.phase = "WROTE" => OnItsOutputs]_vars
  BY ReturnStep DEF Returns
<1> QED
  BY AsItWasFirst, TypedFirst, <1>1, <1>2, PTL DEF Spec, CompletesOnItsOutputs
=============================================================================
