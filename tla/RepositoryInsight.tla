-------------------------- MODULE RepositoryInsight -------------------------
(***************************************************************************)
(* The analysis of a public repository: the graph of                       *)
(* workflows/repository_insight.py with its gate, the code-reading loop of *)
(* services/repository_insight_planner.py, and the four files of           *)
(* services/repository_insight_store.py.                                   *)
(*                                                                         *)
(* A path is read whole or not at all: six reads of 8 KiB cannot exceed    *)
(* the 48 KiB of the loop, and with one call in each of ten turns the ten  *)
(* calls cannot be exceeded either.  Advice is the set of the paths it     *)
(* refers to.  A workflow_id is new in every analysis, and its checkpoints *)
(* are in memory.                                                          *)
(***************************************************************************)
EXTENDS CallBudget, Sequences, FiniteSets

CONSTANTS
    Paths,            \* the text members of the snapshot's index
    MaxReads,         \* MAX_READ_FILES
    MaxCodeTurns      \* MAX_MODEL_TURNS

ASSUME InsightAssumption == {MaxReads, MaxCodeTurns} \subseteq Nat

VARIABLES
    insight,     \* the state of the graph and of its loop
    reads,       \* the paths that were read
    executed,    \* the tools of the trace; its events are as many as the turns
    advice,      \* the paths of what was submitted, none before
    files,       \* the files of this workflow_id that are in place
    recorded     \* its InMemoryApprovalRecorder

insightVars == <<insight, reads, executed, advice, files, recorded>>

Observations == {"inspect_repository_summary", "inspect_target_profile", "read_repository_file"}
Tools == Observations \cup {"submit_adaptation_advice"}
Artifacts == <<"advice.json", "advice.md", "tool-trace.json", "repository-insight.json">>
Ended == {"COMPLETED", "REJECTED", "FAILED", "EXHAUSTED", "RAISED"}

NoInsight == [phase |-> "OFF", turns |-> 0, corrected |-> FALSE]

InsightInit ==
    /\ insight = NoInsight
    /\ reads = {}
    /\ executed = {}
    /\ advice = {}
    /\ files = {}
    /\ recorded = {}

InsightGoes(phase) == insight' = [insight EXCEPT !.phase = phase]

-----------------------------------------------------------------------------
(***************************************************************************)
(* The graph up to its loop.                                               *)
(***************************************************************************)
\* validate_repository_insight_input; a new workflow has no files.
InsightStart ==
    /\ insight.phase = "OFF"
    /\ insight' \in {[NoInsight EXCEPT !.phase = phase] : phase \in {"GATE", "FAILED"}}
    /\ files' = {}
    /\ recorded' = {}
    /\ UNCHANGED <<reads, executed, advice, callVars>>

\* The files stay when the worker has answered.
InsightClear ==
    /\ insight' = NoInsight
    /\ reads' = {}
    /\ executed' = {}
    /\ advice' = {}
    /\ UNCHANGED <<files, recorded>>

\* Mutant: the route is the decision.
Decided_AsIs(decision) == decision

\* Mutant: what is not a refusal is taken for an approval.
Decided_ByElimination(decision) == IF decision = "REJECT" THEN "REJECTED" ELSE "ANALYZE"

\* An EDIT raises, and so does an approval with edits.
Decided(decision) ==
    CASE decision = "APPROVE" -> "ANALYZE"
      [] decision = "REJECT" -> "REJECTED"
      [] decision = "EDIT" -> "RAISED"

\* repository_snapshot_gate: the approval is recorded before it is looked at; one
\* of another subject is not.
SnapshotGate(decision) ==
    /\ insight.phase = "GATE"
    /\ \/ recorded' = recorded \cup {decision} /\ InsightGoes(Decided(decision))
       \/ UNCHANGED recorded /\ InsightGoes("RAISED")
    /\ UNCHANGED <<reads, executed, advice, files, callVars>>

\* resolve, metadata, snapshot, static analysis and index: any of them may fail.
FetchSnapshot ==
    /\ insight.phase = "ANALYZE"
    /\ InsightGoes("MODEL") \/ InsightGoes("FAILED")
    /\ UNCHANGED <<reads, executed, advice, files, recorded, callVars>>

-----------------------------------------------------------------------------
(***************************************************************************)
(* The code-reading loop.                                                  *)
(***************************************************************************)
CodeTurn == insight.phase = "MODEL" /\ insight.turns < MaxCodeTurns /\ Call

Executes(tool) == executed' = executed \cup {tool}

\* The limit, the budget, the provider, a message that is not one known call, a
\* reply without advice, or a tool that raises.
CodeTurnFails ==
    /\ insight.phase = "MODEL"
    /\ \/ insight.turns >= MaxCodeTurns /\ InsightGoes("FAILED") /\ UNCHANGED callVars
       \/ insight.turns < MaxCodeTurns /\ Exhausted /\ InsightGoes("EXHAUSTED") /\ UNCHANGED callVars
       \/ CodeTurn /\ InsightGoes("FAILED")
    /\ UNCHANGED <<reads, executed, advice, files, recorded>>

Observe(tool) ==
    /\ CodeTurn
    /\ Executes(tool)
    /\ insight' = [insight EXCEPT !.turns = @ + 1]
    /\ UNCHANGED <<reads, advice, files, recorded>>

ReadRepositoryFile(path) ==
    /\ path \notin reads
    /\ Cardinality(reads) < MaxReads
    /\ CodeTurn
    /\ Executes("read_repository_file")
    /\ insight' = [insight EXCEPT !.turns = @ + 1]
    /\ reads' = reads \cup {path}
    /\ UNCHANGED <<advice, files, recorded>>

\* Mutant: the observations are not asked for.
CanSubmit_Unread(referenced) == referenced \subseteq reads

\* The three observations come first, and the advice refers to what was read.
CanSubmit(referenced) ==
    /\ Observations \subseteq executed
    /\ reads # {}
    /\ referenced \subseteq reads

\* A validated submission ends the loop without another turn.
SubmitAdvice(referenced) ==
    /\ CodeTurn
    /\ CanSubmit(referenced)
    /\ Executes("submit_adaptation_advice")
    /\ advice' = referenced
    /\ insight' = [insight EXCEPT !.turns = @ + 1, !.phase = "WRITE"]
    /\ UNCHANGED <<reads, files, recorded>>

\* correct_advice_length: one submission whose lists are too long is answered, and
\* takes its place among the executions.
CorrectAdviceLength ==
    /\ ~ insight.corrected
    /\ CodeTurn
    /\ Executes("submit_adaptation_advice")
    /\ insight' = [insight EXCEPT !.turns = @ + 1, !.corrected = TRUE]
    /\ UNCHANGED <<reads, advice, files, recorded>>

-----------------------------------------------------------------------------
\* Mutant: the result is written first.
NextFile_ResultFirst ==
    IF files = {} THEN Artifacts[4] ELSE Artifacts[Cardinality(files)]

NextFile == Artifacts[Cardinality(files) + 1]

\* write_completed: each file is replaced whole, in this order.
WriteFile ==
    /\ insight.phase = "WRITE"
    /\ files' = files \cup {NextFile}
    /\ insight' = [insight EXCEPT !.phase =
                      IF Cardinality(files') = Len(Artifacts) THEN "COMPLETED" ELSE "WRITE"]
    /\ UNCHANGED <<reads, executed, advice, recorded, callVars>>

\* A trace or a result that does not validate, or a write that is refused.
WriteFails ==
    /\ insight.phase = "WRITE"
    /\ InsightGoes("FAILED")
    /\ UNCHANGED <<reads, executed, advice, files, recorded, callVars>>

InsightStep ==
    \/ FetchSnapshot \/ CodeTurnFails \/ CorrectAdviceLength \/ WriteFile \/ WriteFails
    \/ \E tool \in Observations \ {"read_repository_file"} : Observe(tool)
    \/ \E path \in Paths : ReadRepositoryFile(path)
    \/ \E referenced \in (SUBSET Paths) \ {{}} : SubmitAdvice(referenced)
=============================================================================
