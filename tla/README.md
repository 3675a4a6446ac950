# Verification of the SEM Research Agent

TLA+ specifications of the SEM Research Agent (`src/src/vision_research_ops`, called
`ops/` below), the TLC configurations that model-check them, and theorems about
them with proofs for TLAPS. Every definition is translated from the Python source;
`PROJECT.json` maps each one to the lines it stands for. What lies outside `src/`
(LangGraph's checkpointer, GitHub, arXiv, the model provider, the operating
system) is modelled from how the code uses it and is marked external there.

## 1. The system

The agent turns a question about SEM imaging into reviewed evidence: it finds
papers, reads a repository, plans and tries a small code adaptation, trains it and
evaluates the result. Each stage is a LangGraph workflow that stops at a **human
gate** (`interrupt`) and goes on with a typed decision. Two things are durable: the
checkpoints of a thread (when the caller brings a durable checkpointer; the default
`InMemorySaver` dies with the process) and local JSON stores that replace a whole
file at a time. What makes the system hard is that these two are written one after
the other: a node writes its files first and LangGraph commits its checkpoint later,
and the process may die, or a write be refused, in between.

### 1.1 Inventory

| Component | State | Operations | Hard behaviours |
|---|---|---|---|
| **Research** `nodes/research.py`, `workflows/research.py`, `services/paper_*.py` | checkpoint; the process's `ResearchSession` (window, raw records, papers); `papers.json`; one `watermark.json` per root | validate, retrieve, deduplicate, filter, analyze, selection gate, finalize | two workflows race on one watermark; the session is not checkpointed; result and watermark are two writes; provider index delay against the window's overlap; cut by the record budget |
| **Repository** `nodes/repository.py`, `workflows/repository.py`, `services/repository_{models,store}.py` | checkpoint; `repository.json`; archive directory | validate, link gate, resolve commit, fetch archive, analyze, finalize | the gate runs again over a record it has changed; answers to another presentation; head moves between pin and download; refused writes |
| **Adaptation** `nodes/adaptation.py`, `workflows/adaptation.py`, `services/adaptation_*.py`, `ops/adaptation/fixture_*.py` | checkpoint; record; plan per revision; patch manifests and workspaces; smoke results; approvals | validate, plan, generate patch, smoke, repair once, acceptance gate (approve, edit, reject) | revisions re-planned after a refused write; reuse of an earlier patch or smoke result; half-filled workspaces; one repair only |
| **Training** `nodes/training.py`, `workflows/training.py`, `services/training_*.py`, `adapters/execution/local_training.py`, `fixtures/training/` | checkpoint; record; spec per revision; run directories (manifest, metrics, artifacts); subprocesses; approvals | validate, freeze, training gate (approve, edit, reject), run baseline, run adapted, collect; timeout, cancel | subprocess outlives its driver and races the next one; artifacts reused; spec read by name by a process nobody waits for; two invocations over one store |
| **Evaluation** `nodes/evaluation.py`, `workflows/evaluation.py`, `services/evaluation_*.py` | checkpoint; write-once `evaluation.json` and report | load, validate comparability, compute, decide, persist, render, invalid branch | inputs change between two nodes that each recompute from disk; INVALID is persisted too; integer and rounding edges of the metrics |
| **Pipeline** `workflows/pipeline.py`, `pipeline_runtime.py`, `ops/pipeline/`, `services/pipeline_models.py`, `cli/pipeline.py` | its graph's state in memory; the children's stores; `summary.json` | five stages with one child each, the four gate scripts, the summary, exact rerun | interrupted runs leave records, a moved watermark and files behind; the summary is read from disk and validated apart from the gates |
| **Supervisor** `workflows/supervisor.py`, `agents/workers.py`, `services/supervisor_models.py`, `adapters/llm/supervisor.py` | checkpoint: observations, completed tasks, delegations, proposal; a model-call budget | decide, delegate | evidence a code target needs; duplicate and unlimited delegation; a delegated worker that interrupts and is re-executed |
| **Conversation** `cli/conversation.py`, `services/conversation_context.py`, `services/target_profile.py` | memory (current paper, repository, artifact, profile) and the persisted context file | startup, `/clear`, continue, research, analyze, insight, supervisor turn, pipeline | memory and file diverge when a save is refused; a repository that belongs to another paper or profile; profile file changes between two requests |
| **Repository insight** `nodes/repository_insight.py`, `services/repository_insight_{planner,models,store}.py` | one gated graph per URL; session budgets; four files of a completed analysis | validate, gate, analyze with a read-only tool loop, write | limits reached in any order, one correction only, evidence a submission must cite; one of four writes refused; an answer that is neither approval nor refusal |
| **Paper planner** `services/paper_planner.py`, `paper_retrieval.py` | loop session: raw records, papers, inspected, submitted | search, inspect, submit, finish; merging by union-find | a later search merges papers under another id; two searches share one budget; groups that depend on the order of pages |
| **Adaptation planner** `services/adaptation_tool_planner.py`, `ops/adaptation/tool_planner.py` | loop session: observed, proposal; the trace file | three observations, validate | order of observations, last valid proposal wins; a trace beside the plan of another run of the loop |
| **Approval recorder** `application/runtime.py` | approvals of a process | record, find exact | reused approval ids, lost with the process |
| **Vertical slice** `workflows/core.py`, `nodes/{gates,fixtures}.py` | checkpoint | fixture nodes and generic gates | none beyond the gates of the other workflows |
| **Dataset profile** `services/dataset_profiling.py` | none | one pass over files | none |
| **Adapters** `adapters/{llm,papers,repositories}` | call budgets, response caches | HTTP calls with limits | external services |
| **Domain, ports, settings, prompts, intent parsing** | none | validation of records | none |

### 1.2 How the parts interact

The conversation calls the supervisor's graph (or a workflow directly); the
supervisor delegates to a *research* worker (the research workflow, or the targeted
analysis of one paper) and a *code* worker (the repository-insight graph), whose
interrupts pass through it to the terminal. The pipeline runs the five workflows in
order through a `PipelineChildDriver`, answers their gates from a script or from the
reviewer, and hands each stage what the record of the stage before it contains. All
stages share one workspace on disk; a stage knows an earlier one only through its
record. The training workflow talks to its subprocess through files and an exit
status, and to nothing else.

### 1.3 What makes each part correct

* Nothing is fetched, run, accepted or selected that a human did not approve, and an
  approval counts for the thing it was shown with, across crashes, edits, retries
  and second invocations.
* What a record says (COMPLETED, ACCEPTED, SUCCEEDED) is backed by evidence on disk
  made for that very content; evidence is never replaced.
* A record and its checkpoint never disagree in a way a resume cannot mend.
* No published paper falls between two research windows.
* The pipeline is the serial chain it is documented to be: no stage runs after one
  that did not succeed, or on what another run left behind.
* A supervised request spends no more than its budgets, whoever spends; what it shows a
  model are the works it found, each once; what it writes is validated and whole.
* What loops by itself (training, repair, delegation, tools) comes to a gate, to an end, or raises.

`PROJECT.json` lists the hazards behind these at the lines where they bite.

## 2. Plan

| # | Module | Composes | Abstract specification | State |
|---|---|---|---|---|
| 1 | `Training` | store, recorder, executor, subprocesses, graph | - | checked, proved (`TrainingProofs`) |
| 2 | `GraphRun` + `Adaptation`, with `AdaptationPlanner` inside its planning node | graph driver with store, planner loop, patch tool and smoke runner | - | checked, proved (`AdaptationProofs`) |
| 3 | `Research` | several workflows over one root and one provider | - | checked, proved (`ResearchProofs`) |
| 4 | `Repository` | graph driver with store and GitHub | - | checked, proved (`RepositoryProofs`) |
| 5 | `Pipeline` | the five children's records and gates over one workspace | `Chain` | checked, refinement checked and proved (`PipelineProofs`) |
| 6 | `Conversation` | session memory, context file, supervisor loop, workers | - | checked, proved (`ConversationProofs`) |
| 7 | `CallBudget`, `PaperLoop`, `RepositoryInsight` | the two tool loops over one budget of model calls | the works of a set of records (`PapersAreWorks`) | checked and proved in row 8 |
| 8 | `Supervised` | the supervisor's graph with both loops and both gates inside | `TurnLoop` | checked, refinement checked and proved (`SupervisedProofs`) |
| 9 | `Evaluation` | graph driver with the engine's reads over files that may change, the write-once store | what the engine gives for one moment's files (`EvaluatedAsItWas`) | checked, proved (`EvaluationProofs`) |

Proved: every safety invariant, every action property and both refinements that the
runs check. Liveness stays with TLC.

No module declares a RECURSIVE operator, so every one may be reasoned about by
TLAPS. Constants carry named assumptions where they are declared.

## 3. The modules

### 3.1 What all workflow modules share

* A **node** runs in one step from its first read to its last store write when it
  awaits nothing but its store; where two writes can be torn apart by a crash or
  by a refused write, the module has the outcome in which only the first one
  happened.
* The **checkpoint** is committed in a step of its own, after the node returns. A
  crash may fall between, and the node then runs again over what it wrote. This is
  LangGraph's contract as the code relies on it, and is external in the map.
* A process that dies loses its approval recorder (`application/runtime.py`) and
  whatever it holds in memory. `Resume` is a new process on a durable checkpointer,
  `Retry` the same process after an exception, `Invoke` a new invocation from START
  over the store as it is.
* A **gate** re-executes from its start when it is resumed, so its checks hold at
  the decision; the pause itself changes nothing. The human may give any decision
  of any shape the parser accepts, or never answer.
* A content hash is the content: no two contents collide.
* One process drives a thread at a time.

### 3.2 `Training`

`record`, `specs`, `outputs` are `training.json`, `spec-r<n>.json` and the
`runs/<run_id>` directories; `children` the subprocesses; `ckpt`, `proc`,
`recorder` the graph. Actions follow the nodes by name (`ValidateInput`,
`FreezeSubmission`, `GateDecides`, `RunStarts`, `RunReturns`, `RunTimesOut`,
`CollectOutputs`, ...) and the subprocess by what it leaves on disk (`ChildLoads`,
`ChildOpens`, `ChildWritesManifest`, `ChildWritesLog`). A run directory is
`<revision, role>` because `_run_id` hashes only these; the subprocess gets the
spec's *name*. `approved` is a history variable. The subprocess writes its manifest
before its log, so the directory has a state MANIFEST that `Valid` refuses. A node's
last write of the record is `Records`: it may be refused, which no node catches (the run
nodes catch `TrainingToolError` only, and `_terminal_failure` and `_cancelled` write
unguarded), so the node raises and the record still says RUNNING.

### 3.3 `GraphRun` and `Adaptation`

`GraphRun` is the driver shared by Adaptation, Repository and Evaluation: how a thread is
invoked, resumed, retried, committed, and dies. `Adaptation` adds the record, the
plan files, patches and smoke results. A patch's hash is the plan it was compiled
from; a smoke failure is retryable exactly when its status is FAILED; the edge after
`repair_patch_once` is unconditional, as in `workflows/adaptation.py`. A patch may be
refused for its base commit, and a workspace left half-filled is refused for good.
The FAILED record is a write too (`Fails`, here as in `Repository`): when it is refused,
the node raises over the record as it was.

`AdaptationPlanner` is the tool loop that runs inside the planning node of revision 1:
turns of a model that observes facts, validates a proposal, and stops without a call.
It lives in the process, so a crash in it loses it and the node plans again. The
node's own writes (trace, plan, record) are `Adaptation`'s, and `PlanIsTraced` is about
the three of them: whatever was retried, the plan of the record has beside it the
trace of the very loop that made it.

### 3.4 `Research`

Several workflows with a `workflow_id` each (the command line makes a fresh one per
invocation), one watermark, one clock, and a provider that publishes papers and
finds them at most `Overlap` later. `ResearchSession` is a variable that a crash
empties. Scores are abstracted to the set of recommended papers. Without a planner a
search is the request's own query and returns what is indexed, cut at `MaxRecords`. A
planner (`Planned`) searches by keywords of its own instead, so its searches may find any
part of what is indexed, or nothing (`Found`), and it assesses one at least of the papers
it finds (`Assessed`); an empty result moves the watermark like any other.

### 3.5 `Repository`

The record holds URL, requested and granted; `fetched` is the history of URLs asked
for over the network, `head` the commit upstream, which moves between the pin and
the download. An answer to the gate may have been given to an earlier presentation
of it, because subject id and revision are the workflow id and the constant 1. The
static profile is abstracted to its URL, commit and licences.

### 3.6 `Pipeline` and `Chain`

`Chain` says what a serial chain is, without graph, disk or gate. `Pipeline` is the
graph, the driver and the summary over one workspace. A child is what its own
module says of a first invocation: it writes a record, waits at its gate, ends. A
record is its status, the run that wrote it (history) and, for the adaptation, its
planner. All checkpoints of a pipeline are in memory, so an interrupted run starts
again from research over what is on disk. `IsChain` is the refinement: `Chain` with
`ended <- proc.stages` and `open <-` the phases of a run.

### 3.7 `Conversation`

`memory` is the session's working context, `file` the persisted one, `session` the
turn that is handled: the request, the supervisor's observations, completed tasks
and delegations. A supervised request alternates `Decide` (or `Refuse`) and the
worker it delegates to, at most three times; a worker fails, waits at its gate or
succeeds, as its own workflow says. A save replaces the file or is refused; a paper
whose title, links or arXiv id `CurrentPaperContext` does not take is never saved.
The profile file may change, or break, at any time: a session reads it at startup
and a supervised request reads it again into memory only. The repository's record
carries two history fields, the profile and the paper it was read for. Checkpoints
of a request are in memory, so a process that dies keeps the file and loses the
request. Read-only commands and refused requests change nothing and are stutters.
A session without a supervisor policy exists in the library and its tests; the
command line always builds one (`cli/agent.py`).

### 3.8 `Evaluation`

Every node but the last runs the whole engine again, so the module has one action
per read (`Read`) and one per node, which takes what has been read. The input files
are six: the policy, `training.json`, the frozen spec, the artifacts of each run,
the project fixtures, in the engine's order; `Finished` is its early returns.
`Change` writes an input at any moment, `past` is the history of the disk, a
content's `edition` its bytes. `evaluation_id` is the hash of the digests, so here it
is what was read. The ten checks and their reasons are the fitness of a content and
the spec it belongs to; the metrics are numbers whose differences `DecideConclusion`
weighs. `Edit` is a person's change of an output, at any time and any number of times:
it makes the file unreadable or of another id or conclusion (`Edited`), or leaves a valid
`evaluation.json` that keeps both and differs elsewhere (`edited |-> TRUE`), because
`load_evaluation` derives neither the id nor the metrics and reasons anew. `RenderReport`
compares what the node compares, the id and the conclusion (the two references are fixed
by the workflow), and the report may or may not show what was edited (`Renderings`).

### 3.9 `CallBudget`, `PaperLoop`, `RepositoryInsight`, `Supervised` and `TurnLoop`

`Supervised` is one supervised request from its first decision to its end, and
`Conversation` is what a session remembers of such requests. `request` is the
`SupervisorState` with the task it has delegated; `attempt` is the one correction a
response of the policy, or of the structured adapter, is given: every decision starts
with its own two attempts, also after a worker that has used its correction. `Justified` is what
`decide` and the policy accept; `CodeAnswers`, `ResearchFails`, `Rank`, `Select` and
`Refuse` are how a worker's result becomes an observation or ends the request.

`CallBudget` is `ModelCallBudget`: `used` is what it counted, `called` (history) what
reached a model. Every action that asks a model conjoins `Call`, so that a call which
is not charged would show in `IsTurnLoop`.

`PaperLoop` is the research tool loop. `loop`, `fetch`, `raw`, `papers`, `inspected` and
`submitted` are the fields of its session; a page is one action, because the loop
awaits the provider between two pages. `Union`, `Owner`, `Joined`, `Parents`, `Groups`
and `Merged` are `normalize_and_deduplicate`: the union-find with the owner of each
identity, in the order of its two loops (`find` compresses paths, which changes no root,
and the model leaves that out). `Primary` is the record a group is named for, the last by
update, publication and id, and `Activity` the later of a record's two dates. `Works` says
what the result should be without any order: the sets of records that shared identities
hold together.

`RepositoryInsight` is the graph of one analysis: its gate, the code-reading loop, and
its four writes, each an action of its own since any of them may be refused.
`executed` is the set of tools in the trace, whose length is the number of turns, and
`files` is what lies in the directory of this workflow.

`TurnLoop` promises about a request only what it spends: a supervisor's call is one
call, a turn of a tool loop is one call, a loop has a limit of turns, and all of them
together have the limit of calls. `IsTurnLoop` is the refinement, with `busy` for
either loop at a model or a page, and `turns` the turns of the loop that is busy.

## 4. What the runs check

| Run | Question | Bounds |
|---|---|---|
| `training_crash` | approval before start, evidence grows, record and checkpoint agree, one writer per run directory, an approved submission ends or its process raises | 2 revisions, 2 contents, 2 lives, 2 subprocesses |
| `adaptation_crash` | revisions accounted for, what is accepted passed its own smoke, the gate's patch is its plan's (first invocation), the plan has its own trace, one repair, evidence not replaced, settles | 2 invocations, 3 lives, 2 revisions, 6 planner turns as in the code |
| `research_windows` | no paper between two windows (what the watermark has passed was assessed, or was a decided planner's to find), the watermark has its result, what is selected a human selected | 2 workflows, one with a planner; 1 paper; 4 instants with an index delay of the overlap, 1 crash, every answer, refused writes |
| `repository_crash` | COMPLETED is the approved URL at its pin; in a first invocation no URL is asked for that no human granted | 2 invocations, 2 lives, 2 URLs, 2 commits |
| `pipeline_crash` | no stage on another run's record, success is whole, refinement of `Chain` | 2 pipelines, 2 runs, 6 gates |
| `conversation` | a repository belongs to its profile and to its paper, code follows evidence, settles | 2 papers (one does not fit the context), 2 URLs, one profile or none, 3 delegations as in the code |
| `evaluation_crash` | `evaluation.json`, until it is edited, is what one moment's files give, a verdict is about one spec and turns around with its runs, outputs are written once, a run goes on only over what it computed and completes only over its id, conclusion and report | 2 invocations, 2 lives, 2 writes to the inputs, any edits of the outputs, three sets of metrics: one practical delta apart, with severe recall at and beyond the tolerated drop |
| `supervised_request` | papers are works, budgets of pages, records, turns and calls are shared, advice validates, artifacts are whole, nothing is read unapproved, refinement of `TurnLoop`, the request ends | 4 records of which a late one joins two groups, 3 pages of 2, 3 records kept, 2 searches as in the code, 7 turns of research and 6 of code, 2 paths, 2 URLs, 12 calls, 3 delegations as in the code |
| `training_exact_run`, `pipeline_terminal_record`, `conversation_unsaid`, `conversation_two_papers` | see 4.1 | |

**Why the bounds are enough.** Each hazard needs a small number of distinct things:
two contents (or URLs, commits, papers) to be confused, two approvals to be mixed
up, one edit to have two revisions, one crash to tear a node apart and one more
process to meet what it left; a second invocation to meet a *finished* record; an
orphan, its successor and a third life to meet both. Two workflows suffice for the
watermark because a third one meets the same single file. Merging needs three records,
of which the last to arrive has an identity of each of the other two, and a fourth that
has none of theirs; a record cut off needs a page that brings more than is left; a
correction at the limit needs one turn more than the shortest way to a submission. The
12 calls are below what two loops and their supervisor may ask for, so the budget runs
out in each of them. (Two paths are read once each at most, so the limit of reads cuts nothing off
in the run; `AdviceIsValid` covers it.) The theorems of section 5 remove the bounds from what they state.
Deadlock is not checked where a run ends with its
thread at END, at a gate nobody answers, or at a bound: the system really stops.

`NothingMissed` is about windows, not about what a search in one returns. What the
watermark has passed must have been assessed in a decided result, or lie in the window of
one that a planner made (`Offered`): the planner's keywords and its choice may leave a
paper of its window out. It is checked inside the record budget, since a cut window
leaves papers behind. Both are by design (4.1 and section 6). The properties about
`evaluation.json` hold until a person edits it (`AsWritten`): what an edit puts there the
code does not check against the inputs. `GatedPatchIsThePlans` and `FetchedOnlyGranted`
are about a first invocation; 4.1 says what a second one may do.

### 4.1 Where the code and its documents disagree

These runs are expected to be violated; `PROJECT.json` quotes the line each one
refutes.

| Run | What happens |
|---|---|
| `training_exact_run` | an orphaned subprocess trains the spec a second invocation wrote under the same name |
| `pipeline_terminal_record` | an EDIT at the selection or URL gate, five successes, and no summary |
| `conversation_unsaid` | a supervised request cannot save its context and does not say so |
| `conversation_two_papers` | two papers approved at once leave the earlier paper and its repository current |

The models have more behaviours that a reader of the documents would not expect; no
run is spent on them:

* a second invocation, or a retry after a refused record write, overwrites a spec or
  a plan of the same revision (`ValidateInput` and `FreezeSubmission` of `Training`,
  the planning action of `Adaptation`);
* a second invocation of the adaptation shows its own plan with the first one's patch;
* two research workflows decided in the other order move the watermark back; by
  `NothingMissed` no paper falls between windows by it;
* a planner's keywords replace the query of the request, so its search may miss papers of
  the window or all of them; `finish_research` accepts that, and NO_CANDIDATES moves the
  watermark past them (`services/paper_planner.py:114`, `nodes/research.py:299`);
* an edit of `evaluation.json` after it was persisted that keeps id and conclusion is
  reported and the run COMPLETED (`nodes/evaluation.py:186`);
* a terminal record of the training that cannot be written leaves the record RUNNING
  after the run is over, and the invocation ends with the exception
  (`nodes/training.py:105`, `:465`, `:534`, `:577`);
* an answer to one URL, given late, is taken for another one, because the gate binds
  workflow and revision only; an EDIT, a crash before its checkpoint and an APPROVE
  mix two URLs in one record, which then can never be analyzed (this needs a durable
  checkpointer);
* the summary of a stopped run lists what an interrupted earlier run left;
* once the watermark has moved, a rerun of the sample finds no paper and fails.

### 4.2 Fairness

The only fairness is weak fairness of `Work` in `Training`, `Adaptation`,
`Conversation` and `Supervised`, the modules whose code loops (runs and subprocesses,
repair and edit, decide and delegate, turns and pages): a process that is not
interrupted goes on executing the node it is in, which is what `asyncio` does with the
one coroutine it has. Nothing is assumed of the human (a gate may wait for ever; in
`Supervised` the answers are `Human`, outside `Work`), of what a model answers or a
provider returns (only that the call comes back, as the timeouts of the HTTP clients make it), of the
training subprocess (the executor's walltime bounds the wait), or of whoever starts a
process again. Liveness is therefore stated up to the next gate, the end, an exception, or the death
of the process, and is checked together with crashes where there are any. The other
workflows have no loop without a human in it; their liveness is not checked.

## 5. What is proved

Each `XProofs` proves about `X` for every value of its constants, under the assumptions
that `X` and the modules it extends declare: bounds are naturals, tables have their
domains, `None` is none of the values it stands beside. Where one thing more is assumed
it is said below. All safety theorems have one argument: an inductive invariant, named
in the module, that the initial states have, that each action keeps (a lemma per action
or per kind of step), and that gives the property.

`TrainingProofs` proves, for every number of contents, approvals, subprocesses,
revisions and lives:

| Theorem | States |
|---|---|
| `TypeCorrect` | `Spec => []TypeOK` |
| `OnlyApprovedStarts` | `Spec => []StartedOnlyIfApproved` |
| `SingleWriter` | `Spec => []OneWriter` |
| `ResultsTrusted` | `Spec => []ResultsFromApprovedSpec` |
| `EvidenceHolds` | `Spec => []Evidence` |
| `CheckpointFollowed` | `Spec => []StoreFollowsCheckpoint` |
| `EvidenceOnlyGrows` | `Spec => EvidenceGrows` |
| `DirectoriesAdvance` | `Spec => OutputsWriteOnce` |

None of the invariants is inductive by itself: that a subprocess was
started for an approved submission rests on the record's reviews, which rest on the
gate; that two subprocesses do not write one directory rests on the fact that the
one who created it is the only one who found it absent; that a result is the
approved spec's rests on the record's spec not changing once a result exists. The
inductive invariant is therefore `TypeOK /\ Control /\ Sound`: `Control` ties the
phase of the process to its subprocess, `Sound` is the conjunction of the
statements with `Evidence`. The proofs have one lemma per kind of step (a step that
leaves store and subprocesses alone, a step of the record only, a step of a
subprocess) and one step per action.

The last three rest on one part more each. `Agreed` says how far the record may be
ahead of a checkpoint, and what a node that has returned is about to commit, for the
process may die between the two. `Asked` says that a record which is to be revised has
the recorded EDIT of the submission it still shows, and that a fresh one shows none.
`Whose` says that a subprocess writes its log into a directory whose manifest names the
spec it has read, and that a directory without a manifest names none: with `OneWriter`,
an orphan that writes on beside the process that resumed changes no other's directory.

`RepositoryProofs` proves, for every number of URLs, commits, approvals, invocations and
lives:

| Theorem | States |
|---|---|
| `CompletedPinned` | `Spec => []CompletedIsPinned` |
| `FetchedGranted` | `Spec => []FetchedOnlyGranted` |
| `TypeCorrect` | `Spec => []TypeOK` |

The inductive invariant is `Sound`. `GateIsFirst` is what a gate that executes again
over the record it has changed needs: as long as it can, nothing is pinned. `PinStands`
carries a pin from its request to the end over any move upstream, and `GrantedFirst`
says of a first invocation that its gate has had one candidate.

`AdaptationProofs` proves, for every set of proposals and approval ids, and any number of
revisions, invocations and lives:

| Theorem | States |
|---|---|
| `GatePassed` | `Spec => []GatedPatchPassed` |
| `PlanTraced` | `Spec => []PlanIsTraced` |
| `EachRevisionAccounted` | `Spec => []RevisionsAccounted` |
| `GateShowsItsPlan` | `Spec => []GatedPatchIsThePlans` |
| `EvidenceStays` | `Spec => EvidenceImmutable` |
| `SoleRepair` | `Spec => RepairedOnce` |
| `AlwaysSound` | `Spec => []Sound`, the inductive invariant |

`Counted` adds to the account of revisions that each EDIT is of a revision before the
present plan, without which a second review of one revision could be counted twice.
`PlanStands` and `EvidenceStands` are about what a revision has on disk: its plan, the
trace of it, a patch, and a smoke result of that very patch. `Driven` follows what the
checkpoint carries from one node to the next, as the patch that is smoked is named by
the checkpoint and not by the record. `First` is the invariant of a first invocation, in which
no patch is older than its plan; a second one really shows another (section 4.1). That a
repair is not repeated rests on both ways to it, `run_bounded_smoke` and
`repair_patch_once`, asking for a count of repairs that only a new invocation sets back.

`ResearchProofs` proves, for any number of workflows, papers, instants and crashes:

| Theorem | States |
|---|---|
| `HumanSelects` | `Spec => []SelectedByHuman` |
| `WatermarkFounded` | `Spec => []WatermarkHasItsResult` |
| `NoneMissed` | `NothingLeftOut` implies `Spec => []NothingMissed` |
| `AlwaysSound` | `Spec => []Sound`, the inductive invariant |

`Stands` says what a result and a checkpoint owe each other, `Fits` that the same holds
of a checkpoint that is not committed yet, and that a node which runs again over its own
result has lost the session it was made from, so that it cannot make another one.
`NothingLeftOut` is the one assumption on top of the module's: the papers are finitely
many and fit `max_provider_records`, as a cut search leaves papers out by design. Of
planners nothing is assumed: a paper in the window of a decided planner's result need not
have been found by it, and the theorem says of it only that it had such a window.
The argument of `NoneMissed` is `Reached`: wherever the watermark has ever been, decided
results cover what lies an overlap before it, from a first run on. A window begins an
overlap before the watermark it read, the provider finds a paper at most an overlap
late (`Timely`), so the request's own search finds all that is due in its window
(`SearchFindsDue`), a planner's window holds it, and
a decided result extends what was reached to its end (`ResultReaches`). `Follows` keeps
this for a window whose workflow is still on its way while another one moves the
watermark, forwards or backwards.

`PipelineProofs` proves, for any pipelines, scripts, runs and gates:

| Theorem | States |
|---|---|
| `BuiltFresh` | `Spec => []BuiltOnItsOwnRun` |
| `SuccessWhole` | `Spec => []SucceededIsWhole` |
| `PipelineIsChain` | `Spec => IsChain` |

`Past` says that no record is of a run to come, `Active` that the stages a run has
behind it have their records of this run, finished, and those before it have none of it. A stage
of whatever kind either leaves the disk alone or writes over such records
(`StageStep`), and the five stages are five lemmas; the refinement maps that step to
the one step of `Chain` that ends a stage, or to a stutter.

`ConversationProofs` proves, for any papers, links, profiles and goals:

| Theorem | States |
|---|---|
| `CodeOfCurrentFacts` | `Spec => []RepositoryOfItsProfile` |
| `CodeOfCurrentPaper` | `Spec => []RepositoryAfterPaper` |
| `CodeOnlyOnEvidence` | `Spec => []CodeFollowsEvidence` |

`Coherent` holds of memory and of file alike, which is what a refused save needs: either
may become the other. `Evidenced` says of a turn that the links of its last observation
are those of the one paper it has chosen; `Justified` and the supervisor's `Decide` then leave no
other way to a repository.

`EvaluationProofs` proves, for all specs, metrics, thresholds, invocations and changes:

| Theorem | States |
|---|---|
| `WrittenOnce` | `Spec => OutputsWriteOnce` |
| `TurnsAround` | `ImprovementTurnsAround`: which run is the baseline does not decide who is better |
| `EvaluatedTogether` | `Spec => []EvaluatedAsItWas` |
| `OneSpec` | `Spec => []VerdictOfOneSpec` |
| `VerdictsTurn` | `Spec => []VerdictTurnsAround` |
| `CompletedOnItsOutputs` | `Spec => CompletesOnItsOutputs` |
| `TypeCorrect` | `Spec => []TypeOK` |

`WrittenOnce` needs no more of the state than that the store has its two outputs
(`OutputsShaped`): `_write_once` is the only writer, and it writes a path only when
there is nothing. `TurnsAround` rests on the order of the tests in
`decide_conclusion` and on its boundaries being closed on both sides; that
floating-point subtraction is antisymmetric carries it over to the code's floats.

`EvaluatedTogether` is the hard one. The engine reads its files one after another while
they change, so what a single pass reads need never have been on the disk together; the
evaluation is about one moment because every later node reads all of it again and must
find the same identity. The inductive invariant `AsItWas` says so without time: `Aging`
(a write makes a content that never was), and `Pinned`, the invariant about an identity
that a node carries: in some files of the past all its inputs lay on the disk, but for
those that are lost, that is neither on the disk now nor read by the engine that runs.
A lost input never comes back (`PinnedKept`), so an engine that reads the whole
identity once more proves that none was lost. `OneSpec` and `VerdictsTurn` follow from
the same invariant. `CompletedOnItsOutputs` needs the type of the checkpoint too, and is
about two nodes: `persist_evaluation` and `invalid_result` go on to the report only over
the exact evaluation they computed, since `_write_once` compares bytes (`EvaluationOwed`),
and the only node that completes compares id and conclusion and writes, or finds, the
report of what it has loaded (`ReportOwed`). Between the two a person may edit what the
second does not compare; the theorem claims no more.

`SupervisedProofs` proves, for every set of records, identities, paths, URLs and goals,
and for every limit:

| Theorem | States |
|---|---|
| `BudgetIsShared` | `Spec => []BudgetShared` |
| `AdviceIsValid` | `Spec => []AdviceValidates` |
| `ArtifactsAreWhole` | `Spec => []ArtifactsWhole` |
| `ReadsAreApproved` | `Spec => []NothingReadUnapproved` |
| `WorksAreMerged` | `Spec => []PapersAreWorks` |
| `ImplementsTurnLoop` | `Spec => IsTurnLoop` |
| `TypeCorrect` | `Spec => []TypeOK` |

The inductive invariant `Sound` has a part per component (`RequestSound`, `CallSound`,
`PaperSound`, `InsightSound`) and two that hold them together: `Aligned` (only the
worker that was delegated to has anything under way) and `SuccessIsWhole`. A lemma per
component shows that its steps keep its part and are steps of `TurnLoop`; the lemmas
of the request put them together. The type of a merged paper needs that every group has a
last record by update, publication and id (`PrimaryOfGroup`; `Greatest`, by induction over
a least counterexample, for each of the three), since `Primary` is a choice; that its
activity is the one of the work's last update is `MergedIsLatest`. That no call is made beyond the budget
rests on `called = used`, hence on every action that asks a model being charged.

`WorksAreMerged` is about what the union-find computes, for every sequence of records.
`Forest` says of an array of parents that it has a root for each node and a rank that
falls towards it, so that the recursive `Root` gives the root of a node's tree
(`RootOfTree`); a union keeps the forest and hangs the tree of the right below that of
the left (`UnionIsForest`). Three facts then go through the two loops: `Apart`, sets of
records that share no identity with the others are never linked with them; `Together`,
a record is in the tree of the owner of each identity that was read so far; and the
forest. At the end the trees are the works (`GroupsAreWorks`): records of one tree cannot
be separated by `Apart`, and records with one identity have one owner, hence one tree.
`Gathered`, in the invariant, carries this from the records of a search to the papers
of the request. The provers cannot instantiate the library's induction theorems;
`Upward` is the induction over a set of numbers that takes their place.

`PaperAssumption` says that the identities of a record are a sequence, that its id and its
two dates are numbers (in either order: no publication is assumed to precede its update),
and that two records of one paper id share an identity, as `_paper_id` and
`_identity_keys` make them.

**Only model-checked**: liveness (`ApprovedEnds`, `Settles` of Adaptation and of
Conversation, `RequestEnds`), which TLAPS does not prove. The types of Training and
Supervised are checked in their runs as well; those of the other modules are proved only.

## 6. What is not modelled, and why

* **Numbers and texts**: scores, metrics, diffs, prompts and reports are abstracted to
  a content, or to the decision that is taken on them.
* **Two processes on one thread at the same time.** Nothing in the code locks a
  workspace; the models let processes follow each other, and let a subprocess
  outlive its driver, but only one drives a thread.
* **Dataset profiling, settings, health, prompts, intent parsing**: sequential and
  without state.
* **In a supervised request**: a path is read whole or not at all (the byte limits cannot
  be exceeded by the reads the loop allows); `MAX_TOOL_CALLS` cannot be reached before
  the turns with one call in each; the transport retry of the model's client is inside
  one call and uncounted, as it is by the budget; the gate of the command line offers
  only APPROVE and REJECT of a snapshot while its graph answers EDIT as well, so the
  module has all three; relevance scores are the set that is recommended.
* **The confusion matrix** and the ratios of `evaluation_metrics.py`: metrics are inputs.
* **Adapters** to arXiv, GitHub and the model provider: what they return is an input
  of the workflows; the calls they charge and the correction of a structured response
  are in `Supervised`, pages in `PaperLoop`.
* **A cut window**: `Found` of `Research` models the cut of
  `max_provider_records`, and no property promises that the papers cut off are found.
* **The vertical slice** (`workflows/core.py` with `nodes/gates.py` and
  `nodes/fixtures.py`): fixture nodes around gates; the five workflows contain the
  same gate with real effects.
* **File system**: a whole-file replace is atomic, as `os.replace` is; a lost
  directory entry after power failure is not considered.

## 7. Running

`tlc -config <run>.cfg <Module>.tla` checks a run, where the module is the one
`PROJECT.json` names (`MC<Module>` where constants need definitions);
`tlapm <Name>Proofs.tla` checks the proofs of `Training`, `Adaptation`, `Research`,
`Repository`, `Pipeline`, `Conversation`, `Evaluation` and `Supervised`. `PROJECT.json` lists the runs, the mutants that show each property can
break, the map from definitions to source lines, findings, hazards and theorems.
