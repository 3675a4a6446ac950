------------------------------ MODULE Research ------------------------------
(***************************************************************************)
(* The research workflows that share one output root: the graph of         *)
(* workflows/research.py and nodes/research.py for each, their results and *)
(* the one watermark of services/paper_store.py, and the papers that the   *)
(* provider publishes meanwhile.                                           *)
(*                                                                         *)
(* Every invocation has a workflow_id of its own (cli/research.py).  The   *)
(* ResearchSession lives in the process and is not checkpointed.  A node   *)
(* that writes no file is committed in the same step: a crash before its   *)
(* commit is a crash before it.                                            *)
(***************************************************************************)
EXTENDS Integers, FiniteSets

CONSTANTS
    Workflows,
    Papers,
    Planned,      \* the workflows whose dependencies carry a planner
    Overlap,      \* overlap_minutes
    Lookback,     \* initial_lookback_hours, in the same unit
    MaxRecords,   \* budget.max_provider_records
    Limit,        \* candidate_limit
    MaxNow,       \* bound: the last instant of the clock
    MaxCrashes,   \* bound: processes that die
    None          \* the absent value

Instants == 0 .. MaxNow
Windows == [start : Int, end : Instants]

ASSUME ResearchAssumption ==
    /\ Planned \subseteq Workflows
    /\ Overlap \in Nat
    /\ Lookback \in Nat \ {0}
    /\ {MaxRecords, Limit, MaxNow, MaxCrashes} \subseteq Nat
    /\ None \notin Instants \cup Windows

VARIABLES
    now,         \* the clock
    activity,    \* when a paper was published or revised, None before
    indexed,     \* the papers a provider search finds
    watermark,   \* watermark.json
    results,     \* the papers.json of a workflow
    session,     \* the ResearchSession of a process
    thread,      \* the last checkpoint of a workflow
    proc,        \* the process that drives a workflow
    recorder,    \* its InMemoryApprovalRecorder
    crashes      \* processes that died so far

world == <<now, activity, indexed>>
runtime == <<session, thread, proc, recorder, crashes>>
vars == <<world, watermark, results, runtime>>

Decisions == {"APPROVE", "EDIT", "REJECT"}
Answers == {answer \in [decision : Decisions, selected : SUBSET Papers] :
              answer.decision # "EDIT" => answer.selected = {}}
Nodes == {"validate_research_request", "retrieve_papers", "deduplicate_papers",
          "hard_filter_candidates", "analyze_applicability",
          "candidate_selection_gate", "finalize_research_selection", "END"}
Decided == {"NO_CANDIDATES", "COMPLETED", "REJECTED"}

NoResult == [status |-> "ABSENT", window |-> None, before |-> None,
             papers |-> {}, recommended |-> {}, selected |-> {}]
NoSession == [window |-> None, before |-> None, raw |-> {}, papers |-> {}]
Begin == [node |-> "validate_research_request", gate |-> FALSE, route |-> "NONE",
          selected |-> {}]
Idle(phase) == [phase |-> phase, to |-> None]

Init ==
    /\ now = 0
    /\ activity = [paper \in Papers |-> None]
    /\ indexed = {}
    /\ watermark = None
    /\ results = [w \in Workflows |-> NoResult]
    /\ session = [w \in Workflows |-> NoSession]
    /\ thread = [w \in Workflows |-> Begin]
    /\ proc = [w \in Workflows |-> Idle("DOWN")]
    /\ recorder = [w \in Workflows |-> {}]
    /\ crashes = 0

-----------------------------------------------------------------------------
(***************************************************************************)
(* The provider.  A paper is found at most Overlap after its activity: the *)
(* delay that the overlap of two windows is there for.                     *)
(***************************************************************************)
Publish(paper) ==
    /\ activity[paper] = None
    /\ activity' = [activity EXCEPT ![paper] = now]
    /\ UNCHANGED <<now, indexed, watermark, results, runtime>>

Index(paper) ==
    /\ activity[paper] # None
    /\ paper \notin indexed
    /\ indexed' = indexed \cup {paper}
    /\ UNCHANGED <<now, activity, watermark, results, runtime>>

Tick ==
    /\ now < MaxNow
    /\ \A paper \in Papers \ indexed : activity[paper] # None => now < activity[paper] + Overlap
    /\ now' = now + 1
    /\ UNCHANGED <<activity, indexed, watermark, results, runtime>>

-----------------------------------------------------------------------------
(***************************************************************************)
(* How a node runs, commits, raises and dies.                              *)
(***************************************************************************)
Runs(w, node) == proc[w].phase = "READY" /\ thread[w].node = node

Ends(w, route) == [thread[w] EXCEPT !.node = "END", !.route = route, !.gate = FALSE]

Moves(w, checkpoint) ==
    /\ thread' = [thread EXCEPT ![w] = checkpoint]
    /\ UNCHANGED <<proc, crashes>>

\* After a write: the checkpoint is committed in a step of its own.
Returns(w, checkpoint) ==
    /\ proc' = [proc EXCEPT ![w] = [phase |-> "WROTE", to |-> checkpoint]]
    /\ UNCHANGED <<thread, crashes>>

Raises(w) == proc' = [proc EXCEPT ![w] = Idle("RAISED")] /\ UNCHANGED <<thread, crashes>>

\* The process dies, and its session and approvals with it.
Dies(w) ==
    /\ crashes < MaxCrashes
    /\ crashes' = crashes + 1
    /\ proc' = [proc EXCEPT ![w] = Idle("DOWN")]
    /\ session' = [session EXCEPT ![w] = NoSession]
    /\ recorder' = [recorder EXCEPT ![w] = {}]
    /\ UNCHANGED thread

Commit(w) ==
    /\ proc[w].phase = "WROTE"
    /\ thread' = [thread EXCEPT ![w] = proc[w].to]
    /\ proc' = [proc EXCEPT ![w] = Idle("READY")]
    /\ UNCHANGED <<world, watermark, results, session, recorder, crashes>>

\* A new process starts the workflow, or continues it from a shared checkpointer.
Start(w) ==
    /\ proc[w].phase = "DOWN"
    /\ thread[w].node # "END"
    /\ proc' = [proc EXCEPT ![w] = Idle("READY")]
    /\ UNCHANGED <<world, watermark, results, session, thread, recorder, crashes>>

\* The same process invokes the thread again after an error.
Retry(w) ==
    /\ proc[w].phase = "RAISED"
    /\ proc' = [proc EXCEPT ![w] = Idle("READY")]
    /\ UNCHANGED <<world, watermark, results, session, thread, recorder, crashes>>

Crash(w) ==
    /\ proc[w].phase # "DOWN"
    /\ Dies(w)
    /\ UNCHANGED <<world, watermark, results>>

-----------------------------------------------------------------------------
(***************************************************************************)
(* The nodes.                                                              *)
(***************************************************************************)
ValidateResearchRequest(w) ==
    /\ Runs(w, "validate_research_request")
    /\ Moves(w, [thread[w] EXCEPT !.node = "retrieve_papers"])
    /\ UNCHANGED <<world, watermark, results, session, recorder>>

\* Mutant: the window begins where the last one ended.
Window_NoOverlap(before) ==
    [start |-> IF before = None THEN now - Lookback ELSE before, end |-> now]

\* compute_retrieval_window
Window(before) ==
    [start |-> IF before = None THEN now - Lookback ELSE before - Overlap, end |-> now]

Within(window) ==
    {paper \in Papers : activity[paper] # None
                        /\ window.start <= activity[paper] /\ activity[paper] <= window.end}

\* What the searches of a workflow return.  The request's query finds what is
\* indexed, and the budget may cut the records off; a planner searches by keywords
\* of its own, once or twice, and they may find any of it or nothing.
Found(w) ==
    {raw \in SUBSET indexed :
        w \notin Planned => Cardinality(raw) = IF Cardinality(indexed) < MaxRecords
                                               THEN Cardinality(indexed) ELSE MaxRecords}

\* A planner assesses some of the papers it finds, and one at least; without a
\* planner the papers come with the next node.
Assessed(w, papers) ==
    IF w \in Planned
    THEN {assessed \in SUBSET papers : assessed = {} => papers = {}}
    ELSE {session[w].papers}

\* The searches are by calendar days, which cover the window.  An empty window is
\* an error: the planner lets it through, the node catches it.
RetrievePapers(w) ==
    /\ Runs(w, "retrieve_papers")
    /\ LET window == Window(watermark) IN
       \/ /\ window.start < window.end
          /\ \E raw \in Found(w) :
                \E papers \in Assessed(w, raw \cap Within(window)) :
                    session' = [session EXCEPT ![w] = [window |-> window, before |-> watermark,
                                                       raw |-> raw, papers |-> papers]]
          /\ Moves(w, [thread[w] EXCEPT !.node = "deduplicate_papers"])
       \/ /\ window.start < window.end \/ w \notin Planned
          /\ Moves(w, Ends(w, "FAILED"))
          /\ UNCHANGED session
       \/ /\ w \in Planned       \* an empty window, or the budget of model calls
          /\ Raises(w)
          /\ UNCHANGED session
    /\ UNCHANGED <<world, watermark, results, recorder>>

\* A process that resumed here has lost the window of the one before it.
DeduplicatePapers(w) ==
    /\ Runs(w, "deduplicate_papers")
    /\ \/ /\ w \in Planned
          /\ Moves(w, [thread[w] EXCEPT !.node = "hard_filter_candidates"])
          /\ UNCHANGED session
       \/ /\ w \notin Planned
          /\ session[w].window # None
          /\ session' = [session EXCEPT ![w].papers =
                            session[w].raw \cap Within(session[w].window)]
          /\ Moves(w, [thread[w] EXCEPT !.node = "hard_filter_candidates"])
       \/ /\ w \notin Planned         \* no window, or a record that does not normalize
          /\ Moves(w, Ends(w, "FAILED"))
          /\ UNCHANGED session
    /\ UNCHANGED <<world, watermark, results, recorder>>

\* Every paper gets an unscored assessment, eligible or not.
HardFilterCandidates(w) ==
    /\ Runs(w, "hard_filter_candidates")
    /\ Moves(w, [thread[w] EXCEPT !.node = "analyze_applicability"])
    /\ UNCHANGED <<world, watermark, results, session, recorder>>

WriteResult(w, result) == results' = [results EXCEPT ![w] = result]

AnalyzeApplicability(w) ==
    /\ Runs(w, "analyze_applicability")
    /\ \/ /\ session[w].window # None
          /\ \E recommended \in SUBSET session[w].papers :
                /\ Cardinality(recommended) <= Limit
                /\ LET result == [status |-> IF recommended = {} THEN "NO_CANDIDATES"
                                                                 ELSE "AWAITING_SELECTION",
                                  window |-> session[w].window,
                                  before |-> session[w].before,
                                  papers |-> session[w].papers,
                                  recommended |-> recommended, selected |-> {}]
                   IN
                   \/ /\ recommended # {}
                      /\ WriteResult(w, result)
                      /\ Returns(w, [thread[w] EXCEPT !.node = "candidate_selection_gate",
                                                      !.gate = TRUE])
                      /\ UNCHANGED <<watermark, session, recorder>>
                   \/ /\ recommended = {}
                      /\ WriteResult(w, result)
                      /\ watermark' = result.window.end
                      /\ Returns(w, Ends(w, "DONE"))
                      /\ UNCHANGED <<session, recorder>>
                   \/ /\ WriteResult(w, result)     \* a crash, or the second write refused
                      /\ \/ Dies(w)
                         \/ /\ recommended = {}
                            /\ Returns(w, Ends(w, "FAILED"))
                            /\ UNCHANGED <<session, recorder>>
                      /\ UNCHANGED watermark
       \/ /\ Returns(w, Ends(w, "FAILED"))   \* the LLM, the session, or the first write
          /\ UNCHANGED <<watermark, results, session, recorder>>
    /\ UNCHANGED world

GateMatches(w) == thread[w].gate /\ results[w].recommended # {}

\* InMemoryApprovalRecorder.record: the CLI's approval_id names the decision.
Accepts(w, answer) == \A kept \in recorder[w] : kept.decision = answer.decision => kept = answer

Selection(w, answer) ==
    CASE answer.decision = "APPROVE" -> results[w].recommended
      [] answer.decision = "EDIT" -> answer.selected
      [] answer.decision = "REJECT" -> {}

CandidateSelectionGate(w, answer) ==
    /\ Runs(w, "candidate_selection_gate")
    /\ GateMatches(w)
    /\ Accepts(w, answer)
    /\ recorder' = [recorder EXCEPT ![w] = @ \cup {answer}]
    /\ IF answer.decision = "EDIT"
          /\ (answer.selected = {} \/ ~ answer.selected \subseteq results[w].recommended)
       THEN Raises(w)        \* the approval is recorded all the same
       ELSE Moves(w, [node |-> "finalize_research_selection", gate |-> FALSE,
                      route |-> answer.decision, selected |-> Selection(w, answer)])
    /\ UNCHANGED <<world, watermark, results, session>>

\* A reused approval id with another payload.
GateRaises(w, answer) ==
    /\ Runs(w, "candidate_selection_gate")
    /\ ~ (GateMatches(w) /\ Accepts(w, answer))
    /\ Raises(w)
    /\ UNCHANGED <<world, watermark, results, session, recorder>>

\* Mutant: the selection that is recommended is what is selected.
Final_Recommended(w) ==
    [results[w] EXCEPT !.status = IF thread[w].route = "REJECT" THEN "REJECTED" ELSE "COMPLETED",
                       !.selected = results[w].recommended]

Final(w) ==
    [results[w] EXCEPT !.status = IF thread[w].route = "REJECT" THEN "REJECTED" ELSE "COMPLETED",
                       !.selected = IF thread[w].route = "REJECT" THEN {} ELSE thread[w].selected]

\* Mutant: the watermark is written before the result.
FinalizeResearchSelection_WatermarkFirst(w) ==
    /\ Runs(w, "finalize_research_selection")
    /\ watermark' = results[w].window.end
    /\ \/ /\ WriteResult(w, Final(w))
          /\ Returns(w, Ends(w, Final(w).status))
          /\ UNCHANGED <<session, recorder>>
       \/ /\ UNCHANGED results
          /\ \/ Dies(w)
             \/ Returns(w, Ends(w, "FAILED")) /\ UNCHANGED <<session, recorder>>
    /\ UNCHANGED world

\* The result, then the watermark of its window, whatever the decision.
FinalizeResearchSelection(w) ==
    /\ Runs(w, "finalize_research_selection")
    /\ \/ /\ WriteResult(w, Final(w))
          /\ watermark' = results[w].window.end
          /\ Returns(w, Ends(w, Final(w).status))
          /\ UNCHANGED <<session, recorder>>
       \/ /\ WriteResult(w, Final(w))
          /\ \/ Dies(w)
             \/ Returns(w, Ends(w, "FAILED")) /\ UNCHANGED <<session, recorder>>
          /\ UNCHANGED watermark
       \/ /\ Returns(w, Ends(w, "FAILED"))
          /\ UNCHANGED <<watermark, results, session, recorder>>
    /\ UNCHANGED world

Work(w) ==
    \/ Commit(w) \/ ValidateResearchRequest(w) \/ RetrievePapers(w) \/ DeduplicatePapers(w)
    \/ HardFilterCandidates(w) \/ AnalyzeApplicability(w) \/ FinalizeResearchSelection(w)

Next ==
    \/ \E paper \in Papers : Publish(paper) \/ Index(paper)
    \/ Tick
    \/ \E w \in Workflows :
          \/ Start(w) \/ Retry(w) \/ Crash(w) \/ Work(w)
          \/ \E answer \in Answers : CandidateSelectionGate(w, answer) \/ GateRaises(w, answer)

Spec == Init /\ [][Next]_vars

-----------------------------------------------------------------------------
(***************************************************************************)
(* Properties.                                                             *)
(***************************************************************************)
Done == {w \in Workflows : results[w].status \in Decided}
Seen == UNION {results[w].papers : w \in Done}

\* The papers that were a planner's to find, and that its keywords or its choice
\* may have left out.
Offered == UNION {Within(results[w].window) : w \in Done \cap Planned}

\* A paper that the watermark has passed by more than the overlap was assessed in a
\* decided result, or lies in the window of one that a planner made, from the window
\* of some first run on: whatever the interleaving of workflows, crashes and lost
\* sessions, no paper falls between two windows, and none is passed by for a run that
\* failed or was never decided.
NothingMissed ==
    watermark # None =>
        \E first \in Done :
            /\ results[first].before = None
            /\ \A paper \in Papers :
                  /\ activity[paper] # None
                  /\ results[first].window.start <= activity[paper]
                  /\ activity[paper] < watermark - Overlap
                  => paper \in Seen \cup Offered

\* The watermark is always the end of the window of a decided result on disk.
WatermarkHasItsResult ==
    watermark # None => \E w \in Done : results[w].window.end = watermark

\* What is selected on disk is what the human decided at the gate of this slate.
SelectedByHuman ==
    \A w \in Workflows :
        LET result == results[w] IN
        /\ result.selected \subseteq result.recommended
        /\ result.status = "COMPLETED" =>
              /\ result.selected # {}
              /\ thread[w].route \in {"APPROVE", "EDIT", "COMPLETED", "FAILED"}
              /\ result.selected = thread[w].selected
        /\ result.status # "COMPLETED" => result.selected = {}
=============================================================================
