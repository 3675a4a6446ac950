---------------------------- MODULE ResearchProofs ----------------------------
(***************************************************************************)
(* Theorems about Research, for every set of workflows and of papers, any  *)
(* overlap, lookback and budget, and any number of processes that die.     *)
(***************************************************************************)
EXTENDS Research, FiniteSetTheorems, TLAPS

-----------------------------------------------------------------------------
(***************************************************************************)
(* The inductive invariant.                                                *)
(***************************************************************************)
Routes == {"NONE", "FAILED", "DONE", "COMPLETED", "REJECTED"} \cup Decisions

Checkpoints == [node : Nodes, gate : BOOLEAN, route : Routes, selected : SUBSET Papers]

ResultType == [status : {"ABSENT", "AWAITING_SELECTION"} \cup Decided,
               window : Windows \cup {None}, before : Instants \cup {None},
               papers : SUBSET Papers, recommended : SUBSET Papers, selected : SUBSET Papers]

SessionType == [window : Windows \cup {None}, before : Instants \cup {None},
                raw : SUBSET Papers, papers : SUBSET Papers]

ProcessType == [phase : {"DOWN", "READY", "WROTE", "RAISED"}, to : Checkpoints \cup {None}]

WorldTyped ==
    /\ now \in Instants
    /\ activity \in [Papers -> Instants \cup {None}]
    /\ indexed \subseteq Papers

Typed ==
    /\ WorldTyped
    /\ watermark \in Instants \cup {None}
    /\ results \in [Workflows -> ResultType]
    /\ session \in [Workflows -> SessionType]
    /\ thread \in [Workflows -> Checkpoints]
    /\ proc \in [Workflows -> ProcessType]

\* The decision that finalize_research_selection is to write down.
Chosen(result, point) ==
    \/ point.route = "REJECT"
    \/ /\ point.route \in {"APPROVE", "EDIT"}
       /\ point.selected # {}
       /\ point.selected \subseteq result.recommended

\* A result on disk and a checkpoint of its workflow.
Stands(result, point) ==
    /\ result.status # "ABSENT" =>
          /\ result.window # None
          /\ point.node \in {"analyze_applicability", "candidate_selection_gate",
                             "finalize_research_selection", "END"}
    /\ point.node = "candidate_selection_gate" => result.status = "AWAITING_SELECTION"
    /\ point.node = "finalize_research_selection" =>
          result.status \in {"AWAITING_SELECTION", "COMPLETED", "REJECTED"} /\ Chosen(result, point)
    /\ result.status \in {"COMPLETED", "REJECTED"} =>
          point.node \in {"finalize_research_selection", "END"}
    /\ result.selected \subseteq result.recommended
    /\ result.status = "COMPLETED" =>
          /\ result.selected # {}
          /\ point.route \in {"APPROVE", "EDIT", "COMPLETED", "FAILED"}
          /\ result.selected = point.selected
    /\ result.status # "COMPLETED" => result.selected = {}

\* ... so do they when the process has a checkpoint to commit.  Who analyzes again
\* over a result that is there has lost the session that the result was made from.
Fits(result, point, process, sess) ==
    /\ Stands(result, point)
    /\ process.phase = "WROTE" =>
          /\ process.to \in Checkpoints
          /\ process.to.node \in {"candidate_selection_gate", "END"}
          /\ Stands(result, process.to)
    /\ point.node = "analyze_applicability" /\ result.status # "ABSENT" =>
          sess.window = None \/ process.phase = "WROTE"

AllFit == \A w \in Workflows : Fits(results[w], thread[w], proc[w], session[w])

Sound == Typed /\ AllFit /\ WatermarkHasItsResult

-----------------------------------------------------------------------------
(***************************************************************************)
(* What a step of one workflow may do.                                     *)
(***************************************************************************)
OnlyAt(w) ==
    \A v \in Workflows \ {w} :
        /\ results'[v] = results[v] /\ session'[v] = session[v]
        /\ thread'[v] = thread[v] /\ proc'[v] = proc[v]

Same(old, new) == new.window = old.window /\ new.before = old.before /\ new.papers = old.papers

\* A result is made once, from the session; what is done to it later keeps its papers.
ResultStep(w) ==
    \/ results'[w] = results[w]
    \/ /\ results[w].status # "ABSENT"
       /\ results'[w].status \in Decided
       /\ Same(results[w], results'[w])
    \/ /\ thread[w].node = "analyze_applicability"
       /\ results[w].status = "ABSENT"
       /\ session[w].window # None
       /\ Same(session[w], results'[w])

WatermarkStep(w) ==
    \/ watermark' = watermark
    \/ results'[w].status \in Decided /\ watermark' = results'[w].window.end

Filtering == {"hard_filter_candidates", "analyze_applicability"}

SessionStep(w) ==
    \/ session'[w].window = None
    \/ /\ session'[w] = session[w]
       /\ thread'[w].node \in Filtering => thread[w].node \in Filtering \/ w \in Planned
    \/ /\ session[w].window # None
       /\ session'[w] = [session[w] EXCEPT !.papers = session[w].raw \cap Within(session[w].window)]
    \/ /\ thread'[w].node \notin Filtering
       /\ session'[w].window = Window(watermark) /\ session'[w].before = watermark
       /\ session'[w].raw \in Found(w)

StepOf(w) ==
    /\ UNCHANGED world
    /\ Typed'
    /\ OnlyAt(w)
    /\ Fits(results'[w], thread'[w], proc'[w], session'[w])
    /\ ResultStep(w) /\ WatermarkStep(w) /\ SessionStep(w)

-----------------------------------------------------------------------------
(***************************************************************************)
(* How a workflow moves.                                                   *)
(***************************************************************************)
LEMMA Moving ==
  ASSUME Typed, NEW w \in Workflows, NEW point \in Checkpoints, Moves(w, point)
  PROVE  /\ thread' \in [Workflows -> Checkpoints] /\ thread'[w] = point
         /\ \A v \in Workflows \ {w} : thread'[v] = thread[v]
         /\ proc' = proc
  BY DEF Moves, Typed

LEMMA Returning ==
  ASSUME Typed, NEW w \in Workflows, NEW point \in Checkpoints, Returns(w, point)
  PROVE  /\ proc' \in [Workflows -> ProcessType]
         /\ proc'[w].phase = "WROTE" /\ proc'[w].to = point
         /\ \A v \in Workflows \ {w} : proc'[v] = proc[v]
         /\ thread' = thread
<1>1. [phase |-> "WROTE", to |-> point] \in ProcessType
  BY DEF ProcessType
<1> QED
  BY <1>1 DEF Returns, Typed

LEMMA Raising ==
  ASSUME Typed, NEW w \in Workflows, Raises(w)
  PROVE  /\ proc' \in [Workflows -> ProcessType]
         /\ proc'[w].phase = "RAISED"
         /\ \A v \in Workflows \ {w} : proc'[v] = proc[v]
         /\ thread' = thread
<1>1. Idle("RAISED") \in ProcessType
  BY DEF ProcessType, Idle
<1> QED
  BY <1>1 DEF Raises, Typed, Idle

LEMMA Readying ==
  ASSUME Typed, NEW w \in Workflows, proc' = [proc EXCEPT ![w] = Idle("READY")]
  PROVE  /\ proc' \in [Workflows -> ProcessType]
         /\ proc'[w].phase = "READY"
         /\ \A v \in Workflows \ {w} : proc'[v] = proc[v]
<1>1. Idle("READY") \in ProcessType
  BY DEF ProcessType, Idle
<1> QED
  BY <1>1 DEF Typed, Idle

LEMMA NoSessionTyped == NoSession \in SessionType /\ NoSession.window = None
  BY DEF NoSession, SessionType

LEMMA Dying ==
  ASSUME Typed, NEW w \in Workflows, Dies(w)
  PROVE  /\ proc' \in [Workflows -> ProcessType] /\ session' \in [Workflows -> SessionType]
         /\ proc'[w].phase = "DOWN" /\ session'[w].window = None
         /\ \A v \in Workflows \ {w} : proc'[v] = proc[v] /\ session'[v] = session[v]
         /\ thread' = thread
<1>1. Idle("DOWN") \in ProcessType
  BY DEF ProcessType, Idle
<1> QED
  BY <1>1, NoSessionTyped DEF Dies, Typed, Idle

LEMMA EndsTyped ==
  ASSUME Typed, NEW w \in Workflows, NEW route \in Routes
  PROVE  /\ Ends(w, route) \in Checkpoints
         /\ Ends(w, route).node = "END" /\ Ends(w, route).route = route
         /\ Ends(w, route).selected = thread[w].selected
  BY DEF Ends, Typed, Checkpoints, Nodes

LEMMA WorldKept ==
  ASSUME Typed, UNCHANGED world
  PROVE  WorldTyped'
  BY DEF Typed, WorldTyped, world

-----------------------------------------------------------------------------
(***************************************************************************)
(* The thread.                                                             *)
(***************************************************************************)
LEMMA CommitStep ==
  ASSUME Sound, NEW w \in Workflows, Commit(w)
  PROVE  StepOf(w)
<1>1. /\ proc[w].phase = "WROTE"
      /\ thread' = [thread EXCEPT ![w] = proc[w].to] /\ proc' = [proc EXCEPT ![w] = Idle("READY")]
      /\ UNCHANGED world /\ UNCHANGED <<watermark, results, session>>
  BY DEF Commit
<1>2. /\ proc[w].to \in Checkpoints
      /\ proc[w].to.node \in {"candidate_selection_gate", "END"}
      /\ Stands(results[w], proc[w].to)
  BY <1>1 DEF Sound, AllFit, Fits
<1>3. /\ thread' \in [Workflows -> Checkpoints] /\ thread'[w] = proc[w].to
      /\ \A v \in Workflows \ {w} : thread'[v] = thread[v]
  BY <1>1, <1>2 DEF Sound, Typed
<1>4. /\ proc' \in [Workflows -> ProcessType] /\ proc'[w].phase = "READY"
      /\ \A v \in Workflows \ {w} : proc'[v] = proc[v]
  BY <1>1, Readying DEF Sound
<1>5. Typed'
  BY <1>1, <1>3, <1>4, WorldKept DEF Sound, Typed
<1>6. Fits(results'[w], thread'[w], proc'[w], session'[w])
  BY <1>1, <1>2, <1>3, <1>4 DEF Fits
<1> QED
  BY <1>1, <1>2, <1>3, <1>4, <1>5, <1>6 DEF StepOf, OnlyAt, ResultStep, WatermarkStep, SessionStep, Filtering

\* A process that starts, goes on or dies, or a node that raises: nothing is written.
LEMMA AgainStep ==
  ASSUME Sound, NEW w \in Workflows, UNCHANGED world, UNCHANGED <<watermark, results, thread>>,
         proc' \in [Workflows -> ProcessType], proc'[w].phase # "WROTE",
         \A v \in Workflows \ {w} : proc'[v] = proc[v],
         \/ session' = session /\ (proc[w].phase # "WROTE")
         \/ /\ session' \in [Workflows -> SessionType] /\ session'[w].window = None
            /\ \A v \in Workflows \ {w} : session'[v] = session[v]
  PROVE  StepOf(w)
<1>1. Typed'
  BY WorldKept DEF Sound, Typed
<1>2. Fits(results'[w], thread'[w], proc'[w], session'[w])
  BY DEF Sound, AllFit, Fits
<1> QED
  BY <1>1, <1>2 DEF StepOf, OnlyAt, ResultStep, WatermarkStep, SessionStep, Filtering

LEMMA ThreadStep ==
  ASSUME Sound, NEW w \in Workflows, Start(w) \/ Retry(w) \/ Crash(w)
  PROVE  StepOf(w)
<1>1. CASE Start(w) \/ Retry(w)
  <2>1. /\ proc[w].phase # "WROTE" /\ proc' = [proc EXCEPT ![w] = Idle("READY")]
        /\ UNCHANGED world /\ UNCHANGED <<watermark, results, thread, session>>
    BY <1>1 DEF Start, Retry
  <2>2. /\ proc' \in [Workflows -> ProcessType] /\ proc'[w].phase = "READY"
        /\ \A v \in Workflows \ {w} : proc'[v] = proc[v]
    BY <2>1, Readying DEF Sound
  <2> QED
    BY <2>1, <2>2, AgainStep
<1>2. CASE Crash(w)
  <2>1. Dies(w) /\ UNCHANGED world /\ UNCHANGED <<watermark, results>>
    BY <1>2 DEF Crash
  <2>2. /\ proc' \in [Workflows -> ProcessType] /\ session' \in [Workflows -> SessionType]
        /\ proc'[w].phase = "DOWN" /\ session'[w].window = None
        /\ \A v \in Workflows \ {w} : proc'[v] = proc[v] /\ session'[v] = session[v]
        /\ thread' = thread
    BY <2>1, Dying DEF Sound
  <2> QED
    BY <2>1, <2>2, AgainStep
<1> QED
  BY <1>1, <1>2

-----------------------------------------------------------------------------
(***************************************************************************)
(* The nodes before a result is there.                                     *)
(***************************************************************************)
\* A node that only moves, and may change the session of its process.
LEMMA MoveStep ==
  ASSUME Sound, NEW w \in Workflows, proc[w].phase = "READY",
         NEW point \in Checkpoints, Moves(w, point), Stands(results[w], point),
         point.node # "analyze_applicability" \/ results[w].status = "ABSENT",
         UNCHANGED world, UNCHANGED <<watermark, results>>,
         session' \in [Workflows -> SessionType],
         \A v \in Workflows \ {w} : session'[v] = session[v],
         SessionStep(w)
  PROVE  StepOf(w)
<1>1. /\ thread' \in [Workflows -> Checkpoints] /\ thread'[w] = point
      /\ \A v \in Workflows \ {w} : thread'[v] = thread[v]
      /\ proc' = proc
  BY Moving DEF Sound
<1>2. Typed'
  BY <1>1, WorldKept DEF Sound, Typed
<1>3. Fits(results'[w], thread'[w], proc'[w], session'[w])
  BY <1>1 DEF Fits
<1> QED
  BY <1>1, <1>2, <1>3 DEF StepOf, OnlyAt, ResultStep, WatermarkStep

\* Before analyze_applicability there is no result; a checkpoint before the gate, or
\* at the end, stands with none.
LEMMA NoResultYet ==
  ASSUME Sound, NEW w \in Workflows,
         thread[w].node \in {"validate_research_request", "retrieve_papers", "deduplicate_papers",
                             "hard_filter_candidates"}
  PROVE  /\ results[w].status = "ABSENT"
         /\ \A point : point.node \notin {"candidate_selection_gate", "finalize_research_selection"} =>
               Stands(results[w], point)
  BY DEF Sound, AllFit, Fits, Stands, Typed, ResultType, Decided

LEMMA OnwardTyped ==
  ASSUME Typed, NEW w \in Workflows, NEW node \in Nodes
  PROVE  /\ [thread[w] EXCEPT !.node = node] \in Checkpoints
         /\ [thread[w] EXCEPT !.node = node].node = node
  BY DEF Typed, Checkpoints

LEMMA ValidateStep ==
  ASSUME Sound, NEW w \in Workflows, ValidateResearchRequest(w)
  PROVE  StepOf(w)
<1> DEFINE point == [thread[w] EXCEPT !.node = "retrieve_papers"]
<1>1. /\ proc[w].phase = "READY" /\ thread[w].node = "validate_research_request"
      /\ Moves(w, point) /\ UNCHANGED world /\ UNCHANGED <<watermark, results, session>>
  BY DEF ValidateResearchRequest, Runs
<1>2. point \in Checkpoints /\ point.node = "retrieve_papers"
  BY OnwardTyped DEF Sound, Nodes
<1> HIDE DEF point
<1>3. Stands(results[w], point)
  BY <1>1, <1>2, NoResultYet
<1>4. thread'[w] = point
  BY <1>1, <1>2, Moving DEF Sound
<1>5. SessionStep(w)
  BY <1>1, <1>2, <1>4 DEF SessionStep, Filtering
<1> QED
  BY <1>1, <1>2, <1>3, <1>5, MoveStep DEF Sound, Typed

LEMMA FilterStep ==
  ASSUME Sound, NEW w \in Workflows, HardFilterCandidates(w)
  PROVE  StepOf(w)
<1> DEFINE point == [thread[w] EXCEPT !.node = "analyze_applicability"]
<1>1. /\ proc[w].phase = "READY" /\ thread[w].node = "hard_filter_candidates"
      /\ Moves(w, point) /\ UNCHANGED world /\ UNCHANGED <<watermark, results, session>>
  BY DEF HardFilterCandidates, Runs
<1>2. point \in Checkpoints /\ point.node = "analyze_applicability"
  BY OnwardTyped DEF Sound, Nodes
<1> HIDE DEF point
<1>3. results[w].status = "ABSENT" /\ Stands(results[w], point)
  BY <1>1, <1>2, NoResultYet
<1>4. SessionStep(w)
  BY <1>1 DEF SessionStep, Filtering
<1> QED
  BY <1>1, <1>2, <1>3, <1>4, MoveStep DEF Sound, Typed

\* A node that ends the graph before a result is there.
LEMMA EndsEarly ==
  ASSUME Sound, NEW w \in Workflows, proc[w].phase = "READY",
         thread[w].node \in {"retrieve_papers", "deduplicate_papers"},
         Moves(w, Ends(w, "FAILED")), UNCHANGED world, UNCHANGED <<watermark, results, session>>
  PROVE  StepOf(w)
<1>1. Ends(w, "FAILED") \in Checkpoints /\ Ends(w, "FAILED").node = "END"
  BY EndsTyped DEF Sound, Routes
<1>2. Stands(results[w], Ends(w, "FAILED"))
  BY <1>1, NoResultYet
<1>3. thread'[w] = Ends(w, "FAILED")
  BY <1>1, Moving DEF Sound
<1>4. SessionStep(w)
  BY <1>1, <1>3 DEF SessionStep, Filtering
<1> QED
  BY <1>1, <1>2, <1>4, MoveStep DEF Sound, Typed

LEMMA WindowTyped ==
  ASSUME Typed
  PROVE  Window(watermark) \in Windows
<1>1. now \in Int /\ Lookback \in Int /\ Overlap \in Int /\ (watermark # None => watermark \in Int)
  BY ResearchAssumption DEF Typed, WorldTyped, Instants
<1> QED
  BY <1>1 DEF Window, Windows, Typed, WorldTyped

LEMMA RetrieveStep ==
  ASSUME Sound, NEW w \in Workflows, RetrievePapers(w)
  PROVE  StepOf(w)
<1> DEFINE point == [thread[w] EXCEPT !.node = "deduplicate_papers"]
           window == Window(watermark)
<1>1. /\ proc[w].phase = "READY" /\ thread[w].node = "retrieve_papers"
      /\ UNCHANGED world /\ UNCHANGED <<watermark, results>>
  BY DEF RetrievePapers, Runs
<1>2. ASSUME NEW raw \in Found(w),
             NEW papers \in Assessed(w, raw \cap Within(window)),
             session' = [session EXCEPT ![w] = [window |-> window, before |-> watermark,
                                                raw |-> raw, papers |-> papers]],
             Moves(w, point)
      PROVE  StepOf(w)
  <2>1. papers \in SUBSET Papers /\ raw \in SUBSET Papers
    BY DEF Found, Assessed, Within, Sound, Typed, WorldTyped, SessionType
  <2>2. [window |-> window, before |-> watermark, raw |-> raw, papers |-> papers] \in SessionType
    BY <2>1, WindowTyped DEF SessionType, Sound, Typed
  <2>3. /\ session' \in [Workflows -> SessionType]
        /\ session'[w] = [window |-> window, before |-> watermark, raw |-> raw, papers |-> papers]
        /\ \A v \in Workflows \ {w} : session'[v] = session[v]
    BY <1>2, <2>2 DEF Sound, Typed
  <2>4. point \in Checkpoints /\ point.node = "deduplicate_papers"
    BY OnwardTyped DEF Sound, Nodes
  <2> HIDE DEF point
  <2>5. thread'[w] = point
    BY <1>2, <2>4, Moving DEF Sound
  <2>6. session'[w].raw \in Found(w)
    BY <1>2, <2>3
  <2>7. SessionStep(w)
    BY <2>3, <2>4, <2>5, <2>6 DEF SessionStep, Filtering
  <2> QED
    BY <1>1, <1>2, <2>3, <2>4, <2>7, NoResultYet, MoveStep
<1>3. CASE Moves(w, Ends(w, "FAILED")) /\ UNCHANGED session
  BY <1>1, <1>3, EndsEarly
<1>4. CASE Raises(w) /\ UNCHANGED session
  BY <1>1, <1>4, Raising, AgainStep DEF Sound
<1> QED
  BY <1>2, <1>3, <1>4 DEF RetrievePapers

LEMMA DeduplicateStep ==
  ASSUME Sound, NEW w \in Workflows, DeduplicatePapers(w)
  PROVE  StepOf(w)
<1> DEFINE point == [thread[w] EXCEPT !.node = "hard_filter_candidates"]
<1>1. /\ proc[w].phase = "READY" /\ thread[w].node = "deduplicate_papers"
      /\ UNCHANGED world /\ UNCHANGED <<watermark, results>>
  BY DEF DeduplicatePapers, Runs
<1>2. point \in Checkpoints /\ point.node = "hard_filter_candidates"
  BY OnwardTyped DEF Sound, Nodes
<1>3. CASE Moves(w, point) /\ w \in Planned /\ UNCHANGED session
  <2> HIDE DEF point
  <2> QED
    BY <1>1, <1>2, <1>3, NoResultYet, MoveStep DEF Sound, Typed, SessionStep
<1>4. CASE /\ session[w].window # None
           /\ session' = [session EXCEPT ![w].papers = session[w].raw \cap Within(session[w].window)]
           /\ Moves(w, point)
  <2> DEFINE papers == session[w].raw \cap Within(session[w].window)
             kept == [session[w] EXCEPT !.papers = papers]
  <2>1. papers \in SUBSET Papers
    BY DEF Within
  <2> HIDE DEF papers
  <2>2. kept \in SessionType
    BY <2>1 DEF Sound, Typed, SessionType
  <2>3. session' = [session EXCEPT ![w] = kept]
    BY <1>4 DEF papers
  <2> HIDE DEF kept
  <2>4. /\ session' \in [Workflows -> SessionType] /\ session'[w] = kept
        /\ \A v \in Workflows \ {w} : session'[v] = session[v]
    BY <2>2, <2>3 DEF Sound, Typed
  <2>5. SessionStep(w)
    BY <1>4, <2>4 DEF SessionStep, kept, papers
  <2> HIDE DEF point
  <2> QED
    BY <1>1, <1>2, <1>4, <2>4, <2>5, NoResultYet, MoveStep
<1>5. CASE Moves(w, Ends(w, "FAILED")) /\ UNCHANGED session
  BY <1>1, <1>5, EndsEarly
<1> QED
  BY <1>3, <1>4, <1>5 DEF DeduplicatePapers

-----------------------------------------------------------------------------
(***************************************************************************)
(* The nodes that write.                                                   *)
(***************************************************************************)
\* A node that has written: it returns a checkpoint, or its process dies.
LEMMA WroteStep ==
  ASSUME Sound, NEW w \in Workflows, proc[w].phase = "READY", UNCHANGED world,
         NEW result \in ResultType, results' = [results EXCEPT ![w] = result],
         watermark' \in Instants \cup {None},
         ResultStep(w), WatermarkStep(w), Stands(result, thread[w]),
         \/ /\ UNCHANGED session
            /\ \E point \in Checkpoints :
                  /\ Returns(w, point)
                  /\ point.node \in {"candidate_selection_gate", "END"}
                  /\ Stands(result, point)
         \/ Dies(w)
  PROVE  StepOf(w)
<1>1. /\ results' \in [Workflows -> ResultType] /\ results'[w] = result
      /\ \A v \in Workflows \ {w} : results'[v] = results[v]
  BY DEF Sound, Typed
<1>2. CASE Dies(w)
  <2>1. /\ proc' \in [Workflows -> ProcessType] /\ session' \in [Workflows -> SessionType]
        /\ proc'[w].phase = "DOWN" /\ session'[w].window = None
        /\ \A v \in Workflows \ {w} : proc'[v] = proc[v] /\ session'[v] = session[v]
        /\ thread' = thread
    BY <1>2, Dying DEF Sound
  <2>2. Typed'
    BY <1>1, <2>1, WorldKept DEF Sound, Typed
  <2>3. Fits(results'[w], thread'[w], proc'[w], session'[w])
    BY <1>1, <2>1 DEF Fits
  <2> QED
    BY <1>1, <2>1, <2>2, <2>3 DEF StepOf, OnlyAt, SessionStep
<1>3. ASSUME UNCHANGED session, NEW point \in Checkpoints, Returns(w, point),
             point.node \in {"candidate_selection_gate", "END"}, Stands(result, point)
      PROVE  StepOf(w)
  <2>1. /\ proc' \in [Workflows -> ProcessType]
        /\ proc'[w].phase = "WROTE" /\ proc'[w].to = point
        /\ \A v \in Workflows \ {w} : proc'[v] = proc[v]
        /\ thread' = thread
    BY <1>3, Returning DEF Sound
  <2>2. Typed'
    BY <1>1, <1>3, <2>1, WorldKept DEF Sound, Typed
  <2>3. Fits(results'[w], thread'[w], proc'[w], session'[w])
    BY <1>1, <1>3, <2>1 DEF Fits
  <2> QED
    BY <1>1, <1>3, <2>1, <2>2, <2>3 DEF StepOf, OnlyAt, SessionStep
<1> QED
  BY <1>2, <1>3

\* A node that fails without a write: the result that was there stands at the end.
LEMMA FailsStep ==
  ASSUME Sound, NEW w \in Workflows, proc[w].phase = "READY",
         thread[w].node \in {"analyze_applicability", "finalize_research_selection"},
         Returns(w, Ends(w, "FAILED")), UNCHANGED world, UNCHANGED <<watermark, results, session>>
  PROVE  StepOf(w)
<1>1. /\ Ends(w, "FAILED") \in Checkpoints /\ Ends(w, "FAILED").node = "END"
      /\ Ends(w, "FAILED").route = "FAILED" /\ Ends(w, "FAILED").selected = thread[w].selected
  BY EndsTyped DEF Sound, Routes
<1>2. Stands(results[w], thread[w]) /\ results[w] \in ResultType
  BY DEF Sound, Typed, AllFit, Fits
<1>3. Stands(results[w], Ends(w, "FAILED"))
  BY <1>1, <1>2 DEF Stands
<1>4. results' = [results EXCEPT ![w] = results[w]]
  BY DEF Sound, Typed
<1> QED
  BY <1>1, <1>2, <1>3, <1>4, WroteStep DEF ResultStep, WatermarkStep, Sound, Typed

LEMMA AnalyzeStep ==
  ASSUME Sound, NEW w \in Workflows, AnalyzeApplicability(w)
  PROVE  StepOf(w)
<1>1. proc[w].phase = "READY" /\ thread[w].node = "analyze_applicability" /\ UNCHANGED world
  BY DEF AnalyzeApplicability, Runs
<1>2. CASE Returns(w, Ends(w, "FAILED")) /\ UNCHANGED <<watermark, results, session>>
  BY <1>1, <1>2, FailsStep
<1>3. ASSUME session[w].window # None, NEW recommended \in SUBSET session[w].papers,
             NEW status \in {"NO_CANDIDATES", "AWAITING_SELECTION"},
             recommended # {} <=> status = "AWAITING_SELECTION",
             NEW result, result = [status |-> status,
                  window |-> session[w].window, before |-> session[w].before,
                  papers |-> session[w].papers, recommended |-> recommended, selected |-> {}],
             WriteResult(w, result),
             watermark' = watermark \/ (status = "NO_CANDIDATES" /\ watermark' = result.window.end),
             \/ /\ UNCHANGED session
                /\ \/ /\ recommended # {}
                      /\ Returns(w, [thread[w] EXCEPT !.node = "candidate_selection_gate", !.gate = TRUE])
                   \/ /\ recommended = {}
                      /\ \E route \in {"DONE", "FAILED"} : Returns(w, Ends(w, route))
             \/ Dies(w)
      PROVE  StepOf(w)
  <2>1. session[w] \in SessionType /\ session[w].window \in Windows
    BY <1>3 DEF Sound, Typed, SessionType
  <2>2. result \in ResultType /\ result.window.end \in Instants
    BY <1>3, <2>1 DEF ResultType, SessionType, Decided, Windows
  <2>3. results' = [results EXCEPT ![w] = result] /\ results'[w] = result
    BY <1>3 DEF WriteResult, Sound, Typed
  <2>4. results[w].status = "ABSENT"
    BY <1>1, <1>3 DEF Sound, AllFit, Fits
  <2>5. ResultStep(w) /\ WatermarkStep(w) /\ watermark' \in Instants \cup {None}
    BY <1>1, <1>3, <2>2, <2>3, <2>4 DEF ResultStep, Same, WatermarkStep, Decided, Sound, Typed
  <2>6. result.window # None
    BY <1>3
  <2>7. Stands(result, thread[w])
    BY <1>1, <1>3, <2>6 DEF Stands
  <2>8. CASE recommended # {} /\ UNCHANGED session
    <3> DEFINE point == [thread[w] EXCEPT !.node = "candidate_selection_gate", !.gate = TRUE]
    <3>1. point \in Checkpoints /\ point.node = "candidate_selection_gate"
      BY DEF Sound, Typed, Checkpoints, Nodes
    <3>2. Returns(w, point) \/ Dies(w)
      BY <1>3, <2>8
    <3> HIDE DEF point
    <3>3. Stands(result, point)
      BY <1>3, <2>6, <2>8, <3>1 DEF Stands
    <3> QED
      BY <1>1, <2>2, <2>3, <2>5, <2>7, <2>8, <3>1, <3>2, <3>3, WroteStep
  <2>9. CASE recommended = {} /\ UNCHANGED session
    <3>1. ASSUME NEW route \in {"DONE", "FAILED"}
          PROVE  Ends(w, route) \in Checkpoints /\ Ends(w, route).node = "END" /\ Stands(result, Ends(w, route))
      <4>1. Ends(w, route) \in Checkpoints /\ Ends(w, route).node = "END"
        BY EndsTyped DEF Sound, Routes
      <4> QED
        BY <1>3, <2>6, <2>9, <4>1 DEF Stands
    <3> QED
      BY <1>1, <1>3, <2>2, <2>3, <2>5, <2>7, <2>9, <3>1, WroteStep
  <2>10. CASE Dies(w)
    BY <1>1, <2>2, <2>3, <2>5, <2>7, <2>10, WroteStep
  <2> QED
    BY <1>3, <2>8, <2>9, <2>10
<1>4. CASE session[w].window # None
           /\ \E recommended \in SUBSET session[w].papers :
                /\ Cardinality(recommended) <= Limit
                /\ LET result == [status |-> IF recommended = {} THEN "NO_CANDIDATES"
                                                                 ELSE "AWAITING_SELECTION",
                                  window |-> session[w].window,
                                  before |-> session[w].before,
                                  papers |-> session[w].papers,
                                  recommended |-> recommended, selected |-> {}]
                   IN
                   \/ /\ recommended # {}
                      /\ WriteResult(w, result)
                      /\ Returns(w, [thread[w] EXCEPT !.node = "candidate_selection_gate",
                                                      !.gate = TRUE])
                      /\ UNCHANGED <<watermark, session, recorder>>
                   \/ /\ recommended = {}
                      /\ WriteResult(w, result)
                      /\ watermark' = result.window.end
                      /\ Returns(w, Ends(w, "DONE"))
                      /\ UNCHANGED <<session, recorder>>
                   \/ /\ WriteResult(w, result)
                      /\ \/ Dies(w)
                         \/ /\ recommended = {}
                            /\ Returns(w, Ends(w, "FAILED"))
                            /\ UNCHANGED <<session, recorder>>
                      /\ UNCHANGED watermark
  <2> PICK recommended \in SUBSET session[w].papers :
         LET result == [status |-> IF recommended = {} THEN "NO_CANDIDATES" ELSE "AWAITING_SELECTION",
                        window |-> session[w].window, before |-> session[w].before,
                        papers |-> session[w].papers, recommended |-> recommended, selected |-> {}]
         IN /\ WriteResult(w, result)
            /\ watermark' = watermark \/ (recommended = {} /\ watermark' = result.window.end)
            /\ \/ /\ UNCHANGED session
                  /\ \/ /\ recommended # {}
                        /\ Returns(w, [thread[w] EXCEPT !.node = "candidate_selection_gate", !.gate = TRUE])
                     \/ /\ recommended = {}
                        /\ \E route \in {"DONE", "FAILED"} : Returns(w, Ends(w, route))
               \/ Dies(w)
    BY <1>4
  <2>1. CASE recommended = {}
    BY <1>3, <1>4, <2>1
  <2>2. CASE recommended # {}
    BY <1>3, <1>4, <2>2
  <2> QED
    BY <2>1, <2>2
<1> QED
  BY <1>2, <1>4 DEF AnalyzeApplicability

LEMMA GateStep ==
  ASSUME Sound, NEW w \in Workflows, NEW answer \in Answers,
         CandidateSelectionGate(w, answer) \/ GateRaises(w, answer)
  PROVE  StepOf(w)
<1>1. /\ proc[w].phase = "READY" /\ thread[w].node = "candidate_selection_gate"
      /\ UNCHANGED world /\ UNCHANGED <<watermark, results, session>>
  BY DEF CandidateSelectionGate, GateRaises, Runs
<1>2. CASE Raises(w)
  BY <1>1, <1>2, Raising, AgainStep DEF Sound
<1>3. CASE /\ results[w].recommended # {}
           /\ ~ (/\ answer.decision = "EDIT"
                 /\ (answer.selected = {} \/ ~ answer.selected \subseteq results[w].recommended))
           /\ Moves(w, [node |-> "finalize_research_selection", gate |-> FALSE,
                        route |-> answer.decision, selected |-> Selection(w, answer)])
  <2> DEFINE point == [node |-> "finalize_research_selection", gate |-> FALSE,
                       route |-> answer.decision, selected |-> Selection(w, answer)]
  <2>1. results[w] \in ResultType /\ answer.decision \in Decisions /\ answer.selected \subseteq Papers
    BY DEF Sound, Typed, Answers
  <2>2. /\ Selection(w, answer) \subseteq Papers
        /\ answer.decision # "REJECT" =>
              Selection(w, answer) # {} /\ Selection(w, answer) \subseteq results[w].recommended
    BY <1>3, <2>1 DEF Selection, Decisions, ResultType
  <2>3. point \in Checkpoints
    BY <2>1, <2>2 DEF Checkpoints, Nodes, Routes
  <2>4. Stands(results[w], thread[w])
    BY DEF Sound, AllFit, Fits
  <2>5. results[w].status = "AWAITING_SELECTION"
    BY <1>1, <2>4 DEF Stands
  <2>6. Chosen(results[w], point)
    BY <2>1, <2>2 DEF Chosen, Decisions
  <2>7. Stands(results[w], point)
    BY <2>4, <2>5, <2>6 DEF Stands
  <2>8. thread'[w] = point
    BY <1>3, <2>3, Moving DEF Sound
  <2>9. SessionStep(w)
    BY <1>1, <2>8 DEF SessionStep, Filtering
  <2> QED
    BY <1>1, <1>3, <2>3, <2>7, <2>9, MoveStep DEF Sound, Typed
<1> QED
  BY <1>2, <1>3 DEF CandidateSelectionGate, GateRaises, GateMatches

LEMMA FinalizeStep ==
  ASSUME Sound, NEW w \in Workflows, FinalizeResearchSelection(w)
  PROVE  StepOf(w)
<1> DEFINE result == Final(w)
<1>1. proc[w].phase = "READY" /\ thread[w].node = "finalize_research_selection" /\ UNCHANGED world
  BY DEF FinalizeResearchSelection, Runs
<1>2. CASE Returns(w, Ends(w, "FAILED")) /\ UNCHANGED <<watermark, results, session>>
  BY <1>1, <1>2, FailsStep
<1>3. /\ results[w] \in ResultType /\ thread[w] \in Checkpoints /\ Stands(results[w], thread[w])
      /\ results[w].status \in {"AWAITING_SELECTION", "COMPLETED", "REJECTED"}
      /\ Chosen(results[w], thread[w]) /\ results[w].window # None
  BY <1>1 DEF Sound, Typed, AllFit, Fits, Stands
<1>4. /\ result \in ResultType
      /\ result.window = results[w].window /\ result.before = results[w].before
      /\ result.papers = results[w].papers /\ result.recommended = results[w].recommended
      /\ \/ thread[w].route = "REJECT" /\ result.status = "REJECTED" /\ result.selected = {}
         \/ thread[w].route # "REJECT" /\ result.status = "COMPLETED" /\ result.selected = thread[w].selected
  BY <1>3 DEF Final, ResultType, Decided, Checkpoints
<1>5. result.window.end \in Instants
  BY <1>3, <1>4 DEF ResultType, Windows
<1> HIDE DEF result
<1>6. Stands(result, thread[w])
  BY <1>1, <1>3, <1>4 DEF Stands, Chosen
<1>7. ASSUME NEW route \in {"FAILED", result.status}
      PROVE  Ends(w, route) \in Checkpoints /\ Ends(w, route).node = "END" /\ Stands(result, Ends(w, route))
  <2>1. route \in Routes
    BY <1>4 DEF Routes
  <2>2. /\ Ends(w, route) \in Checkpoints /\ Ends(w, route).node = "END"
        /\ Ends(w, route).route = route /\ Ends(w, route).selected = thread[w].selected
    BY <2>1, EndsTyped DEF Sound
  <2> QED
    BY <1>3, <1>4, <1>6, <2>2 DEF Stands
<1>8. ASSUME WriteResult(w, result),
             watermark' \in {watermark, result.window.end},
             \/ (\E route \in {"FAILED", result.status} : Returns(w, Ends(w, route))) /\ UNCHANGED session
             \/ Dies(w)
      PROVE  StepOf(w)
  <2>1. results' = [results EXCEPT ![w] = result] /\ results'[w] = result
    BY <1>8 DEF WriteResult, Sound, Typed
  <2>2. result.status \in Decided /\ results[w].status # "ABSENT"
    BY <1>3, <1>4 DEF Decided
  <2>3. ResultStep(w) /\ WatermarkStep(w) /\ watermark' \in Instants \cup {None}
    BY <1>4, <1>5, <1>8, <2>1, <2>2 DEF ResultStep, Same, WatermarkStep, Sound, Typed
  <2> QED
    BY <1>1, <1>4, <1>6, <1>7, <1>8, <2>1, <2>3, WroteStep
<1> QED
  BY <1>2, <1>4, <1>8 DEF FinalizeResearchSelection, result

-----------------------------------------------------------------------------
(***************************************************************************)
(* Every step.                                                             *)
(***************************************************************************)
\* A step of the provider or of the clock.
WorldStep ==
    /\ UNCHANGED <<watermark, results, runtime>>
    /\ WorldTyped'
    /\ \/ \E paper \in Papers : activity[paper] = None /\ activity' = [activity EXCEPT ![paper] = now]
                                  /\ UNCHANGED <<now, indexed>>
       \/ \E paper \in Papers : activity[paper] # None /\ indexed' = indexed \cup {paper}
                                  /\ UNCHANGED <<now, activity>>
       \/ Tick

LEMMA EachStep ==
  ASSUME Sound, [Next]_vars
  PROVE  UNCHANGED vars \/ WorldStep \/ \E w \in Workflows : StepOf(w)
<1>1. ASSUME NEW paper \in Papers, Publish(paper) \/ Index(paper)
      PROVE  WorldStep
  <2>1. WorldTyped'
    BY <1>1 DEF Publish, Index, Sound, Typed, WorldTyped
  <2> QED
    BY <1>1, <2>1 DEF Publish, Index, WorldStep
<1>2. CASE Tick
  <2>1. WorldTyped'
    BY <1>2, ResearchAssumption DEF Tick, Sound, Typed, WorldTyped, Instants
  <2> QED
    BY <1>2, <2>1 DEF Tick, WorldStep
<1>3. ASSUME NEW w \in Workflows, Start(w) \/ Retry(w) \/ Crash(w)
      PROVE  StepOf(w)
  BY <1>3, ThreadStep
<1>4. ASSUME NEW w \in Workflows, Work(w)
      PROVE  StepOf(w)
  BY <1>4, CommitStep, ValidateStep, RetrieveStep, DeduplicateStep, FilterStep, AnalyzeStep, FinalizeStep DEF Work
<1>5. ASSUME NEW w \in Workflows, NEW answer \in Answers,
             CandidateSelectionGate(w, answer) \/ GateRaises(w, answer)
      PROVE  StepOf(w)
  BY <1>5, GateStep
<1> QED
  BY <1>1, <1>2, <1>3, <1>4, <1>5 DEF Next

\* A decided result stays decided, of the same window and the same papers.
DoneKept ==
    \A w \in Workflows :
        results[w].status \in Decided =>
            results'[w].status \in Decided /\ Same(results[w], results'[w])

LEMMA StepKeepsDone ==
  ASSUME Sound, NEW w \in Workflows, StepOf(w)
  PROVE  DoneKept
<1>1. results[w].status \in Decided =>
         results'[w].status \in Decided /\ Same(results[w], results'[w])
  BY DEF StepOf, ResultStep, Same, Decided
<1> QED
  BY <1>1 DEF StepOf, OnlyAt, DoneKept, Same

LEMMA SoundInit == Init => Sound
<1> SUFFICES ASSUME Init PROVE Sound
  OBVIOUS
<1>1. NoResult \in ResultType /\ NoResult.status = "ABSENT" /\ NoResult.selected = {}
  BY DEF NoResult, ResultType
<1>2. Begin \in Checkpoints /\ Begin.node = "validate_research_request"
  BY DEF Begin, Checkpoints, Nodes, Routes
<1>3. Idle("DOWN") \in ProcessType /\ Idle("DOWN").phase = "DOWN"
  BY DEF Idle, ProcessType
<1>4. Typed
  BY <1>1, <1>2, <1>3, NoSessionTyped, ResearchAssumption DEF Init, Typed, WorldTyped, Instants
<1>5. AllFit
  BY <1>1, <1>2, <1>3 DEF Init, AllFit, Fits, Stands
<1> QED
  BY <1>4, <1>5 DEF Sound, WatermarkHasItsResult, Init

LEMMA SoundStepOf ==
  ASSUME Sound, NEW w \in Workflows, StepOf(w)
  PROVE  Sound'
<1>1. Typed'
  BY DEF StepOf
<1>2. AllFit'
  BY DEF StepOf, OnlyAt, AllFit, Sound
<1>3. WatermarkHasItsResult'
  <2>1. CASE watermark' = watermark
    BY <2>1, StepKeepsDone DEF DoneKept, Same, Sound, WatermarkHasItsResult, Done
  <2>2. CASE results'[w].status \in Decided /\ watermark' = results'[w].window.end
    BY <2>2 DEF WatermarkHasItsResult, Done
  <2> QED
    BY <2>1, <2>2 DEF StepOf, WatermarkStep
<1> QED
  BY <1>1, <1>2, <1>3 DEF Sound

LEMMA SoundStep == Sound /\ [Next]_vars => Sound'
<1> SUFFICES ASSUME Sound, [Next]_vars PROVE Sound'
  OBVIOUS
<1>1. CASE UNCHANGED vars \/ WorldStep
  <2>1. UNCHANGED <<watermark, results, session, thread, proc>> /\ WorldTyped'
    BY <1>1 DEF vars, world, runtime, WorldStep, Sound, Typed, WorldTyped
  <2> QED
    BY <2>1 DEF Sound, Typed, AllFit, Fits, WatermarkHasItsResult, Done
<1> QED
  BY <1>1, SoundStepOf, EachStep

\* The inductive invariant holds in every reachable state.
THEOREM AlwaysSound == Spec => []Sound
<1>1. Init => Sound
  BY SoundInit
<1>2. Sound /\ [Next]_vars => Sound'
  BY SoundStep
<1> QED
  BY <1>1, <1>2, PTL DEF Spec

\* What finalize_research_selection wrote is what the human decided at the gate of
\* this slate, whatever crash or retry came between.
THEOREM HumanSelects == Spec => []SelectedByHuman
<1>1. Sound => SelectedByHuman
  BY DEF Sound, AllFit, Fits, Stands, SelectedByHuman
<1> QED
  BY <1>1, AlwaysSound, PTL

\* The watermark is only ever the end of the window of a decided result: the result
\* is on disk before advance_watermark, and no later write takes it away.
THEOREM WatermarkFounded == Spec => []WatermarkHasItsResult
<1>1. Sound => WatermarkHasItsResult
  BY DEF Sound
<1> QED
  BY <1>1, AlwaysSound, PTL

-----------------------------------------------------------------------------
(***************************************************************************)
(* No paper falls between two windows, where the provider's answers to the *)
(* request's query fit the budget.                                         *)
(***************************************************************************)
NothingLeftOut ==
    /\ IsFiniteSet(Papers)
    /\ Cardinality(Papers) <= MaxRecords

Covered(at, first) ==
    \A paper \in Papers :
        /\ activity[paper] # None
        /\ results[first].window.start <= activity[paper]
        /\ activity[paper] < at - Overlap
        => paper \in Seen \cup Offered

\* The watermark was here: decided results cover what came before, from a first run on.
Reached(at) ==
    /\ at <= now
    /\ \E first \in Done : results[first].before = None /\ Covered(at, first)

\* The provider's delay.
Timely ==
    \A paper \in Papers :
        /\ paper \in indexed => activity[paper] # None
        /\ activity[paper] # None =>
              /\ activity[paper] <= now
              /\ paper \in indexed \/ now <= activity[paper] + Overlap

\* The papers that a search at the end of a window finds for certain.
Due(window) ==
    {paper \in Papers : /\ activity[paper] # None
                        /\ window.start <= activity[paper]
                        /\ activity[paper] < window.end - Overlap}

\* A window of the past: the first one, or one that overlaps with what was reached.
Follows(window, before) ==
    /\ window.end <= now
    /\ before # None => window.start = before - Overlap /\ Reached(before)

\* Without a planner the papers are there when they are deduplicated.
Retrieved(w, sess, node) ==
    sess.window # None =>
        /\ Follows(sess.window, sess.before)
        /\ w \notin Planned =>
              /\ Due(sess.window) \subseteq sess.raw
              /\ node \in Filtering => Due(sess.window) \subseteq sess.papers

Concluded(w, result) ==
    result.status # "ABSENT" =>
        /\ Follows(result.window, result.before)
        /\ w \notin Planned => Due(result.window) \subseteq result.papers

Passed ==
    /\ Timely
    /\ watermark # None => Reached(watermark)
    /\ \A w \in Workflows :
          Retrieved(w, session[w], thread[w].node) /\ Concluded(w, results[w])

LEMMA InstantsAreIntegers ==
  ASSUME Typed
  PROVE  /\ now \in Int /\ Overlap \in Nat /\ Overlap \in Int /\ Lookback \in Int
         /\ \A paper \in Papers : activity[paper] # None => activity[paper] \in Int
         /\ watermark # None => watermark \in Int
         /\ \A at \in Instants : at \in Int /\ at # None
  BY ResearchAssumption DEF Typed, WorldTyped, Instants

\* What passes while papers are published and found.
LEMMA WorldPasses ==
  ASSUME Sound, Passed, WorldStep
  PROVE  Passed'
<1>1. /\ now \in Int /\ now' \in Int /\ Overlap \in Int
      /\ \A paper \in Papers : activity[paper] # None => activity[paper] \in Int
      /\ UNCHANGED <<watermark, results, session, thread>>
  BY InstantsAreIntegers, ResearchAssumption DEF WorldStep, WorldTyped, Instants, Sound, runtime
<1>2. /\ now <= now'
      /\ \A paper \in Papers : activity'[paper] = activity[paper] \/ (activity[paper] = None /\ activity'[paper] = now)
  BY <1>1 DEF WorldStep, Tick, Sound, Typed, WorldTyped
<1>3. Timely'
  <2>1. ASSUME NEW paper \in Papers, activity[paper] = None, activity' = [activity EXCEPT ![paper] = now],
               UNCHANGED <<now, indexed>>
        PROVE  Timely'
    BY <1>1, <2>1, ResearchAssumption DEF Passed, Timely, Sound, Typed, WorldTyped
  <2>2. ASSUME NEW paper \in Papers, activity[paper] # None, indexed' = indexed \cup {paper},
               UNCHANGED <<now, activity>>
        PROVE  Timely'
    BY <2>2 DEF Passed, Timely
  <2>3. CASE Tick
    BY <1>1, <2>3 DEF Tick, Passed, Timely
  <2> QED
    BY <2>1, <2>2, <2>3 DEF WorldStep
<1>4. ASSUME NEW at \in Int, Reached(at)
      PROVE  at <= now' /\ \E first \in Done : results[first].before = None /\ Covered(at, first)'
  <2>1. PICK first \in Done : results[first].before = None /\ Covered(at, first)
    BY <1>4 DEF Reached
  <2>2. ASSUME NEW paper \in Papers, activity'[paper] # None,
               results[first].window.start <= activity'[paper], activity'[paper] < at - Overlap
        PROVE  paper \in Seen \cup Offered
    <3>1. at <= now /\ Overlap >= 0
      BY <1>4, ResearchAssumption DEF Reached
    <3>2. activity'[paper] # now
      BY <1>1, <2>2, <3>1
    <3> QED
      BY <1>2, <2>1, <2>2, <3>2 DEF Covered
  <2>3. Seen' = Seen /\ Offered \subseteq Offered'
    <3>1. \A window : Within(window) \subseteq Within(window)'
      BY <1>2 DEF Within
    <3> QED
      BY <1>1, <3>1 DEF Seen, Offered, Done
  <2>4. Covered(at, first)'
    BY <1>1, <2>2, <2>3 DEF Covered
  <2> QED
    BY <1>1, <1>2, <1>4, <2>1, <2>4 DEF Reached
<1>5. ASSUME NEW at \in Int, Reached(at)
      PROVE  Reached(at)'
  BY <1>1, <1>4, <1>5 DEF Reached, Done
<1>6. ASSUME NEW window \in Windows, window.end <= now
      PROVE  Due(window)' = Due(window) /\ window.end <= now'
  <2>1. window.end \in Int /\ window.start \in Int /\ Overlap >= 0
    BY ResearchAssumption DEF Windows, Instants
  <2>2. \A paper \in Papers : activity[paper] = None /\ activity'[paper] = now => ~ (activity'[paper] < window.end - Overlap)
    BY <1>1, <1>6, <2>1
  <2> QED
    BY <1>1, <1>2, <1>6, <2>1, <2>2 DEF Due
<1>7. ASSUME NEW window \in Windows, NEW before \in Instants \cup {None}, Follows(window, before)
      PROVE  Follows(window, before)'
  BY <1>5, <1>6, <1>7, ResearchAssumption DEF Follows, Instants
<1>8. ASSUME NEW w \in Workflows
      PROVE  Retrieved(w, session[w], thread[w].node)' /\ Concluded(w, results[w])'
  <2>1. session[w] \in SessionType /\ results[w] \in ResultType
    BY DEF Sound, Typed
  <2>2. Retrieved(w, session[w], thread[w].node)'
    BY <1>1, <1>6, <1>7, <2>1 DEF Passed, Retrieved, Follows, SessionType
  <2>3. results[w].status # "ABSENT" => results[w].window \in Windows
    BY <2>1 DEF Sound, AllFit, Fits, Stands, ResultType
  <2>4. Concluded(w, results[w])'
    BY <1>1, <1>6, <1>7, <2>1, <2>3 DEF Passed, Concluded, Follows, ResultType
  <2> QED
    BY <2>2, <2>4
<1>9. watermark' # None => Reached(watermark)'
  <2>1. watermark # None => watermark \in Int /\ Reached(watermark)
    BY InstantsAreIntegers DEF Sound, Passed
  <2>2. \A at \in Int : Reached(at) => Reached(at)'
    BY <1>5
  <2> QED
    BY <1>1, <2>1, <1>4 DEF Reached, Done, Covered
<1> QED
  BY <1>3, <1>8, <1>9 DEF Passed

\* What was reached stays reached when a workflow takes a step.
LEMMA ReachedStays ==
  ASSUME Sound, NEW w \in Workflows, StepOf(w), NEW at \in Int, Reached(at)
  PROVE  Reached(at)'
<1>1. /\ DoneKept
      /\ now' = now /\ activity' = activity
  BY StepKeepsDone DEF StepOf, world
<1>2. PICK first \in Done : results[first].before = None /\ Covered(at, first)
  BY DEF Reached
<1>3. Seen \subseteq Seen' /\ Offered \subseteq Offered'
  BY <1>1 DEF DoneKept, Same, Seen, Offered, Within, Done
<1>4. first \in Done' /\ Same(results[first], results'[first])
  BY <1>1, <1>2 DEF DoneKept, Done
<1>5. results'[first].before = None /\ Covered(at, first)'
  BY <1>1, <1>2, <1>3, <1>4 DEF Covered, Same
<1> QED
  BY <1>1, <1>4, <1>5 DEF Reached

LEMMA FollowsStays ==
  ASSUME Sound, NEW w \in Workflows, StepOf(w),
         NEW window, NEW before \in Instants \cup {None}, Follows(window, before)
  PROVE  Follows(window, before)' /\ Due(window)' = Due(window)
<1>1. now' = now /\ activity' = activity
  BY DEF StepOf, world
<1>2. before # None => before \in Int /\ Reached(before)'
  BY ReachedStays, InstantsAreIntegers DEF Follows, Sound
<1> QED
  BY <1>1, <1>2 DEF Follows, Due

\* A search within the budget finds every paper that was there an overlap ago.
LEMMA SearchFindsDue ==
  ASSUME Sound, Passed, NothingLeftOut, NEW w \in Workflows \ Planned,
         NEW raw \in Found(w)
  PROVE  Due(Window(watermark)) \subseteq raw
<1>1. IsFiniteSet(indexed) /\ Cardinality(indexed) <= Cardinality(Papers)
  BY FS_Subset DEF NothingLeftOut, Sound, Typed, WorldTyped
<1>2. Cardinality(indexed) \in Nat /\ Cardinality(Papers) \in Nat /\ MaxRecords \in Nat
  BY <1>1, FS_CardinalityType, ResearchAssumption DEF NothingLeftOut
<1>3. raw \subseteq indexed /\ Cardinality(raw) = Cardinality(indexed)
  BY <1>1, <1>2 DEF NothingLeftOut, Found
<1>4. raw = indexed
  BY <1>1, <1>3, FS_Subset
<1>5. ASSUME NEW paper \in Due(Window(watermark))
      PROVE  paper \in indexed
  <2>1. /\ paper \in Papers /\ activity[paper] # None /\ activity[paper] \in Int
        /\ activity[paper] < now - Overlap /\ now \in Int /\ Overlap \in Int
    BY <1>5, InstantsAreIntegers DEF Due, Window, Sound
  <2> QED
    BY <2>1 DEF Passed, Timely
<1> QED
  BY <1>4, <1>5

LEMMA DueIsWithin ==
  ASSUME Typed, NEW window \in Windows
  PROVE  Due(window) \subseteq Within(window)
<1>1. Overlap \in Nat /\ window.end \in Int
  BY ResearchAssumption DEF Windows, Instants
<1>2. \A paper \in Papers : activity[paper] # None => activity[paper] \in Int
  BY InstantsAreIntegers
<1> QED
  BY <1>1, <1>2 DEF Due, Within

LEMMA SessionPasses ==
  ASSUME Sound, Passed, NothingLeftOut, NEW w \in Workflows, StepOf(w)
  PROVE  Retrieved(w, session[w], thread[w].node)'
<1>1. now' = now /\ activity' = activity /\ session[w] \in SessionType
  BY DEF StepOf, world, Sound, Typed
<1> PICK window, before : window = session[w].window /\ before = session[w].before
  OBVIOUS
<1>2. window # None =>
        /\ Follows(window, before)' /\ Due(window)' = Due(window)
        /\ w \notin Planned =>
              /\ Due(window) \subseteq session[w].raw
              /\ thread[w].node \in Filtering => Due(window) \subseteq session[w].papers
  <2>1. before \in Instants \cup {None}
    BY <1>1 DEF SessionType
  <2> QED
    BY <2>1, FollowsStays DEF Passed, Retrieved
<1>3. CASE session'[w].window = None
  BY <1>3 DEF Retrieved
<1>4. CASE /\ session'[w] = session[w]
           /\ thread'[w].node \in Filtering => thread[w].node \in Filtering \/ w \in Planned
  BY <1>2, <1>4 DEF Retrieved
<1>5. CASE /\ session[w].window # None
           /\ session'[w] = [session[w] EXCEPT !.papers = session[w].raw \cap Within(session[w].window)]
  <2>1. session'[w].window = window /\ session'[w].before = before /\ session'[w].raw = session[w].raw
    BY <1>1, <1>5 DEF SessionType
  <2>2. session'[w].papers = session[w].raw \cap Within(window)
    BY <1>1, <1>5 DEF SessionType
  <2>3. Due(window) \subseteq Within(window)
    BY <1>1, <1>5, DueIsWithin DEF SessionType, Sound
  <2> QED
    BY <1>2, <1>5, <2>1, <2>2, <2>3 DEF Retrieved
<1>6. CASE /\ thread'[w].node \notin Filtering
           /\ session'[w].window = Window(watermark) /\ session'[w].before = watermark
           /\ session'[w].raw \in Found(w)
  <2> PICK mark, span : mark = watermark /\ span = Window(watermark)
    OBVIOUS
  <2>1. span.end = now /\ (mark # None => span.start = mark - Overlap) /\ now <= now
    BY InstantsAreIntegers DEF Window, Sound
  <2>2. mark \in Instants \cup {None} /\ (mark # None => Reached(mark))
    BY DEF Sound, Typed, Passed
  <2>3. Follows(span, mark)
    BY <2>1, <2>2 DEF Follows
  <2>4. Follows(span, mark)' /\ Due(span)' = Due(span)
    BY <2>2, <2>3, FollowsStays
  <2>5. w \notin Planned => Due(span) \subseteq session'[w].raw
    BY <1>6, SearchFindsDue
  <2> QED
    BY <1>6, <2>4, <2>5 DEF Retrieved
<1> QED
  BY <1>3, <1>4, <1>5, <1>6 DEF StepOf, SessionStep

LEMMA ResultPasses ==
  ASSUME Sound, Passed, NEW w \in Workflows, StepOf(w)
  PROVE  Concluded(w, results[w])'
<1>1. ASSUME NEW window, NEW before, NEW papers,
             before \in Instants \cup {None},
             Follows(window, before), w \notin Planned => Due(window) \subseteq papers,
             results'[w].window = window, results'[w].before = before, results'[w].papers = papers
      PROVE  Concluded(w, results[w])'
  <2>1. Follows(window, before)' /\ Due(window)' = Due(window)
    BY <1>1, FollowsStays
  <2> QED
    BY <1>1, <2>1 DEF Concluded
<1>2. ASSUME results[w].status # "ABSENT", Same(results[w], results'[w])
      PROVE  Concluded(w, results[w])'
  <2>1. /\ Follows(results[w].window, results[w].before)
        /\ w \notin Planned => Due(results[w].window) \subseteq results[w].papers
        /\ results[w].before \in Instants \cup {None}
    BY <1>2 DEF Passed, Concluded, Sound, Typed, ResultType
  <2> QED
    BY <1>1, <1>2, <2>1 DEF Same
<1>3. ASSUME thread[w].node = "analyze_applicability", session[w].window # None, Same(session[w], results'[w])
      PROVE  Concluded(w, results[w])'
  <2>1. /\ Follows(session[w].window, session[w].before)
        /\ w \notin Planned => Due(session[w].window) \subseteq session[w].papers
        /\ session[w].before \in Instants \cup {None}
    BY <1>3 DEF Passed, Retrieved, Filtering, Sound, Typed, SessionType
  <2> QED
    BY <1>1, <1>3, <2>1 DEF Same
<1>4. CASE results'[w] = results[w]
  BY <1>2, <1>4 DEF Same, Concluded
<1> QED
  BY <1>2, <1>3, <1>4 DEF StepOf, ResultStep

\* A decided result carries on from what was reached: its end is reached.
LEMMA ResultReaches ==
  ASSUME Sound, Passed, Sound', NEW w \in Workflows, StepOf(w), results'[w].status \in Decided
  PROVE  Reached(watermark)' \/ watermark' # results'[w].window.end
<1> PICK result, at : result = results'[w] /\ at = result.window.end
  OBVIOUS
<1>1. result \in ResultType /\ result.window \in Windows /\ at \in Int /\ result.window.start \in Int
  BY DEF Sound, Typed, AllFit, Fits, Stands, ResultType, Decided, Windows, Instants
<1>2. Concluded(w, result)'
  BY ResultPasses
<1>3. /\ Follows(result.window, result.before)'
      /\ w \notin Planned => Due(result.window)' \subseteq result.papers
  BY <1>2 DEF Concluded, Decided
<1>4. /\ result.papers \subseteq Seen' /\ w \in Done'
      /\ w \in Planned => Within(result.window)' \subseteq Offered'
  BY DEF Seen, Offered, Done
<1>5. \A paper \in Papers : activity'[paper] # None => activity'[paper] \in Int
  BY ResearchAssumption DEF Sound, Typed, WorldTyped, Instants
<1>6. ASSUME NEW paper \in Papers, activity'[paper] # None,
             result.window.start <= activity'[paper], activity'[paper] < at - Overlap
      PROVE  paper \in (Seen \cup Offered)'
  <2>1. Due(result.window)' \subseteq Within(result.window)'
    <3>1. Overlap \in Nat
      BY ResearchAssumption
    <3> QED
      BY <1>1, <1>5, <3>1 DEF Due, Within
  <2> QED
    BY <1>3, <1>4, <1>6, <2>1 DEF Due
<1>7. CASE result.before = None
  <2>1. Covered(at, w)'
    BY <1>6 DEF Covered
  <2> QED
    BY <1>3, <1>4, <1>7, <2>1 DEF Reached, Follows
<1>8. CASE result.before # None
  <2> PICK before : before = result.before
    OBVIOUS
  <2>1. before \in Int /\ result.window.start = before - Overlap /\ Reached(before)'
    BY <1>1, <1>3, <1>8, ResearchAssumption DEF Follows, ResultType, Instants
  <2>2. PICK first \in Done' : results'[first].before = None /\ Covered(before, first)'
    BY <2>1 DEF Reached
  <2>3. ASSUME NEW paper \in Papers, activity'[paper] # None,
               results'[first].window.start <= activity'[paper], activity'[paper] < at - Overlap
        PROVE  paper \in (Seen \cup Offered)'
    <3>1. CASE activity'[paper] < before - Overlap
      BY <2>2, <2>3, <3>1 DEF Covered
    <3>2. CASE ~ (activity'[paper] < before - Overlap)
      <4>1. result.window.start <= activity'[paper]
        BY <1>1, <1>5, <2>1, <2>3, <3>2
      <4> QED
        BY <1>6, <2>3, <4>1
    <3> QED
      BY <3>1, <3>2
  <2>4. Covered(at, first)'
    BY <2>3 DEF Covered
  <2> QED
    BY <1>3, <2>2, <2>4 DEF Reached, Follows
<1> QED
  BY <1>7, <1>8

LEMMA StepPasses ==
  ASSUME Sound, Passed, NothingLeftOut, NEW w \in Workflows, StepOf(w)
  PROVE  Passed'
<1>1. Sound'
  BY SoundStepOf
<1>2. Timely'
  BY DEF Passed, Timely, StepOf, world
<1>3. watermark' # None => Reached(watermark)'
  <2>1. CASE watermark' = watermark
    <3> PICK mark : mark = watermark
      OBVIOUS
    <3>1. mark # None => mark \in Int /\ Reached(mark)
      BY InstantsAreIntegers DEF Sound, Passed
    <3>2. mark # None => Reached(mark)'
      BY <3>1, ReachedStays
    <3> QED
      BY <2>1, <3>2
  <2>2. CASE results'[w].status \in Decided /\ watermark' = results'[w].window.end
    BY <1>1, <2>2, ResultReaches
  <2> QED
    BY <2>1, <2>2 DEF StepOf, WatermarkStep
<1>4. ASSUME NEW v \in Workflows \ {w}
      PROVE  Retrieved(v, session[v], thread[v].node)' /\ Concluded(v, results[v])'
  <2>1. /\ session'[v] = session[v] /\ results'[v] = results[v] /\ thread'[v] = thread[v]
        /\ session[v] \in SessionType /\ results[v] \in ResultType
    BY DEF StepOf, OnlyAt, Sound, Typed
  <2>2. Retrieved(v, session[v], thread[v].node) /\ Concluded(v, results[v])
    BY DEF Passed
  <2> PICK sess, result, node : sess = session[v] /\ result = results[v] /\ node = thread[v].node
    OBVIOUS
  <2>3. Retrieved(v, sess, node)'
    BY <2>1, <2>2, FollowsStays DEF Retrieved, SessionType
  <2>4. Concluded(v, result)'
    BY <2>1, <2>2, FollowsStays DEF Concluded, ResultType
  <2> QED
    BY <2>1, <2>3, <2>4
<1> QED
  BY <1>2, <1>3, <1>4, SessionPasses, ResultPasses DEF Passed

LEMMA PassedInit == Init => Passed
  BY DEF Init, Passed, Timely, Retrieved, Concluded, NoSession, NoResult

LEMMA PassedStep ==
  ASSUME NothingLeftOut
  PROVE  Sound /\ Passed /\ [Next]_vars => Passed'
<1> SUFFICES ASSUME Sound, Passed, [Next]_vars PROVE Passed'
  OBVIOUS
<1>1. CASE UNCHANGED vars
  BY <1>1 DEF vars, world, runtime, Passed, Timely, Reached, Covered, Seen, Offered, Within, Done, Retrieved, Concluded, Follows, Due
<1> QED
  BY <1>1, WorldPasses, StepPasses, EachStep

\* No paper that became active an overlap before the watermark falls between two
\* windows, whatever workflows ran at once, failed, crashed or lost their session: a
\* decided result has assessed it, or a planner had it in the window of a decided
\* result, where the provider's answers to the request's query fit the budget.
THEOREM NoneMissed ==
  ASSUME NothingLeftOut
  PROVE  Spec => []NothingMissed
<1>1. Init => Passed
  BY PassedInit
<1>2. Sound /\ Passed /\ [Next]_vars => Passed'
  BY PassedStep
<1>3. Passed => NothingMissed
  BY DEF Passed, Reached, Covered, NothingMissed
<1> QED
  BY <1>1, <1>2, <1>3, AlwaysSound, PTL DEF Spec
=============================================================================
