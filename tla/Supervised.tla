----------------------------- MODULE Supervised -----------------------------
(***************************************************************************)
(* One supervised request: the graph of workflows/supervisor.py, the       *)
(* policy of adapters/llm/supervisor.py, the workers of agents/workers.py  *)
(* as _run_supervisor of cli/conversation.py binds them, with the research *)
(* loop and the repository analysis inside and one budget of model calls   *)
(* for all of them.  What the session remembers of it is Conversation's.   *)
(***************************************************************************)
EXTENDS PaperLoop, RepositoryInsight

CONSTANTS
    Urls,
    LinksOf,            \* the canonical code URLs of a record
    Goals,              \* the requests a user may type
    ContextUrls,        \* the code URLs of the current paper
    MaxDelegations,     \* 3
    None                \* the absent value

\* What supported_targets and the word lists of decide see in a request.
Goal == [papers : SUBSET Records, urls : SUBSET Urls,
         code : BOOLEAN, declined : BOOLEAN, research : BOOLEAN]

ASSUME SupervisedAssumption ==
    /\ LinksOf \in [Records -> SUBSET Urls]
    /\ Goals \subseteq Goal
    /\ ContextUrls \subseteq Urls
    /\ MaxDelegations \in Nat
    /\ None \notin Records \cup Urls

VARIABLES
    request,      \* the SupervisorState, its task and what the task waits for
    slate         \* the recommended assessments of papers.json

vars == <<request, slate, paperVars, insightVars, callVars>>

Tasks == [worker : {"research"}, target : Records \cup {None}]
            \cup [worker : {"code"}, target : Urls]
Policy == "POLICY"

Init ==
    /\ \E goal \in Goals :
          request = [phase |-> "DECIDE", goal |-> goal, attempt |-> 1, task |-> None,
                     observations |-> <<>>, failure |-> None]
    /\ slate = {}
    /\ PaperInit
    /\ InsightInit
    /\ CallInit

-----------------------------------------------------------------------------
(***************************************************************************)
(* decide                                                                  *)
(***************************************************************************)
Observed == request.observations # <<>>
Latest == Last(request.observations)
Completed == {[worker |-> seen.worker, target |-> seen.target] : seen \in ToSet(request.observations)}

\* A fresh observation supersedes the context of the session.
EvidenceUrls == IF Observed THEN Latest.urls ELSE ContextUrls

Justified(task) ==
    LET goal == request.goal IN
    /\ Len(request.observations) < MaxDelegations
    /\ task \notin Completed
    /\ task.worker = "research" =>
        /\ goal.urls # {} /\ goal.papers = {} => goal.research
        /\ task.target \in goal.papers \cup {None}
    /\ task.worker = "code" =>
        /\ task.target \in goal.urls \cup EvidenceUrls
        /\ goal.urls # {} \/ goal.code
        /\ ~ goal.declined

Stops(failure) ==
    request' = [request EXCEPT !.phase = "END", !.task = None, !.failure = failure]

\* A worker that did not succeed is the end of the request, and no call is made.
GivesUp == Observed /\ Latest.status # "success"

\* Mutant: only a rejection is taken for an end.
GiveUp_Rejected ==
    /\ request.phase = "DECIDE"
    /\ Observed
    /\ Latest.status = "rejected"
    /\ Stops(None)
    /\ UNCHANGED <<slate, paperVars, insightVars, callVars>>

GiveUp ==
    /\ request.phase = "DECIDE"
    /\ GivesUp
    /\ Stops(None)
    /\ UNCHANGED <<slate, paperVars, insightVars, callVars>>

\* Mutant: the second attempt is not charged.
Deciding_FreeCorrection ==
    /\ request.phase = "DECIDE"
    /\ ~ GivesUp
    /\ IF request.attempt = 2 THEN called' = called + 1 /\ UNCHANGED used ELSE Call
    /\ UNCHANGED <<slate, paperVars, insightVars>>

\* A charged attempt of the policy.
Deciding ==
    /\ request.phase = "DECIDE"
    /\ ~ GivesUp
    /\ Call
    /\ UNCHANGED <<slate, paperVars, insightVars>>

Propose(task) ==
    /\ Deciding
    /\ Justified(task)
    /\ request' = [request EXCEPT !.phase = "DELEGATE", !.attempt = 1, !.task = task]

\* finish, a proposal that is not justified, or a provider that fails.
Conclude == Deciding /\ (Stops(None) \/ Stops(Policy))

\* A response that is no proposal is corrected once.
Correct ==
    /\ Deciding
    /\ IF request.attempt = 1 THEN request' = [request EXCEPT !.attempt = 2] ELSE Stops(Policy)

OutOfCalls ==
    /\ request.phase = "DECIDE"
    /\ ~ GivesUp
    /\ Exhausted
    /\ Stops("BUDGET")
    /\ UNCHANGED <<slate, paperVars, insightVars, callVars>>

-----------------------------------------------------------------------------
(***************************************************************************)
(* delegate: the worker's answer is observed, what it raises ends the      *)
(* request.                                                                *)
(***************************************************************************)
Working(worker) == request.phase = "DELEGATE" /\ request.task.worker = worker

Observes(status, urls) ==
    request' = [request EXCEPT !.phase = "DECIDE", !.attempt = 1, !.task = None,
                  !.observations = Append(@, [worker |-> request.task.worker,
                     target |-> request.task.target, status |-> status, urls |-> urls])]

WorkerRaises == Stops("WORKER")

Targeted == Working("research") /\ request.task.target # None

\* _analyze_arxiv: one structured call, which DashScopeStructuredLLM corrects once.
\* Whatever fails is the failed result, but for the budget.
AnalyzeArxiv ==
    /\ Targeted
    /\ \/ Observes("failed", {}) /\ request.attempt = 1 /\ UNCHANGED callVars
       \/ Exhausted /\ Stops("BUDGET") /\ UNCHANGED callVars
       \/ /\ Call
          /\ \/ Observes("success", LinksOf[request.task.target])
             \/ Observes("failed", {})
             \/ request.attempt = 1 /\ request' = [request EXCEPT !.attempt = 2]
    /\ UNCHANGED <<slate, paperVars, insightVars>>

Searching == Working("research") /\ request.task.target = None

StartResearch ==
    /\ Searching
    /\ slate = {}
    /\ PaperStart
    /\ UNCHANGED <<request, slate, insightVars>>

ResearchWorks == Searching /\ PaperStep /\ UNCHANGED <<request, slate, insightVars>>

ResearchAnswers(phases) == Searching /\ loop.phase \in phases /\ PaperClear

\* A loop that failed is a result of the worker, an exhausted budget is not.
ResearchFails ==
    /\ \/ ResearchAnswers({"FAILED"}) /\ Observes("failed", {})
       \/ ResearchAnswers({"EXHAUSTED"}) /\ Stops("BUDGET")
    /\ slate' = {}
    /\ UNCHANGED <<insightVars, callVars>>

\* analyze_applicability: some of the assessed papers are recommended.
Rank ==
    /\ Searching
    /\ loop.phase = "DONE"
    /\ slate = {}
    /\ \E recommended \in SUBSET submitted :
        \/ /\ recommended # {}
           /\ slate' = recommended
           /\ UNCHANGED <<request, paperVars>>
        \/ /\ recommended = {}
           /\ Observes("no_results", {}) \/ Observes("failed", {})
           /\ PaperClear
           /\ UNCHANGED slate
    /\ UNCHANGED <<insightVars, callVars>>

Links(paper) == UNION {LinksOf[record] : record \in paper.of}

\* candidate_selection_gate and finalize_research_selection; the result may be refused.
Select(selected) ==
    /\ ResearchAnswers({"DONE"})
    /\ selected \in (SUBSET slate) \ {{}}
    /\ \/ Observes("success", UNION {Links(paper) : paper \in
                       {paper \in selected : Cardinality(selected) = 1}})
       \/ Observes("failed", {})
    /\ slate' = {}
    /\ UNCHANGED <<insightVars, callVars>>

\* REJECT; an EDIT outside the slate raises.
Refuse ==
    /\ ResearchAnswers({"DONE"})
    /\ slate # {}
    /\ Observes("rejected", {}) \/ WorkerRaises
    /\ slate' = {}
    /\ UNCHANGED <<insightVars, callVars>>

StartCode == Working("code") /\ InsightStart /\ UNCHANGED <<request, slate, paperVars>>

CodeWorks == Working("code") /\ InsightStep /\ UNCHANGED <<request, slate, paperVars>>

CodeGate(decision) ==
    Working("code") /\ SnapshotGate(decision) /\ UNCHANGED <<request, slate, paperVars>>

CodeStatus(phase) ==
    CASE phase = "COMPLETED" -> "success"
      [] phase = "REJECTED" -> "rejected"
      [] phase = "FAILED" -> "failed"

CodeAnswers ==
    /\ Working("code")
    /\ \/ /\ insight.phase \in {"COMPLETED", "REJECTED", "FAILED"}
          /\ Observes(CodeStatus(insight.phase), {})
       \/ insight.phase = "EXHAUSTED" /\ Stops("BUDGET")
       \/ insight.phase \in {"RAISED", "COMPLETED"} /\ WorkerRaises
    /\ InsightClear
    /\ UNCHANGED <<slate, paperVars, callVars>>

Work ==
    \/ GiveUp \/ Conclude \/ Correct \/ OutOfCalls \/ (\E task \in Tasks : Propose(task))
    \/ AnalyzeArxiv \/ StartResearch \/ ResearchWorks \/ ResearchFails \/ Rank
    \/ StartCode \/ CodeWorks \/ CodeAnswers

Human ==
    \/ \E selected \in SUBSET slate : Select(selected)
    \/ Refuse
    \/ \E decision \in {"APPROVE", "EDIT", "REJECT"} : CodeGate(decision)

Next == Work \/ Human

Spec == Init /\ [][Next]_vars

\* The event loop of the session goes on; nothing is assumed of the human.
FairSpec == Spec /\ WF_vars(Work)

-----------------------------------------------------------------------------
(***************************************************************************)
(* Properties.                                                             *)
(***************************************************************************)
Paper == [id : {IdOf[r] : r \in Records}, at : {Activity(r) : r \in Records}, of : SUBSET Records]

Observation == [worker : {"research", "code"}, target : Records \cup Urls \cup {None},
                status : {"success", "rejected", "failed", "no_results"}, urls : SUBSET Urls]

\* Every variable keeps its type.
TypeOK ==
    /\ request.phase \in {"DECIDE", "DELEGATE", "END"}
    /\ request.goal \in Goals
    /\ request.task \in Tasks \cup {None}
    /\ request.failure \in {None, Policy, "BUDGET", "WORKER"}
    /\ ToSet(request.observations) \subseteq Observation
    /\ Len(request.observations) <= MaxDelegations
    /\ slate \subseteq submitted
    /\ \A paper \in papers \cup submitted : paper \in Paper
    /\ inspected \subseteq {IdOf[r] : r \in Records}
    /\ loop.phase \in {"OFF", "MODEL", "FETCH", "DONE", "FAILED", "EXHAUSTED"}
    /\ insight.phase \in {"OFF", "GATE", "ANALYZE", "MODEL", "WRITE"} \cup Ended
    /\ reads \subseteq Paths /\ executed \subseteq Tools /\ files \subseteq ToSet(Artifacts)

Shares(r, s) == ToSet(IdentitiesOf[r]) \cap ToSet(IdentitiesOf[s]) # {}

\* A work is a set of retrieved records that shared identities hold together, and
\* that shares none with any other.
Works ==
    {work \in (SUBSET ToSet(raw)) \ {{}} :
        /\ \A part \in (SUBSET work) \ {{}, work} : \E r \in part, s \in work \ part : Shares(r, s)
        /\ \A r \in work, s \in ToSet(raw) \ work : ~ Shares(r, s)}

\* The activity of a work is that of the records that were updated last.
LastUpdated(work) == {r \in work : \A s \in work : UpdatedOf[s] <= UpdatedOf[r]}
LatestActivity(work) == Max({Activity(r) : r \in LastUpdated(work)})

\* Whatever the order of the pages and of the two searches, the papers a model is
\* shown are the works of the retrieved records, each once and under an id of its
\* own, with the activity of its last update, and only those of the window.
PapersAreWorks ==
    /\ {paper.of : paper \in papers} =
            {work \in Works : /\ Window.start <= LatestActivity(work)
                              /\ LatestActivity(work) <= Window.end}
    /\ \A paper \in papers :
          /\ paper.at = LatestActivity(paper.of)
          /\ \A other \in papers : paper.id = other.id => paper = other

\* Both searches together, the one that is running included, stay within the pages
\* and records of the request.
BudgetShared ==
    /\ loop.pages + fetch.pages <= MaxPages
    /\ Len(raw) + Len(fetch.got) <= MaxRecords

\* What the code loop hands over passes the validators of its trace and its result.
AdviceValidates ==
    insight.phase \in {"WRITE", "COMPLETED"} =>
        /\ Tools \subseteq executed
        /\ Cardinality(Tools) <= insight.turns /\ insight.turns <= MaxCodeTurns
        /\ reads # {} /\ Cardinality(reads) <= MaxReads
        /\ advice # {} /\ advice \subseteq reads

\* A result on disk has its three other files beside it, at every moment; and what
\* the supervisor observes as a success is whole.
ArtifactsWhole ==
    /\ "repository-insight.json" \in files => files = ToSet(Artifacts)
    /\ Observed /\ request.phase = "DECIDE" /\ Latest.worker = "code" /\ Latest.status = "success" =>
          files = ToSet(Artifacts)

\* No source is read and nothing is written for a repository before its own
\* approval, and none after another answer.
NothingReadUnapproved ==
    reads # {} \/ files # {} \/ insight.phase \in {"ANALYZE", "MODEL"} => recorded = {"APPROVE"}

Busy == loop.phase \in {"MODEL", "FETCH"} \/ insight.phase = "MODEL"

Abstract == INSTANCE TurnLoop WITH
    Limit <- IF MaxTurns > MaxCodeTurns THEN MaxTurns ELSE MaxCodeTurns,
    busy <- Busy,
    turns <- IF Busy THEN loop.turns + insight.turns ELSE 0,
    calls <- called

\* The detailed request makes its calls as TurnLoop says.
IsTurnLoop == Abstract!Spec

\* The request comes to its end or waits for a human.
RequestEnds ==
    request.phase = "DECIDE"
        ~> request.phase = "END" \/ insight.phase = "GATE" \/ slate # {}
=============================================================================
