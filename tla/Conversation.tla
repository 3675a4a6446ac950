---------------------------- MODULE Conversation ----------------------------
(***************************************************************************)
(* The conversational agent: the session of cli/conversation.py with its   *)
(* working context in memory, the context file of                          *)
(* services/conversation_context.py, and the supervisor graph of           *)
(* workflows/supervisor.py that delegates to the two workers of            *)
(* agents/workers.py.                                                      *)
(*                                                                         *)
(* One turn is handled at a time.  A worker is what its own workflow says  *)
(* of it: it fails, or waits at its gate and then                          *)
(* succeeds, fails or is rejected.  The checkpoints of a request are in    *)
(* memory: a process that dies loses the request and keeps the file.       *)
(***************************************************************************)
EXTENDS Naturals, Sequences, FiniteSets

CONSTANTS
    Papers,
    Urls,
    LinksOf,      \* the canonical code URLs of a paper
    Unfit,        \* papers CurrentPaperContext refuses (title, links, arXiv id)
    Profiles,     \* the safe facts a dataset profile projects to
    Goals,        \* the requests a user may type
    None          \* the absent value

\* What supported_targets and the word lists of decide see in a request.
Goal == [papers : SUBSET Papers, urls : SUBSET Urls,
         code : BOOLEAN, declined : BOOLEAN, research : BOOLEAN]
\* A repository that was read, with the facts and the paper that were current then.
Repositories == [url : Urls, profile : Profiles \cup {None}, paper : Papers \cup {None}]

ASSUME ConversationAssumption ==
    /\ LinksOf \in [Papers -> SUBSET Urls]
    /\ Unfit \subseteq Papers
    /\ Goals \subseteq Goal
    /\ None \notin Papers \cup Urls \cup Profiles
    /\ None \notin Repositories

VARIABLES
    memory,       \* the working context of the session
    stored,       \* the context file
    profileFile,  \* the file --dataset-profile names, None when it is invalid
    session       \* the session, its turn and the SupervisorState of its request

vars == <<memory, stored, profileFile, session>>

PaperGoal(paper) == [papers |-> {paper}, urls |-> {},
                     code |-> FALSE, declined |-> FALSE, research |-> TRUE]
UrlGoal(url) == [papers |-> {}, urls |-> {url},
                 code |-> TRUE, declined |-> FALSE, research |-> FALSE]

Tasks == [worker : {"research"}, target : Papers \cup {None}]
            \cup [worker : {"code"}, target : Urls]
MaxDelegations == 3

Empty == [paper |-> None, repository |-> None, artifact |-> None, profile |-> None]

\* supervised: the session has a supervisor policy, as the command line's has.
\* paper and chosen are history.
Down == [phase |-> "DOWN", configured |-> FALSE, supervised |-> FALSE,
         goal |-> None, context |-> {}, observations |-> <<>>, task |-> None, slate |-> {},
         paper |-> None, chosen |-> {}, refused |-> FALSE, warned |-> FALSE]

\* A turn begins with nothing observed.
Turn(phase, goal, context) ==
    [Down EXCEPT !.phase = phase, !.configured = session.configured,
                 !.supervised = session.supervised, !.goal = goal, !.context = context,
                 !.paper = memory.paper]

Init ==
    /\ memory = Empty
    /\ stored = Empty
    /\ profileFile \in Profiles \cup {None}
    /\ session = Down

-----------------------------------------------------------------------------
(***************************************************************************)
(* The working context.                                                    *)
(***************************************************************************)
PaperArtifact(paper) == IF paper = None THEN None ELSE [kind |-> "PAPER", of |-> paper]

\* Mutant: changed facts keep the repository that was read for the old ones.
Configured_KeepsCode(context) == [context EXCEPT !.profile = profileFile]

\* The explicit file replaces the profile; changed facts drop the repository.
Configured(context) ==
    IF profileFile = context.profile THEN context
    ELSE [context EXCEPT !.profile = profileFile, !.repository = None,
                         !.artifact = PaperArtifact(context.paper)]

\* Mutant: a new paper keeps the repository of the one before.
WithPaper_KeepsCode(paper) ==
    [memory EXCEPT !.paper = paper, !.artifact = PaperArtifact(paper)]

\* _set_current_paper_from_assessment; the repository's paper is history.
WithPaper(paper) ==
    [memory EXCEPT !.paper = paper, !.repository = None, !.artifact = PaperArtifact(paper)]

\* _set_current_repository_from_result
WithRepository(url) ==
    [memory EXCEPT
        !.repository = [url |-> url, profile |-> memory.profile, paper |-> memory.paper],
        !.artifact = [kind |-> "CODE", of |-> url]]

\* _persist_context after a change of memory, and what the caller makes of it.
Remembers(context, next, announces) ==
    /\ memory' = context
    /\ \/ stored' = context /\ session' = next
       \/ /\ session' = [next EXCEPT !.refused = TRUE, !.warned = @ \/ announces]
          /\ UNCHANGED stored

Forgets(next) == session' = next /\ UNCHANGED <<memory, stored>>

\* A paper that cannot be projected is answered like a refused save.
RemembersPaper(paper, next, announces) ==
    IF paper \in Unfit
    THEN Forgets([next EXCEPT !.refused = TRUE, !.warned = @ \/ announces])
    ELSE Remembers(WithPaper(paper), next, announces)

-----------------------------------------------------------------------------
(***************************************************************************)
(* The session and the world around it.                                    *)
(***************************************************************************)
\* agent.run and ConversationSession.__init__
Start(configured, supervised) ==
    /\ session.phase = "DOWN"
    /\ configured => profileFile # None
    /\ LET context == IF configured THEN Configured(stored) ELSE stored
       IN  /\ memory' = context
           /\ \/ UNCHANGED stored
              \/ configured /\ stored' = context
    /\ session' = [Down EXCEPT !.phase = "IDLE", !.configured = configured,
                               !.supervised = supervised]
    /\ UNCHANGED profileFile

\* The user exits, the process dies, or an exception handle does not catch ends it.
Leave ==
    /\ session.phase # "DOWN"
    /\ session' = Down
    /\ memory' = Empty
    /\ UNCHANGED <<stored, profileFile>>

ChangeProfile(facts) ==
    /\ facts # profileFile
    /\ profileFile' = facts
    /\ UNCHANGED <<memory, stored, session>>

Listening == session.phase = "IDLE"

\* /clear; a refused save clears nothing.
Clear ==
    /\ Listening
    /\ memory' = Empty
    /\ stored' = Empty
    /\ session' = Turn("IDLE", None, {})
    /\ UNCHANGED profileFile

\* _run_pipeline, when the sample succeeds.
RunPipeline ==
    /\ Listening
    /\ Remembers([memory EXCEPT !.artifact = [kind |-> "PIPELINE", of |-> None]],
                 Turn("IDLE", None, {}), TRUE)
    /\ UNCHANGED profileFile

\* _run_supervisor up to the graph: an invalid file ends the turn before any call.
Ask(goal) ==
    /\ session.supervised
    /\ Listening
    /\ session.configured => profileFile # None
    /\ memory' = IF session.configured THEN Configured(memory) ELSE memory
    /\ session' = Turn("DECIDE", goal,
                     IF memory.paper = None THEN {} ELSE LinksOf[memory.paper])
    /\ UNCHANGED <<stored, profileFile>>

AnalyzeCurrentPaper == memory.paper # None /\ Ask(PaperGoal(memory.paper))
AnalyzeCurrentRepository == memory.repository # None /\ Ask(UrlGoal(memory.repository.url))

\* Without a supervisor a command runs its worker.
Run(task) ==
    /\ ~ session.supervised
    /\ Listening
    /\ session' = [Turn("DELEGATE", None, {}) EXCEPT !.task = task]
    /\ UNCHANGED <<memory, stored, profileFile>>

\* /continue: the one link of the current paper.
Continue ==
    /\ memory.paper # None
    /\ \E url \in Urls :
        /\ LinksOf[memory.paper] = {url}
        /\ Ask(UrlGoal(url)) \/ Run([worker |-> "code", target |-> url])

-----------------------------------------------------------------------------
(***************************************************************************)
(* decide                                                                  *)
(***************************************************************************)
Observed == session.observations # <<>>
Last == session.observations[Len(session.observations)]
Completed == {[worker |-> seen.worker, target |-> seen.target] :
                 seen \in {session.observations[i] : i \in DOMAIN session.observations}}

\* A worker that did not succeed is the end of the request.
GivesUp == Observed /\ Last.status # "success"

Finish == session' = [session EXCEPT !.phase = "IDLE", !.task = None, !.slate = {}]

\* Mutant: the links of the paper current at the start stay allowed.
EvidenceUrls_Union == session.context \cup IF Observed THEN Last.urls ELSE {}

\* A fresh observation supersedes the context of the request.
EvidenceUrls == IF Observed THEN Last.urls ELSE session.context

Justified(task) ==
    LET goal == session.goal IN
    /\ Len(session.observations) < MaxDelegations
    /\ task \notin Completed
    /\ task.worker = "research" =>
        /\ goal.urls # {} /\ goal.papers = {} => goal.research
        /\ task.target \in goal.papers \cup {None}
    /\ task.worker = "code" =>
        /\ task.target \in goal.urls \cup EvidenceUrls
        /\ goal.urls # {} \/ goal.code
        /\ ~ goal.declined

Decide(task) ==
    /\ session.phase = "DECIDE"
    /\ ~ GivesUp
    /\ Justified(task)
    /\ session' = [session EXCEPT !.phase = "DELEGATE", !.task = task]
    /\ UNCHANGED <<memory, stored, profileFile>>

\* Mutant: a refused proposal is asked for again.
Refuse_AsksAgain == session.phase = "DECIDE" /\ UNCHANGED vars

\* finish, a proposal that is refused, a provider that fails, a budget at its end.
Refuse ==
    /\ session.phase = "DECIDE"
    /\ Finish
    /\ UNCHANGED <<memory, stored, profileFile>>

-----------------------------------------------------------------------------
(***************************************************************************)
(* delegate and the workers                                                *)
(***************************************************************************)
\* Where the turn goes when the worker has answered.
Answered(status, urls) ==
    IF session.supervised
    THEN [session EXCEPT !.phase = "DECIDE", !.task = None, !.slate = {},
              !.observations = Append(@, [worker |-> session.task.worker,
                  target |-> session.task.target, status |-> status, urls |-> urls])]
    ELSE [session EXCEPT !.phase = "IDLE", !.task = None, !.slate = {}]

Working(worker) == session.phase = "DELEGATE" /\ session.task.worker = worker

\* The worker fails before its gate or after it, finds nothing, or raises.
WorkerFails ==
    /\ session.phase \in {"DELEGATE", "PAPER_GATE", "CODE_GATE"}
    /\ \/ session' = Answered("failed", {})
       \/ session.phase = "DELEGATE" /\ session' = Answered("no_results", {})
       \/ Finish
    /\ UNCHANGED <<memory, stored, profileFile>>

\* _analyze_arxiv: no gate, and a memory that is not saved is announced.
AnalyzePaper ==
    /\ Working("research")
    /\ session.task.target # None
    /\ LET paper == session.task.target
       IN RemembersPaper(paper, [Answered("success", LinksOf[paper]) EXCEPT !.chosen = {paper}],
                         TRUE)
    /\ UNCHANGED profileFile

Search ==
    /\ Working("research")
    /\ session.task.target = None
    /\ \E slate \in (SUBSET Papers) \ {{}} :
        session' = [session EXCEPT !.phase = "PAPER_GATE", !.slate = slate]
    /\ UNCHANGED <<memory, stored, profileFile>>

\* Only the turn without a supervisor looks at what the save returned.
Announced == ~ session.supervised

\* The human approves the slate or edits it; one selected paper becomes current.
Select(selected) ==
    /\ session.phase = "PAPER_GATE"
    /\ selected \in (SUBSET session.slate) \ {{}}
    /\ LET links == UNION {LinksOf[paper] : paper \in selected}
           next == [Answered("success", IF Cardinality(selected) = 1 THEN links ELSE {})
                       EXCEPT !.chosen = selected]
       IN  \/ \E paper \in selected : selected = {paper} /\ RemembersPaper(paper, next, Announced)
           \/ Cardinality(selected) > 1 /\ Forgets(next)
    /\ UNCHANGED profileFile

AskForCode ==
    /\ Working("code")
    /\ session' = [session EXCEPT !.phase = "CODE_GATE"]
    /\ UNCHANGED <<memory, stored, profileFile>>

Reject ==
    /\ session.phase \in {"PAPER_GATE", "CODE_GATE"}
    /\ session' = Answered("rejected", {})
    /\ UNCHANGED <<memory, stored, profileFile>>

ReadCode ==
    /\ session.phase = "CODE_GATE"
    /\ Remembers(WithRepository(session.task.target), Answered("success", {}), Announced)
    /\ UNCHANGED profileFile

-----------------------------------------------------------------------------
Work ==
    \/ Refuse \/ (\E task \in Tasks : Decide(task))
    \/ (session.phase = "DELEGATE" /\ WorkerFails) \/ AnalyzePaper \/ Search \/ AskForCode

Human ==
    \/ \E goal \in Goals : Ask(goal)
    \/ \E task \in Tasks : Run(task)
    \/ AnalyzeCurrentPaper \/ AnalyzeCurrentRepository \/ Continue \/ Clear \/ RunPipeline
    \/ \E configured, supervised \in BOOLEAN : Start(configured, supervised)
    \/ Reject \/ ReadCode \/ (\E selected \in SUBSET Papers : Select(selected))
    \/ (session.phase \in {"PAPER_GATE", "CODE_GATE"} /\ WorkerFails)

World == Leave \/ \E facts \in Profiles \cup {None} : ChangeProfile(facts)

Next == Work \/ Human \/ World

Spec == Init /\ [][Next]_vars

\* The session goes on with its turn; nothing is assumed of the user.
FairSpec == Spec /\ WF_vars(Work)

-----------------------------------------------------------------------------
(***************************************************************************)
(* Properties.                                                             *)
(***************************************************************************)
\* The current repository was read for the target facts beside it, in memory and
\* on disk, across profile changes, refused saves and restarts
\* ("changed safe facts clear stale Code context").
RepositoryOfItsProfile ==
    \A context \in {memory, stored} :
        context.repository # None => context.repository.profile = context.profile

\* The current repository was read with the current paper beside it, and the last
\* artifact is never that of a paper or a repository the context has dropped.
RepositoryAfterPaper ==
    \A context \in {memory, stored} :
        /\ context.repository # None => context.repository.paper = context.paper
        /\ context.artifact # None =>
            /\ context.artifact.kind = "PAPER" => context.artifact.of = context.paper
            /\ context.artifact.kind = "CODE" =>
                context.repository # None /\ context.artifact.of = context.repository.url

\* A repository the user did not name is read only when the one paper chosen in
\* this request links it or, before any is chosen, the paper current at its start
\* ("untrusted proposals cannot add tools or targets").
CodeFollowsEvidence ==
    (session.supervised /\ session.task # None) =>
        LET url == session.task.target
            evidence == IF session.chosen # {} THEN session.chosen ELSE {session.paper} \ {None}
        IN  session.task.worker = "code" /\ url \notin session.goal.urls =>
                \E paper \in evidence : evidence = {paper} /\ url \in LinksOf[paper]

\* A request that is not interrupted comes to a gate or to its end.
Settles ==
    session.phase \in {"DECIDE", "DELEGATE"} ~>
        session.phase \in {"IDLE", "PAPER_GATE", "CODE_GATE", "DOWN"}

\* The same of every turn.
RefusedSaveIsSaid == session.refused => session.warned

\* "New paper selection also clears old Code context."
SelectionClearsCode ==
    [][session'.chosen # session.chosen /\ session'.chosen # {} => memory'.repository = None]_vars
=============================================================================
