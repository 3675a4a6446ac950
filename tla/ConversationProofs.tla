------------------------- MODULE ConversationProofs -------------------------
(***************************************************************************)
(* Theorems about Conversation, for every set of papers, links, profiles   *)
(* and goals, over any sequence of turns, restarts and refused saves.      *)
(***************************************************************************)
EXTENDS Conversation, SequenceTheorems, FiniteSetTheorems, TLAPS

-----------------------------------------------------------------------------
(***************************************************************************)
(* The inductive invariant.                                                *)
(***************************************************************************)
MaybePaper == Papers \cup {None}
Facts == Profiles \cup {None}

Artifacts == [kind : {"PAPER", "CODE", "PIPELINE"}, of : MaybePaper \cup Urls]

Contexts == [paper : MaybePaper, repository : Repositories \cup {None},
             artifact : Artifacts \cup {None}, profile : Facts]

Observations == [worker : {"research", "code"}, target : MaybePaper \cup Urls,
                 status : {"success", "failed", "no_results", "rejected"}, urls : SUBSET Urls]

Asleep == {"DOWN", "IDLE"}
Delegated == {"DELEGATE", "PAPER_GATE", "CODE_GATE"}

Sessions == [phase : Asleep \cup Delegated \cup {"DECIDE"}, configured : BOOLEAN, supervised : BOOLEAN,
             goal : Goal \cup {None}, context : SUBSET Urls, observations : Seq(Observations),
             task : Tasks \cup {None}, slate : SUBSET Papers, paper : MaybePaper,
             chosen : SUBSET Papers, refused : BOOLEAN, warned : BOOLEAN]

Typed ==
    /\ memory \in Contexts
    /\ stored \in Contexts
    /\ profileFile \in Facts
    /\ session \in Sessions

\* What a context remembers belongs together.
Coherent(context) ==
    /\ context.repository # None =>
        context.repository.profile = context.profile /\ context.repository.paper = context.paper
    /\ context.artifact # None =>
        /\ context.artifact.kind = "PAPER" => context.artifact.of = context.paper
        /\ context.artifact.kind = "CODE" =>
            context.repository # None /\ context.artifact.of = context.repository.url

\* There is a task while a worker has it, and at no other time.
Tasked(turn) ==
    /\ turn.phase \in Delegated => turn.task \in Tasks
    /\ turn.phase \notin Delegated => turn.task = None
    /\ turn.phase = "CODE_GATE" => turn.task.worker = "code"

LastOf(turn) == turn.observations[Len(turn.observations)]

\* The links that a task may come from are those of the paper the request began with,
\* or of the one paper it has chosen since.
Evidenced(turn) ==
    turn.supervised /\ turn.phase \notin Asleep =>
        /\ turn.context = IF turn.paper = None THEN {} ELSE LinksOf[turn.paper]
        /\ turn.observations = <<>> => turn.chosen = {}
        /\ turn.observations # <<>> =>
              \/ LastOf(turn).urls = {}
              \/ \E paper \in Papers : turn.chosen = {paper} /\ LastOf(turn).urls = LinksOf[paper]

\* CodeFollowsEvidence, of any turn.
Followed(turn) ==
    (turn.supervised /\ turn.task # None) =>
        LET evidence == IF turn.chosen # {} THEN turn.chosen ELSE {turn.paper} \ {None}
        IN  turn.task.worker = "code" /\ turn.task.target \notin turn.goal.urls =>
                \E paper \in evidence : evidence = {paper} /\ turn.task.target \in LinksOf[paper]

TurnSound(turn) == turn \in Sessions /\ Tasked(turn) /\ Evidenced(turn) /\ Followed(turn)

ContextSound(context) == context \in Contexts /\ Coherent(context)

Sound ==
    /\ ContextSound(memory)
    /\ ContextSound(stored)
    /\ profileFile \in Facts
    /\ TurnSound(session)

-----------------------------------------------------------------------------
(***************************************************************************)
(* The contexts that are made.                                             *)
(***************************************************************************)
LEMMA EmptySound == ContextSound(Empty)
  BY DEF ContextSound, Contexts, Coherent, Empty, MaybePaper, Facts

LEMMA PaperArtifactTyped ==
  ASSUME NEW paper \in MaybePaper
  PROVE  /\ PaperArtifact(paper) \in Artifacts \cup {None}
         /\ PaperArtifact(paper) # None => PaperArtifact(paper) = [kind |-> "PAPER", of |-> paper]
  BY DEF PaperArtifact, Artifacts

\* Facts that changed take the repository with them.
LEMMA ConfiguredSound ==
  ASSUME NEW context, ContextSound(context), profileFile \in Facts
  PROVE  ContextSound(Configured(context)) /\ Configured(context).paper = context.paper
<1>1. CASE profileFile = context.profile
  BY <1>1 DEF Configured
<1>2. CASE profileFile # context.profile
  <2>1. Configured(context) = [context EXCEPT !.profile = profileFile, !.repository = None,
                                              !.artifact = PaperArtifact(context.paper)]
    BY <1>2 DEF Configured
  <2>2. PaperArtifact(context.paper) \in Artifacts \cup {None}
    BY PaperArtifactTyped DEF ContextSound, Contexts
  <2>3. /\ Configured(context) \in Contexts
        /\ Configured(context).repository = None /\ Configured(context).paper = context.paper
        /\ Configured(context).artifact = PaperArtifact(context.paper)
    BY <2>1, <2>2 DEF ContextSound, Contexts
  <2>4. Coherent(Configured(context))
    BY <2>3, PaperArtifactTyped DEF ContextSound, Contexts, Coherent
  <2> QED
    BY <2>3, <2>4 DEF ContextSound
<1> QED
  BY <1>1, <1>2

\* A new paper takes the repository of the one before with it.
LEMMA WithPaperSound ==
  ASSUME ContextSound(memory), NEW paper \in Papers
  PROVE  ContextSound(WithPaper(paper))
<1>1. PaperArtifact(paper) \in Artifacts \cup {None} /\ paper \in MaybePaper
  BY PaperArtifactTyped DEF MaybePaper
<1>2. /\ WithPaper(paper) \in Contexts
      /\ WithPaper(paper).repository = None /\ WithPaper(paper).paper = paper
      /\ WithPaper(paper).artifact = PaperArtifact(paper)
  BY <1>1 DEF WithPaper, ContextSound, Contexts
<1>3. Coherent(WithPaper(paper))
  BY <1>1, <1>2, PaperArtifactTyped DEF Coherent
<1> QED
  BY <1>2, <1>3 DEF ContextSound

\* A repository is remembered with the facts and the paper it was read for.
LEMMA WithRepositorySound ==
  ASSUME ContextSound(memory), NEW url \in Urls
  PROVE  ContextSound(WithRepository(url))
<1> DEFINE read == [url |-> url, profile |-> memory.profile, paper |-> memory.paper]
<1>1. read \in Repositories /\ read # None
  BY ConversationAssumption DEF ContextSound, Contexts, Repositories, MaybePaper, Facts
<1>2. [kind |-> "CODE", of |-> url] \in Artifacts
  BY DEF Artifacts
<1>3. /\ WithRepository(url) \in Contexts
      /\ WithRepository(url).repository = read
      /\ WithRepository(url).artifact = [kind |-> "CODE", of |-> url]
      /\ WithRepository(url).paper = memory.paper /\ WithRepository(url).profile = memory.profile
  BY <1>1, <1>2 DEF WithRepository, ContextSound, Contexts
<1>4. Coherent(WithRepository(url))
  BY <1>1, <1>3 DEF Coherent
<1> QED
  BY <1>3, <1>4 DEF ContextSound

\* The artifact of a pipeline belongs to no paper and to no repository.
LEMMA WithPipelineSound ==
  ASSUME ContextSound(memory)
  PROVE  ContextSound([memory EXCEPT !.artifact = [kind |-> "PIPELINE", of |-> None]])
<1> DEFINE next == [memory EXCEPT !.artifact = [kind |-> "PIPELINE", of |-> None]]
<1>1. [kind |-> "PIPELINE", of |-> None] \in Artifacts
  BY DEF Artifacts, MaybePaper
<1>2. /\ next \in Contexts /\ next.artifact.kind = "PIPELINE"
      /\ next.repository = memory.repository
      /\ next.paper = memory.paper /\ next.profile = memory.profile
  BY <1>1 DEF ContextSound, Contexts
<1>3. Coherent(next)
  BY <1>2 DEF ContextSound, Coherent
<1> QED
  BY <1>2, <1>3 DEF ContextSound

-----------------------------------------------------------------------------
(***************************************************************************)
(* The turns that are made.                                                *)
(***************************************************************************)
\* Whether a save was refused, and said, is no part of what a turn must keep.
LEMMA MarkedSound ==
  ASSUME NEW turn, TurnSound(turn), NEW refused \in BOOLEAN, NEW warned \in BOOLEAN
  PROVE  TurnSound([turn EXCEPT !.refused = refused, !.warned = warned])
<1> DEFINE marked == [turn EXCEPT !.refused = refused, !.warned = warned]
<1>1. /\ marked \in Sessions
      /\ marked.phase = turn.phase /\ marked.supervised = turn.supervised
      /\ marked.goal = turn.goal /\ marked.context = turn.context
      /\ marked.observations = turn.observations /\ marked.task = turn.task
      /\ marked.paper = turn.paper /\ marked.chosen = turn.chosen
  BY DEF TurnSound, Sessions
<1>2. Tasked(marked) /\ Evidenced(marked)
  BY <1>1 DEF TurnSound, Tasked, Evidenced, LastOf
<1>3. Followed(marked)
  BY <1>1 DEF TurnSound, Followed
<1> QED
  BY <1>1, <1>2, <1>3 DEF TurnSound

\* A change of memory, saved or refused.
LEMMA RemembersSound ==
  ASSUME Sound, NEW context, ContextSound(context), NEW next, TurnSound(next),
         NEW announces \in BOOLEAN, Remembers(context, next, announces), UNCHANGED profileFile
  PROVE  Sound'
<1>1. memory' = context /\ ContextSound(memory)'
  BY DEF Remembers, ContextSound, Contexts, Coherent
<1>2. CASE stored' = context /\ session' = next
  BY <1>1, <1>2 DEF Sound, ContextSound, Contexts, Coherent, TurnSound, Sessions, Tasked, Evidenced, LastOf, Followed
<1>3. CASE session' = [next EXCEPT !.refused = TRUE, !.warned = @ \/ announces] /\ UNCHANGED stored
  <2>1. next.warned \/ announces \in BOOLEAN
    BY DEF TurnSound, Sessions
  <2>2. TurnSound([next EXCEPT !.refused = TRUE, !.warned = next.warned \/ announces])
    BY <2>1, MarkedSound
  <2>3. session' = [next EXCEPT !.refused = TRUE, !.warned = next.warned \/ announces]
    BY <1>3
  <2> QED
    BY <1>1, <1>3, <2>2, <2>3 DEF Sound, ContextSound, Contexts, Coherent, TurnSound, Sessions, Tasked,
         Evidenced, LastOf, Followed
<1> QED
  BY <1>1, <1>2, <1>3 DEF Remembers

\* A turn that changes nothing remembered.
LEMMA ForgetsSound ==
  ASSUME Sound, NEW next, TurnSound(next), Forgets(next), UNCHANGED profileFile
  PROVE  Sound'
  BY DEF Forgets, Sound, ContextSound, Contexts, Coherent, TurnSound, Sessions, Tasked, Evidenced, LastOf,
       Followed

LEMMA RemembersPaperSound ==
  ASSUME Sound, NEW paper \in Papers, NEW next, TurnSound(next), NEW announces \in BOOLEAN,
         RemembersPaper(paper, next, announces), UNCHANGED profileFile
  PROVE  Sound'
<1>1. CASE paper \in Unfit
  <2>1. next.warned \/ announces \in BOOLEAN
    BY DEF TurnSound, Sessions
  <2>2. TurnSound([next EXCEPT !.refused = TRUE, !.warned = next.warned \/ announces])
    BY <2>1, MarkedSound
  <2>3. Forgets([next EXCEPT !.refused = TRUE, !.warned = next.warned \/ announces])
    BY <1>1 DEF RemembersPaper
  <2> QED
    BY <2>2, <2>3, ForgetsSound
<1>2. CASE paper \notin Unfit
  <2>1. ContextSound(WithPaper(paper))
    BY WithPaperSound DEF Sound
  <2>2. Remembers(WithPaper(paper), next, announces)
    BY <1>2 DEF RemembersPaper
  <2> QED
    BY <2>1, <2>2, RemembersSound
<1> QED
  BY <1>1, <1>2

\* A turn that begins has observed nothing, chosen nothing and delegated nothing.
LEMMA TurnStarts ==
  ASSUME Sound, NEW phase \in {"IDLE", "DECIDE"}, NEW goal \in Goal \cup {None}, NEW context \in SUBSET Urls,
         phase = "DECIDE" => context = IF memory.paper = None THEN {} ELSE LinksOf[memory.paper]
  PROVE  TurnSound(Turn(phase, goal, context))
<1> DEFINE turn == Turn(phase, goal, context)
<1>1. /\ turn \in Sessions
      /\ turn.phase = phase /\ turn.context = context /\ turn.paper = memory.paper
      /\ turn.observations = <<>> /\ turn.task = None /\ turn.chosen = {}
  <2>1. /\ session.configured \in BOOLEAN /\ session.supervised \in BOOLEAN
        /\ memory.paper \in MaybePaper
    BY DEF Sound, TurnSound, ContextSound, Contexts, Sessions
  <2>2. Down \in Sessions /\ Down.observations = <<>> /\ Down.task = None /\ Down.chosen = {}
    BY DEF Down, Sessions, Asleep, MaybePaper
  <2>3. phase \in Asleep \cup Delegated \cup {"DECIDE"}
    BY DEF Asleep
  <2> QED
    BY <2>1, <2>2, <2>3 DEF Turn, Sessions
<1>2. Tasked(turn) /\ Followed(turn) /\ Evidenced(turn)
  BY <1>1 DEF Tasked, Followed, Evidenced, Asleep, Delegated
<1> QED
  BY <1>1, <1>2 DEF TurnSound

LEMMA DownSound == TurnSound(Down)
<1>1. Down \in Sessions
  BY DEF Down, Sessions, Asleep, MaybePaper
<1>2. Tasked(Down) /\ Evidenced(Down) /\ Followed(Down)
  BY DEF Down, Tasked, Evidenced, Followed, Asleep, Delegated
<1> QED
  BY <1>1, <1>2 DEF TurnSound

LEMMA FinishSound ==
  ASSUME Sound, Finish
  PROVE  TurnSound(session')
<1>1. /\ session' \in Sessions /\ session'.phase = "IDLE" /\ session'.task = None
  BY DEF Finish, Sound, TurnSound, Sessions, Asleep
<1> QED
  BY <1>1 DEF TurnSound, Tasked, Evidenced, Followed, Asleep, Delegated

\* What a worker answers is evidence only as the links of the one paper it chose.
LEMMA AnsweredSound ==
  ASSUME Sound, session.phase \in Delegated,
         NEW status \in {"success", "failed", "no_results", "rejected"},
         NEW urls \in SUBSET Urls, NEW chosen \in SUBSET Papers,
         urls = {} \/ \E paper \in Papers : chosen = {paper} /\ urls = LinksOf[paper]
  PROVE  TurnSound([Answered(status, urls) EXCEPT !.chosen = chosen])
<1> DEFINE answer == [Answered(status, urls) EXCEPT !.chosen = chosen]
           seen == [worker |-> session.task.worker, target |-> session.task.target,
                    status |-> status, urls |-> urls]
<1>1. session \in Sessions /\ session.task \in Tasks
  BY DEF Sound, TurnSound, Tasked
<1>2. seen \in Observations
  BY <1>1 DEF Observations, Tasks, MaybePaper
<1>3. CASE session.supervised
  <2>1. answer = [session EXCEPT !.phase = "DECIDE", !.task = None, !.slate = {},
                     !.observations = Append(session.observations, seen), !.chosen = chosen]
    BY <1>1, <1>3 DEF Answered, Sessions
  <2>2. Append(session.observations, seen) \in Seq(Observations)
    BY <1>1, <1>2 DEF Sessions
  <2>3. /\ answer \in Sessions
        /\ answer.phase = "DECIDE" /\ answer.task = None
        /\ answer.observations = Append(session.observations, seen)
        /\ answer.chosen = chosen /\ answer.context = session.context /\ answer.paper = session.paper
    BY <1>1, <2>1, <2>2 DEF Sessions, Delegated
  <2>4. /\ LastOf(answer) = seen
        /\ answer.observations # <<>>
    BY <1>1, <1>2, <2>3 DEF LastOf, Sessions
  <2>5. session.context = IF session.paper = None THEN {} ELSE LinksOf[session.paper]
    BY <1>3 DEF Sound, TurnSound, Evidenced, Asleep, Delegated
  <2>6. Tasked(answer) /\ Evidenced(answer) /\ Followed(answer)
    BY <2>3, <2>4, <2>5 DEF Tasked, Evidenced, Followed, Delegated
  <2> QED
    BY <2>3, <2>6 DEF TurnSound
<1>4. CASE ~ session.supervised
  <2>1. answer = [session EXCEPT !.phase = "IDLE", !.task = None, !.slate = {}, !.chosen = chosen]
    BY <1>1, <1>4 DEF Answered, Sessions
  <2>2. answer \in Sessions /\ answer.phase = "IDLE" /\ answer.task = None
    BY <1>1, <2>1 DEF Sessions, Asleep
  <2>3. Tasked(answer) /\ Evidenced(answer) /\ Followed(answer)
    BY <2>2 DEF Tasked, Evidenced, Followed, Asleep, Delegated
  <2> QED
    BY <2>2, <2>3 DEF TurnSound
<1> QED
  BY <1>3, <1>4

\* A worker that chose nothing brings no links.
LEMMA PlainlyAnsweredSound ==
  ASSUME Sound, session.phase \in Delegated,
         NEW status \in {"success", "failed", "no_results", "rejected"}
  PROVE  TurnSound(Answered(status, {}))
<1>1. session \in Sessions
  BY DEF Sound, TurnSound
<1>2. session.chosen \in SUBSET Papers
  BY <1>1 DEF Sessions
<1>3. TurnSound([Answered(status, {}) EXCEPT !.chosen = session.chosen])
  BY <1>2, AnsweredSound
<1>4. Answered(status, {}) = [Answered(status, {}) EXCEPT !.chosen = session.chosen]
  BY <1>1 DEF Answered, Sessions
<1> QED
  BY <1>3, <1>4

-----------------------------------------------------------------------------
(***************************************************************************)
(* The steps.                                                              *)
(***************************************************************************)
\* Where only the turn goes on, nothing that is remembered changes.
LEMMA TurnGoesOn ==
  ASSUME Sound, TurnSound(session'), UNCHANGED <<memory, stored, profileFile>>
  PROVE  Sound'
<1>1. Forgets(session')
  BY DEF Forgets
<1> QED
  BY <1>1, ForgetsSound

LEMMA AskSound ==
  ASSUME Sound, NEW goal \in Goal, Ask(goal)
  PROVE  Sound'
<1> DEFINE links == IF memory.paper = None THEN {} ELSE LinksOf[memory.paper]
<1>1. /\ session' = Turn("DECIDE", goal, links)
      /\ memory' = IF session.configured THEN Configured(memory) ELSE memory
      /\ UNCHANGED <<stored, profileFile>>
  BY DEF Ask
<1>2. links \in SUBSET Urls
  BY ConversationAssumption DEF Sound, ContextSound, Contexts, MaybePaper
<1>3. TurnSound(session')
  BY <1>1, <1>2, TurnStarts
<1>4. ContextSound(memory')
  BY <1>1, ConfiguredSound DEF Sound
<1> QED
  BY <1>1, <1>3, <1>4 DEF Sound, ContextSound, Contexts, Coherent, TurnSound, Sessions, Tasked, Evidenced,
       LastOf, Followed

LEMMA RunSound ==
  ASSUME Sound, NEW task \in Tasks, Run(task)
  PROVE  Sound'
<1> DEFINE turn == Turn("IDLE", None, {})
<1>1. TurnSound(turn) /\ turn.supervised = session.supervised
  BY TurnStarts DEF Turn, Down
<1>2. session' = [turn EXCEPT !.phase = "DELEGATE", !.task = task]
  BY DEF Run, Turn, Down
<1>3. session' \in Sessions /\ session'.phase = "DELEGATE" /\ session'.task = task /\ ~ session'.supervised
  BY <1>1, <1>2 DEF TurnSound, Sessions, Delegated, Run
<1>4. TurnSound(session')
  BY <1>3 DEF TurnSound, Tasked, Evidenced, Followed, Delegated
<1> QED
  BY <1>4, TurnGoesOn DEF Run

\* A task is delegated on the evidence that there is.
LEMMA DecideSound ==
  ASSUME Sound, NEW task \in Tasks, Decide(task)
  PROVE  Sound'
<1>1. /\ session \in Sessions /\ session.phase = "DECIDE"
      /\ session' = [session EXCEPT !.phase = "DELEGATE", !.task = task]
  BY DEF Decide, Sound, TurnSound
<1>2. /\ session' \in Sessions /\ session'.phase = "DELEGATE" /\ session'.task = task
      /\ session'.supervised = session.supervised /\ session'.goal = session.goal
      /\ session'.context = session.context /\ session'.paper = session.paper
      /\ session'.observations = session.observations /\ session'.chosen = session.chosen
  BY <1>1 DEF Sessions, Delegated
<1>3. Tasked(session') /\ Evidenced(session')
  BY <1>1, <1>2 DEF Tasked, Evidenced, LastOf, Delegated, Asleep, Sound, TurnSound
<1>4. Followed(session')
  <2>1. SUFFICES ASSUME session.supervised, task.worker = "code", task.target \notin session.goal.urls
                 PROVE  LET evidence == IF session.chosen # {} THEN session.chosen ELSE {session.paper} \ {None}
                        IN  \E paper \in evidence : evidence = {paper} /\ task.target \in LinksOf[paper]
    BY <1>2 DEF Followed
  <2>2. task.target \in EvidenceUrls
    BY <2>1 DEF Decide, Justified
  <2>3. Evidenced(session) /\ session.phase \notin Asleep
    BY <1>1 DEF Sound, TurnSound, Asleep
  <2>4. CASE session.observations = <<>>
    BY <2>1, <2>2, <2>3, <2>4 DEF Evidenced, EvidenceUrls, Observed
  <2>5. CASE session.observations # <<>>
    BY <2>1, <2>2, <2>3, <2>5 DEF Evidenced, EvidenceUrls, Observed, LastOf, Last
  <2> QED
    BY <2>4, <2>5
<1>5. TurnSound(session')
  BY <1>2, <1>3, <1>4 DEF TurnSound
<1> QED
  BY <1>5, TurnGoesOn DEF Decide

\* A worker that comes to its gate keeps its task.
LEMMA GateComesSound ==
  ASSUME Sound, session.phase = "DELEGATE", NEW phase \in Delegated, NEW slate \in SUBSET Papers,
         phase = "CODE_GATE" => session.task.worker = "code",
         session' = [session EXCEPT !.phase = phase, !.slate = slate],
         UNCHANGED <<memory, stored, profileFile>>
  PROVE  Sound'
<1>1. session \in Sessions
  BY DEF Sound, TurnSound
<1>2. /\ session' \in Sessions /\ session'.phase \in Delegated /\ session'.task = session.task
      /\ session'.supervised = session.supervised /\ session'.goal = session.goal
      /\ session'.context = session.context /\ session'.paper = session.paper
      /\ session'.observations = session.observations /\ session'.chosen = session.chosen
  BY <1>1 DEF Sessions, Delegated
<1>3. Tasked(session') /\ Evidenced(session')
  BY <1>2 DEF Tasked, Evidenced, LastOf, Delegated, Asleep, Sound, TurnSound
<1>4. Followed(session')
  BY <1>2 DEF Followed, Sound, TurnSound
<1> QED
  BY <1>2, <1>3, <1>4, TurnGoesOn DEF TurnSound

LEMMA WorkerFailsSound ==
  ASSUME Sound, WorkerFails
  PROVE  Sound'
<1>1. session.phase \in Delegated
  BY DEF WorkerFails, Delegated
<1>2. TurnSound(session')
  BY <1>1, PlainlyAnsweredSound, FinishSound DEF WorkerFails
<1> QED
  BY <1>2, TurnGoesOn DEF WorkerFails

LEMMA AnalyzePaperSound ==
  ASSUME Sound, AnalyzePaper
  PROVE  Sound'
<1> DEFINE paper == session.task.target
           next == [Answered("success", LinksOf[paper]) EXCEPT !.chosen = {paper}]
<1>1. session.phase \in Delegated /\ session.task \in Tasks /\ session.task.worker = "research"
  BY DEF AnalyzePaper, Working, Delegated, Sound, TurnSound, Tasked
<1>2. paper \in Papers
  BY <1>1 DEF AnalyzePaper, Tasks
<1>3. LinksOf[paper] \in SUBSET Urls
  BY <1>2, ConversationAssumption
<1>4. TurnSound(next)
  BY <1>1, <1>2, <1>3, AnsweredSound
<1> QED
  BY <1>2, <1>4, RemembersPaperSound DEF AnalyzePaper

\* Of several papers that are selected no link is evidence.
LEMMA SelectSound ==
  ASSUME Sound, NEW selected \in SUBSET Papers, Select(selected)
  PROVE  Sound'
<1> DEFINE links == UNION {LinksOf[paper] : paper \in selected}
           next == [Answered("success", IF Cardinality(selected) = 1 THEN links ELSE {})
                       EXCEPT !.chosen = selected]
<1>1. session.phase \in Delegated /\ UNCHANGED profileFile
  BY DEF Select, Delegated
<1>2. Announced \in BOOLEAN
  BY DEF Announced
<1>3. ASSUME NEW paper \in selected, selected = {paper}, RemembersPaper(paper, next, Announced)
      PROVE  Sound'
  <2>1. Cardinality(selected) = 1 /\ links = LinksOf[paper] /\ links \in SUBSET Urls
    BY <1>3, FS_Singleton, ConversationAssumption
  <2>2. TurnSound(next)
    BY <1>1, <1>3, <2>1, AnsweredSound
  <2> QED
    BY <1>1, <1>2, <1>3, <2>2, RemembersPaperSound
<1>4. CASE Cardinality(selected) > 1 /\ Forgets(next)
  <2>1. next = [Answered("success", {}) EXCEPT !.chosen = selected]
    BY <1>4
  <2>2. TurnSound(next)
    BY <1>1, <2>1, AnsweredSound
  <2> QED
    BY <1>1, <1>4, <2>2, ForgetsSound
<1> QED
  BY <1>3, <1>4 DEF Select

LEMMA ReadCodeSound ==
  ASSUME Sound, ReadCode
  PROVE  Sound'
<1>1. session.phase \in Delegated /\ UNCHANGED profileFile /\ Announced \in BOOLEAN
  BY DEF ReadCode, Delegated, Announced
<1>2. TurnSound(Answered("success", {}))
  BY <1>1, PlainlyAnsweredSound
<1>3. session.task.target \in Urls
  BY <1>1 DEF ReadCode, Sound, TurnSound, Tasked, Tasks
<1>4. ContextSound(WithRepository(session.task.target))
  BY <1>3, WithRepositorySound DEF Sound
<1> QED
  BY <1>1, <1>2, <1>4, RemembersSound DEF ReadCode

LEMMA ClearSound ==
  ASSUME Sound, Clear
  PROVE  Sound'
<1>1. TurnSound(Turn("IDLE", None, {}))
  BY TurnStarts
<1> QED
  BY <1>1, EmptySound DEF Clear, Sound, ContextSound, Contexts, Coherent, TurnSound, Sessions, Tasked,
       Evidenced, LastOf, Followed

LEMMA StartSound ==
  ASSUME Sound, NEW configured \in BOOLEAN, NEW supervised \in BOOLEAN, Start(configured, supervised)
  PROVE  Sound'
<1> DEFINE context == IF configured THEN Configured(stored) ELSE stored
<1>1. ContextSound(context)
  BY ConfiguredSound DEF Sound
<1>2. memory' = context /\ (stored' = context \/ stored' = stored) /\ profileFile' = profileFile
  BY DEF Start
<1>3. /\ session' = [Down EXCEPT !.phase = "IDLE", !.configured = configured, !.supervised = supervised]
      /\ Down \in Sessions /\ Down.task = None
  BY DownSound DEF Start, TurnSound, Down
<1>4. session' \in Sessions /\ session'.phase = "IDLE" /\ session'.task = None
  BY <1>3 DEF Sessions, Asleep
<1>5. TurnSound(session')
  BY <1>4 DEF TurnSound, Tasked, Evidenced, Followed, Asleep, Delegated
<1> QED
  BY <1>1, <1>2, <1>5 DEF Sound, ContextSound, Contexts, Coherent, TurnSound, Sessions, Tasked, Evidenced,
       LastOf, Followed

LEMMA LeaveSound ==
  ASSUME Sound, Leave
  PROVE  Sound'
  BY EmptySound, DownSound DEF Leave, Sound, ContextSound, Contexts, Coherent, TurnSound, Sessions, Tasked,
       Evidenced, LastOf, Followed

LEMMA RunPipelineSound ==
  ASSUME Sound, RunPipeline
  PROVE  Sound'
<1>1. TurnSound(Turn("IDLE", None, {}))
  BY TurnStarts
<1>2. ContextSound([memory EXCEPT !.artifact = [kind |-> "PIPELINE", of |-> None]])
  BY WithPipelineSound DEF Sound
<1> QED
  BY <1>1, <1>2, RemembersSound DEF RunPipeline

LEMMA CommandsSound ==
  ASSUME Sound, AnalyzeCurrentPaper \/ AnalyzeCurrentRepository \/ Continue
  PROVE  Sound'
<1>1. CASE AnalyzeCurrentPaper
  <2>1. PaperGoal(memory.paper) \in Goal
    BY <1>1 DEF AnalyzeCurrentPaper, Sound, ContextSound, Contexts, MaybePaper, PaperGoal, Goal
  <2> QED
    BY <1>1, <2>1, AskSound DEF AnalyzeCurrentPaper
<1>2. CASE AnalyzeCurrentRepository
  <2>1. memory.repository.url \in Urls
    BY <1>2 DEF AnalyzeCurrentRepository, Sound, ContextSound, Contexts, Repositories
  <2>2. UrlGoal(memory.repository.url) \in Goal
    BY <2>1 DEF UrlGoal, Goal
  <2> QED
    BY <1>2, <2>2, AskSound DEF AnalyzeCurrentRepository
<1>3. ASSUME NEW url \in Urls, Ask(UrlGoal(url)) \/ Run([worker |-> "code", target |-> url])
      PROVE  Sound'
  <2>1. UrlGoal(url) \in Goal /\ [worker |-> "code", target |-> url] \in Tasks
    BY DEF UrlGoal, Goal, Tasks
  <2> QED
    BY <1>3, <2>1, AskSound, RunSound
<1> QED
  BY <1>1, <1>2, <1>3 DEF Continue

LEMMA SoundInit == Init => Sound
  BY EmptySound, DownSound DEF Init, Sound, Facts

LEMMA SoundStep == Sound /\ [Next]_vars => Sound'
<1> SUFFICES ASSUME Sound, [Next]_vars PROVE Sound'
  OBVIOUS
<1>1. CASE Work
  <2>1. CASE Refuse
    BY <2>1, FinishSound, TurnGoesOn DEF Refuse
  <2>2. ASSUME NEW task \in Tasks, Decide(task) PROVE Sound'
    BY <2>2, DecideSound
  <2>3. CASE WorkerFails \/ AnalyzePaper
    BY <2>3, WorkerFailsSound, AnalyzePaperSound
  <2>4. CASE Search
    <3>1. PICK slate \in (SUBSET Papers) \ {{}} : session' = [session EXCEPT !.phase = "PAPER_GATE", !.slate = slate]
      BY <2>4 DEF Search
    <3> QED
      BY <2>4, <3>1, GateComesSound DEF Search, Working, Delegated
  <2>5. CASE AskForCode
    <3>1. session \in Sessions
      BY DEF Sound, TurnSound
    <3>2. /\ session.slate \in SUBSET Papers
          /\ session' = [session EXCEPT !.phase = "CODE_GATE", !.slate = session.slate]
      BY <2>5, <3>1 DEF AskForCode, Sessions
    <3> QED
      BY <2>5, <3>2, GateComesSound DEF AskForCode, Working, Delegated
  <2> QED
    BY <1>1, <2>1, <2>2, <2>3, <2>4, <2>5 DEF Work
<1>2. CASE Human
  <2>1. ASSUME NEW goal \in Goals, Ask(goal) PROVE Sound'
    BY <2>1, AskSound, ConversationAssumption
  <2>2. ASSUME NEW task \in Tasks, Run(task) PROVE Sound'
    BY <2>2, RunSound
  <2>3. CASE AnalyzeCurrentPaper \/ AnalyzeCurrentRepository \/ Continue
    BY <2>3, CommandsSound
  <2>4. CASE Clear \/ RunPipeline
    BY <2>4, ClearSound, RunPipelineSound
  <2>5. ASSUME NEW configured \in BOOLEAN, NEW supervised \in BOOLEAN, Start(configured, supervised)
        PROVE  Sound'
    BY <2>5, StartSound
  <2>6. CASE Reject
    <3>1. session.phase \in Delegated
      BY <2>6 DEF Reject, Delegated
    <3>2. TurnSound(session')
      BY <2>6, <3>1, PlainlyAnsweredSound DEF Reject
    <3> QED
      BY <2>6, <3>2, TurnGoesOn DEF Reject
  <2>7. ASSUME NEW selected \in SUBSET Papers, Select(selected) PROVE Sound'
    BY <2>7, SelectSound
  <2>8. CASE ReadCode \/ WorkerFails
    BY <2>8, ReadCodeSound, WorkerFailsSound
  <2> QED
    BY <1>2, <2>1, <2>2, <2>3, <2>4, <2>5, <2>6, <2>7, <2>8 DEF Human
<1>3. CASE World
  <2>1. CASE Leave
    BY <2>1, LeaveSound
  <2>2. ASSUME NEW facts \in Profiles \cup {None}, ChangeProfile(facts) PROVE Sound'
    BY <2>2 DEF ChangeProfile, Sound, Facts, ContextSound, Contexts, Coherent, TurnSound, Sessions, Tasked,
         Evidenced, LastOf, Followed
  <2> QED
    BY <1>3, <2>1, <2>2 DEF World
<1>4. CASE UNCHANGED vars
  BY <1>4 DEF vars, Sound, ContextSound, Contexts, Coherent, TurnSound, Sessions, Tasked, Evidenced, LastOf,
       Followed
<1> QED
  BY <1>1, <1>2, <1>3, <1>4 DEF Next

-----------------------------------------------------------------------------
(***************************************************************************)
(* The theorems.                                                           *)
(***************************************************************************)
LEMMA AlwaysSound == Spec => []Sound
  BY SoundInit, SoundStep, PTL DEF Spec

\* The current repository, in memory and in the file, was read for the target facts
\* beside it: whatever profile changes, refused saves and restarts come between.
THEOREM CodeOfCurrentFacts == Spec => []RepositoryOfItsProfile
<1>1. Sound => RepositoryOfItsProfile
  BY DEF Sound, ContextSound, Coherent, RepositoryOfItsProfile
<1> QED
  BY <1>1, AlwaysSound, PTL

\* The current repository was read with the current paper beside it, and the last
\* artifact is of the paper or the repository that the context still has.
THEOREM CodeOfCurrentPaper == Spec => []RepositoryAfterPaper
<1>1. Sound => RepositoryAfterPaper
  BY DEF Sound, ContextSound, Coherent, RepositoryAfterPaper
<1> QED
  BY <1>1, AlwaysSound, PTL

\* The supervisor delegates no repository that the user did not name and that the one
\* paper chosen in this request, or the paper it began with, does not link.
THEOREM CodeOnlyOnEvidence == Spec => []CodeFollowsEvidence
<1>1. Sound => CodeFollowsEvidence
  BY DEF Sound, TurnSound, Followed, CodeFollowsEvidence
<1> QED
  BY <1>1, AlwaysSound, PTL
=============================================================================
