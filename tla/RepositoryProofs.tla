-------------------------- MODULE RepositoryProofs --------------------------
(***************************************************************************)
(* Theorems about Repository, for every set of repositories, commits and   *)
(* approval ids, any number of processes and invocations and any pushes.   *)
(***************************************************************************)
EXTENDS Repository, TLAPS

-----------------------------------------------------------------------------
(***************************************************************************)
(* The inductive invariant.                                                *)
(***************************************************************************)
Ahead == Nodes \ {"START", "prepare_repository_candidate"}
Returning == [node : Ahead, carry : [gate : BOOLEAN]]

\* A node that has returned has named a node behind the first one, and nothing runs
\* before the first invocation.
Driven ==
    /\ proc.phase = "WROTE" => proc.to \in Returning
    /\ ckpt.node = "START" => proc.phase = "DOWN" /\ invocations = 0
    /\ invocations = 0 => ckpt.node = "START" /\ record = NoRecord /\ shown = {} /\ fetched = {}

\* As long as the gate may be executed again, nothing is pinned and nothing has ended.
GateIsFirst ==
    \/ ckpt.node = "repository_ingest_gate"
    \/ proc.phase = "WROTE" /\ proc.to.node = "repository_ingest_gate"
    => record.requested \in Urls /\ record.pin = NoPin /\ record.status # "COMPLETED"

\* A pin is of the approved URL, and its archive is on disk.
PinStands ==
    record.pin # NoPin =>
        /\ record.pin.url = record.approved
        /\ record.archive = record.pin.commit
        /\ record.pin.commit \in archives

\* In a first invocation the gate has one candidate, and what it lets through is granted.
GrantedFirst ==
    invocations <= 1 =>
        /\ fetched \subseteq granted
        /\ shown \subseteq {record.requested}
        /\ ckpt.node \in {"START", "prepare_repository_candidate"} => shown = {}
        /\ record.status = "INGESTING" => record.approved \in granted

Sound == Driven /\ GateIsFirst /\ PinStands /\ CompletedIsPinned /\ GrantedFirst

Graph == GraphType(Nodes, [gate : BOOLEAN], Answers)

-----------------------------------------------------------------------------
(***************************************************************************)
(* How the graph moves.                                                    *)
(***************************************************************************)
\* A node that returns keeps the checkpoint and names a node behind the first one.
LEMMA Returns ==
  ASSUME TypeOK, NEW node \in Ahead, NEW carry \in [gate : BOOLEAN],
         GoesTo(node, carry), recorder' \subseteq Answers
  PROVE  /\ Graph'
         /\ ckpt' = ckpt /\ invocations' = invocations
         /\ proc'.phase = "WROTE" /\ proc'.to \in Returning /\ proc'.to.node = node
<1>1. [node |-> node, carry |-> carry] \in Returning /\ Returning \subseteq [node : Nodes, carry : [gate : BOOLEAN]]
  BY DEF Ahead, Returning
<1>2. proc' = [phase |-> "WROTE", to |-> [node |-> node, carry |-> carry]]
  BY DEF GoesTo
<1>3. Graph'
  BY <1>1, <1>2 DEF GoesTo, TypeOK, GraphType, Graph
<1> QED
  BY <1>1, <1>2, <1>3 DEF GoesTo

\* A node that raises, and a process that dies, leave the checkpoint where it is.
LEMMA Stops ==
  ASSUME TypeOK, Raises \/ Dies, recorder' \subseteq Answers
  PROVE  /\ Graph'
         /\ ckpt' = ckpt /\ invocations' = invocations
         /\ proc'.phase \in {"RAISED", "DOWN"}
  BY DEF Raises, Dies, Idle, TypeOK, GraphType, Graph

\* Where only the graph moves, and not to the gate, what is on disk stays sound.
LEMMA OnlyTheGraph ==
  ASSUME Sound, ckpt.node # "START",
         UNCHANGED <<record, archives, shown, granted, fetched, ckpt, invocations>>,
         proc'.phase = "WROTE" => proc'.to \in Returning /\ proc'.to.node = "END"
  PROVE  Sound'
<1>1. Driven'
  BY DEF Sound, Driven
<1>2. GateIsFirst' /\ PinStands' /\ CompletedIsPinned' /\ GrantedFirst'
  BY DEF Sound, GateIsFirst, PinStands, CompletedIsPinned, GrantedFirst
<1> QED
  BY <1>1, <1>2 DEF Sound

-----------------------------------------------------------------------------
(***************************************************************************)
(* The nodes.                                                              *)
(***************************************************************************)
LEMMA NoRecordTyped == NoRecord \in RecordType
  BY DEF NoRecord, RecordType, NoPin, NoProfile

LEMMA CandidateStep ==
  ASSUME TypeOK, Sound, NEW url \in Urls, PrepareRepositoryCandidate(url)
  PROVE  TypeOK' /\ Sound'
<1>1. /\ ckpt.node = "prepare_repository_candidate" /\ invocations # 0
      /\ UNCHANGED <<archives, head, shown, granted, fetched>>
  BY DEF PrepareRepositoryCandidate, At, Sound, Driven
<1>2. CASE record' = Candidate(url) /\ \/ GoesTo("repository_ingest_gate", [gate |-> TRUE]) /\ UNCHANGED recorder
                                       \/ Dies
  <2>1. recorder' \subseteq Answers
    BY <1>2 DEF Dies, TypeOK, GraphType
  <2>2. /\ Graph' /\ ckpt' = ckpt /\ invocations' = invocations
        /\ proc'.phase = "WROTE" => proc'.to \in Returning
    <3>1. [gate |-> TRUE] \in [gate : BOOLEAN] /\ "repository_ingest_gate" \in Ahead
      BY DEF Ahead, Nodes
    <3>2. CASE GoesTo("repository_ingest_gate", [gate |-> TRUE])
      BY <2>1, <3>1, <3>2, Returns
    <3>3. CASE Dies
      BY <2>1, <3>3, Stops
    <3> QED
      BY <1>2, <3>2, <3>3
  <2>3. record' \in RecordType /\ record'.pin = NoPin /\ record'.status = "AWAITING_APPROVAL"
        /\ record'.requested \in Urls
    BY <1>2, NoRecordTyped DEF Candidate, NoRecord, RecordType
  <2>4. TypeOK'
    BY <1>1, <2>2, <2>3 DEF TypeOK, Graph
  <2>5. Driven' /\ GateIsFirst' /\ PinStands' /\ CompletedIsPinned'
    BY <1>1, <2>2, <2>3 DEF Sound, Driven, GateIsFirst, PinStands, CompletedIsPinned
  <2>6. GrantedFirst'
    BY <1>1, <2>2, <2>3 DEF Sound, GrantedFirst
  <2> QED
    BY <2>4, <2>5, <2>6 DEF Sound
<1>3. CASE GoesTo("END", NoGate) /\ UNCHANGED <<record, recorder>>
  <2>1. /\ Graph' /\ ckpt' = ckpt /\ invocations' = invocations
        /\ proc'.to \in Returning /\ proc'.to.node = "END"
    BY <1>3, Returns DEF Ahead, Nodes, NoGate, TypeOK, GraphType
  <2> QED
    BY <1>1, <1>3, <2>1, OnlyTheGraph DEF TypeOK, Graph
<1> QED
  BY <1>2, <1>3 DEF PrepareRepositoryCandidate

LEMMA GateStep ==
  ASSUME TypeOK, Sound, NEW answer \in Answers, RepositoryIngestGate(answer)
  PROVE  TypeOK' /\ Sound'
<1>1. /\ ckpt.node = "repository_ingest_gate" /\ invocations # 0
      /\ UNCHANGED <<archives, head, shown, fetched>>
      /\ record.requested \in shown /\ answer.shown \in shown
      /\ record.pin = NoPin /\ record.status # "COMPLETED"
  BY DEF RepositoryIngestGate, At, Sound, Driven, GateIsFirst
<1>2. /\ answer.shown \in Urls /\ answer.edit \in Urls \cup {None}
      /\ answer.decision \in Decisions
  BY DEF Answers
<1>3. granted' \subseteq Urls /\ granted \subseteq granted'
  BY <1>2 DEF RepositoryIngestGate, TypeOK, Decisions
<1>4. recorder' \subseteq Answers
  BY DEF RepositoryIngestGate, Keeps, Dies, TypeOK, GraphType
<1>5. /\ Graph' /\ ckpt' = ckpt /\ invocations' = invocations
      /\ proc'.phase = "WROTE" => proc'.to \in Returning /\ proc'.to.node # "repository_ingest_gate"
  <2>1. \/ GoesTo("END", NoGate) \/ GoesTo("resolve_repository", NoGate) \/ Dies \/ Raises
    BY DEF RepositoryIngestGate
  <2>2. NoGate \in [gate : BOOLEAN] /\ {"END", "resolve_repository"} \subseteq Ahead
    BY DEF Ahead, Nodes, NoGate
  <2>3. CASE GoesTo("END", NoGate)
    BY <1>4, <2>2, <2>3, Returns
  <2>4. CASE GoesTo("resolve_repository", NoGate)
    BY <1>4, <2>2, <2>4, Returns
  <2>5. CASE Dies \/ Raises
    BY <1>4, <2>5, Stops
  <2> QED
    BY <2>1, <2>3, <2>4, <2>5
<1>6. /\ record' \in RecordType
      /\ record'.pin = NoPin /\ record'.status # "COMPLETED" /\ record'.requested = record.requested
      /\ record'.status = "INGESTING" /\ invocations <= 1 => record'.approved \in granted'
  <2>1. CASE answer.decision = "REJECT" /\ record' = [record EXCEPT !.status = "REJECTED"]
    BY <1>1, <2>1 DEF TypeOK, RecordType
  <2>2. CASE /\ answer.decision # "REJECT" /\ record' = Ingesting(answer)
             /\ answer.decision = "EDIT" => answer.edit # None
    <3>1. CASE answer.decision = "EDIT"
      BY <1>1, <1>2, <2>2, <3>1 DEF RepositoryIngestGate, Ingesting, TypeOK, RecordType
    <3>2. CASE answer.decision = "APPROVE"
      <4>1. invocations <= 1 => answer.shown = record.requested
        BY <1>1 DEF Sound, GrantedFirst
      <4>2. granted' = granted \cup {answer.shown}
        BY <3>2 DEF RepositoryIngestGate
      <4> QED
        BY <1>1, <2>2, <3>2, <4>1, <4>2 DEF Ingesting, TypeOK, RecordType
    <3> QED
      BY <1>2, <2>2, <3>1, <3>2 DEF Decisions
  <2>3. CASE UNCHANGED record
    BY <1>1, <1>3, <2>3 DEF TypeOK, Sound, GrantedFirst
  <2> QED
    BY <2>1, <2>2, <2>3 DEF RepositoryIngestGate
<1>7. TypeOK'
  BY <1>1, <1>3, <1>5, <1>6 DEF TypeOK, Graph
<1>8. Driven' /\ GateIsFirst' /\ PinStands' /\ CompletedIsPinned'
  BY <1>1, <1>5, <1>6 DEF Sound, Driven, GateIsFirst, PinStands, CompletedIsPinned
<1>9. GrantedFirst'
  BY <1>1, <1>3, <1>5, <1>6 DEF Sound, GrantedFirst
<1> QED
  BY <1>7, <1>8, <1>9 DEF Sound

LEMMA ResolveStep ==
  ASSUME TypeOK, Sound, NEW next \in Commits, NEW license \in Licenses,
         ResolveRepository(next, license)
  PROVE  TypeOK' /\ Sound'
<1> DEFINE url == record.approved
           commit == head[url]
           archive == Snapshot(url, commit)
<1>1. /\ ckpt.node = "resolve_repository" /\ invocations # 0
      /\ record.status = "INGESTING" /\ url \in Urls /\ commit \in Commits /\ archive = commit
      /\ UNCHANGED <<shown, granted>>
  BY DEF ResolveRepository, CanResolve, At, Sound, Driven, TypeOK, RecordType, Snapshot
<1>2. /\ fetched' = fetched \cup {url}
      /\ head' \in [Urls -> Commits]
      /\ archives \subseteq archives' /\ archives' \subseteq archives \cup {archive}
  BY <1>1 DEF ResolveRepository, TypeOK
<1>3. recorder' \subseteq Answers
  BY DEF ResolveRepository, Fails, Raises, Dies, TypeOK, GraphType
<1>4. /\ Graph' /\ ckpt' = ckpt /\ invocations' = invocations
      /\ proc'.phase = "WROTE" => proc'.to \in Returning /\ proc'.to.node # "repository_ingest_gate"
  <2>1. GoesTo("END", NoGate) \/ GoesTo("analyze_repository", NoGate) \/ Dies \/ Raises
    BY DEF ResolveRepository, Fails
  <2>2. NoGate \in [gate : BOOLEAN] /\ {"END", "analyze_repository"} \subseteq Ahead
    BY DEF Ahead, Nodes, NoGate
  <2>3. CASE GoesTo("END", NoGate)
    BY <1>3, <2>2, <2>3, Returns
  <2>4. CASE GoesTo("analyze_repository", NoGate)
    BY <1>3, <2>2, <2>4, Returns
  <2>5. CASE Dies \/ Raises
    BY <1>3, <2>5, Stops
  <2> QED
    BY <2>1, <2>3, <2>4, <2>5
<1>5. /\ record' \in RecordType /\ PinStands' /\ record'.status # "COMPLETED"
      /\ record'.requested = record.requested
      /\ record'.status = "INGESTING" => record'.approved = record.approved
  <2>1. CASE /\ archives' = archives \cup {archive}
             /\ record' = [record EXCEPT
                    !.pin = [url |-> url, commit |-> commit, license |-> license],
                    !.archive = archive]
    BY <1>1, <2>1 DEF TypeOK, RecordType, PinStands
  <2>2. CASE record' = [record EXCEPT !.status = "FAILED"]
    BY <1>1, <1>2, <2>2 DEF TypeOK, RecordType, Sound, PinStands
  <2>3. CASE UNCHANGED record
    BY <1>1, <1>2, <2>3 DEF TypeOK, Sound, PinStands
  <2> QED
    BY <2>1, <2>2, <2>3 DEF ResolveRepository, Fails
<1>6. TypeOK'
  BY <1>1, <1>2, <1>4, <1>5 DEF TypeOK, Graph
<1>7. Driven' /\ GateIsFirst' /\ CompletedIsPinned'
  BY <1>1, <1>4, <1>5 DEF Sound, Driven, GateIsFirst, CompletedIsPinned
<1>8. GrantedFirst'
  BY <1>1, <1>2, <1>4, <1>5 DEF Sound, GrantedFirst
<1> QED
  BY <1>5, <1>6, <1>7, <1>8 DEF Sound

\* A licence that is supported is the allowed one, from every source that names one.
LEMMA SupportedLicences ==
  ASSUME NEW metadata, NEW text, NEW analyzed, Supported(analyzed, metadata, text)
  PROVE  /\ Spdx(metadata, text) \in Allowed
         /\ {metadata, text} \subseteq Allowed \cup {None}
  BY DEF Supported, Spdx, Mismatch, Allowed

LEMMA AnalyzeStep ==
  ASSUME TypeOK, Sound, NEW text \in Licenses, NEW analyzed \in BOOLEAN,
         AnalyzeRepository(text, analyzed)
  PROVE  TypeOK' /\ Sound'
<1> DEFINE metadata == record.pin.license
           status == IF Supported(analyzed, metadata, text) THEN "COMPLETED" ELSE "UNSUPPORTED"
           completed == [record EXCEPT !.status = status,
               !.profile = [url |-> record.pin.url, commit |-> record.archive,
                            metadata |-> metadata, text |-> text]]
<1>1. /\ ckpt.node = "analyze_repository" /\ invocations # 0
      /\ record.pin # NoPin /\ record.pin \in [url : Urls, commit : Commits, license : Licenses]
      /\ record.pin.url = record.approved /\ record.archive = record.pin.commit
      /\ record.pin.commit \in archives
      /\ UNCHANGED <<archives, head, shown, granted, fetched>>
  BY DEF AnalyzeRepository, CanAnalyze, At, Sound, Driven, PinStands, TypeOK, RecordType
<1>2. recorder' \subseteq Answers
  BY DEF AnalyzeRepository, Fails, Raises, Dies, TypeOK, GraphType
<1>3. /\ Graph' /\ ckpt' = ckpt /\ invocations' = invocations
      /\ proc'.phase = "WROTE" => proc'.to \in Returning /\ proc'.to.node # "repository_ingest_gate"
  <2>1. GoesTo("END", NoGate) \/ Dies \/ Raises
    BY DEF AnalyzeRepository, Fails
  <2>2. NoGate \in [gate : BOOLEAN] /\ "END" \in Ahead
    BY DEF Ahead, Nodes, NoGate
  <2>3. CASE GoesTo("END", NoGate)
    BY <1>2, <2>2, <2>3, Returns
  <2>4. CASE Dies \/ Raises
    BY <1>2, <2>4, Stops
  <2> QED
    BY <2>1, <2>3, <2>4
<1>4. /\ record' \in RecordType /\ PinStands' /\ CompletedIsPinned'
      /\ record'.requested = record.requested
      /\ record'.status = "INGESTING" => record' = record
  <2>1. CASE record' = completed
    <3>1. status \in {"COMPLETED", "UNSUPPORTED"}
      OBVIOUS
    <3>2. /\ record'.status = status /\ record'.pin = record.pin /\ record'.archive = record.archive
          /\ record'.approved = record.approved /\ record'.requested = record.requested
          /\ record'.profile = [url |-> record.pin.url, commit |-> record.archive,
                                metadata |-> metadata, text |-> text]
      BY <2>1 DEF TypeOK, RecordType
    <3>3. record' \in RecordType
      BY <1>1, <2>1, <3>1 DEF TypeOK, RecordType
    <3>4. CompletedIsPinned'
      <4>1. status = "COMPLETED" => Supported(analyzed, metadata, text)
        OBVIOUS
      <4> QED
        BY <1>1, <3>2, <4>1, SupportedLicences DEF CompletedIsPinned
    <3> QED
      BY <1>1, <3>1, <3>2, <3>3, <3>4 DEF PinStands
  <2>2. CASE record' = [record EXCEPT !.status = "FAILED"]
    BY <1>1, <2>2 DEF TypeOK, RecordType, PinStands, CompletedIsPinned
  <2>3. CASE UNCHANGED record
    BY <1>1, <2>3 DEF TypeOK, Sound, PinStands, CompletedIsPinned
  <2> QED
    BY <2>1, <2>2, <2>3 DEF AnalyzeRepository, Fails
<1>5. TypeOK'
  BY <1>1, <1>3, <1>4 DEF TypeOK, Graph
<1>6. Driven' /\ GateIsFirst' /\ GrantedFirst'
  BY <1>1, <1>3, <1>4 DEF Sound, Driven, GateIsFirst, GrantedFirst
<1> QED
  BY <1>4, <1>5, <1>6 DEF Sound

-----------------------------------------------------------------------------
(***************************************************************************)
(* The theorems.                                                           *)
(***************************************************************************)
LEMMA InitSound == Init => TypeOK /\ Sound
<1> SUFFICES ASSUME Init PROVE TypeOK /\ Sound
  OBVIOUS
<1>1. /\ record = NoRecord /\ record \in RecordType /\ record.pin = NoPin
      /\ record.status = "ABSENT"
  BY NoRecordTyped DEF Init, NoRecord
<1>2. /\ ckpt = [node |-> "START", carry |-> NoGate] /\ proc = [phase |-> "DOWN", to |-> None]
      /\ recorder = {} /\ life = 0 /\ invocations = 0
  BY DEF Init, GraphInit, Idle
<1>3. 0 \in 0 .. MaxLives /\ 0 \in 0 .. MaxInvocations
  BY GraphAssumption
<1>4. TypeOK
  BY <1>1, <1>2, <1>3 DEF Init, TypeOK, GraphType, Nodes, NoGate
<1>5. Sound
  BY <1>1, <1>2 DEF Init, Sound, Driven, GateIsFirst, PinStands, CompletedIsPinned, GrantedFirst
<1> QED
  BY <1>4, <1>5

\* The steps of the graph itself.
LEMMA GraphStep ==
  ASSUME TypeOK, Sound, Commit \/ Invoke \/ Resume \/ Retry \/ Crash
  PROVE  TypeOK' /\ Sound'
<1>1. CASE Commit
  <2>1. /\ proc.to \in Returning /\ ckpt' = proc.to /\ proc' = [phase |-> "READY", to |-> None]
        /\ UNCHANGED <<record, archives, head, shown, granted, fetched, recorder, life, invocations>>
    BY <1>1 DEF Commit, GraphCommit, disk, Idle, Sound, Driven
  <2>2. proc.to \in [node : Nodes, carry : [gate : BOOLEAN]] /\ proc.to.node \in Ahead
    BY <2>1 DEF Returning, Ahead
  <2>3. TypeOK'
    BY <2>1, <2>2 DEF TypeOK, GraphType
  <2>4. invocations # 0
    BY <1>1, <2>1 DEF Commit, GraphCommit, Sound, Driven, TypeOK, GraphType
  <2>5. Sound'
    BY <1>1, <2>1, <2>2, <2>4 DEF Commit, GraphCommit, Sound, Driven, GateIsFirst, PinStands,
       CompletedIsPinned, GrantedFirst, Ahead
  <2> QED
    BY <2>3, <2>5
<1>2. CASE Invoke
  <2>1. /\ ckpt' = [node |-> "prepare_repository_candidate", carry |-> NoGate]
        /\ proc' = [phase |-> "READY", to |-> None]
        /\ recorder' = {} /\ life' = life + 1 /\ invocations' = invocations + 1
        /\ life < MaxLives /\ invocations < MaxInvocations
        /\ UNCHANGED <<record, archives, head, shown, granted, fetched>>
    BY <1>2 DEF Invoke, GraphInvoke, disk, Idle
  <2>2. life' \in 0 .. MaxLives /\ invocations' \in 0 .. MaxInvocations /\ invocations' # 0
        /\ (invocations' <= 1 => invocations = 0)
    BY <2>1, GraphAssumption DEF TypeOK, GraphType
  <2>3. TypeOK'
    BY <2>1, <2>2 DEF TypeOK, GraphType, Nodes, NoGate
  <2>4. invocations = 0 => record.status # "INGESTING"
    BY DEF Sound, Driven, NoRecord
  <2>5. Sound'
    BY <2>1, <2>2, <2>4 DEF Sound, Driven, GateIsFirst, PinStands, CompletedIsPinned, GrantedFirst
  <2> QED
    BY <2>3, <2>5
<1>3. CASE Resume \/ Retry \/ Crash
  <2>1. /\ UNCHANGED <<record, archives, head, shown, granted, fetched, ckpt, invocations>>
        /\ proc'.phase # "WROTE" /\ ckpt.node # "START"
    BY <1>3 DEF Resume, Retry, Crash, GraphResume, GraphRetry, GraphCrash, Dies, Idle, disk,
       Sound, Driven
  <2>2. /\ proc' \in {[phase |-> "READY", to |-> None], [phase |-> "DOWN", to |-> None]}
        /\ recorder' \subseteq Answers /\ life' \in {life} \cup {life + 1}
        /\ life' # life => life < MaxLives
    BY <1>3 DEF Resume, Retry, Crash, GraphResume, GraphRetry, GraphCrash, Dies, Idle,
       TypeOK, GraphType
  <2>3. life' \in 0 .. MaxLives
    BY <2>2, GraphAssumption DEF TypeOK, GraphType
  <2>4. Graph'
    BY <2>1, <2>2, <2>3 DEF Graph, TypeOK, GraphType
  <2> QED
    BY <2>1, <2>4, OnlyTheGraph DEF TypeOK, Graph
<1> QED
  BY <1>1, <1>2, <1>3

LEMMA SoundStep == TypeOK /\ Sound /\ [Next]_vars => TypeOK' /\ Sound'
<1> SUFFICES ASSUME TypeOK, Sound, [Next]_vars PROVE TypeOK' /\ Sound'
  OBVIOUS
<1>1. CASE Invoke \/ Resume \/ Retry \/ Crash \/ Commit
  BY <1>1, GraphStep
<1>2. CASE GateShows
  <2>1. /\ UNCHANGED <<record, archives, head, granted, fetched, graphVars>>
        /\ shown' = shown \cup {record.requested} /\ record.requested \notin shown
        /\ ckpt.node = "repository_ingest_gate" /\ invocations # 0
    BY <1>2 DEF GateShows, At, Sound, Driven
  <2>2. record.requested \in Urls
    BY <2>1 DEF Sound, GateIsFirst
  <2>3. TypeOK'
    BY <2>1, <2>2 DEF TypeOK, graphVars, GraphType
  <2>4. Sound'
    BY <2>1 DEF graphVars, Sound, Driven, GateIsFirst, PinStands, CompletedIsPinned, GrantedFirst
  <2> QED
    BY <2>3, <2>4
<1>3. CASE NodeRaises \/ \E answer \in Answers : GateRaises(answer)
  <2>1. /\ UNCHANGED <<record, archives, head, shown, granted, fetched, recorder>>
        /\ Raises /\ ckpt.node # "START"
    BY <1>3 DEF NodeRaises, GateRaises, At
  <2>2. recorder' \subseteq Answers
    BY <2>1 DEF TypeOK, GraphType
  <2>3. Graph' /\ UNCHANGED <<ckpt, invocations>> /\ proc'.phase # "WROTE"
    BY <2>1, <2>2, Stops
  <2> QED
    BY <2>1, <2>3, OnlyTheGraph DEF TypeOK, Graph
<1>4. ASSUME NEW url \in Urls, PrepareRepositoryCandidate(url) PROVE TypeOK' /\ Sound'
  BY <1>4, CandidateStep
<1>5. ASSUME NEW answer \in Answers, RepositoryIngestGate(answer) PROVE TypeOK' /\ Sound'
  BY <1>5, GateStep
<1>6. ASSUME NEW next \in Commits, NEW license \in Licenses, ResolveRepository(next, license)
      PROVE  TypeOK' /\ Sound'
  BY <1>6, ResolveStep
<1>7. ASSUME NEW text \in Licenses, NEW analyzed \in BOOLEAN, AnalyzeRepository(text, analyzed)
      PROVE  TypeOK' /\ Sound'
  BY <1>7, AnalyzeStep
<1>8. ASSUME NEW url \in Urls, NEW commit \in Commits, Push(url, commit) PROVE TypeOK' /\ Sound'
  <2>1. /\ head' \in [Urls -> Commits]
        /\ UNCHANGED <<record, archives, shown, granted, fetched, graphVars>>
    BY <1>8 DEF Push, TypeOK
  <2> QED
    BY <2>1 DEF TypeOK, graphVars, GraphType, Sound, Driven, GateIsFirst, PinStands,
       CompletedIsPinned, GrantedFirst
<1>9. CASE UNCHANGED vars
  BY <1>9 DEF vars, graphVars, TypeOK, GraphType, Sound, Driven, GateIsFirst, PinStands,
     CompletedIsPinned, GrantedFirst
<1> QED
  BY <1>1, <1>2, <1>3, <1>4, <1>5, <1>6, <1>7, <1>8, <1>9 DEF Next, Work

\* Every reachable state of the repository workflow has its type.
THEOREM TypeCorrect == Spec => []TypeOK
<1>1. TypeOK /\ Sound /\ [Next]_vars => (TypeOK /\ Sound)'
  BY SoundStep
<1> QED
  BY InitSound, <1>1, PTL DEF Spec

\* The inductive invariant holds in every reachable state.
LEMMA AlwaysSound == Spec => []Sound
<1>1. TypeOK /\ Sound /\ [Next]_vars => (TypeOK /\ Sound)'
  BY SoundStep
<1> QED
  BY InitSound, <1>1, PTL DEF Spec

\* A COMPLETED repository is the approved one at its pinned commit, with the archive of
\* that commit on disk and no licence source that disagrees: for any crashes of the
\* gate and the download, any second invocation and any push between two requests.
THEOREM CompletedPinned == Spec => []CompletedIsPinned
<1>1. Sound => CompletedIsPinned
  BY DEF Sound
<1> QED
  BY AlwaysSound, <1>1, PTL

\* In a first invocation the provider is asked only for URLs that a human granted,
\* however often the gate is executed and whatever presentation an answer was to.
THEOREM FetchedGranted == Spec => []FetchedOnlyGranted
<1>1. Sound => FetchedOnlyGranted
  BY DEF Sound, GrantedFirst, FetchedOnlyGranted
<1> QED
  BY AlwaysSound, <1>1, PTL
=============================================================================
