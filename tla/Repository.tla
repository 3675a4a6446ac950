----------------------------- MODULE Repository -----------------------------
(***************************************************************************)
(* The repository workflow of one workflow_id: the graph of                *)
(* workflows/repository.py and nodes/repository.py, its one JSON record,   *)
(* the archives of adapters/repositories/github.py, and the upstream       *)
(* repositories whose heads move meanwhile.                                *)
(*                                                                         *)
(* The gate shows a URL and binds the answer by workflow and revision,     *)
(* which is always 1: an answer may have been given to what an earlier     *)
(* invocation showed.                                                      *)
(***************************************************************************)
EXTENDS GraphRun, FiniteSets

CONSTANTS Urls, Commits, ApprovalIds

ASSUME RepositoryAssumption == None \notin Urls \cup Commits

VARIABLES
    record,    \* repository-profile.json
    archives,  \* the commits whose archive is in snapshots/
    head,      \* the commit at the head of a repository
    shown,     \* the URLs the gate has shown
    granted,   \* history: the URLs a human approved or put in an EDIT
    fetched    \* history: the URLs the provider was asked for

vars == <<record, archives, head, shown, granted, fetched, graphVars>>

Licenses == {"MIT", "GPL-3.0", "UNLICENSED", None}
Allowed == {"MIT"}
Decisions == {"APPROVE", "EDIT", "REJECT"}
\* An EDIT without a URL stands for edits that do not hold one canonical URL.
Answers == {answer \in [id : ApprovalIds, decision : Decisions, shown : Urls,
                        edit : Urls \cup {None}] :
              answer.decision # "EDIT" => answer.edit = None}
Nodes == {"START", "prepare_repository_candidate", "repository_ingest_gate",
          "resolve_repository", "analyze_repository", "END"}

NoPin == [url |-> None, commit |-> None, license |-> None]
NoProfile == [url |-> None, commit |-> None, metadata |-> None, text |-> None]
NoRecord == [status |-> "ABSENT", requested |-> None, approved |-> None, evidence |-> None,
             pin |-> NoPin, archive |-> None, profile |-> NoProfile]
NoGate == [gate |-> FALSE]

Init ==
    /\ record = NoRecord
    /\ archives = {}
    /\ head \in [Urls -> Commits]
    /\ shown = {}
    /\ granted = {}
    /\ fetched = {}
    /\ GraphInit(NoGate)

\* A push moves the head of a repository.
Push(url, commit) ==
    /\ head[url] # commit
    /\ head' = [head EXCEPT ![url] = commit]
    /\ UNCHANGED <<record, archives, shown, granted, fetched, graphVars>>

-----------------------------------------------------------------------------
Candidate(url) ==
    [NoRecord EXCEPT !.status = "AWAITING_APPROVAL", !.requested = url, !.evidence = url]

\* Mutant: the gate lets the candidate through.
PrepareRepositoryCandidate_Ungated(url) ==
    /\ At("prepare_repository_candidate")
    /\ record' = [Candidate(url) EXCEPT !.status = "INGESTING", !.approved = url]
    /\ GoesTo("resolve_repository", NoGate)
    /\ UNCHANGED <<archives, head, shown, granted, fetched, recorder>>

\* The first allowed link of the selected paper, or no candidate.
PrepareRepositoryCandidate(url) ==
    /\ At("prepare_repository_candidate")
    /\ \/ record' = Candidate(url) /\ GoesTo("repository_ingest_gate", [gate |-> TRUE])
                                   /\ UNCHANGED recorder
       \/ record' = Candidate(url) /\ Dies
       \/ GoesTo("END", NoGate) /\ UNCHANGED <<record, recorder>>
    /\ UNCHANGED <<archives, head, shown, granted, fetched>>

\* interrupt(): the URL of the record is put before the human.
GateShows ==
    /\ At("repository_ingest_gate")
    /\ ckpt.carry.gate
    /\ record.requested \notin shown
    /\ shown' = shown \cup {record.requested}
    /\ UNCHANGED <<record, archives, head, granted, fetched, graphVars>>

\* An EDIT brings evidence of its own; an APPROVE keeps what the record has.
Ingesting(answer) ==
    IF answer.decision = "EDIT"
    THEN [record EXCEPT !.status = "INGESTING", !.approved = answer.edit, !.evidence = answer.edit]
    ELSE [record EXCEPT !.status = "INGESTING", !.approved = record.requested]

RepositoryIngestGate(answer) ==
    /\ At("repository_ingest_gate")
    /\ ckpt.carry.gate
    /\ record.requested \in shown /\ answer.shown \in shown
    /\ Accepts(answer)
    /\ granted' = granted \cup CASE answer.decision = "APPROVE" -> {answer.shown}
                                 [] answer.decision = "EDIT" -> {answer.edit} \ {None}
                                 [] answer.decision = "REJECT" -> {}
    /\ \/ /\ answer.decision = "REJECT"
          /\ record' = [record EXCEPT !.status = "REJECTED"]
          /\ \/ Keeps(answer) /\ GoesTo("END", NoGate)
             \/ Dies
       \/ /\ answer.decision # "REJECT"
          /\ answer.decision = "EDIT" => answer.edit # None
          /\ record' = Ingesting(answer)
          /\ \/ Keeps(answer) /\ GoesTo("resolve_repository", NoGate)
             \/ Dies
       \/ /\ Keeps(answer)              \* the EDIT or the write is refused
          /\ Raises
          /\ UNCHANGED record
    /\ UNCHANGED <<archives, head, shown, fetched>>

\* _record_failed_result, whose write may be refused.
Fails(failed) ==
    /\ \/ record' = [failed EXCEPT !.status = "FAILED"] /\ GoesTo("END", NoGate)
       \/ UNCHANGED record /\ Raises
    /\ UNCHANGED recorder

CanResolve == record.status = "INGESTING" /\ record.approved # None

\* Mutant: the archive is that of the head at the time of the download.
Snapshot_Head(url, commit) == head'[url]

\* The commit the archive endpoint is asked for: zipball/<commit_sha>.
Snapshot(url, commit) == commit

\* Three requests and one write; each of them may fail.  The head moves, or does
\* not, between the request that pins it and the archive's.
ResolveRepository(next, license) ==
    /\ At("resolve_repository")
    /\ CanResolve
    /\ LET url == record.approved
           commit == head[url]
           archive == Snapshot(url, commit)
       IN
       /\ fetched' = fetched \cup {url}
       /\ head' = [head EXCEPT ![url] = next]
       /\ \/ /\ archives' = archives \cup {archive}
             /\ record' = [record EXCEPT
                    !.pin = [url |-> url, commit |-> commit, license |-> license],
                    !.archive = archive]
             /\ \/ GoesTo("analyze_repository", NoGate) /\ UNCHANGED recorder
                \/ Dies
          \/ UNCHANGED archives /\ Fails(record)             \* PortError
          \/ /\ archives' \in {archives, archives \cup {archive}}
             /\ \/ GoesTo("END", NoGate) /\ UNCHANGED recorder    \* OSError
                \/ Dies
             /\ UNCHANGED record
    /\ UNCHANGED <<shown, granted>>

Spdx(metadata, text) == IF metadata # None THEN metadata ELSE text

Mismatch(metadata, text) == metadata # None /\ text # None /\ metadata # text

Supported(analyzed, metadata, text) ==
    analyzed /\ Spdx(metadata, text) \in Allowed /\ ~ Mismatch(metadata, text)

CanAnalyze == record.pin # NoPin /\ record.archive # None

\* RepositoryProfile refuses evidence for another URL than the snapshot's.
AnalyzeRepository(text, analyzed) ==
    /\ At("analyze_repository")
    /\ CanAnalyze
    /\ LET metadata == record.pin.license
           completed == [record EXCEPT
               !.status = IF Supported(analyzed, metadata, text) THEN "COMPLETED" ELSE "UNSUPPORTED",
               !.profile = [url |-> record.pin.url, commit |-> record.archive,
                            metadata |-> metadata, text |-> text]]
       IN
       \/ /\ record.evidence = record.pin.url
          /\ record' = completed
          /\ \/ GoesTo("END", NoGate) /\ UNCHANGED recorder
             \/ Dies
       \/ record.evidence # record.pin.url /\ Raises /\ UNCHANGED <<record, recorder>>
       \/ Fails(record)                                            \* PortError
       \/ GoesTo("END", NoGate) /\ UNCHANGED <<record, recorder>>   \* OSError
    /\ UNCHANGED <<archives, head, shown, granted, fetched>>

\* A node that does not find what it needs.
NodeRaises ==
    /\ \/ At("resolve_repository") /\ ~ CanResolve
       \/ At("analyze_repository") /\ ~ CanAnalyze
    /\ Raises
    /\ UNCHANGED <<record, archives, head, shown, granted, fetched, recorder>>

\* The recorder refuses an id that comes again with another payload.
GateRaises(answer) ==
    /\ At("repository_ingest_gate")
    /\ record.requested \in shown
    /\ ~ Accepts(answer)
    /\ Raises
    /\ UNCHANGED <<record, archives, head, shown, granted, fetched, recorder>>

-----------------------------------------------------------------------------
disk == <<record, archives, head, shown, granted, fetched>>

Commit == GraphCommit /\ UNCHANGED disk
Invoke == GraphInvoke("prepare_repository_candidate", NoGate) /\ UNCHANGED disk
Resume == GraphResume /\ UNCHANGED disk
Retry == GraphRetry /\ UNCHANGED disk
Crash == GraphCrash /\ UNCHANGED disk

Work ==
    \/ Commit \/ GateShows \/ NodeRaises
    \/ \E url \in Urls : PrepareRepositoryCandidate(url)
    \/ \E next \in Commits, license \in Licenses : ResolveRepository(next, license)
    \/ \E text \in Licenses, analyzed \in BOOLEAN : AnalyzeRepository(text, analyzed)

Next ==
    \/ Invoke \/ Resume \/ Retry \/ Crash \/ Work
    \/ \E url \in Urls, commit \in Commits : Push(url, commit)
    \/ \E answer \in Answers : RepositoryIngestGate(answer) \/ GateRaises(answer)

Spec == Init /\ [][Next]_vars

-----------------------------------------------------------------------------
(***************************************************************************)
(* Properties.                                                             *)
(***************************************************************************)
RecordType ==
    [status : {"ABSENT", "AWAITING_APPROVAL", "INGESTING", "COMPLETED", "UNSUPPORTED",
               "REJECTED", "FAILED"},
     requested : Urls \cup {None}, approved : Urls \cup {None}, evidence : Urls \cup {None},
     pin : [url : Urls, commit : Commits, license : Licenses] \cup {NoPin},
     archive : Commits \cup {None},
     profile : [url : Urls, commit : Commits, metadata : Licenses, text : Licenses]
               \cup {NoProfile}]

\* Every variable keeps its type.
TypeOK ==
    /\ record \in RecordType
    /\ archives \subseteq Commits
    /\ head \in [Urls -> Commits]
    /\ shown \subseteq Urls
    /\ granted \subseteq Urls
    /\ fetched \subseteq Urls
    /\ GraphType(Nodes, [gate : BOOLEAN], Answers)

\* repository_ingest_gate: "Require an exact human decision before any repository
\* network or archive access": the provider is asked only for URLs that a human
\* saw and approved, or wrote in an EDIT.  (The second invocation of a workflow takes
\* an answer to the first one's gate: subject id and revision are the same.)
FetchedOnlyGranted == invocations <= 1 => fetched \subseteq granted

\* A repository that is passed on as COMPLETED is the approved one at the commit
\* its metadata was pinned to, with that commit's archive on disk, and the two
\* sources of its licence do not disagree, wherever a crash or a push came between.
CompletedIsPinned ==
    record.status = "COMPLETED" =>
        LET profile == record.profile IN
        /\ profile.url = record.approved
        /\ profile.commit = record.pin.commit
        /\ profile.commit \in archives
        /\ Spdx(profile.metadata, profile.text) \in Allowed
        /\ {profile.metadata, profile.text} \subseteq Allowed \cup {None}
=============================================================================
