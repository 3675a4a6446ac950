----------------------------- MODULE PaperLoop ------------------------------
(***************************************************************************)
(* The research tool loop of services/paper_planner.py: a model searches,  *)
(* inspects, submits and finishes within bounds, over the pages that       *)
(* services/paper_retrieval.py fetches and the papers it merges them into. *)
(*                                                                         *)
(* A record is what a provider returns.  What merging looks at are its     *)
(* identities, in the order title, arXiv id, DOI, the id of the paper it   *)
(* would be on its own, and the instants it was updated and published at.  *)
(* The graph of the loop is private and has no checkpoint.                 *)
(***************************************************************************)
EXTENDS CallBudget, SequencesExt

CONSTANTS
    Records,
    IdentitiesOf,     \* _identity_keys of a record, a sequence
    IdOf,             \* _paper_id of a record, a number
    UpdatedOf,        \* updated_at of a record
    PublishedOf,      \* published_at of a record, which no check holds below updated_at
    Window,           \* the retrieval window, [start, end]
    PageSize,         \* dependencies.page_size
    MaxPages,         \* budget.max_provider_pages
    MaxRecords,       \* budget.max_provider_records
    MaxSearches,      \* 2 searches
    MaxPapers,        \* 5 papers inspected, 5 assessed
    MaxTurns          \* 16 turns of the model

\* An arXiv id makes the paper id, and is an identity; other ids are the record's.
ASSUME PaperAssumption ==
    /\ {PageSize, MaxPages, MaxRecords, MaxSearches, MaxPapers, MaxTurns} \subseteq Nat
    /\ PageSize # 0
    /\ IdentitiesOf \in [Records -> Seq(STRING)]
    /\ IdOf \in [Records -> Nat]
    /\ UpdatedOf \in [Records -> Nat]
    /\ PublishedOf \in [Records -> Nat]
    /\ \A r, s \in Records :
          IdOf[r] = IdOf[s] => ToSet(IdentitiesOf[r]) \cap ToSet(IdentitiesOf[s]) # {}

VARIABLES
    loop,          \* the phase, its turns, and the searches and pages used
    fetch,         \* the pages of the search that is running
    raw,           \* session.raw_records
    papers,        \* session.papers
    inspected,     \* the ids that were read
    submitted      \* the assessments, each by its id with the records it was of

paperVars == <<loop, fetch, raw, papers, inspected, submitted>>

NoLoop == [phase |-> "OFF", turns |-> 0, searches |-> 0, pages |-> 0]
NoFetch == [pages |-> 0, got |-> <<>>]

PaperInit ==
    /\ loop = NoLoop
    /\ fetch = NoFetch
    /\ raw = <<>>
    /\ papers = {}
    /\ inspected = {}
    /\ submitted = {}

Ids(collection) == {paper.id : paper \in collection}

-----------------------------------------------------------------------------
(***************************************************************************)
(* normalize_and_deduplicate: a union-find over the indices of the         *)
(* records, in which the first record with an identity owns it.            *)
(***************************************************************************)
Root(parents, i) ==
    LET root[j \in DOMAIN parents] == IF parents[j] = j THEN j ELSE root[parents[j]]
    IN  root[i]

\* Mutant: the owner itself is hung below the record, and not the owner's root.
Union_Shallow(parents, left, right) == [parents EXCEPT ![right] = Root(parents, left)]

Union(parents, left, right) ==
    [parents EXCEPT ![Root(parents, right)] = Root(parents, left)]

\* identity_owner: the first record with an identity.
Owner(list, identity) == Min({i \in DOMAIN list : identity \in ToSet(IdentitiesOf[list[i]])})

\* A record joins the owners of its identities, in their order.
Joined(parents, i, list) ==
    LET keys == IdentitiesOf[list[i]]
        joined[k \in 0 .. Len(keys)] ==
            IF k = 0 THEN parents ELSE Union(joined[k - 1], i, Owner(list, keys[k]))
    IN  joined[Len(keys)]

Parents(list) ==
    LET parents[i \in 0 .. Len(list)] ==
            IF i = 0 THEN [j \in DOMAIN list |-> j] ELSE Joined(parents[i - 1], i, list)
    IN  parents[Len(list)]

Groups(list) ==
    LET parents == Parents(list) IN
    {{j \in DOMAIN list : Root(parents, j) = Root(parents, i)} : i \in DOMAIN list}

\* The greatest record of the group by its update, its publication and its id.
Primary(group, list) ==
    LET later(r, s) == \/ UpdatedOf[r] > UpdatedOf[s]
                       \/ /\ UpdatedOf[r] = UpdatedOf[s]
                          /\ \/ PublishedOf[r] > PublishedOf[s]
                             \/ PublishedOf[r] = PublishedOf[s] /\ IdOf[r] >= IdOf[s]
    IN  list[CHOOSE i \in group : \A j \in group : later(list[i], list[j])]

\* activity_at
Activity(r) == Max({PublishedOf[r], UpdatedOf[r]})

\* _merge_group keeps the primary's fields and the union of the others' lists.
Merged(group, list) ==
    [id |-> IdOf[Primary(group, list)], at |-> Activity(Primary(group, list)),
     of |-> {list[i] : i \in group}]

WithinWindow(paper) == Window.start <= paper.at /\ paper.at <= Window.end

Collected(list) == {paper \in {Merged(group, list) : group \in Groups(list)} : WithinWindow(paper)}

-----------------------------------------------------------------------------
(***************************************************************************)
(* The turns of the model.  It calls one tool in each; the loop ends with  *)
(* finish_research, or with whatever a tool or the provider raises.        *)
(***************************************************************************)
Ends(phase) ==
    /\ loop' = [loop EXCEPT !.phase = phase]
    /\ fetch' = NoFetch
    /\ UNCHANGED <<raw, papers, inspected, submitted>>

PaperStart ==
    /\ loop.phase = "OFF"
    /\ loop' = [NoLoop EXCEPT !.phase = "MODEL"]
    /\ UNCHANGED <<fetch, raw, papers, inspected, submitted, callVars>>

\* The worker's session ends with its request.
PaperClear ==
    /\ loop' = NoLoop
    /\ fetch' = NoFetch
    /\ raw' = <<>>
    /\ papers' = {}
    /\ inspected' = {}
    /\ submitted' = {}

Turn == loop.phase = "MODEL" /\ loop.turns < MaxTurns /\ Call

NextTurn == loop' = [loop EXCEPT !.turns = @ + 1]

\* The turns or the budget are used up, the provider fails, the response is not one
\* known call, or a tool raises: unknown or unread paper, bad keywords or citation.
TurnFails ==
    /\ loop.phase = "MODEL"
    /\ \/ loop.turns >= MaxTurns /\ Ends("FAILED") /\ UNCHANGED callVars
       \/ loop.turns < MaxTurns /\ Exhausted /\ Ends("EXHAUSTED") /\ UNCHANGED callVars
       \/ Turn /\ Ends("FAILED")

PagesLeft == MaxPages - loop.pages

\* Mutant: the second search has a budget of its own.
RecordsLeft_PerSearch == MaxRecords

RecordsLeft == MaxRecords - Len(raw)

\* A search of a spent budget asks nobody and returns.
Search ==
    /\ Turn
    /\ loop.searches < MaxSearches
    /\ loop' = [loop EXCEPT !.turns = @ + 1, !.searches = @ + 1,
                            !.phase = IF PagesLeft > 0 /\ RecordsLeft > 0 THEN "FETCH" ELSE "MODEL"]
    /\ UNCHANGED <<fetch, raw, papers, inspected, submitted>>

\* collect_provider_records: one page, cut to the records that are left.
FetchPage(page, more) ==
    /\ loop.phase = "FETCH"
    /\ LET got == fetch.got \o SubSeq(page, 1, Min({Len(page), RecordsLeft - Len(fetch.got)}))
           pages == fetch.pages + 1
           last == Len(got) >= RecordsLeft \/ ~ more \/ pages = PagesLeft
       IN
       \/ /\ ~ last
          /\ fetch' = [pages |-> pages, got |-> got]
          /\ UNCHANGED <<loop, raw, papers>>
       \/ /\ last
          /\ fetch' = NoFetch
          /\ loop' = [loop EXCEPT !.phase = "MODEL", !.pages = @ + pages]
          /\ raw' = raw \o got
          /\ papers' = Collected(raw')
    /\ UNCHANGED <<inspected, submitted, callVars>>

\* The provider fails, repeats a cursor or names another provider, or a record of
\* the search does not normalize.
FetchFails == loop.phase = "FETCH" /\ Ends("FAILED") /\ UNCHANGED callVars

Inspect(id) ==
    /\ Turn
    /\ id \in Ids(papers)
    /\ id \in inspected \/ Cardinality(inspected) < MaxPapers
    /\ inspected' = inspected \cup {id}
    /\ NextTurn
    /\ UNCHANGED <<fetch, raw, papers, submitted>>

\* A paper that a later search merged into another one is no longer found.
Submit(id) ==
    /\ Turn
    /\ id \in inspected
    /\ id \notin Ids(submitted)
    /\ Cardinality(submitted) < MaxPapers
    /\ \E paper \in papers : paper.id = id /\ submitted' = submitted \cup {paper}
    /\ NextTurn
    /\ UNCHANGED <<fetch, raw, papers, inspected>>

CanFinish ==
    /\ loop.searches # 0
    /\ papers = {} \/ submitted # {}
    /\ inspected \subseteq Ids(submitted)

Finish ==
    /\ Turn
    /\ CanFinish
    /\ loop' = [loop EXCEPT !.turns = @ + 1, !.phase = "DONE"]
    /\ UNCHANGED <<fetch, raw, papers, inspected, submitted>>

\* What a provider may put on a page, more than what is left to it too.
Pages == BoundedSeq(Records, PageSize)

PaperStep ==
    \/ Search \/ Finish \/ TurnFails \/ FetchFails
    \/ \E page \in Pages, more \in BOOLEAN : FetchPage(page, more)
    \/ \E id \in Ids(papers) : Inspect(id)
    \/ \E id \in inspected : Submit(id)
=============================================================================
