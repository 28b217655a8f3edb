---------------------------- MODULE SourceEvidence ----------------------------
(* What a research run is grounded on: the source documents saved before its   *)
(* summaries are generated (services/source_content_service.py), the metadata  *)
(* evidence saved when it completes (services/source_verification_service.py), *)
(* and the cache and provider leases both share with every other process       *)
(* (services/source_metadata_service.py). Workers stand for processes that     *)
(* have held the run, one after another; one that lost it may still be active. *)
(* The run is of a prompt version that saves evidence.                         *)
EXTENDS Integers, FiniteSets

CONSTANTS
    Readers,        \* worker processes
    PmcPapers,      \* papers identified at PMC
    ArxivPapers,    \* papers identified at arXiv
    Budget,         \* requests to PMC in one window (96)
    MaxSelected,    \* bound: papers selected by the run's discovery
    MaxSource,      \* bound: versions of a paper at its source
    MaxTakeOvers    \* bound: times the run is recovered by another worker

ASSUME SourcesAssumption ==
    /\ PmcPapers \cap ArxivPapers = {}
    /\ Budget \in Nat \ {0} /\ Budget % 2 = 0 /\ MaxSource \in Nat \ {0} /\ MaxTakeOvers \in Nat

VARIABLES
    selected,    \* the papers the run's discovery selected for summaries
    runWorker,   \* the worker that holds the run's lease
    takeOvers,   \* how many times it passed to another
    content,     \* run_source_content: the document saved for each paper, or Missing
    evidence,    \* the run's automatic row of source_verifications, or Lacking
    assessed,    \* the findings the run was completed with, or Lacking
    cache,       \* the unexpired answer kept for each paper, or Missing
    provider,    \* source_provider_state: availability and lease token
    requests,    \* content_requests of PMC's current window
    pmcWindow,   \* whether that window runs or is over
    sent,        \* requests made to PMC since that window started
    original,    \* the version of each paper at its source
    used,        \* documents generations of this run have been given
    reader       \* what each worker is doing

Papers     == PmcPapers \cup ArxivPapers
Providers  == {"pmc", "arxiv"}
Missing    == -1
Refused    == 0            \* a document or lookup without source content
Documents  == Refused .. MaxSource
NoReader   == "none"
Lacking    == <<>>

\* What a worker is doing: a lookup of the papers `want` at a provider, of which it
\* asks the provider for `ask`; what was found; and the run's documents it has read
\* or saved so far.
NotReading == [at |-> "idle", of |-> "arxiv", want |-> {}, ask |-> {}, then |-> "idle",
              found |-> [p \in Papers |-> Refused], docs |-> [p \in Papers |-> Missing]]

sourceVars   == <<selected, content, evidence, assessed, used>>
sharedVars   == <<cache, provider, requests, pmcWindow, sent>>
evidenceVars == <<runWorker, takeOvers, sourceVars, sharedVars, original, reader>>

EvidenceInit ==
    /\ selected \in {set \in SUBSET Papers : Cardinality(set) \in 1 .. MaxSelected}
    /\ runWorker \in Readers /\ takeOvers = 0
    /\ content = [p \in Papers |-> Missing]
    /\ evidence = Lacking /\ assessed = Lacking
    /\ cache = [p \in Papers |-> Missing]
    /\ provider = [s \in Providers |-> [open |-> "open", token |-> NoReader]]
    /\ requests = 0 /\ pmcWindow = "over" /\ sent = 0
    /\ original = [p \in Papers |-> 1]
    /\ used = {}
    /\ reader = [f \in Readers |-> NotReading]

ReaderAt(f, place) == reader[f].at = place
Becomes(f, l)     == reader' = [reader EXCEPT ![f] = l]
Unsaved(docs)     == {p \in selected : docs[p] = Missing}

\* lease.poll: only the worker that holds the run goes on.
Holds(f) == runWorker = f /\ assessed = Lacking

-----------------------------------------------------------------------------
(* lookup_metadata and pmc_document: a lookup of a set of papers at one         *)
(* provider. No transaction spans the fetch.                                    *)

\* Mutants: the budget is compared with the requests already made, one too late; the
\* claim does not look at the provider's availability.
BudgetPassed  == pmcWindow = "running" /\ requests > Budget
AvailableOrLeased(s) == provider[s].open \in {"open", "leased"}

Available(s)  == provider[s].open = "open"
BudgetSpent   == pmcWindow = "running" /\ requests >= Budget
Stale(l)      == {p \in l.want : cache[p] = Missing}
WithCached(l) == [p \in Papers |-> IF p \notin l.want THEN l.found[p]
                                 ELSE IF cache[p] = Missing THEN Refused ELSE cache[p]]
Returned(l)   == [l EXCEPT !.at = l.then, !.of = "arxiv", !.then = "idle", !.ask = {}]
Gives(f, l)   == Becomes(f, [Returned(l) EXCEPT !.found = WithCached(l)])

\* Everything wanted is cached; or another process has the provider, or it cools
\* down: what is not cached is given up without a request.
WithoutFetch(f) ==
    LET l == reader[f] IN
    /\ ReaderAt(f, "look")
    /\ Stale(l) = {} \/ ~Available(l.of)
    /\ Gives(f, l)
    /\ UNCHANGED <<runWorker, takeOvers, sourceVars, sharedVars, original>>

\* The claim of PMC counts the two requests of an attempt in the same commit.
Claim(f) ==
    LET l == reader[f]
        counted == IF pmcWindow = "running" THEN requests + 2 ELSE 2 IN
    /\ ReaderAt(f, "look") /\ Stale(l) # {} /\ Available(l.of)
    /\ l.of = "pmc" => ~BudgetSpent
    /\ provider' = [provider EXCEPT ![l.of] = [open |-> "leased", token |-> f]]
    /\ IF l.of = "pmc"
         THEN requests' = counted /\ pmcWindow' = "running"
              /\ sent' = IF pmcWindow = "running" THEN sent + 2 ELSE 2
         ELSE UNCHANGED <<requests, pmcWindow, sent>>
    /\ Becomes(f, [l EXCEPT !.at = "fetch", !.ask = Stale(l), !.found = WithCached(l)])
    /\ UNCHANGED <<runWorker, takeOvers, sourceVars, cache, original>>

Exhaust(f) ==
    LET l == reader[f] IN
    /\ ReaderAt(f, "look") /\ Stale(l) # {}
    /\ l.of = "pmc" /\ Available("pmc") /\ BudgetSpent
    /\ provider' = [provider EXCEPT !["pmc"] = [open |-> "exhausted", token |-> NoReader]]
    /\ Gives(f, l)
    /\ UNCHANGED <<runWorker, takeOvers, sourceVars, cache, requests, pmcWindow, sent, original>>

\* retrieve: PMC's two answers have one version, confirm the paper's identity and
\* permit its use, or no content is kept. A record of arXiv is found or it is not.
Retrieved(p) == {original[p], Refused}

FetchSource(f) ==
    LET l == reader[f] IN
    /\ ReaderAt(f, "fetch")
    /\ \E answer \in [l.ask -> Documents] :
          /\ \A p \in l.ask : answer[p] \in Retrieved(p)
          /\ Becomes(f, [l EXCEPT !.at = "answered",
                         !.found = [p \in Papers |-> IF p \in l.ask THEN answer[p] ELSE @[p]]])
    /\ UNCHANGED <<runWorker, takeOvers, sourceVars, sharedVars, original>>

\* The release is fenced by the token: the lease may have lapsed since the fetch.
Releases(f, s) == provider[s].token = f

Record(f) ==
    LET l == reader[f] IN
    /\ ReaderAt(f, "answered")
    /\ cache' = [p \in Papers |-> IF p \in l.ask THEN l.found[p] ELSE cache[p]]
    /\ provider' = IF Releases(f, l.of)
                     THEN [provider EXCEPT ![l.of] = [open |-> "cooling", token |-> NoReader]]
                     ELSE provider
    /\ Becomes(f, Returned(l))
    /\ UNCHANGED <<runWorker, takeOvers, sourceVars, requests, pmcWindow, sent, original>>

LookUp(l, s, want, then) == [l EXCEPT !.at = "look", !.of = s, !.want = want, !.then = then]

-----------------------------------------------------------------------------
(* prepare_content: the documents already saved are reused, the others are     *)
(* looked up one by one and saved.                                             *)

Prepare(f) ==
    LET l == [NotReading EXCEPT !.docs = content]
        missing == Unsaved(content) \cap ArxivPapers IN
    /\ ReaderAt(f, "idle") /\ Holds(f)
    /\ Becomes(f, IF missing = {} THEN [l EXCEPT !.at = "papers"] ELSE LookUp(l, "arxiv", missing, "papers"))
    /\ UNCHANGED <<runWorker, takeOvers, sourceVars, sharedVars, original>>

\* The next paper without a document: PMC is asked for it alone, arXiv was already.
NextPaper(f) ==
    LET l == reader[f] IN
    /\ ReaderAt(f, "papers") /\ Holds(f)
    /\ \E p \in Unsaved(l.docs) :
          Becomes(f, IF p \in PmcPapers THEN LookUp(l, "pmc", {p}, "fence")
                                        ELSE [l EXCEPT !.at = "fence", !.want = {p}])
    /\ UNCHANGED <<runWorker, takeOvers, sourceVars, sharedVars, original>>

\* The second renewal fences ownership before the document is recorded, in a
\* transaction of its own.
Fence(f) ==
    /\ ReaderAt(f, "fence") /\ Holds(f)
    /\ Becomes(f, [reader[f] EXCEPT !.at = "save"])
    /\ UNCHANGED <<runWorker, takeOvers, sourceVars, sharedVars, original>>

\* Mutant: the worker's own document is kept when another was saved first.
OwnDocument(p, own) == own

\* The document that counts is the one of the unique row, whoever saved it.
SavedDocument(p, own) == IF content[p] = Missing THEN own ELSE content[p]

SaveDocument(f) ==
    LET l == reader[f] IN
    /\ ReaderAt(f, "save")
    /\ \E p \in l.want :
          LET own == l.found[p] IN
          /\ content' = IF content[p] = Missing THEN [content EXCEPT ![p] = own] ELSE content
          /\ Becomes(f, [l EXCEPT !.at = "papers", !.want = {}, !.found[p] = Refused,
                                   !.docs[p] = SavedDocument(p, own)])
    /\ UNCHANGED <<runWorker, takeOvers, selected, evidence, assessed, used, sharedVars, original>>

\* Every selected paper has its document: the summaries are generated from them.
Generate(f) ==
    /\ ReaderAt(f, "papers") /\ Holds(f)
    /\ Unsaved(reader[f].docs) = {}
    /\ used' = used \cup {reader[f].docs}
    /\ Becomes(f, [reader[f] EXCEPT !.at = "complete"])
    /\ UNCHANGED <<runWorker, takeOvers, selected, content, evidence, assessed, sharedVars, original>>

-----------------------------------------------------------------------------
(* complete_run: automatic verification, once for a run, and its findings in    *)
(* the assessment that decides whether the run is held.                         *)

Verify(f) ==
    /\ ReaderAt(f, "complete") /\ Holds(f)
    /\ Becomes(f, IF evidence # Lacking
                    THEN [NotReading EXCEPT !.at = "assess", !.found = evidence]
                    ELSE LookUp(NotReading, "arxiv", selected \cap ArxivPapers, "evidence"))
    /\ UNCHANGED <<runWorker, takeOvers, sourceVars, sharedVars, original>>

\* Mutant: the worker's own findings are kept when others were saved first.
OwnFindings(own) == own

\* The unique automatic row: its findings count, whoever saved them.
SavedFindings(own) == IF evidence = Lacking THEN own ELSE evidence

SaveEvidence(f) ==
    LET l == reader[f] IN
    /\ ReaderAt(f, "evidence")
    /\ evidence' = SavedFindings(l.found)
    /\ Becomes(f, [l EXCEPT !.at = "assess", !.found = SavedFindings(l.found)])
    /\ UNCHANGED <<runWorker, takeOvers, selected, content, assessed, used, sharedVars, original>>

Assess(f) ==
    /\ ReaderAt(f, "assess") /\ Holds(f)
    /\ assessed' = reader[f].found
    /\ Becomes(f, NotReading)
    /\ UNCHANGED <<runWorker, takeOvers, selected, content, evidence, used, sharedVars, original>>

-----------------------------------------------------------------------------
(* The surroundings.                                                           *)

\* A worker that finds it lost the run, or that fails or dies, stops; its run is
\* left to recovery.
Stop(f) ==
    /\ ~ReaderAt(f, "idle")
    /\ Becomes(f, NotReading)
    /\ UNCHANGED <<runWorker, takeOvers, sourceVars, sharedVars, original>>

TakeOver(f) ==
    /\ runWorker # f /\ assessed = Lacking
    /\ takeOvers < MaxTakeOvers
    /\ runWorker' = f /\ takeOvers' = takeOvers + 1
    /\ UNCHANGED <<sourceVars, sharedVars, original, reader>>

\* A claim lasts longer than the deadline of the fetch (30 s and 18 s for PMC, 20 s
\* and 8 s for arXiv): it lapses only once its worker died or the fetch is over.
ProviderOpens(s) ==
    /\ \/ provider[s].open = "cooling"
       \/ /\ provider[s].open = "leased"
          /\ ~(ReaderAt(provider[s].token, "fetch") /\ reader[provider[s].token].of = s)
    /\ provider' = [provider EXCEPT ![s] = [open |-> "open", token |-> @.token]]
    /\ UNCHANGED <<runWorker, takeOvers, sourceVars, cache, requests, pmcWindow, sent, original, reader>>

WindowEnds ==
    /\ pmcWindow = "running" /\ pmcWindow' = "over"
    /\ provider' = IF provider["pmc"].open = "exhausted"
                     THEN [provider EXCEPT !["pmc"].open = "open"] ELSE provider
    /\ UNCHANGED <<runWorker, takeOvers, sourceVars, cache, requests, sent, original, reader>>

CacheExpires(p) ==
    /\ cache[p] # Missing
    /\ cache' = [cache EXCEPT ![p] = Missing]
    /\ UNCHANGED <<runWorker, takeOvers, sourceVars, provider, requests, pmcWindow, sent, original, reader>>

SourceChanges(p) ==
    /\ original[p] < MaxSource
    /\ original' = [original EXCEPT ![p] = @ + 1]
    /\ UNCHANGED <<runWorker, takeOvers, sourceVars, sharedVars, reader>>

EvidenceNext ==
    \/ \E f \in Readers : \/ WithoutFetch(f) \/ Claim(f) \/ Exhaust(f) \/ FetchSource(f) \/ Record(f)
                          \/ Prepare(f) \/ NextPaper(f) \/ Fence(f) \/ SaveDocument(f) \/ Generate(f)
                          \/ Verify(f) \/ SaveEvidence(f) \/ Assess(f)
                          \/ Stop(f) \/ TakeOver(f)
    \/ \E s \in Providers : ProviderOpens(s)
    \/ WindowEnds
    \/ \E p \in Papers : CacheExpires(p) \/ SourceChanges(p)

EvidenceSpec == EvidenceInit /\ [][EvidenceNext]_evidenceVars

-----------------------------------------------------------------------------
(* Properties.                                                                 *)

Lookups == [Papers -> Documents]

EvidenceTypeOK ==
    /\ selected \subseteq Papers
    /\ runWorker \in Readers /\ takeOvers \in 0 .. MaxTakeOvers
    /\ content \in [Papers -> Documents \cup {Missing}]
    /\ evidence \in Lookups \cup {Lacking} /\ assessed \in Lookups \cup {Lacking}
    /\ provider \in [Providers -> [open : {"open", "leased", "cooling", "exhausted"}, token : Readers \cup {NoReader}]]
    /\ requests \in Nat /\ sent \in Nat /\ pmcWindow \in {"running", "over"}
    /\ original \in [Papers -> 1 .. MaxSource]

\* All generations of a run, of whichever worker and however the sources changed in
\* between, were given the documents saved for it, and it was completed with the
\* findings saved for it.
InputsAreSaved ==
    /\ \A docs \in used : docs = content
    /\ assessed # Lacking => assessed = evidence

\* PMC gets no more requests in a window than the budget, whatever becomes of the
\* workers that made them; and no provider is asked by two workers at once.
ProvidersAreSpared ==
    /\ sent <= Budget
    /\ \A s \in Providers :
          Cardinality({f \in Readers : ReaderAt(f, "fetch") /\ reader[f].of = s}) <= 1
=============================================================================
