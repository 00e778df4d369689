------------------------------ MODULE NewsPipeline ------------------------------
(***************************************************************************)
(* The ingestion and deduplication service of the news pipeline,           *)
(* application/services/pipeline.py, over the two repositories it runs on: *)
(* the in-memory one and the PostgreSQL one.  One process ingests batches  *)
(* of source records one record at a time; each record ends as one         *)
(* disposition: rejected, canonical, exact duplicate or near duplicate.    *)
(*                                                                         *)
(* A text (title, summary and language) is an element of Contents and is   *)
(* its own exact content hash, so a stored article is identified by its    *)
(* content: articles.exact_content_hash is unique.                         *)
(***************************************************************************)
EXTENDS Integers, FiniteSets

CONSTANTS
    Sources,          \* source keys
    ArticleIds,       \* identifiers a source may give an article
    Contents,         \* normalized texts that pass validation
    None,             \* a missing identifier, text or reference
    Pages,            \* what a URL and a title name together
    Records,          \* the observations the sources may deliver
    Similarity,       \* blended score of two texts
    Threshold,        \* settings.near_duplicate_threshold
    WindowHours,      \* settings.near_duplicate_window_hours
    MaxCandidates,    \* settings.near_duplicate_max_candidates
    Wordless,         \* texts in which the vectorizer finds no token
    MaxObservations   \* bound on the records ingested in one behaviour

ASSUME NoneAssumption == None \notin Contents \cup ArticleIds \cup Sources

\* A record whose content is None fails validation; one without identifier is
\* named after its page, or after its position when it is rejected.
ASSUME RecordsAssumption ==
    Records \subseteq [source : Sources, id : ArticleIds \cup {None}, page : Pages,
                       content : Contents \cup {None}, published : Int]

ASSUME ParametersAssumption ==
    /\ Similarity \in [Contents \X Contents -> Nat]
    /\ Threshold \in Nat
    /\ WindowHours \in Nat
    /\ MaxCandidates \in Nat \ {0}
    /\ MaxObservations \in Nat

VARIABLES
    profile,       \* settings.profile: which repository the process uses
    sources,       \* source rows
    raws,          \* raw_articles
    articles,      \* articles, by content
    duplicates,    \* article_duplicates: <<candidate, canonical>>
    dispositions,  \* observation_dispositions
    analysed,      \* articles with links, event and sentiment
    runs,          \* ingestion runs stored with each status
    counts,        \* the Counter of the batch in progress
    seen           \* history: the observations ingested, and under which id

tables == <<sources, raws, articles, duplicates, dispositions>>
vars == <<profile, tables, analysed, runs, counts, seen>>

-----------------------------------------------------------------------------
\* Observation identifiers.  A record without one is named by a hash of its
\* source, URL, title and time, and not of its summary; the fallback of a
\* rejected record is its position in the batch.
ObservationId(r) ==
    IF r.id # None THEN <<"given", r.id>>
                   ELSE <<"derived", r.source, r.page, r.published>>

UnvalidatedId(r) ==
    IF r.id # None THEN <<"given", r.id>>
                   ELSE <<"unidentified", counts.fetched + 1>>

NoArticle == [state |-> "absent", raw |-> None, published |-> 0]

Stored == {c \in Contents : articles[c].state # "absent"}
\* Mutant: the filter on the state is dropped.
ProcessedAnyState == Stored
Processed == {c \in Contents : articles[c].state = "processed"}

Valid(r) == r.content # None
RawOf(r) == [source |-> r.source, id |-> ObservationId(r), content |-> r.content]
RawKnown(r) ==
    \E raw \in raws : raw.source = r.source /\ raw.id = ObservationId(r)

Init ==
    /\ profile \in {"memory", "postgres"}
    /\ sources = {} /\ raws = {} /\ duplicates = {} /\ dispositions = {}
    /\ articles = [c \in Contents |-> NoArticle]
    /\ analysed = {} /\ seen = {}
    /\ runs = [s \in {"started", "completed", "failed"} |-> 0]
    /\ counts = [k \in {"fetched", "accepted", "exact", "near", "rejected"} |-> 0]

-----------------------------------------------------------------------------
(* Repository operations. *)

\* Mutant: the last disposition wins in both repositories.
AddDispositionLast(d) ==
    dispositions' = {e \in dispositions : e.obs # d.obs} \cup {d}

\* PostgreSQL keeps the first disposition of an observation id, the memory
\* repository the last.
AddDisposition(d) ==
    LET same == {e \in dispositions : e.obs = d.obs}
    IN  dispositions' = IF profile = "memory"
                        THEN (dispositions \ same) \cup {d}
                        ELSE IF same = {} THEN dispositions \cup {d}
                                          ELSE dispositions

\* The memory repository shares the run with the caller, who finishes it;
\* PostgreSQL stores the run as it was when it started.
AddIngestionRun(outcome) ==
    LET status == IF profile = "memory" THEN outcome ELSE "started"
    IN  runs' = [runs EXCEPT ![status] = @ + 1]

AddSource(r) == sources' = sources \cup {r.source}

AddRaw(r) == raws' = raws \cup {RawOf(r)}

AddArticle(r, state) ==
    articles' = [articles EXCEPT ![r.content] =
        [state |-> state, raw |-> RawOf(r), published |-> r.published]]

\* The observation that made c an article: its canonical disposition, or else
\* the identifier of the raw article behind it.
CanonicalObservationId(c) ==
    LET ds == {d \in dispositions : d.outcome = "canonical" /\ d.article = c}
    IN  IF ds # {} THEN (CHOOSE d \in ds : TRUE).obs ELSE articles[c].raw.id

\* Mutant: the two references are swapped.
DispositionSwapped(obs, outcome, canonical, article) ==
    [obs |-> obs, outcome |-> outcome, canonical |-> article, article |-> canonical]

Disposition(obs, outcome, canonical, article) ==
    [obs |-> obs, outcome |-> outcome, canonical |-> canonical, article |-> article]

-----------------------------------------------------------------------------
(* find_near_duplicate *)

Gap(c, p) == IF articles[c].published >= p THEN articles[c].published - p
                                           ELSE p - articles[c].published

\* Mutant: near duplicates are compared with near duplicates too.
WindowAnyState(r) == {c \in Stored : c # r.content /\ Gap(c, r.published) <= WindowHours}

\* The processed articles published within the window around p.
Window(r) == {c \in Processed : c # r.content /\ Gap(c, r.published) <= WindowHours}

\* c comes before d when the pool is cut: nearer in time, then later published.
Before(c, d, p) ==
    \/ Gap(c, p) < Gap(d, p)
    \/ Gap(c, p) = Gap(d, p) /\ articles[c].published >= articles[d].published

\* The candidates the scores are computed for; ties are broken by article ids.
Pools(r) ==
    LET all == Window(r)
    IN  {pool \in SUBSET all :
            /\ pool = all \/ Cardinality(pool) = MaxCandidates
            /\ Cardinality(pool) <= MaxCandidates
            /\ \A c \in pool, d \in all \ pool : Before(c, d, r.published)}

\* No token in any text of the corpus: the vectorizer raises.
Unscorable(r, pool) == pool # {} /\ pool \cup {r.content} \subseteq Wordless

Best(r, pool) ==
    {c \in pool : \A d \in pool :
        Similarity[<<r.content, c>>] >= Similarity[<<r.content, d>>]}

NearDuplicates(r, pool) ==
    {c \in Best(r, pool) : Similarity[<<r.content, c>>] >= Threshold}

-----------------------------------------------------------------------------
(* ingest_records: one action per way a record can end. *)

Total == runs["started"] + runs["completed"] + runs["failed"]

Count(kinds) ==
    counts' = [k \in DOMAIN counts |->
                  IF k \in kinds \cup {"fetched"} THEN counts[k] + 1 ELSE counts[k]]

\* What every record does, whatever becomes of it.
Observe(r, obs, kinds, outcome) ==
    /\ Total < MaxObservations
    /\ AddSource(r)
    /\ AddIngestionRun(outcome)
    /\ Count(kinds)
    /\ seen' = seen \cup {<<r, obs>>}
    /\ UNCHANGED <<profile, analysed>>

\* Validation fails: the record is quarantined and the batch goes on.
RejectInvalid(r) ==
    /\ ~Valid(r)
    /\ Observe(r, UnvalidatedId(r), {"rejected"}, "failed")
    /\ AddDisposition(Disposition(UnvalidatedId(r), "rejected", None, None))
    /\ UNCHANGED <<raws, articles, duplicates>>

\* The source already delivered this identifier.  The disposition refers to the
\* article of the content as it is now, if there is one.
ReplayObservation(r) ==
    /\ Valid(r) /\ RawKnown(r)
    /\ Observe(r, ObservationId(r), {"exact"}, "completed")
    /\ LET c == r.content
       IN  AddDisposition(IF c \in Stored
              THEN Disposition(ObservationId(r), "exact_duplicate",
                               CanonicalObservationId(c), c)
              ELSE Disposition(ObservationId(r), "exact_duplicate", None, None))
    /\ UNCHANGED <<raws, articles, duplicates>>

\* A new observation of a text that is already an article.
ExactDuplicate(r) ==
    /\ Valid(r) /\ ~RawKnown(r) /\ r.content \in Stored
    /\ Observe(r, ObservationId(r), {"exact"}, "completed")
    /\ AddRaw(r)
    /\ AddDisposition(Disposition(ObservationId(r), "exact_duplicate",
                                  CanonicalObservationId(r.content), r.content))
    /\ UNCHANGED <<articles, duplicates>>

NewArticle(r) == Valid(r) /\ ~RawKnown(r) /\ r.content \notin Stored

\* The raw article and the article are stored before the scores are computed,
\* and stay when that fails.
FailScoring(r) ==
    /\ NewArticle(r)
    /\ \E pool \in Pools(r) : Unscorable(r, pool)
    /\ Observe(r, ObservationId(r), {"rejected"}, "failed")
    /\ AddRaw(r)
    /\ AddArticle(r, "processed")
    /\ AddDisposition(Disposition(ObservationId(r), "rejected", None, None))
    /\ UNCHANGED duplicates

\* Mutant: the pair is stored the wrong way round.
NearDuplicateSwapped(r) ==
    /\ NewArticle(r)
    /\ Observe(r, ObservationId(r), {"near", "accepted"}, "completed")
    /\ AddRaw(r)
    /\ AddArticle(r, "duplicate")
    /\ \E pool \in Pools(r) : \E c \in NearDuplicates(r, pool) :
          /\ duplicates' = duplicates \cup {<<c, r.content>>}
          /\ AddDisposition(Disposition(ObservationId(r), "near_duplicate",
                                        CanonicalObservationId(c), c))

NearDuplicate(r) ==
    /\ NewArticle(r)
    /\ Observe(r, ObservationId(r), {"near", "accepted"}, "completed")
    /\ AddRaw(r)
    /\ AddArticle(r, "duplicate")
    /\ \E pool \in Pools(r) :
          /\ ~Unscorable(r, pool)
          /\ \E c \in NearDuplicates(r, pool) :
                /\ duplicates' = duplicates \cup {<<r.content, c>>}
                /\ AddDisposition(Disposition(ObservationId(r), "near_duplicate",
                                              CanonicalObservationId(c), c))

Canonical(r) ==
    /\ NewArticle(r)
    /\ \E pool \in Pools(r) : ~Unscorable(r, pool) /\ NearDuplicates(r, pool) = {}
    /\ Observe(r, ObservationId(r), {"accepted"}, "completed")
    /\ AddRaw(r)
    /\ AddArticle(r, "processed")
    /\ AddDisposition(Disposition(ObservationId(r), "canonical",
                                  ObservationId(r), r.content))
    /\ UNCHANGED duplicates

\* process_articles: links, event and sentiment of every processed article.
ProcessArticles ==
    /\ analysed' = analysed \cup Processed
    /\ UNCHANGED <<profile, tables, runs, counts, seen>>

\* The command returns its counts; the next one starts a new batch.
NextBatch ==
    /\ counts.fetched > 0
    /\ counts' = [k \in DOMAIN counts |-> 0]
    /\ UNCHANGED <<profile, tables, analysed, runs, seen>>

Ingest(r) ==
    \/ RejectInvalid(r) \/ ReplayObservation(r) \/ ExactDuplicate(r)
    \/ FailScoring(r) \/ NearDuplicate(r) \/ Canonical(r)

Next == (\E r \in Records : Ingest(r)) \/ ProcessArticles \/ NextBatch

Spec == Init /\ [][Next]_vars

-----------------------------------------------------------------------------
(* build_deduplication_accounting *)

Outcomes == {"rejected", "canonical", "exact_duplicate", "near_duplicate"}
ValidDispositions == {d \in dispositions : d.outcome # "rejected"}
CanonicalDispositions == {d \in dispositions : d.outcome = "canonical"}
CanonicalArticles == {d.article : d \in CanonicalDispositions}

\* The accounting goes through: none of its errors is raised.
AccountingAccepts ==
    /\ \A d \in ValidDispositions :
          d.canonical # None /\ d.article # None /\ d.article \in CanonicalArticles
    /\ \A d \in CanonicalDispositions : d.canonical = d.obs

-----------------------------------------------------------------------------
(* Properties. *)

\* Every variable holds rows of its table.
TypeOK ==
    /\ profile \in {"memory", "postgres"}
    /\ sources \subseteq Sources
    /\ \A raw \in raws : raw.source \in Sources /\ raw.content \in Contents
    /\ DOMAIN articles = Contents
    /\ \A c \in Contents :
          /\ articles[c].state \in {"absent", "processed", "duplicate"}
          /\ articles[c].published \in Int
    /\ duplicates \subseteq Contents \X Contents
    /\ \A d \in dispositions : d.outcome \in Outcomes
                               /\ d.article \in Contents \cup {None}
    /\ analysed \subseteq Contents
    /\ \A k \in DOMAIN counts : counts[k] \in Nat
    /\ \A k \in DOMAIN runs : runs[k] \in Nat

\* Near-duplicate rows never chain: the candidate of a row is marked duplicate,
\* and what it points to was and still is a processed article, however many
\* articles were ingested in between.
LinksAreOneHop ==
    \A link \in duplicates :
        /\ articles[link[1]].state = "duplicate"
        /\ articles[link[2]].state = "processed"

\* An article is marked duplicate exactly when one row says of what.
DuplicatesHaveOneLink ==
    \A c \in Contents :
        Cardinality({link \in duplicates : link[1] = c}) =
            IF articles[c].state = "duplicate" THEN 1 ELSE 0

\* A source never has two raw articles under one identifier, and the raw
\* article an article was made from is stored with that very text.
RawsBackArticles ==
    /\ \A x, y \in raws : x.source = y.source /\ x.id = y.id => x = y
    /\ \A c \in Stored : articles[c].raw \in raws /\ articles[c].raw.content = c

\* The disposition ledger never disagrees with the article tables, through
\* collisions of identifiers, replays and corrected texts.
LedgerMatchesTables ==
    \A d \in dispositions :
        /\ d.outcome = "canonical" =>
              /\ articles[d.article].state = "processed"
              /\ articles[d.article].raw.id = d.obs
        /\ d.outcome = "near_duplicate" =>
              \E link \in duplicates : /\ link[2] = d.article
                                       /\ articles[link[1]].raw.id = d.obs
        /\ d.outcome = "exact_duplicate" /\ d.article # None => d.article \in Stored

\* The accounting compares articles and checks canonical observation ids only
\* for presence, yet whenever it accepts the ledger, the id each duplicate is
\* assigned to is a canonical observation of that same article.
AcceptedAccountingIsOneHop ==
    AccountingAccepts =>
        \A d \in ValidDispositions :
            \E k \in CanonicalDispositions : k.obs = d.canonical /\ k.article = d.article

\* Links, events and sentiment are only ever those of canonical articles: none
\* that was analysed turns into a duplicate later.
OnlyCanonicalsAnalysed == \A c \in analysed : articles[c].state = "processed"

\* In PostgreSQL a disposition, once written, is neither changed nor dropped.
LedgerImmutable == [][profile = "postgres" => dispositions \subseteq dispositions']_vars

\* In PostgreSQL, ingesting an observation again under the same identifier
\* leaves the business tables as they are ("canonical business tables stable").
ReplayChangesNothing ==
    [][\A r \in Records, obs \in {s[2] : s \in seen} :
          /\ profile = "postgres"
          /\ <<r, obs>> \in seen
          /\ Ingest(r)
          /\ obs = IF Valid(r) THEN ObservationId(r) ELSE UnvalidatedId(r)
          => UNCHANGED tables]_vars

\* Running a batch again rewrites nothing: neither the ledger, as it is for
\* good, nor the business tables.
ReplaysKeepRows == LedgerImmutable /\ ReplayChangesNothing

\* What the tables and the ledger say of duplicates stays right together: every
\* near duplicate has one row, of one hop, every article its raw article, and
\* the ledger says the same, in what the accounting accepts down to the ids.
DuplicatesSound == LinksAreOneHop /\ DuplicatesHaveOneLink
LedgerSound == RawsBackArticles /\ LedgerMatchesTables /\ AcceptedAccountingIsOneHop

\* What the accounting document promises: every duplicate observation refers to
\* a canonical observation.  A copy of a text that is itself a near duplicate,
\* or of one whose canonical disposition was lost, does not.
DuplicatesReferenceCanonical ==
    \A d \in ValidDispositions :
        \E k \in CanonicalDispositions : k.obs = d.canonical /\ k.article = d.article

-----------------------------------------------------------------------------
\* The pipeline implements the register of canonical texts.
Role(c) ==
    CASE articles[c].state = "absent"    -> None
      [] articles[c].state = "processed" -> c
      [] articles[c].state = "duplicate" ->
            (CHOOSE link \in duplicates : link[1] = c)[2]

Register == INSTANCE CanonicalRegister
    WITH Texts <- Contents, Unknown <- None,
         canonical <- [c \in Contents |-> Role(c)]

RegisterSpec == Register!Spec
=============================================================================
