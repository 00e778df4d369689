-------------------------------- MODULE ReadApi --------------------------------
(***************************************************************************)
(* The read-only HTTP API (interfaces/api/app.py) over the PostgreSQL      *)
(* database that the commands of DatabaseCommands write.  Nearly every     *)
(* endpoint has build_static_payload of export_static.py read the whole    *)
(* database, one statement after another, and then filters and cuts out of *)
(* one section what it was asked for.                                      *)
(*                                                                         *)
(* The process of the API commits the start of bootstrap.py before it      *)
(* serves.  A row is a function from fields to values; the sections that   *)
(* no command of DatabaseCommands writes are the constant FileSections.    *)
(* One client asks one thing at a time: all requests share one session.    *)
(***************************************************************************)
EXTENDS DatabaseCommands, SequencesExt, TLC

CONSTANTS
    ArticleText,    \* the words, the source_key and the language of an article
    FileSections,   \* rows of the sections that no modelled command writes
    Questions,      \* what the client may ask
    UnknownTicker,  \* "UNKNOWN"
    NoQuestion,     \* nothing has been asked
    MaxQuestions    \* bound: questions asked

VARIABLES client, questionsAsked

apiVars == <<client, questionsAsked>>
readVars == <<databaseVars, apiVars>>

-----------------------------------------------------------------------------
(* The endpoints                                                           *)

\* What lets a row through, by one of its fields.
Is(field) == [test |-> "equal", field |-> field]
Among(field) == [test |-> "member", field |-> field]
NotBefore(field) == [test |-> "from", field |-> field]
NotAfter(field) == [test |-> "to", field |-> field]
Slice(kind) == [test |-> "slice", field |-> kind]

\* All rows of a section that match; those of what must be found in a section
\* by its key (of); those with a given key; matching rows cut into pages.  A
\* direct answer reads its rows and no other section.
Rowset(section, filters) ==
    [answer |-> "payload", section |-> section, filters |-> filters,
     of |-> <<>>, usual |-> 0, most |-> 0]
Whole(section) == Rowset(section, <<>>)
RowsOf(of, key, section, filter) ==
    [Rowset(section, [id |-> filter]) EXCEPT !.of = <<of, key>>]
Detail(section, key) == RowsOf(section, key, section, Is(key))
Page(section, filters, usual, most) ==
    [Rowset(section, filters) EXCEPT !.usual = usual, !.most = most]
Direct(endpoint) == [endpoint EXCEPT !.answer = "direct"]

NewsPaths == [
    articles |-> Page("articles",
        [query |-> Among("words"), source |-> Is("source_key"),
         ticker |-> Among("tickers"), event_type |-> Is("event"),
         sentiment_label |-> Is("sentiment"), language |-> Is("language"),
         published_from |-> NotBefore("market_date"),
         published_to |-> NotAfter("market_date")], 20, 100),
    article |-> Detail("articles", "article_id"),
    companies |-> Whole("companies"),
    company_articles |-> RowsOf("companies", "ticker", "articles", Among("tickers")),
    events |-> Direct(Whole("events")),
    digest |-> Direct(Detail("digests", "digest_date")),
    daily_signals |-> Rowset("signals", [signal_date |-> Is("signal_date")]),
    pipeline_runs |-> Direct(Whole("pipeline-runs")),
    overview |-> Whole("overview")]

SourcePaths == [
    sources |-> Page("sources",
        [source_kind |-> Is("source_type"), approval_status |-> Is("approval_status"),
         enabled |-> Is("enabled"), health |-> Is("health")], 50, 100),
    source |-> Detail("sources", "source_id"),
    source_health |-> Detail("source-health", "source_id"),
    source_reviews |-> Page("source-reviews",
        [review_decision |-> Is("review_decision"),
         live_smoke_status |-> Is("live_smoke_status")], 50, 100),
    source_review |-> Detail("source-reviews", "source_id"),
    source_fetch_attempts |-> Page("source-fetch-attempts",
        [source_id |-> Is("source_id"), outcome |-> Is("outcome"),
         started_from |-> NotBefore("started_day"),
         started_to |-> NotAfter("started_day")], 50, 100)]

NlpPaths == [
    nlp_overview |-> Whole("nlp-overview"),
    nlp_models |-> Page("nlp-models",
        [task |-> Is("task"), provider |-> Is("provider"), status |-> Is("status"),
         dataset_version |-> Is("dataset_version")], 50, 100),
    nlp_model |-> Detail("nlp-models", "model_id"),
    nlp_evaluations |-> Page("nlp-evaluations",
        [task |-> Is("task"), dataset_version |-> Is("dataset_version"),
         evaluation_split |-> Is("split"), language |-> Among("languages")], 50, 100),
    nlp_evaluation |-> Detail("nlp-evaluations", "evaluation_id"),
    nlp_error_analysis |-> Page("nlp-error-analysis", [task |-> Is("task")], 50, 100)]

ResearchPaths == [
    research_overview |-> Whole("research-overview"),
    research_calendars |-> Whole("research-calendars"),
    research_exports |-> Page("research-exports",
        [export_id |-> Is("export_id"), calendar_id |-> Is("calendar_id")], 20, 100),
    research_export |-> Detail("research-exports", "export_id"),
    research_features |-> Page("research-feature-sample",
        [export_id |-> Is("export_id"), calendar_id |-> Is("calendar_id"),
         session_from |-> NotBefore("session_date"),
         session_to |-> NotAfter("session_date"),
         ticker |-> Is("ticker"), company_id |-> Is("company_id"),
         window |-> Is("window_sessions"), has_news |-> Is("has_news"),
         feature_schema_version |-> Is("feature_schema_version")], 50, 200),
    research_lineage |-> Detail("research-lineage-sample", "lineage_row_id"),
    research_feature_catalog |-> Whole("research-feature-catalog")]

AssetPaths == [
    assets |-> Page("assets",
        [asset_class |-> Is("asset_class"), region |-> Is("country_region"),
         venue |-> Is("home_venue"), currency |-> Among("currencies"),
         active |-> Is("active")], 50, 100),
    asset |-> Detail("assets", "asset_id"),
    asset_aliases |-> RowsOf("assets", "asset_id", "asset-aliases", Is("asset_id")),
    asset_events |-> RowsOf("assets", "asset_id", "event-impacts", Is("asset_id")),
    asset_relationships |-> Whole("asset-relationships"),
    cross_asset_events |-> Whole("cross-asset-events")]

SignalFilters == [
    asset_class |-> Is("asset_class"), direction |-> Is("direction"),
    horizon |-> Is("horizon"), provider |-> Is("provider"), status |-> Is("status"),
    active |-> Is("active"), date_from |-> NotBefore("cutoff_day"),
    date_to |-> NotAfter("cutoff_day")]

ImpactPaths == [
    event_impacts |-> Page("event-impacts",
        SignalFilters @@ [event_family |-> Is("event_family")], 50, 200)]

SignalPaths == [
    market_signals |-> Page("market-signals", SignalFilters, 50, 100),
    market_signal |-> Detail("market-signals", "signal_id"),
    cross_asset_overview |-> Whole("cross-asset-overview")]

Mt5Paths == [
    mt5_readiness |-> Whole("mt5-readiness"),
    mt5_readonly_overview |-> Whole("mt5-readonly-overview"),
    mt5_readonly_readiness |-> Whole("mt5-readonly-readiness"),
    mt5_readonly_symbol_map_schema |-> Whole("mt5-readonly-symbol-map-schema"),
    mt5_readonly_runs |-> Whole("mt5-readonly-runs")]

\* Studies and errors name some of these fields otherwise.
AssetFilters == [
    scenario |-> Is("scenario_id"), asset_id |-> Is("asset_id"),
    asset_class |-> Is("asset_class"), event_family |-> Is("event_family"),
    horizon |-> Is("horizon")]

ReactionPaths == [
    market_reaction_overview |-> Whole("market-reaction-overview"),
    market_reaction_scenarios |-> Whole("market-reaction-scenarios"),
    market_reaction_studies |-> Page("market-reaction-studies",
        AssetFilters @@ [date_from |-> NotBefore("decision_day"),
                         date_to |-> NotAfter("decision_day")], 50, 200),
    market_reaction_labels |-> Page("market-reaction-labels",
        AssetFilters @@ [direction |-> Is("signal_direction"), label |-> Is("label"),
                         regime |-> Is("market_state"), provider |-> Is("provider")],
        50, 200),
    market_reaction_metrics |-> Page("market-reaction-metrics",
        [scenario |-> Is("scenario_id"), horizon |-> Slice("horizon"),
         asset_class |-> Slice("asset_class"), event_family |-> Slice("event_family"),
         regime |-> Slice("regime"), provider |-> Slice("source_provider")], 100, 200)]

ReactionErrorPaths == [
    market_reaction_error_analysis |-> Page("market-reaction-error-analysis",
        AssetFilters @@ [regime |-> Is("regime"), label |-> Is("observed_label")], 50, 200)]

MarketDataPaths == [
    market_data_packages |-> Page("market-data-packages",
        [scenario |-> Is("scenario_id"), provider |-> Is("provider")], 50, 100),
    market_data_bars |-> Direct(Page("market-data-bars",
        [scenario |-> Is("scenario_id"), asset_id |-> Is("asset_id"),
         asset_class |-> Is("asset_class"), regime |-> Is("market_state"),
         date_from |-> NotBefore("session_date"), date_to |-> NotAfter("session_date")],
        50, 200))]

PaperPaths == [
    paper_overview |-> Whole("paper-overview"),
    paper_risk_policies |-> Whole("paper-risk-policies"),
    paper_risk_decisions |-> Page("paper-risk-decisions",
        [scenario |-> Is("scenario_id"), risk_decision |-> Is("risk_decision")], 50, 200),
    paper_orders |-> Page("paper-orders", [scenario |-> Is("scenario_id")], 50, 200),
    paper_fills |-> Page("paper-fills",
        [scenario |-> Is("scenario_id"), fill_status |-> Is("fill_status")], 50, 200),
    paper_positions |-> Page("paper-positions", [scenario |-> Is("scenario_id")], 50, 200),
    paper_nav |-> Rowset("paper-nav", [scenario |-> Is("scenario_id")]),
    paper_runs |-> Rowset("paper-runs", [scenario |-> Is("scenario_id")])]

OfficialSeriesPaths == [
    official_overview |-> Whole("official-data-overview"),
    official_datasets |-> Page("official-datasets", [source_id |-> Is("source_id")], 50, 100),
    official_series |-> Page("official-series",
        [source_id |-> Is("source_id"), dataset_id |-> Is("dataset_id")], 50, 100)]

ObservationPaths == [
    official_observations |-> Page("official-observations",
        [dataset_id |-> Is("dataset_id"), profile_id |-> Is("profile_id"),
         as_of |-> [test |-> "as of", field |-> "revisions"]], 50, 200)]

OfficialDocumentPaths == [
    official_revisions |-> Detail("official-observation-revisions", "observation_key"),
    official_documents |-> Page("official-regulatory-documents",
        [agency |-> Among("agencies"), document_type |-> Is("document_type"),
         published_from |-> NotBefore("publication_date"),
         published_to |-> NotAfter("publication_date")], 50, 100),
    official_associations |-> Page("official-series-asset-associations",
        [profile_id |-> Is("profile_id"), asset_id |-> Is("asset_id")], 50, 200),
    official_release_events |-> Page("official-release-events",
        [source_id |-> Is("source_id"), event_family |-> Is("event_family")], 50, 200)]

PathsOfFiles ==
    {SourcePaths, NlpPaths, ResearchPaths, AssetPaths, ImpactPaths, SignalPaths, Mt5Paths,
     ReactionPaths, ReactionErrorPaths, MarketDataPaths, PaperPaths, OfficialSeriesPaths,
     ObservationPaths, OfficialDocumentPaths}
Paths == {NewsPaths} \cup PathsOfFiles

Endpoints ==
    [path \in UNION {DOMAIN paths : paths \in Paths} |->
        (CHOOSE paths \in Paths : path \in DOMAIN paths)[path]]

-----------------------------------------------------------------------------
(* The sections                                                            *)

\* What each part of the payload is made of.
NewsSections == {"articles", "companies", "signals", "digests", "overview"}
SourceSections == {"sources", "source-reviews", "source-review-examples", "source-health",
    "source-fetch-attempts", "source-conditional-examples"}
NlpSections == {"nlp-overview", "nlp-models", "nlp-evaluations", "nlp-error-analysis",
    "nlp-dataset-card"}
ResearchSections == {"research-overview", "research-calendars", "research-exports",
    "research-feature-catalog", "research-feature-sample", "research-lineage-sample",
    "research-quality-report", "research-leakage-audit"}
CrossAssetSections == {"cross-asset-overview", "assets", "asset-aliases",
    "asset-relationships", "cross-asset-events", "event-impacts", "market-signals",
    "mt5-readiness", "market-signal-contract-example"}
Mt5Sections == {"mt5-readonly-overview", "mt5-readonly-readiness",
    "mt5-readonly-symbol-map-schema", "mt5-readonly-runs"}
PaperSections == {"paper-overview", "paper-risk-policies", "paper-risk-decisions",
    "paper-orders", "paper-fills", "paper-positions", "paper-nav", "paper-runs"}
OfficialSections == {"official-data-overview", "official-datasets", "official-series",
    "official-observations", "official-observation-revisions",
    "official-regulatory-documents", "official-series-asset-associations",
    "official-release-events", "official-data-release-runs"}
ReactionSections == {"market-reaction-overview", "market-reaction-scenarios",
    "market-reaction-studies", "market-reaction-labels", "market-reaction-labels-sample",
    "market-reaction-metrics", "market-reaction-error-analysis",
    "market-reaction-leakage-audit", "market-data-packages", "market-data-bars-sample",
    "market-data-synthetic-summary"}

\* A part later in the payload would replace a section of an earlier one:
\* every endpoint finds its section, and no section is another part's.
ASSUME EndpointsHaveSections ==
    LET parts == <<NewsSections, SourceSections, NlpSections, ResearchSections,
                   CrossAssetSections, Mt5Sections, PaperSections, OfficialSections,
                   ReactionSections>>
    IN  /\ \A i, j \in DOMAIN parts : i # j => parts[i] \cap parts[j] = {}
        /\ \A paths, others \in Paths :
              paths # others => DOMAIN paths \cap DOMAIN others = {}
        /\ \A path \in DOMAIN Endpoints :
              /\ Endpoints[path].answer = "payload" =>
                    \E i \in DOMAIN parts : Endpoints[path].section \in parts[i]
              /\ Endpoints[path].section \notin NewsSections \cup {"events", "pipeline-runs"} =>
                    Endpoints[path].section \in DOMAIN FileSections

\* A question is of an endpoint and by the filters it has; its limit may be out
\* of range.
ASSUME ApiAssumption ==
    /\ IsFiniteSet(NewsArticles) /\ MaxQuestions \in Nat
    /\ UnknownTicker \notin Issuers
    /\ \A question \in Questions :
          /\ question.path \in DOMAIN Endpoints /\ question.limit \in Int
          /\ DOMAIN question.asked \subseteq DOMAIN Endpoints[question.path].filters

\* A row of a section of files has its own key and the fields it is filtered
\* by, those that the endpoint joins to it from another section included.
FileRows(section) == FileSections[section]

Company(c) == [ticker |-> c]
DigestShown(d) == [digest_date |-> d]
SignalShown(d, c) == [signal_date |-> d, ticker |-> c]

\* An article with the tickers of its links, as far as they were read.
ArticleShown(c, a) ==
    [article_id |-> a, market_date |-> MarketDate[a], words |-> ArticleText[a].words,
     source_key |-> ArticleText[a].source_key, language |-> ArticleText[a].language,
     tickers |-> {IF issuer \in c.companies THEN issuer ELSE UnknownTicker :
                     issuer \in c.links[a]}]

\* The k-th smallest of some numbers.
Nth(numbers, k) ==
    CHOOSE n \in numbers : Cardinality({m \in numbers : m <= n}) = k

NewestFirst(articles) ==
    LET count == Cardinality(articles)
    IN [k \in 1..count |-> Nth(articles, count + 1 - k)]

Committed(row) == database[row] # Absent
Canonical == {a \in NewsArticles : database[ArticleRow(a)] = Processed}

StoredDigests == {d \in MarketDates : Committed(DigestRow(d))}
StoredSignals == {pair \in MarketDates \X Issuers : Committed(SignalRow(pair[1], pair[2]))}

\* build_static_payload: a section, from what the request has read.
PayloadSection(c, section) ==
    CASE section = "articles" -> [i \in DOMAIN c.articles |-> ArticleShown(c, c.articles[i])]
      [] section = "companies" -> SetToSeq({Company(x) : x \in c.companies})
      [] section = "signals" -> SetToSeq({SignalShown(p[1], p[2]) : p \in c.signals})
      [] section = "digests" -> SetToSeq({DigestShown(d) : d \in c.digests})
      [] section = "overview" -> <<[article_count |-> c.accounted,
                                    company_count |-> Cardinality(c.companies)]>>
      [] OTHER -> FileRows(section)

\* What a direct answer reads.
DirectSection(section) ==
    CASE section = "digests" -> SetToSeq({DigestShown(d) : d \in StoredDigests})
      [] section = "events" ->
            SetToSeq({[article_id |-> a] : a \in {b \in NewsArticles : Committed(AnalysisRow(b))}})
      [] section = "pipeline-runs" ->
            SetToSeq({[status |-> database[RunRow(w)]] : w \in {v \in Workers : Committed(RunRow(v))}})
      [] OTHER -> FileRows(section)

-----------------------------------------------------------------------------
(* Filters and pages                                                       *)

\* A value lets a row through.
LetsThrough(filter, value, row) ==
    \/ filter.test = "equal" /\ row[filter.field] = value
    \/ filter.test = "member" /\ value \in row[filter.field]
    \/ filter.test = "from" /\ row[filter.field] >= value
    \/ filter.test = "to" /\ row[filter.field] <= value
    \/ filter.test = "slice" /\ row.slice_type = filter.field /\ row.slice_value = value
    \/ filter.test = "as of" /\ \E r \in row[filter.field] : r.available <= value

Matches(endpoint, asked, row) ==
    \A f \in DOMAIN asked : LetsThrough(endpoint.filters[f], asked[f], row)

Visible(row, asOf) == {r \in row.revisions : r.available <= asOf}

\* Under as_of a row shows the latest of the revisions available by then.
AsOf(asked, row) ==
    IF "as_of" \notin DOMAIN asked THEN row
    ELSE LET visible == Visible(row, asked.as_of)
             Later(r, s) == \/ s.available < r.available
                            \/ s.available = r.available /\ s.number <= r.number
         IN [row EXCEPT !.current = CHOOSE r \in visible : \A s \in visible : Later(r, s)]

\* The rows that match, in their order.
Matching(endpoint, asked, rows) ==
    LET places == {i \in DOMAIN rows : Matches(endpoint, asked, rows[i])}
    IN [k \in 1..Cardinality(places) |-> AsOf(asked, rows[Nth(places, k)])]

-----------------------------------------------------------------------------
(* A request                                                               *)

Nobody == [at |-> "idle", question |-> NoQuestion, offset |-> 0, accounted |-> 0,
           articles |-> <<>>, companies |-> {}, links |-> [a \in NewsArticles |-> {}],
           digests |-> {}, signals |-> {}, listed |-> {}, owed |-> {}]

ApiInit == client = Nobody /\ questionsAsked = 0

Endpoint == Endpoints[client.question.path]
Limit == IF client.question.limit = 0 THEN Endpoint.usual ELSE client.question.limit

\* Filters by what is never written again.
LastingFilters == {"query", "source", "language", "published_from", "published_to"}

Lasting(question) == question.path = "articles" /\ DOMAIN question.asked \subseteq LastingFilters

\* The articles that a question is owed an answer about: those that match it
\* when it is asked.
Owed(question) ==
    {a \in Canonical : /\ Lasting(question)
                       /\ Matches(NewsPaths.articles, question.asked,
                                  ArticleShown([Nobody EXCEPT !.companies = Issuers], a))}

\* Mutant: the API serves before its start is committed.
ServingBeforeCommit == \E w \in Workers : worker[w].command = "start"

\* build_repository returns when the start is committed.
Serving == \E w \in Workers : Committed(RunRow(w))

Ask(question) ==
    /\ client.at = "idle" /\ Serving /\ questionsAsked < MaxQuestions
    /\ questionsAsked' = questionsAsked + 1
    /\ client' = [Nobody EXCEPT !.at = "asked", !.question = question, !.owed = Owed(question)]
    /\ UNCHANGED databaseVars

\* A limit out of its range is refused (422).
RefuseLimit ==
    /\ client.at = "asked"
    /\ Endpoint.most > 0 /\ client.question.limit \notin 0..Endpoint.most
    /\ client' = [client EXCEPT !.at = "refused"]
    /\ UNCHANGED <<questionsAsked, databaseVars>>

Proceeds == Endpoint.most > 0 => client.question.limit \in 0..Endpoint.most

\* The accounting of the observations raises: 500.
AccountingRefuses ==
    /\ client.at = "asked" /\ Proceeds /\ Endpoint.answer = "payload"
    /\ client' = [client EXCEPT !.at = "failed"]
    /\ UNCHANGED <<questionsAsked, databaseVars>>

\* One statement of build_static_payload.
Reading(from, stage, request) ==
    /\ client.at = from
    /\ client' = [request EXCEPT !.at = stage]
    /\ UNCHANGED <<questionsAsked, databaseVars>>

ReadAccounting ==
    /\ client.at = "asked" /\ Proceeds /\ Endpoint.answer = "payload"
    /\ Reading("asked", "articles", [client EXCEPT !.accounted = Cardinality(Canonical)])

\* Near duplicates are not shown.
ReadArticles == Reading("articles", "companies",
    [client EXCEPT !.articles = NewestFirst(Canonical)])

ReadCompanies == Reading("companies", "links",
    [client EXCEPT !.companies = {c \in Issuers : Committed(CompanyRow(c))}])

ReadLinks == Reading("links", "digests",
    [client EXCEPT !.links = [a \in NewsArticles |->
        IF Committed(AnalysisRow(a)) THEN database[AnalysisRow(a)] ELSE {}]])

ReadDigests == Reading("digests", "signals", [client EXCEPT !.digests = StoredDigests])

ReadSignals == Reading("signals", "payload", [client EXCEPT !.signals = StoredSignals])

\* The rows of the page that is asked for: all, or rows[offset : offset + limit].
PageOf(rows) ==
    IF Endpoint.most = 0 THEN ToSet(rows)
    ELSE {rows[i] : i \in DOMAIN rows \cap (client.offset + 1)..(client.offset + Limit)}

\* What has been read for an answer is gone once it is given.
ShowPage(rows, last) ==
    client' = [client EXCEPT !.at = IF last THEN "answered" ELSE "asked",
                  !.offset = IF last THEN @ ELSE @ + Limit, !.listed = @ \cup PageOf(rows),
                  !.accounted = 0, !.articles = <<>>, !.companies = {}, !.links = Nobody.links,
                  !.digests = {}, !.signals = {}]

\* Mutant: the total is that of the first page.
ShowOfFirstTotal(rows) ==
    ShowPage(rows, Endpoint.most = 0 \/ client.offset + Limit >= Cardinality(client.owed))

\* After a page that is not the last of the rows, the client asks for the next.
Show(rows) == ShowPage(rows, Endpoint.most = 0 \/ client.offset + Limit >= Len(rows))

NotFound(sections(_)) ==
    /\ Endpoint.of # <<>>
    /\ \A i \in DOMAIN sections(Endpoint.of[1]) :
          sections(Endpoint.of[1])[i][Endpoint.of[2]] # client.question.asked.id

AnswerFrom(sections(_)) ==
    /\ IF NotFound(sections) THEN client' = [client EXCEPT !.at = "not found"]
       ELSE Show(Matching(Endpoint, client.question.asked, sections(Endpoint.section)))
    /\ UNCHANGED <<questionsAsked, databaseVars>>

Answer == client.at = "payload" /\ AnswerFrom(LAMBDA s : PayloadSection(client, s))

AnswerDirectly ==
    /\ client.at = "asked" /\ Proceeds /\ Endpoint.answer = "direct"
    /\ AnswerFrom(DirectSection)

Outcomes == {"answered", "refused", "failed", "not found"}

AskAgain ==
    /\ client.at \in Outcomes
    /\ client' = Nobody
    /\ UNCHANGED <<questionsAsked, databaseVars>>

AskAny == \E question \in Questions : Ask(question)

Request ==
    \/ RefuseLimit \/ AccountingRefuses \/ ReadAccounting \/ ReadArticles \/ ReadCompanies
    \/ ReadLinks \/ ReadDigests \/ ReadSignals \/ Answer \/ AnswerDirectly

ReadNext ==
    \/ AskAny \/ Request \/ AskAgain
    \/ DatabaseNext /\ UNCHANGED apiVars

ReadSpec ==
    /\ DatabaseInit /\ ApiInit
    /\ [][ReadNext]_readVars
    /\ WF_readVars(Request)
    /\ \A w \in Workers : WF_readVars(Advance(w) /\ UNCHANGED apiVars)
-----------------------------------------------------------------------------
(* Properties                                                              *)

\* Every variable of the client holds values of its kind.
ApiTypeOK ==
    /\ client.question \in Questions \cup {NoQuestion}
    /\ client.at \in {"idle", "asked", "articles", "companies", "links", "digests",
                      "signals", "payload"} \cup Outcomes
    /\ client.offset \in Nat /\ client.owed \subseteq NewsArticles
    /\ questionsAsked \in 0..MaxQuestions

\* A client that follows the pages of the articles to the last one has been
\* shown every article that was there when it began and matches, whatever
\* commands commit between and during its requests.
PagesMissNothing ==
    client.at = "answered" /\ Lasting(client.question) =>
        client.owed \subseteq {row.article_id : row \in client.listed}

\* No answer shows a ticker that is not known, whichever statements the links
\* and the companies are read by: who serves has committed all companies.
TickersAreKnown ==
    client.at = "answered" /\ Endpoint.section = "articles" =>
        \A row \in client.listed : UnknownTicker \notin row.tickers
=============================================================================
