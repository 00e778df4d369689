# A verification project for the financial news intelligence platform

TLA+ modules that model the stateful core of `src/backend/src/finnews`, TLC
configurations that check them on small instances, and proofs, checked by TLAPS,
of theorems about them for every value of their constants. Paths below are
relative to `src/backend/src/finnews` unless they start with `src/`.

## 1. The system

The platform is a Python command line program (and a read-only HTTP API and
static site) that turns news and official data into research data sets. It never
trades: orders, portfolios and terminals are simulated or read-only.

| Component | State it keeps | Operations | What makes it hard | What makes it correct |
|---|---|---|---|---|
| News pipeline and deduplication (`application/services/pipeline.py`, `infrastructure/nlp/deduplication.py`) | sources, ingestion runs, raw articles, articles, duplicates, dispositions | `ingest_records`, `process_articles` | order of arrival, replays, ids that collide, an error after two of five writes, two repositories that answer differently | duplicates are one hop from a canonical article; ledger and tables agree; a replay changes nothing |
| Deduplication accounting (`deduplication_accounting.py`) | none (reads the ledger) | `build_deduplication_accounting` | checks less than it promises | what it accepts is one-hop |
| Source ingestion (`source_ingestion.py`, `interfaces/cli/app.py`) | fetch state per source, attempts, the open transaction | `source fetch`, `source import-announcements` | two processes, crashes, conflicts, retries, 304s, dry runs | records and validators are stored together; the interval is kept; commands end |
| Official data (`official_data.py`) | current observations, revisions | ingestion of a batch, as-of query | order within and between batches, dates in the past or future | a gapless append-only history; nothing is available before it was seen |
| Paper execution (`paper_execution.py`) | reservations, orders, reviews, fills, positions, cash | the scenario loop | five caps on four counters; three functions that trust each other | exposure within caps; only approved orders are filled; the books balance |
| Repositories (`infrastructure/persistence`) | the tables | add, upsert, get, list | first-wins against last-wins; row locks, unique constraints | see the components that use them |
| HTTP client (`infrastructure/http/client.py`) | URL, hop count and size of a call | `get`, `post` | redirects followed by hand, bodies measured while they arrive | every hop is validated, hops and bodies are bounded |
| Smoke gate (`source_smoke.py`) | a report | `run` | a dozen gates, up to two calls, a file edited meanwhile | no request without every gate; the report is of what was asked |
| Registry and reviews (`infrastructure/sources/registry.py`, `reviews.py`) | definitions, reviews, local overrides | load, override, check integrity | three files that change apart from each other | enabled means approved; a review covers the definition in use |
| Parsers (`infrastructure/sources`) | none | thirteen formats to records | items without names, items that cannot be read | identifiers stay with their items; one bad item takes no other with it |
| Text rules (`infrastructure/nlp`) | links, event, sentiment of an article | `link_companies`, `classify_event`, `analyze_sentiment` | aliases within aliases, ties, floating-point sums | the best link and event, a score that follows the words |
| Research export (`research_export.py`) | packages in directories, metadata in PostgreSQL | build, validate | several processes over one directory and one database; kills | rows hold what was known at their cutoff; a package is whole and stays |
| Market reaction (`market_reaction.py`) | studies, labels, metrics, error cases | study build, metrics, publication | windows at the ends of the calendar, decisions moved to earlier sessions | no study uses a bar from its future; cases and metrics agree |
| Cross-asset signals (`cross_asset.py`) | signals, a package in a directory | build, validate, write | `rmtree` and `move` of several processes over one directory | what was validated stays whole |
| MT5 bridge (`mt5_readonly.py`) | bars and manifest in a directory, a terminal connection | gates, export | one of several symbols failing, a map edited between its readings | the terminal is let go; the manifest is of the bars beside it |
| Database commands (`bootstrap.py`, `interfaces/cli/app.py`, `pipeline.py` over `persistence/postgres`) | every news table | demo, ingest, process, digest, signals | transactions that wait for each other, rows read before others commit | a completed run is whole; derived rows have their articles, and no near duplicates |
| HTTP API and static payload (`interfaces/api/app.py`, `export_static.py`) | one session | the endpoints of `/api/v1` | statements of one request between which commands commit | pages miss nothing; no unknown ticker is shown |
| NLP evaluation, release audits, static files, frontend, migrations | reports | build | – | – |

The components meet in the repository: the source ingestion service hands the
records of a reply to the pipeline and then stores the fetch state in the same
transaction; digests, signals, exports and the API read what is stored. The
command line opens a repository (memory or PostgreSQL), runs a service, commits
and closes.

## 2. Modules

| Module | What it is |
|---|---|
| `CanonicalRegister` | abstract: each text gets one canonical text, once |
| `NewsPipeline` | ingestion, deduplication and accounting over both repositories; implements `CanonicalRegister` |
| `NewsPipelineProofs` | theorems about `NewsPipeline` |
| `SourceFetch` | fetch and import commands over PostgreSQL |
| `SourceFetchProofs` | theorems about `SourceFetch` |
| `RevisionHistory` | abstract: the values of a key form a history that grows at its end |
| `OfficialRevisions` | revisions of official observations; implements `RevisionHistory` |
| `OfficialRevisionsProofs` | theorems about `OfficialRevisions` |
| `PaperExecution` | one scenario of the paper execution engine |
| `PaperExecutionProofs` | theorems about `PaperExecution` |
| `HttpClient` | one call with its redirects, its body and its failures |
| `SourceRegistry` | definitions, overrides and reviews, as operators |
| `LiveSmoke` | the smoke command over `HttpClient` and `SourceRegistry` |
| `LiveSmokeProofs` | theorems about `LiveSmoke`, its client and the registry |
| `ResearchFeatures` | calendars, cutoffs, windows, rows and audit of a research export, and what the rows should be |
| `PackageStore` | abstract: packages appear whole and stay |
| `ResearchExport` | exporters and validators over directories and a database; implements `PackageStore` |
| `ResearchExportProofs` | theorems about `ResearchExport` |
| `MarketBars` | the contract of a bar file |
| `Mt5Export` | the bridge to the terminal, whose bars are under that contract |
| `MarketReaction` | event studies, labels, metrics, error cases |
| `MarketSignals`, `SignalPackage` | the signals of the demo and what validates them; the writing of their package |
| `DatabaseCommands` | the commands that write news over one PostgreSQL database |
| `DatabaseProofs` | theorems about `DatabaseCommands` and `ReadApi` |
| `ReadApi` | the API over that database, while the commands go on |
| `SourceParsers` | what each parser makes of a document that grows and shrinks |
| `TextRules` | links, event and sentiment of a text |
| `OfflineCommands` | the services without a network, side by side |
| `OfflineProofs` | theorems about `SignalPackage`, `Mt5Export`, `MarketReaction`, `SourceParsers`, `TextRules` and the services side by side |
| `MC…` | the small instances TLC checks |

Definitions marked "Mutant" are wrong on purpose: each is a plausible bug in the
definition that follows it, and the run named for it in `PROJECT.json` must
report the property it breaks. No specification uses them.

### 2.1 NewsPipeline

A text (title, summary, language) is an element of `Contents` and stands for its
own content hash, under which `articles` is unique; a record has a source, an
identifier or none, a text or none (then it is invalid) and a publication time.
One action is one record: `RejectInvalid`, `ReplayObservation`,
`ExactDuplicate`, `FailScoring`, `NearDuplicate`, `Canonical` are the ways
through `ingest_records`, each with every call it makes. `Pools` is the window
of `find_near_duplicate` cut to the nearest candidates, `Best` the score, whose
value is a constant (`Similarity`). The pool is a set: candidates with equal
distance and time are ordered by their ids in PostgreSQL and by insertion in
memory, so any order is allowed. `profile` chooses the repository: PostgreSQL
keeps the first disposition of an observation id and never updates a run, the
memory repository keeps the last and shares the run with its caller. An
identifier that is missing is made of the source, the page (`url`), the title
and the time, not of the summary: a page may give one identifier to two texts.
`seen` is a history variable.

### 2.2 SourceFetch

A command is one transaction: `added`, `written` and `noted` hold what it has
flushed, `holder` the row locks. The steps of a source are `ReadState`, one or
more requests (`Retry`, `FailFetch`, `NotModified`, `Receive`), `Ingest` and
`Write`; other processes may act between any two. `Finish` and `RefuseSource`
commit, `Crash`, `WriteConflict` and `IngestConflict` roll back.

- The isolation is PostgreSQL's default, READ COMMITTED. `repository.get` in the
  upsert reads the row again (SQLAlchemy's identity map is weak, the row read
  first is gone), and only the columns that differ are updated: `Merge`.
- A unique violation inside `ingest_records` is caught there, but the session
  then refuses every statement until it is rolled back: the command fails.
- The default sleeper does nothing, and the command line passes none: `Retry` is
  followed by the next request at once.
- The server is external: it holds a version, and answers 304 when the tag sent
  is that version. `Failing` is the set of failures a request may end in:
  `policy_blocked` and every other.

### 2.3 OfficialRevisions

`StartBatch` picks any set of records, which is taken in the order of
`_record_order_key`; each record is skipped if its value is known for its key
(`SkipRecord`) or becomes the next revision (`AppendRevision`).
`InformationTime` is `information_available_at`, with the tolerance a constant.

### 2.4 PaperExecution

The actions are the calls of the loop: `Consider` (risk gates, with `Block` and
`IssueOrder` its two outcomes, the reservation being part of the latter),
`Review`, `FailFill`/`Fill`, and `CloseScenario`. A signal carries the outcome
of comparisons with fixed instants and fixed data. Signals are taken in any
order, which includes the code's (sorted ids). The verdict of the simulated
reviewer, taken from a hash, is any of the two its branch allows. `duplicate`
never occurs, as in the code, where the ids of a scenario are a set; `expired`
reviews cannot occur after the gate. Amounts are integers; quantization is left
out.

### 2.5 HttpClient, SourceRegistry, LiveSmoke

A URL is whether it is https and its host; which addresses a name resolves to
and what a server replies are the environment's. `CheckUrl` is `_validate_url`,
taken before every hop; `RequestFails`, `RequestRedirected` and
`RequestAnswered` are the outcomes of one request of `_request`, and `ReadChunk`
and `EndOfBody` the bounded body with the type check after it. The connection
resolves the name again after the check, so nothing is promised of the address.

`Loadable` and `OverridesAllowed` are the refusals of the registry,
`WithOverrides` what is left of the definitions after the local file, and
`ReviewIntegrity` the comparison of a review with a definition, digest included.
`LiveSmoke` has one action per gate in the order of `run`. The override file
belongs to the user: `EditOverrideFile` may change it between the registry's
reading and the gate's. `answers` is a history variable: the calls that
were answered, whatever is then reported of them.

### 2.6 ResearchFeatures, ResearchExport, PackageStore

`FeatureRows` translates the assignment of articles to sessions and the windows
over sequence numbers; `KnownInWindow` says, without assigning anything, which
articles a row should hold. `LeakageAuditPasses` is a condition of building: for
a calendar whose cutoffs run backwards it is what refuses the export.

An exporter goes through `Build`, `Lookup`, `Flush`, `WriteFile`, the look at
the output, its removal if empty, the rename and the commit; a checker reads the
manifest, the files again, and parses. Metadata is flushed before the files are
written and committed after; the row lock of the flush makes another exporter
wait. `Kill` may strike between any two. A package stands for its corpus: the
settings are those of the run, and a package follows from both.

### 2.7 Mt5Export, MarketBars

The gates read the map, `export_bars` reads it again without checking it again;
`EditSymbolMap` comes in between. The terminal answers any bars or fails at any
call. The files are written in place, bars before manifest. `MarketBarFileValid`
is the validator of `market_reaction.py`, to which exported bars are later
given.

### 2.8 MarketReaction, MarketSignals, SignalPackage

Days are the unit of time: the bar of a session is available at the midnight
after it. `DecisionIndex` is moved to an earlier session when a window would not
fit; `Study` has the exclusions in the order of the code. Returns are above,
below or within the threshold, whichever. Metrics are counts over labels, error
cases are chosen from labels one by one, and a scenario is one run.

`SignalPackage` has the steps of `shutil.rmtree` and `shutil.move` as they are:
listing, removing entries, removing the directory, renaming or moving into a
directory that is there. All writers write the same bytes.

### 2.9 DatabaseCommands, ReadApi

A row is a table and a key. Writing one takes two statements, one that looks and
one that writes (`AddRow`, `ReplaceRow`, `UpsertRow`), and a row that another
transaction has written makes the writer wait (`Held`); PostgreSQL ends one of
two that wait for each other (`BreakDeadlock`). An insert of a row committed
meanwhile is an integrity error, an update changes the columns that differ from
what was read (`Updated`). The tables of sources, of the cross-asset dataset
and of the official data are a row each.

A record of a batch becomes an article or, when it is refused, a disposition
(`RecordRow`). The row of an article tells whether it is processed or a near
duplicate (`RecordValue`), by the processed articles that its transaction sees
when it is inserted; `NearAmong` says of an article among which sets of others
it is taken for a near duplicate, so the score and the candidates are those of
2.1 or any other. Near duplicates have rows and no analyses, and neither digests
nor signals nor the API show them (`ProcessedArticles`, `Canonical`). A database
that was started before holds its fixtures as they are when taken in their order
(`TakenInOrder`). An article whose scoring fails stays processed, as in 2.1,
which is the state it was inserted with. Transactions do not see each other's
articles before a commit, so two that ingest near copies at once may leave both
of them processed. The model allows it and no property says otherwise; the
instance does not reach it, because its fixtures hold one of the pair and a
start of an empty database keeps others out by the rows of the registry.

`ReadApi` gives for each path its section, its filters and whether it pages
(`Endpoints`); a request reads articles, companies, links, digests and signals
by one statement each, and commands may commit between any two. A client follows
the pages to the last. `EveryPathAnswers` evaluates every path with every filter
it has once.

### 2.10 SourceParsers, TextRules

An item is what parsers ask of it: whether it is an object, its name, its link,
whether its date and its other fields can be read. A local document with a
foreign root is read as RSS without a channel, that is, without items.
`PublishItem` and
`ExpireItem` add and drop items, so that positions shift; `ReadDocument` parses.
`archive` is a history variable: the records so far. In `TextRules` a score is
in millionths, with what the rounding of the code's sum leaves where it decides
a label.

### 2.11 OfflineCommands

The services of 2.6 to 2.10 do not read or write what another keeps: a behaviour
of all of them is one of each, interleaved. `OfflineCommands` conjoins them
under one next-state relation and lets a behaviour be of one service chosen at
the start. This is a composition in form only, and is said to be one for that
reason; where components do meet they are in one module or extend each other
(`LiveSmoke`, `Mt5Export` with `MarketBars`, `ReadApi` with `DatabaseCommands`).

## 3. Runs

| Run | Question | Bounds |
|---|---|---|
| `news_pipeline` | do tables and ledger stay consistent, and is the register implemented? | eleven records of two sources and five texts, four observations: enough for a chain (c1, c2, c3), a replay of each kind, two texts of one page and both wordless texts |
| `duplicate_references` | does every duplicate refer to a canonical observation? **violated** | same |
| `fetch_concurrent` | two processes, crashes, conflicts, dry runs | two sources, two versions, two commands, no time |
| `fetch_sequential` | the fetch state across commands, with time | one network source, one export, three commands, one retry, interval 2 of 4 instants |
| `fetch_interval` | is every request spaced? **violated** | same |
| `official_revisions` | numbering, availability, as-of, history | two keys, seven records, three batches |
| `official_reversion` | does every changed value append? **violated** | same |
| `paper_execution` | exposure, counters, approvals, cash | nine signals, three assets, two classes, three days, every cap reached |
| `paper_exposure_absent` | does a reduce order fail only without exposure? **violated** | same |
| `paper_drawdown` | does the drawdown stop orders? **violated** | same |
| `live_smoke` | do gates, registry, reviews and client together let only reviewed requests out, and within limits? | one feed, one source with parameters, three hosts of which reviews cover two, three redirects, bodies to two bytes and over, one edit, `max_items` in and out of range |
| `offline_commands` | are packages, bars, studies, rows, answers, records and analyses what they should be, and does every command end? | see below |

`CHECK_DEADLOCK FALSE` is set because commands, batches and scenarios end and
every counter is bounded.

The bounds are named constants (`MaxObservations`, `MaxCommands`, `MaxVersion`,
`MaxTime`, `MaxRetries`, `MaxBatches`; `MaxRetries` is also the code's). Two
concurrent commands suffice for the conflicts of `SourceFetch`, which are
between pairs; two sources are the least that can deadlock. Four observations
are the least that show a copy of a near duplicate with another text between.

`live_smoke` has three redirects because the limit is passed on the fourth, and
a body limit of two with chunks of one and two so that it is met and passed both
in one chunk and in two. `offline_commands`:

- research: two exporters of one directory or of two, one checker, two articles
  (one late for its session, one of two companies), six settings (ordered,
  gapped, crossed and empty calendars, an unknown policy, a window given twice),
  one kill;
- bridge: two commands over eight maps (absent, malformed, valid, two symbols of
  an asset, a symbol twice, unknown, too long, disabled), answers in and out of
  order and over the limit, one edit;
- studies: eight sessions with a weekend, two windows, control windows of two,
  signals on each day before, between, on and after the sessions;
- signal packages: three writers, one kill;
- database and API: two workers, two companies, two commands, one kill, over an
  empty and over a started database; four articles of two dates, the first and
  the last near duplicates of each other, of which the fixtures hold the first,
  the third and a record that is refused, and a feed the second or the last;
  one question that is asked page by page, one article to a page: two articles
  are there at the first page, and a third, whose place is between them, may be
  committed before the second;
- parsers: thirteen formats, four items (named, undated, nameless with a link,
  no object), two in a document, two readings;
- rules: three aliases, one of them within the two others, three event types,
  up to four words of each list: the rounding shows from three on.

### Properties worth reading first

- `ValidatorNeverAhead`: a stored tag is that of a version whose records are
  stored, through crashes, merges of columns and lost conflicts.
- `LinksAreOneHop`, `AcceptedAccountingIsOneHop` and `RegisterSpec`.
- `CurrentMatchesAsOf`: the row and the as-of query agree unless a batch brings
  a revision dated before one of an earlier batch (`late`); the exception is
  what the code does, see the hazards.
- `CapsRespected`: nothing compares cash, yet the caps keep it from going
  negative.
- `RequestsReviewed`: five files and three checks, none of which sees all of
  what it takes for a request to be covered.
- `ResearchPackagesSound`, `PackagesStay`: point-in-time rows for calendars in
  any order, and directories that two processes find empty at once.
- `StudiesPointInTime`: decisions are moved to earlier sessions to make windows
  fit, and what is not excluded still uses no bar from its future.
- `CompletedRunsAreWhole`: which rows a start left, when its records may be
  refused, or be near duplicates of each other or of what others ingested.
- `ReportMatchesRequests`: a command ends by branches that count the requests in
  three ways; what they count are the calls that were answered, but
  for the parameter that does not normalize.
- `PagesMissNothing`: no article is ever removed, so that what is committed
  between two pages moves rows to later pages only: some are shown twice, none
  is skipped.

Some properties are conjunctions of parts that have names and comments of their
own (`DuplicatesSound`, `LedgerSound`, `ReplaysKeepRows`, `RevisionsSound`,
`HistoryKept`, `CapsRespected`, `OrdersSound`, `CallsBounded`, those of
`offline_commands`). TLC then checks the parts together, in one run.

### Fairness

`SourceFetch` assumes weak fairness of each process's next step: a command that
was started is a running process, which takes its next step or dies.
`PaperExecution` assumes weak fairness of its loop and `LiveSmoke` of its
command (a server that does not answer runs into the timeouts of the client);
both state safety only.
`OfflineSpec` assumes weak fairness of each exporter, each checker, the bridge,
the studies, each writer, the request under way and each worker on the database:
of what has been begun, and of nothing a user decides. A worker that waits for a
row is not enabled; that it gets its turn follows from the others' progress and
from the detection of deadlocks, which is what `OfflineCommandsEnd` checks.
`NewsPipeline` and `OfficialRevisions` state safety only and assume none.

## 4. Disagreements between documents and code

Each is a run that TLC finds violated.

1. `DEDUPLICATION_ACCOUNTING.md:45`: every duplicate refers to one canonical
   observation. A copy of a near duplicate refers to the near duplicate.
2. `M1_EXECUTION_PLAN.md:137`: the minimum interval is enforced. It is not set
   after a failure, and cleared by a 304.
3. `OFFICIAL_DATA_REVISION_POLICY.md:9`: a changed value appends a revision. A
   value that changes back does not.
4. `PAPER_EXECUTION_METHODOLOGY.md:15`: flat and reduce close existing exposure.
   They always fail as if there were none.
5. `PAPER_RISK_POLICY.md:20`: the drawdown stop blocks new orders. Drawdown is
   computed after the last order.

The following were met while modelling and have no run of their own. Where a
model has such a case, the property beside it says so in its condition.

- **HTTP and smoke.** The integrity check passes over a source that was never
  approved, so that the gate lets it through when the override file is not
  pinned (`RequestsReviewed` has the condition). Success is any reply whose body
  parses, whatever its status. When the conditional request fails, the report
  has lost the first reply. `request_count` counts replies: neither redirects
  nor requests that fail. With redirects a command may send eight requests,
  where `src/docs/M1B_EXECUTION_PLAN.md:241` speaks of two. A CIK that does not
  normalize is reported as a reply that does not parse, and as one request (line
  245 there: as not run). The body is measured in pieces after `httpx` has read
  it whole.
- **Research export.** The primary key of the metadata is the name of the export
  and the lookup is by its hashes: a changed export cannot be persisted beside
  or over the one that is there (`Insertable`). A window given twice breaks a
  unique constraint at the flush. Windows count sequence numbers, so a gap in
  them makes a window shorter. A valid, empty calendar ends in an exception. The
  memory repository never deletes the rows of an earlier export.
- **Market reaction.** With `regime_shift` every case of `commodity_shock` and
  `crypto_stress` is named a failure of the regime, consistent ones included
  (`CasesAgreeWithMetrics` has the condition). The audit's diagnostics are the
  constant PASS. All labels are published, but only the first 500 studies. The
  market state of a decision is looked up at the midnight after its session, so
  Fridays fall to the default. A return starts at the opening of the decision's
  bar (`market_reaction.py:1140`), which is before the decision time, the
  availability of that bar, and may be before the signal's cutoff;
  `src/docs/MARKET_REACTION_POINT_IN_TIME.md:12` says that windows are measured
  after decision time. `StudiesPointInTime` is about the availability of bars,
  which is what the code compares.
- **Signal packages.** Of three writers that found the output empty, two may
  clear at once what the third has validated, take each other's entries for
  missing and fail, which leaves nothing: `ExportedStaysWhole` excludes just
  that. Temporary directories may be nested in the output.
- **MT5.** A map that is missing when it is read again raises, after the gate
  has found it. The map read again is not checked. Bars that are older than the
  export have a first-seen time after their availability, which the contract of
  market bars refuses although they are exported as such (`BarsFollowContract`
  has the condition). Two symbols of an asset give two bars one identifier. The
  package is written in place, so a kill leaves bars without their manifest.
- **Database.** Near copies ingested at once may both stay canonical (2.9). A
  digest's count and its payload are columns that two commands can update apart,
  so they can disagree. `run_demo` takes an error that is not the database's for
  the result of the run and its caller commits. Of two starts that overlap the
  later fails with an integrity error. A `process` that read the aliases before
  the companies were committed removes the links of its articles
  (`LinksAreOfAllCompanies` allows all or none). Links are listed in no order,
  so two `signals` can deadlock.
- **API.** Requests share one session over a pool of threads, and a read leaves
  its transaction open, which a migration waits for. An `as_of` without timezone
  raises when it is compared. Observations and their revisions are read by two
  statements.
- **Parsers.** Items without name are named after their position, which shifts.
  A payload without a mapping of the next cursor is itself taken for the cursor
  (`announcements.py:54`). Agency parsers pass over what is no object and refuse
  all for one bad row. A document with a foreign root is read as RSS.
- **Rules.** A score of -0.25 is labelled neutral for the residue of a sum.
  Three positive and three negative words with a negator score above zero.
  Negators are looked for as substrings.
- **Ingestion.** Rejected records without identifier are numbered per batch
  (`pipeline.py:72`). PostgreSQL never learns how a run ended
  (`repository.py:364`). Retries follow each other at once
  (`source_ingestion.py:77`), and a failure that is not retried reports none
  (206).

## 5. Theorems

The proof modules use the assumptions their components state, and no other.
Assumptions are about the constants: bounds are numbers, what is enumerated is
of its type, the sets that are counted are finite, an export has settings and
directories to write to (`OfflineAssumption`), the file of companies lists
companies (`DatabaseAssumption`). TLC evaluates all of them on every run.

Every invariant and action property of the passing runs is stated by a theorem.

**NewsPipelineProofs.** The constants are the texts, the records, their
similarity and the windows; nothing is assumed of the similarity, so no property
depends on the score being symmetric or transitive. Three inductive invariants:

- `ArticlesInv`: the types of the tables, `LinksAreOneHop`, `RawsBackArticles`,
  `OnlyCanonicalsAnalysed`, and that an article is a duplicate exactly when one
  row links it (`Linked`). A new row links a text just ingested to a candidate,
  and candidates are canonical: that no text in the table can become a duplicate
  later is what keeps the other end of older rows canonical. `LinksNeverChain`,
  `OneLinkPerDuplicate`, `RawsStayApart`, `AnalysedStayCanonical` follow.
- `LedgerInv`: each disposition, by its outcome, agrees with the tables, and the
  canonical id it names is that of the raw article behind its article.
  `LedgerAgrees` is the first half; `AcceptedIsOneHop` needs the second, because
  the accounting compares articles and never canonical ids.
- `SeenInv`: what an observation already seen has left in the tables, from which
  its replay finds the branch that writes nothing (`ReplaysChangeNothing`).

`Refinement` maps `NearDuplicate` and `Canonical` to the register's step and all
else to a stutter. `LedgerKeeps` and `TypesHold` complete the list.

**SourceFetchProofs.** Everything holds for any number of processes: a step of
one leaves the session and the transaction of the others as they were
(`OthersKept`), and the stored records only grow. On top of `TypesInv`, which
knows that a row once stored stays stored (the merge of columns needs it):

- `TagsInv`: the tag a process read is that of stored records, and the one it is
  about to write or has written is that of records stored or added by the same
  transaction, unless it runs dry. Merging takes the tag from one of the two
  rows, both covered. `TagsNeverAhead`.
- `TogetherInv`: the same bookkeeping inside a transaction as between commits:
  an item is added if and only if its success is noted or about to be.
  `OutcomesStayTogether`.
- `DryInv`: a dry or idle process has an empty transaction, so what it commits
  is nothing. `DryRunsStoreNothing`.

Three theorems are about a database that one process at a time works on
(`OneProcess`, a hypothesis of theirs): `RowsReflect`, `DownloadsStayApart` and
`DownloadsAreNew`. With two processes TLC finds each of the three violated (both
read a state before either commits), so the code promises them to one only.
`SequentialInv` says of a source that its row counts
its failures, that the interval since each download has passed or the row says
until when it has not, and that a version that came with its tag is an old one
or the row has the tag; of an open transaction that its entries follow the log,
one for each source, each with the row it leads to; of a session that what it
read is still so. A commit appends the entries, in their order: the proof
follows one source through it (`SourceMoves`), because each has one entry at
most. A killed process, a conflict and a dry run drop entries and rows together,
so nothing is ahead of the log.

**OfficialRevisionsProofs.** The inductive invariant is `TypeOK`,
`RevisionsNumbered`, `RowIsLatestRevision` and `NeverBackdated` together:
numbering needs the type of rows, and the row being the latest revision needs
numbering (the new number is not taken). `CurrentIsAsOf` adds `AsOfInv`: within
a batch the records come in the order of their dates, so of the revisions made
in it the last is the latest. From the first: `TypesHold`, `NumberingHolds`,
`RowHolds`, `AvailabilityHolds`, `HistoryGrows` (the branch of the upsert that
keeps an existing revision is never taken, so none is lost), and `Refinement`:
`AppendRevision` maps to `Revise`, everything else to a stutter.

**PaperExecutionProofs.** Four invariants on top of `TypesHold`:

- `CapsInv`: a cap is respected by the reservations, and what was spent is at
  most what was reserved, less the notional of the order under way. The slack is
  what makes a fill preserve it. Cash is the starting cash minus at most twice
  the turnover. `CapsHold` and `CashNeverNegative` follow, the second from
  `FundingAssumption` (the default policy: 100000 against twice 35000).
- `ApprovalInv`: signals not considered have no outcome, those considered before
  the one under way have all of theirs, and what a fill says implies what
  decision and review say. `FillsAreApproved` and `OrdersFinish`.
- `CountsInv`: counters are cardinalities of sets of issued orders, by day, by
  asset and day, and by class. `ReservationsMatch`.
- `BooksInv`: the balance itself is inductive, given that a sum over the assets
  moves by what one of its terms moves by. The sum is the fold of the community
  modules. No induction theorem of the library can be used with it, so the
  lemmas are proved by a smallest counterexample among the subsets of the assets
  (`SmallestSubset`): the fold is defined (`SumExists`), by one function only
  (`SumUnique`), is a number (`SumIsNumber`) and moves as said (`SumMoves`).
  `BooksBalance`, and `VariablesHold` with the drawdown, which sums the values
  of the positions. They need that there are finitely many assets, which is
  part of `AssetsAssumption`.

**ResearchExportProofs.** `AuditedIsPointInTime` is a lemma about
`ResearchFeatures` alone: rows that pass the audit hold exactly what
`KnownInWindow` says, for every calendar, window and set of articles. Without
the audit this fails for cutoffs out of order: an article assigned to an earlier
session may be unknown at a later one. Its core is that the sequence numbers of
sessions have a least one whose cutoff an article meets (`EarliestSession`, by
induction on numbers). `ExportInv` puts together

- `PlacesInv`: what a process holds at its stage; an exporter about to commit
  has its package in its directory, and since directories keep what they hold
  (`PublishedStays`) it is there when metadata is committed; a checker has read
  manifest and files of one package;
- `AuditedInv`: what is built, published or persisted passes the audit;
- `LeftoversAreOfKilled` and the types.

`ResearchPackagesHold` follows, and `PackagesAreStored`: a rename maps to the
store's step, and nothing else changes an output that holds a package. These are
theorems of `ExportSpec`, the specification of the component; `OfflineProofs`
has them of all the services.

**LiveSmokeProofs.** `LoadedDefinition` is the lemma about the registry:
definitions after overrides are definitions, and those enabled are approved. On
top of `TypesInv`, which knows where client and command are together
(`StagesInv`):

- `GateInv`: once the client is open every gate has been passed, its hosts are
  those of the source, and every request sent was allowed by them.
  `RequestsAreReviewed` adds what the integrity check compared.
- `BudgetInv`: within a call there is one request more than redirects followed,
  and the second call comes on top of a complete first. `CallsAreBounded`.
- `ReportInv`: the answers are those counted, and one more between the answer
  of a call and the step that counts it (`Counted`); while a body is read there
  is a request that is not yet an answer. `ReportsMatch`.

`EnabledHold` and `TypesHold` complete the list.

**DatabaseProofs.** `DatabaseInv` says of the rows each worker sees, those
committed and its own, that they are backed: a digest or a signal has the
processed articles it shows, an analysis its processed article and the companies
it links, which are all it mentions or none, and a start what it has stored so
far (`StartProgress`): a row of each record it has taken and, once it analyses,
of each article of the fixtures an analysis, a near duplicate or the intention.
Whether an article is processed is the value of a row and not its presence:
such facts are carried beside the rows (`ProcessedFact`, `DuplicateFact`), and
an article's row is inserted once and never written again, so a fact stays as a
row does (`AddedOnce`). A row that is not committed rests on rows of its own
transaction or on committed ones, and no command deletes any: so what a worker
sees stays backed when others commit, and after its commit what is committed is
what it saw. The companies come in one transaction, hence all or none. A refused
insert, a broken deadlock and a kill drop all the rows of a transaction. Nothing
is assumed of `NearAmong`. `DatabaseHolds`.

`DatabaseTyped` adds the locks: a row is written by one open transaction at a
time. Statements that find a row written by another wait, and the one kind of
row that is written without a look, that of a run, is its worker's own. A worker
that loads companies has found the first ones of the file and its next is the
next one, so what is stored of them always is a beginning of the file; a digest
or a signal takes its first date of a set that is not empty.
`DatabaseTypesHold`.

The API over that database: `ApiInv` says of a question that what is owed to it
is ahead of its pages. An owed article has been listed, or as many articles that
match are as new or newer as the offset is, and one more (`Ahead`). Articles are
only added, so the number only grows while commands commit (`AheadAmongMore`);
a page that ends before an article moves the offset to a place that is not after
it (`PageKeepsOwed`), because the place of an article in the list is its rank,
the number of those up to it (`NthOfRank`, `NewestFirstIs`, `PlacesAmong`). A
filter that is by lasting fields accepts the same articles whichever statement
reads them (`FitsShown`). Tickers are known since the API serves only after a
start was committed, and with it all companies (`ServingKnows`). `ApiHolds`.
That offsets stay numbers (`ApiTypesHold`) needs the bounds of every endpoint
(`EndpointsAreBounded`).

**OfflineProofs.** Signal packages, for a finite set of writers:

- `DraftsInv`: what is moved into the place of the output is complete.
- `ClearedInv`: when the output is not whole although a writer has seen its
  files in place, some writer is clearing it, has failed or was killed while
  clearing, or has a validation ahead that must fail. Once every writer that
  found the output empty has succeeded nobody is left to blame.
- `PairInv`: what two writers may take for granted of the output and of each
  other when they alone have got as far as looking at it, stage by stage: as
  soon as one has moved its draft, the other removes nothing but what it listed
  before, or moves its own into the place. Three can spoil a package; therefore
  `ExportedHold` is about any number of writers with the exception the property
  states (only two found the output empty, or all that did succeeded).

The bridge: `MapStillValid` keeps what was validated of the map through its
second reading as long as nobody edited it. `RowsSoFar` says of the rows
collected that the contract accepts them, that a symbol gives one bar of a time,
and that they come from entries before the next one; symbols differ, so the next
entry adds no bar of a symbol read before. `FilesShape` has manifest and bars
together except between the writing of one and of the other. `BridgeHolds`.

Event studies: the decision index is the first session whose bar was not
available at the cutoff (a least number, `DecisionIsFirst`), and the sessions it
is compared with come before. The cases listed agree with the metrics because a
confident call that went wrong sorts before every other case (`WrongIsSooner`),
and the cut is made after sorting (`WrongAreListed`). `StudiesHold`.
`StudyTypesHold` and `BridgeTypesHold` are about the ranges of the variables:
windows stay within the sessions, and the bridge's next entry is one of the
map's or the end.

The parsers: `ParserInv` says that a document holds no item twice, that what is
archived has the name its own item carries, and that a reading is what the
parser of the format yields. The thirteen parsers are shown to be of two shapes,
one that leaves items out (`IsolatedShape`) and one that refuses the document
(`StrictShape`); that items keep apart follows from the names' being their own
and the assumption that a publisher gives different items different names, or
links where names are missing. `ParsersHold`, for documents of any length.

The rules are recursive functions, which the provers know as the choice of a
function that satisfies an equation. That there is one (`LinkingExists`,
`RankingExists`) and what it keeps from step to step (`LinkingInv`,
`RankingInv`) is proved by a smallest counterexample. The aliases are sorted
because the number of those earlier is different for each (`EarlierHasFewer`,
`LongestFirstIs`). A score follows the words of its lists because one word moves
it by 349992 at least, what the rounding leaves included, and a negator by
150000 (`WordsApart`, `ScoresKeepOrder`). `RulesHold`.

The services side by side: `OfflineInv` is the conjunction of the invariants of
the services. `OfflineStarts` shows that a service at rest is in an initial
state of its own, `OfflineSteps` that a step of all is a step or a stuttering
step of each. `ServicesHold` and `PackagesStayBesideOthers` are then what was
proved of each, and `OfflineTypesHold` adds their types: the locks of the
database, the limits of the API, the entries of the bridge.

Only model-checked: liveness (`CommandsEnd`, `OfflineCommandsEnd`), which is out
of the prover's reach.

## 6. Not modelled

- Text itself: formats of dates, numbers and markup, layout of reports, hashing,
  the metrics and benchmarks of NLP, floating-point returns. What a property
  tells apart of them is a constant or an environment's choice.
- The tables that a single command replaces as a whole (official datasets and
  documents, market bars, paper runs, model registry), fixed catalogues (assets,
  aliases, relationships), release events and series profiles.
- The health endpoints and the writing of the static files, one by one and by
  one process; the frontend, which only reads them; migrations, whose unique
  constraints are in the models of the tables; release audits, which scan files
  once.
- The network: what a name resolves to when the connection is made, TLS, timing.

`PROJECT.json` says of each component what is left out and why.

## 7. Plan

Done: every component that keeps state over time, composed where components
meet, and theorems of every invariant and action property that is checked. Next:

1. A refinement between `HttpClient` and the replies of `SourceFetch`, whose
   failures are the client's.
2. The three properties of `SourceFetch` that are proved of one process, for
   several processes on different sources.
3. Larger instances: two questions at once against two commands.
