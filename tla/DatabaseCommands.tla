---------------------------- MODULE DatabaseCommands ----------------------------
(***************************************************************************)
(* The commands that write news over one PostgreSQL database: the          *)
(* populated start of bootstrap.py (the API, "demo"), "ingest-fixture" and *)
(* "ingest-local-feed", "process", "digest" and "signals" of               *)
(* interfaces/cli/app.py, with what application/services/pipeline.py and   *)
(* the PostgreSQL repository do for them.                                  *)
(*                                                                         *)
(* A command is one session and one transaction, committed at its end.     *)
(* The isolation is READ COMMITTED: a statement sees the rows committed    *)
(* when it starts and the command's own.  A row written and not committed  *)
(* makes others who write it wait.  A row is its table and its key; the    *)
(* value Absent stands for no row.                                         *)
(***************************************************************************)
EXTENDS Integers, Sequences, FiniteSets

CONSTANTS
    Workers,        \* processes
    NewsArticles,   \* articles, numbered in the order of their publication
    Mentioned,      \* companies whose aliases an article's text holds
    CompaniesFile,  \* the companies of companies.json, in their order
    MarketDate,     \* local_market_date of an article
    NearAmong,      \* sets of articles among which one is a near duplicate
    InvalidRecords, \* records that the validation refuses
    DemoBatch,      \* the records of the fixtures, in their order
    FeedBatches,    \* what a user may ingest
    Absent,         \* no row
    MaxDatabaseCommands,  \* bound: commands
    MaxStops        \* bound: processes killed

Issuers == {CompaniesFile[i] : i \in DOMAIN CompaniesFile}
MarketDates == {MarketDate[a] : a \in NewsArticles}

ASSUME DatabaseAssumption ==
    /\ NewsArticles \subseteq Nat
    /\ CompaniesFile \in Seq(Issuers)
    /\ \A i, j \in DOMAIN CompaniesFile : CompaniesFile[i] = CompaniesFile[j] => i = j
    /\ Mentioned \in [NewsArticles -> SUBSET Issuers]
    /\ MarketDate \in [NewsArticles -> Int]
    /\ NearAmong \in [NewsArticles -> SUBSET SUBSET NewsArticles]
    /\ InvalidRecords \cap NewsArticles = {}
    /\ \A b \in FeedBatches \cup {DemoBatch} : b \in Seq(NewsArticles \cup InvalidRecords)
    /\ MaxDatabaseCommands \in Nat /\ MaxStops \in Nat

VARIABLES
    database,   \* the committed rows
    writes,     \* rows written by each worker and not committed
    worker,     \* every worker: its command and where it is
    begun,      \* commands begun so far
    stopped     \* processes killed so far

databaseVars == <<database, writes, worker, begun, stopped>>

\* The tables of the sources, of the cross-asset dataset and of the official
\* data are one row each.
Registry == <<"source_definitions", "all">>
Dataset == <<"cross_asset", "all">>
Official == <<"official_data", "all">>
CompanyRow(c) == <<"companies", c>>
ArticleRow(a) == <<"articles", a>>
RejectionRow(r) == <<"observation_dispositions", r>>
AnalysisRow(a) == <<"analyses", a>>     \* its links, event and sentiment
DigestRow(d) == <<"daily_digests", d>>
SignalRow(d, c) == <<"daily_company_signals", <<d, c>>>>
RunRow(w) == <<"pipeline_runs", w>>

Rows == {Registry, Dataset, Official}
    \cup {CompanyRow(c) : c \in Issuers}
    \cup {ArticleRow(a) : a \in NewsArticles}
    \cup {RejectionRow(r) : r \in InvalidRecords}
    \cup {AnalysisRow(a) : a \in NewsArticles}
    \cup {DigestRow(d) : d \in MarketDates}
    \cup {SignalRow(d, c) : d \in MarketDates, c \in Issuers}
    \cup {RunRow(w) : w \in Workers}

\* A row of which nothing more is told apart.
Present == {}

\* The row of a record: that of its article, or of its rejection.
RecordRow(r) == IF r \in NewsArticles THEN ArticleRow(r) ELSE RejectionRow(r)

\* The row of an article tells its processing_state.
Processed == {"processed"}
Duplicate == {"duplicate"}

\* A digest, or a signal: the number of its articles in one column, the
\* articles with their links in another.
Derived(pairs) == [article_count |-> Cardinality(pairs), payload |-> pairs]

Shown == NewsArticles \X SUBSET Issuers
DerivedRows ==
    [article_count : {Cardinality(pairs) : pairs \in SUBSET Shown}, payload : SUBSET Shown]

ASSUME AbsentAssumption ==
    /\ \A companies \in SUBSET Issuers : companies # Absent
    /\ Absent \notin DerivedRows
    /\ {"completed"} # Absent /\ {"failed"} # Absent
    /\ Processed # Absent /\ Duplicate # Absent
    /\ Absent \notin Rows

\* pending: the row a first statement has looked at; found: what it saw;
\* overtaken: whether another has committed the row since.
Fresh == [command |-> "none", at |-> "idle", batch |-> <<>>, known |-> {},
          todo |-> {}, dates |-> {}, listed |-> {}, gathered |-> {},
          pending |-> Absent, found |-> Absent, overtaken |-> FALSE]

EmptyDatabase == [r \in Rows |-> Absent]

\* What a start that completed earlier has left, when the articles given were
\* no duplicates; its run is not listed.
DemoRecords == {DemoBatch[i] : i \in DOMAIN DemoBatch}
DemoArticles == DemoRecords \cap NewsArticles
ShownBy(articles) == {<<a, Mentioned[a]>> : a \in articles}
StartedDatabase(originals) ==
    LET dated(d) == {a \in originals : MarketDate[a] = d}
        linked(d, c) == {a \in dated(d) : c \in Mentioned[a]}
    IN [r \in Rows |->
          CASE r[1] \in {"source_definitions", "cross_asset", "official_data", "companies"} ->
                  Present
            [] r[1] = "articles" /\ r[2] \in originals -> Processed
            [] r[1] = "articles" /\ r[2] \in DemoArticles \ originals -> Duplicate
            [] r[1] = "observation_dispositions" /\ r[2] \in DemoRecords -> Present
            [] r[1] = "analyses" /\ r[2] \in originals -> Mentioned[r[2]]
            [] r[1] = "daily_digests" /\ (\E a \in DemoArticles : MarketDate[a] = r[2]) ->
                  Derived(ShownBy(dated(r[2])))
            [] r[1] = "daily_company_signals" /\ linked(r[2][1], r[2][2]) # {} ->
                  Derived(ShownBy(linked(r[2][1], r[2][2])))
            [] OTHER -> Absent]

\* The records of the fixtures are taken in order: an article is no duplicate
\* of the originals before it.
TakenInOrder(originals) ==
    \A i \in DOMAIN DemoBatch :
        LET earlier == {DemoBatch[j] : j \in 1..(i - 1)}
        IN  DemoBatch[i] \in DemoArticles \ earlier =>
               (DemoBatch[i] \in originals <=>
                   originals \cap earlier \notin NearAmong[DemoBatch[i]])

StartedDatabases ==
    {StartedDatabase(originals) : originals \in {S \in SUBSET DemoArticles : TakenInOrder(S)}}

DatabaseInit ==
    /\ database \in {EmptyDatabase} \cup StartedDatabases
    /\ writes = [w \in Workers |-> <<>>]
    /\ worker = [w \in Workers |-> Fresh]
    /\ begun = 0 /\ stopped = 0

\* What a statement of w sees.
Sees(w, row) == IF row \in DOMAIN writes[w] THEN writes[w][row] ELSE database[row]
StoredArticles(w) == {a \in NewsArticles : Sees(w, ArticleRow(a)) # Absent}
ProcessedArticles(w) == {a \in NewsArticles : Sees(w, ArticleRow(a)) = Processed}

WriteRow(w, row, value) ==
    [writes EXCEPT ![w] = [r \in {row} \cup DOMAIN @ |-> IF r = row THEN value ELSE @[r]]]

Held(w, row) == \E v \in Workers \ {w} : row \in DOMAIN writes[v]

WorkerAt(w, stage) == worker[w].at = stage
Stage(w, stage) == worker' = [worker EXCEPT ![w].at = stage, ![w].pending = Absent]
Reads == UNCHANGED <<database, writes, begun, stopped>>

-----------------------------------------------------------------------------
(* Beginning and ending                                                    *)

\* _empty_repository and build_postgres_repository write the registry of
\* sources first, _repository does not.
BeginCommand(w, command, stage, batch, dates) ==
    /\ WorkerAt(w, "idle")
    /\ begun < MaxDatabaseCommands
    /\ begun' = begun + 1
    /\ worker' = [worker EXCEPT ![w] =
          [Fresh EXCEPT !.command = command, !.at = stage, !.batch = batch, !.dates = dates]]
    /\ UNCHANGED <<database, writes, stopped>>

BeginStart(w) ==
    database[RunRow(w)] = Absent /\ BeginCommand(w, "start", "registry", DemoBatch, {})
BeginIngest(w) ==
    \E batch \in FeedBatches : BeginCommand(w, "ingest", "registry", batch, {})
BeginProcess(w) == BeginCommand(w, "process", "aliases", <<>>, {})
BeginDigest(w) ==
    \E d \in MarketDates : BeginCommand(w, "digest", "digest", <<>>, {d})
BeginSignals(w) ==
    \E d \in MarketDates : BeginCommand(w, "signals", "signals", <<>>, {d})

\* Mutant: the session is left open.
RollbackLater(w) ==
    /\ worker' = [worker EXCEPT ![w] = Fresh]
    /\ UNCHANGED <<database, begun, writes>>

\* An exception of the database ends the command; so does a kill.  The
\* transaction is rolled back.
Rollback(w) ==
    /\ worker' = [worker EXCEPT ![w] = Fresh]
    /\ writes' = [writes EXCEPT ![w] = <<>>]
    /\ UNCHANGED <<database, begun>>

\* _commit_and_close.  Those who have looked at a row of it are overtaken.
CommitAndClose(w) ==
    /\ WorkerAt(w, "commit")
    /\ database' = [row \in DOMAIN database |->
          IF row \in DOMAIN writes[w] THEN writes[w][row] ELSE database[row]]
    /\ writes' = [writes EXCEPT ![w] = <<>>]
    /\ worker' = [v \in Workers |->
          IF v = w THEN Fresh
          ELSE [worker[v] EXCEPT !.overtaken = @ \/ worker[v].pending \in DOMAIN writes[w]]]
    /\ UNCHANGED <<begun, stopped>>

KillWorker(w) ==
    /\ ~WorkerAt(w, "idle") /\ stopped < MaxStops
    /\ stopped' = stopped + 1
    /\ Rollback(w)

-----------------------------------------------------------------------------
(* Writing a row takes two statements: one that looks, one that writes.    *)

Waits(w, v) == worker[w].pending # Absent /\ worker[w].pending \in DOMAIN writes[v]

\* Those who wait for each other in a circle: the database ends one of them.
BreakDeadlock(w) ==
    /\ \E circle \in SUBSET Workers :
          /\ w \in circle
          /\ \A v \in circle : /\ \E u \in circle \ {v} : Waits(v, u)
                               /\ \E u \in circle \ {v} : Waits(u, v)
    /\ Rollback(w)
    /\ UNCHANGED stopped

\* The DELETE of a replacement locks the row that is there.
Look(w, row, replaces) ==
    /\ worker[w].pending = Absent
    /\ worker' = [worker EXCEPT ![w].pending = row, ![w].overtaken = FALSE,
                                ![w].found = Sees(w, row)]
    /\ writes' = IF replaces /\ Sees(w, row) # Absent /\ ~Held(w, row)
                 THEN WriteRow(w, row, Sees(w, row)) ELSE writes
    /\ UNCHANGED <<database, begun, stopped>>

Looked(stage) == [stage EXCEPT !.pending = Absent, !.found = Absent, !.overtaken = FALSE]

\* An INSERT of a row that another has committed meanwhile is refused, an
\* UPDATE of one is not.
Write(w, row, value, inserts, stage) ==
    /\ worker[w].pending = row
    /\ ~Held(w, row)
    /\ IF inserts /\ worker[w].overtaken
       THEN Rollback(w)
       ELSE /\ writes' = WriteRow(w, row, value)
            /\ worker' = [worker EXCEPT ![w] = Looked(stage)]
            /\ UNCHANGED <<database, begun>>
    /\ UNCHANGED stopped

\* A row that is added if it is not there.
AddRow(w, row, value, stage) ==
    \/ Look(w, row, FALSE)
    \/ worker[w].found = Absent /\ Write(w, row, value, TRUE, stage)
    \/ /\ worker[w].pending = row /\ worker[w].found # Absent
       /\ worker' = [worker EXCEPT ![w] = Looked(stage)]
       /\ Reads

\* A row that is deleted and inserted.
ReplaceRow(w, row, value, stage) ==
    Look(w, row, TRUE) \/ Write(w, row, value, TRUE, stage)

\* An UPDATE names the columns whose values differ from those that were seen.
Updated(seen, now, value) ==
    [column \in DOMAIN value |->
        IF value[column] = seen[column] THEN now[column] ELSE value[column]]

\* A row that is updated when it is there and inserted otherwise.
UpsertRow(w, row, value, stage) ==
    \/ Look(w, row, FALSE)
    \/ worker[w].found = Absent /\ Write(w, row, value, TRUE, stage)
    \/ /\ worker[w].found # Absent
       /\ Write(w, row, Updated(worker[w].found, Sees(w, row), value), FALSE, stage)

-----------------------------------------------------------------------------
(* The steps of the commands                                               *)

LoadRegistry(w) ==
    /\ WorkerAt(w, "registry")
    /\ AddRow(w, Registry, Present, [worker[w] EXCEPT
          !.at = IF worker[w].command = "start" THEN "companies" ELSE "records"])

NextCompany(w) == CompaniesFile[Cardinality(worker[w].known) + 1]

\* Mutant: every company is committed on its own.
LoadCompaniesOneByOne(w) ==
    /\ WorkerAt(w, "companies")
    /\ \/ /\ worker[w].known # Issuers
          /\ worker' = [worker EXCEPT ![w].known = @ \cup {NextCompany(w)}]
          /\ database' = [database EXCEPT ![CompanyRow(NextCompany(w))] = Present]
          /\ UNCHANGED <<writes, begun, stopped>>
       \/ worker[w].known = Issuers /\ Stage(w, "records") /\ Reads

\* load_companies: upsert_company of each.
LoadCompanies(w) ==
    /\ WorkerAt(w, "companies")
    /\ \/ /\ worker[w].known # Issuers
          /\ AddRow(w, CompanyRow(NextCompany(w)), Present,
                    [worker[w] EXCEPT !.known = @ \cup {NextCompany(w)}])
       \/ worker[w].known = Issuers /\ Stage(w, "records") /\ Reads

\* What the row of a record tells: an article is a near duplicate or it is
\* processed, by the processed articles that are listed once it is inserted.
\* (When the scoring of it fails it stays processed.)
RecordValue(w, r) ==
    IF r \notin NewsArticles THEN Present
    ELSE IF ProcessedArticles(w) \in NearAmong[r] THEN Duplicate ELSE Processed

\* ingest_records: an article that is there is an exact duplicate, and what a
\* record is rejected for is kept once.
IngestRecord(w) ==
    /\ WorkerAt(w, "records")
    /\ \/ /\ worker[w].batch # <<>>
          /\ LET r == Head(worker[w].batch)
             IN AddRow(w, RecordRow(r), RecordValue(w, r), [worker[w] EXCEPT !.batch = Tail(@)])
       \/ /\ worker[w].batch = <<>>
          /\ Stage(w, IF worker[w].command = "start" THEN "accounting" ELSE "commit")
          /\ Reads

RecordRun(w, status, stage) ==
    /\ writes' = WriteRow(w, RunRow(w), {status})
    /\ Stage(w, stage)
    /\ UNCHANGED <<database, begun, stopped>>

\* An error that is not the database's fails the run and not the start.
AccountingFails(w) ==
    /\ WorkerAt(w, "accounting")
    /\ RecordRun(w, "failed", "dataset")

AccountingPasses(w) == WorkerAt(w, "accounting") /\ Stage(w, "aliases") /\ Reads

\* process_articles reads the aliases, then the articles, of which it leaves
\* out the near duplicates.
ReadAliases(w) ==
    /\ WorkerAt(w, "aliases")
    /\ worker' = [worker EXCEPT ![w].at = "list",
          ![w].known = {c \in Issuers : Sees(w, CompanyRow(c)) # Absent}]
    /\ Reads

ListArticles(w) ==
    /\ WorkerAt(w, "list")
    /\ worker' = [worker EXCEPT ![w].at = "analyse", ![w].todo = ProcessedArticles(w)]
    /\ Reads

AnalyseArticle(w) ==
    /\ WorkerAt(w, "analyse")
    /\ \E a \in worker[w].todo :
          /\ \A b \in worker[w].todo : b <= a
          /\ ReplaceRow(w, AnalysisRow(a), Mentioned[a] \cap worker[w].known,
                        [worker[w] EXCEPT !.todo = @ \ {a}])

\* run_demo goes on with the dates of all articles, process is done.
ArticlesAnalysed(w) ==
    /\ WorkerAt(w, "analyse") /\ worker[w].todo = {}
    /\ worker' = [worker EXCEPT
          ![w].at = IF worker[w].command = "process" THEN "commit"
                    ELSE IF StoredArticles(w) = {} THEN "run" ELSE "digest",
          ![w].dates = IF worker[w].command = "start"
                       THEN {MarketDate[a] : a \in StoredArticles(w)} ELSE {}]
    /\ Reads

FirstDate(w) == CHOOSE d \in worker[w].dates : \A e \in worker[w].dates : d <= e

ArticlesOf(w, date) == {a \in ProcessedArticles(w) : MarketDate[a] = date}

\* generate_digest and generate_signals read the processed articles of the
\* date in one statement and their links in another.
GatherArticles(w) ==
    /\ worker[w].at \in {"digest", "signals"}
    /\ worker' = [worker EXCEPT ![w].listed = ArticlesOf(w, FirstDate(w)),
          ![w].at = IF @ = "digest" THEN "digest links" ELSE "signals links"]
    /\ Reads

LinkedTo(w, article) ==
    IF Sees(w, AnalysisRow(article)) = Absent THEN {} ELSE Sees(w, AnalysisRow(article))

GatherLinks(w) ==
    /\ worker[w].at \in {"digest links", "signals links"}
    /\ worker' = [worker EXCEPT
          ![w].gathered = {<<a, LinkedTo(w, a)>> : a \in worker[w].listed},
          ![w].todo = UNION {LinkedTo(w, a) : a \in worker[w].listed},
          ![w].at = IF @ = "digest links" THEN "digest row" ELSE "signal rows"]
    /\ Reads

WriteDigest(w) ==
    /\ WorkerAt(w, "digest row")
    /\ UpsertRow(w, DigestRow(FirstDate(w)), Derived(worker[w].gathered),
          [worker[w] EXCEPT !.todo = {}, !.listed = {}, !.gathered = {},
             !.at = IF worker[w].command = "start" THEN "signals" ELSE "commit"])

\* One row for each company that is linked.
WriteSignal(w) ==
    /\ WorkerAt(w, "signal rows")
    /\ \E c \in worker[w].todo :
          UpsertRow(w, SignalRow(FirstDate(w), c),
                    Derived({pair \in worker[w].gathered : c \in pair[2]}),
                    [worker[w] EXCEPT !.todo = @ \ {c}])

\* The next date, or the end of the run.
SignalsWritten(w) ==
    LET rest == worker[w].dates \ {FirstDate(w)} IN
    /\ WorkerAt(w, "signal rows") /\ worker[w].todo = {}
    /\ worker' = [worker EXCEPT ![w].dates = rest, ![w].listed = {}, ![w].gathered = {},
          ![w].at = IF worker[w].command = "signals" THEN "commit"
                    ELSE IF rest = {} THEN "run" ELSE "digest"]
    /\ Reads

RunCompletes(w) == WorkerAt(w, "run") /\ RecordRun(w, "completed", "dataset")

\* persist_cross_asset_demo deletes every row and inserts all again.
PersistDataset(w) ==
    /\ WorkerAt(w, "dataset")
    /\ ReplaceRow(w, Dataset, Present, [worker[w] EXCEPT !.at = "official"])

\* persist_official_data_demo: what is there has the values of the demo.
PersistOfficial(w) ==
    /\ WorkerAt(w, "official")
    /\ AddRow(w, Official, Present, [worker[w] EXCEPT !.at = "commit"])

-----------------------------------------------------------------------------
BeginAny(w) ==
    BeginStart(w) \/ BeginIngest(w) \/ BeginProcess(w) \/ BeginDigest(w) \/ BeginSignals(w)

Advance(w) ==
    \/ LoadRegistry(w) \/ LoadCompanies(w) \/ IngestRecord(w)
    \/ AccountingPasses(w) \/ AccountingFails(w)
    \/ ReadAliases(w) \/ ListArticles(w) \/ AnalyseArticle(w) \/ ArticlesAnalysed(w)
    \/ GatherArticles(w) \/ GatherLinks(w) \/ WriteDigest(w)
    \/ WriteSignal(w) \/ SignalsWritten(w) \/ RunCompletes(w) \/ PersistDataset(w)
    \/ PersistOfficial(w)
    \/ CommitAndClose(w) \/ BreakDeadlock(w)

DatabaseNext == \E w \in Workers : BeginAny(w) \/ Advance(w) \/ KillWorker(w)

DatabaseSpec ==
    /\ DatabaseInit /\ [][DatabaseNext]_databaseVars
    /\ \A w \in Workers : WF_databaseVars(Advance(w))
-----------------------------------------------------------------------------
(* Properties                                                              *)

Stages == {"idle", "registry", "companies", "records", "accounting", "aliases", "list",
           "analyse", "digest", "digest links", "digest row", "signals",
           "signals links", "signal rows", "run", "dataset", "official", "commit"}

\* Rows are of their tables, and no row is written by two at a time.
DatabaseTypeOK ==
    /\ DOMAIN database = Rows
    /\ \A w \in Workers :
          /\ DOMAIN writes[w] \subseteq Rows
          /\ \A row \in DOMAIN writes[w] : ~Held(w, row)
          /\ worker[w].at \in Stages
          /\ worker[w].at = "idle" => writes[w] = <<>>
          /\ worker[w].pending \in Rows \cup {Absent}
    /\ begun \in 0..MaxDatabaseCommands /\ stopped \in 0..MaxStops

\* A start whose run is recorded as completed has left the companies, the
\* dataset and the official data, a row of every record of the fixtures, a
\* digest of the date of each article and an analysis of those that were not
\* taken for near duplicates, whatever the other commands wrote, waited for
\* or rolled back.
CompletedRunsAreWhole ==
    (\E w \in Workers : database[RunRow(w)] = {"completed"}) =>
        /\ database[Dataset] # Absent /\ database[Official] # Absent
        /\ \A c \in Issuers : database[CompanyRow(c)] # Absent
        /\ \A r \in DemoRecords : database[RecordRow(r)] # Absent
        /\ \A a \in DemoArticles :
              /\ database[DigestRow(MarketDate[a])] # Absent
              /\ database[ArticleRow(a)] = Processed => database[AnalysisRow(a)] # Absent

\* The links of an article are those of all companies or, when the aliases
\* were read before the companies were there, none: never those of some.
LinksAreOfAllCompanies ==
    \A a \in NewsArticles : database[AnalysisRow(a)] \in {Absent, {}, Mentioned[a]}

\* What is analysed, and what a digest or a signal shows, are processed
\* articles, never near duplicates; a digest's and a signal's are of its date,
\* and a signal's are linked to its company: rows derived from a transaction
\* that is rolled back never stay.
DerivedRowsAreBacked ==
    LET canonical(a) == database[ArticleRow(a)] = Processed IN
    /\ \A a \in NewsArticles : database[AnalysisRow(a)] # Absent => canonical(a)
    /\ \A d \in MarketDates : \A c \in Issuers :
          /\ database[DigestRow(d)] # Absent =>
                \A pair \in database[DigestRow(d)].payload :
                    canonical(pair[1]) /\ MarketDate[pair[1]] = d
          /\ database[SignalRow(d, c)] # Absent =>
                \A pair \in database[SignalRow(d, c)].payload :
                    /\ canonical(pair[1]) /\ MarketDate[pair[1]] = d
                    /\ c \in pair[2] /\ database[CompanyRow(c)] # Absent

\* A completed run is of a whole batch, links are of all companies, and what
\* is derived of articles has them.
DatabaseRowsSound == CompletedRunsAreWhole /\ LinksAreOfAllCompanies /\ DerivedRowsAreBacked
=============================================================================
