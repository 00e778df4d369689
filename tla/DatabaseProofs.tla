------------------------------ MODULE DatabaseProofs ------------------------------
(***************************************************************************)
(* Proofs about the commands that write news and the API that reads it,    *)
(* for any processes, articles, companies, batches and questions: a run    *)
(* that is recorded as completed left all of its rows, the links of an     *)
(* article are of all companies or none, what is derived of articles has   *)
(* them, and the pages of the articles miss none.                          *)
(***************************************************************************)
EXTENDS ReadApi, FiniteSetTheorems, TLAPS

-----------------------------------------------------------------------------
(* What a worker sees, and what is known of it.                            *)

CompanyRows == {CompanyRow(c) : c \in Issuers}
NewsRows == {ArticleRow(a) : a \in NewsArticles}

\* What the row of an article tells of it.
ProcessedFact(a) == <<"processed", a>>
DuplicateFact(a) == <<"duplicate", a>>
Tells(rows, a, value) == ArticleRow(a) \in DOMAIN rows /\ rows[ArticleRow(a)] = value
FactsOf(rows) ==
    {ProcessedFact(a) : a \in {b \in NewsArticles : Tells(rows, b, Processed)}}
    \cup {DuplicateFact(a) : a \in {b \in NewsArticles : Tells(rows, b, Duplicate)}}

\* The rows that are there for everybody, and those that are for one worker,
\* with what they tell.
StoredRows == {row \in Rows : database[row] # Absent} \cup FactsOf(database)
SeenRows(w) == StoredRows \cup (DOMAIN writes[w] \cap Rows) \cup FactsOf(writes[w])

\* What a start has stored by the time it records its run as completed.
BatchStored(rows) ==
    \A r \in DemoRecords : RecordRow(r) \in rows
BatchAnalysed(rows) ==
    \A a \in DemoArticles : AnalysisRow(a) \in rows \/ DuplicateFact(a) \in rows
BatchDigested(rows) ==
    \A a \in DemoArticles : DigestRow(MarketDate[a]) \in rows
RunWhole(rows) ==
    CompanyRows \subseteq rows /\ BatchStored(rows) /\ BatchAnalysed(rows) /\ BatchDigested(rows)

\* A row whose value rests on others has them among the rows given.
Backed(rows, row, value) ==
    /\ value # Absent
    /\ \A a \in NewsArticles : row = ArticleRow(a) => value \in {Processed, Duplicate}
    /\ \A a \in NewsArticles : row = AnalysisRow(a) =>
          /\ value \in {{}, Mentioned[a]} /\ ProcessedFact(a) \in rows
          /\ \A c \in value : CompanyRow(c) \in rows
    /\ \A d \in MarketDates : row = DigestRow(d) =>
          /\ value \in DerivedRows
          /\ \A pair \in value.payload :
                ProcessedFact(pair[1]) \in rows /\ MarketDate[pair[1]] = d
    /\ \A d \in MarketDates, c \in Issuers : row = SignalRow(d, c) =>
          /\ value \in DerivedRows
          /\ \A pair \in value.payload :
                /\ ProcessedFact(pair[1]) \in rows /\ MarketDate[pair[1]] = d
                /\ c \in pair[2] /\ CompanyRow(c) \in rows
    /\ \A w \in Workers : row = RunRow(w) =>
          CompanyRows \subseteq rows /\ (value = {"completed"} => RunWhole(rows))

DatabaseBacked ==
    /\ DOMAIN database = Rows
    /\ \A row \in StoredRows \cap Rows : Backed(StoredRows, row, database[row])
    /\ CompanyRows \subseteq StoredRows \/ CompanyRows \cap StoredRows = {}
    /\ \A w \in Workers : database[RunRow(w)] = {"completed"} =>
          Dataset \in StoredRows /\ Official \in StoredRows

WritesBacked(w) ==
    /\ \A row \in DOMAIN writes[w] \cap Rows : Backed(SeenRows(w), row, writes[w][row])
    /\ worker[w].command # "start" => \A c \in Issuers : CompanyRow(c) \notin DOMAIN writes[w]
    /\ worker[w].command # "start" => \A v \in Workers : RunRow(v) \notin DOMAIN writes[w]

\* An article is added once: by one worker, while nobody has committed its
\* row, after a look at the row that still holds.
LookHolds(w, r) ==
    \A a \in NewsArticles :
        r.pending = ArticleRow(a) /\ ~r.overtaken => r.found = Sees(w, ArticleRow(a))

AddedOnce(w) ==
    /\ \A row \in NewsRows \cap DOMAIN writes[w] : database[row] = Absent /\ ~Held(w, row)
    /\ LookHolds(w, worker[w])

DigestStages == {"digest", "digest links", "digest row"}
SignalStages == {"signals", "signals links", "signal rows"}
First(dates) == CHOOSE d \in dates : \A e \in dates : d <= e

\* How far a start has come.
StartProgress(rows, r) ==
    /\ r.at \in {"registry", "companies"} => \A c \in r.known \cap Issuers : CompanyRow(c) \in rows
    /\ r.at \notin {"registry", "companies"} => CompanyRows \subseteq rows
    /\ \A d \in DemoRecords :
          \/ RecordRow(d) \in rows
          \/ /\ r.at \in {"registry", "companies", "records"}
             /\ \E k \in DOMAIN r.batch : r.batch[k] = d
    /\ r.at = "analyse" => \A a \in DemoArticles :
          a \in r.todo \/ AnalysisRow(a) \in rows \/ DuplicateFact(a) \in rows
    /\ r.at \in DigestStages \cup SignalStages \cup {"run"} => BatchAnalysed(rows)
    /\ r.at \in DigestStages \cup SignalStages => \A a \in DemoArticles :
          MarketDate[a] \in r.dates \/ DigestRow(MarketDate[a]) \in rows
    /\ r.at \in SignalStages => \A d \in MarketDates : d = First(r.dates) => DigestRow(d) \in rows
    /\ r.at = "run" => BatchDigested(rows)
    /\ r.at \in {"official", "commit"} => Dataset \in rows
    /\ r.at = "commit" => Official \in rows

\* What any command remembers of the rows it has read.
ReadsBacked(rows, r) ==
    /\ r.at \in {"list", "analyse"} =>
          r.known \in {{}, Issuers} /\ \A c \in r.known : CompanyRow(c) \in rows
    /\ r.at = "analyse" => \A a \in r.todo : a \in NewsArticles /\ ProcessedFact(a) \in rows
    /\ r.at \in {"digest links", "signals links"} => \A a \in r.listed :
          a \in NewsArticles /\ ProcessedFact(a) \in rows /\ MarketDate[a] = First(r.dates)
    /\ r.at \in {"digest row", "signal rows"} => \A pair \in r.gathered :
          /\ pair \in Shown
          /\ ProcessedFact(pair[1]) \in rows /\ MarketDate[pair[1]] = First(r.dates)
          /\ \A c \in pair[2] : CompanyRow(c) \in rows
    /\ r.at = "signal rows" => r.todo \subseteq Issuers

\* A row that a first statement found is there.
PendingBacked(rows, r) ==
    r.pending \in Rows /\ r.found # Absent => r.pending \in rows

\* Which commands come where.
WorkerShape(r) ==
    /\ DOMAIN r = DOMAIN Fresh
    /\ r.batch \in Seq(NewsArticles \cup InvalidRecords)
    /\ r.at = "idle" => r.command = "none"
    /\ r.at \in {"companies", "accounting", "run", "dataset", "official"} => r.command = "start"
    /\ r.at \in {"aliases", "list", "analyse"} => r.command \in {"start", "process"}
    /\ r.at \in SignalStages => r.command \in {"start", "signals"}

RecordBacked(rows, r) ==
    /\ WorkerShape(r)
    /\ r.command = "start" => StartProgress(rows, r)
    /\ ReadsBacked(rows, r) /\ PendingBacked(rows, r)

WorkerBacked(w) == RecordBacked(SeenRows(w), worker[w]) /\ WritesBacked(w)

DatabaseInv ==
    /\ DOMAIN writes = Workers /\ DOMAIN worker = Workers
    /\ DatabaseBacked
    /\ \A w \in Workers : WorkerBacked(w) /\ AddedOnce(w)

-----------------------------------------------------------------------------
(* Rows.                                                                   *)

LEMMA RowsAreRows ==
    /\ Registry \in Rows /\ Dataset \in Rows /\ Official \in Rows
    /\ \A c \in Issuers : CompanyRow(c) \in Rows
    /\ \A a \in NewsArticles : ArticleRow(a) \in Rows /\ AnalysisRow(a) \in Rows
    /\ \A r \in InvalidRecords : RejectionRow(r) \in Rows
    /\ \A d \in MarketDates : DigestRow(d) \in Rows
    /\ \A d \in MarketDates, c \in Issuers : SignalRow(d, c) \in Rows
    /\ \A w \in Workers : RunRow(w) \in Rows
  BY DEF Rows

LEMMA RowOfRecord ==
    ASSUME NEW r \in NewsArticles \cup InvalidRecords
    PROVE  RecordRow(r) \in Rows
  BY RowsAreRows DEF RecordRow

LEMMA BatchIs ==
    /\ DemoRecords \subseteq NewsArticles \cup InvalidRecords
    /\ DemoArticles \subseteq NewsArticles /\ DemoArticles \subseteq DemoRecords
    /\ \A a \in DemoArticles : RecordRow(a) = ArticleRow(a) /\ MarketDate[a] \in MarketDates
<1>1. DemoBatch \in Seq(NewsArticles \cup InvalidRecords)
  BY DatabaseAssumption
<1>2. DemoRecords \subseteq NewsArticles \cup InvalidRecords
  BY <1>1 DEF DemoRecords
<1>. QED BY <1>2 DEF DemoArticles, RecordRow, MarketDates

\* What rows tell is no row.
LEMMA FactsAreNoRows ==
    /\ \A rows : FactsOf(rows) \cap Rows = {}
    /\ Absent \notin NewsRows /\ NewsRows \subseteq Rows
<1>1. \A row \in Rows : row[1] # "processed" /\ row[1] # "duplicate"
  BY DEF Rows, Registry, Dataset, Official, CompanyRow, ArticleRow, RejectionRow, AnalysisRow,
     DigestRow, SignalRow, RunRow
<1>2. \A a : ProcessedFact(a)[1] = "processed" /\ DuplicateFact(a)[1] = "duplicate"
  BY DEF ProcessedFact, DuplicateFact
<1>3. \A rows : FactsOf(rows) \cap Rows = {}
  BY <1>1, <1>2 DEF FactsOf
<1>4. NewsRows \subseteq Rows
  BY RowsAreRows DEF NewsRows
<1>. QED BY <1>3, <1>4, AbsentAssumption

LEMMA FactsAre ==
    ASSUME NEW rows, NEW a \in NewsArticles
    PROVE  /\ ProcessedFact(a) \in FactsOf(rows) <=> Tells(rows, a, Processed)
           /\ DuplicateFact(a) \in FactsOf(rows) <=> Tells(rows, a, Duplicate)
<1>1. \A b : /\ ProcessedFact(a) = ProcessedFact(b) => a = b
             /\ DuplicateFact(a) = DuplicateFact(b) => a = b
             /\ ProcessedFact(a) # DuplicateFact(b) /\ ProcessedFact(b) # DuplicateFact(a)
  BY DEF ProcessedFact, DuplicateFact
<1>. QED BY <1>1 DEF FactsOf

LEMMA FactsAreOfArticles ==
    ASSUME NEW rows, NEW fact \in FactsOf(rows)
    PROVE  \E a \in NewsArticles :
              \/ fact = ProcessedFact(a) /\ Tells(rows, a, Processed)
              \/ fact = DuplicateFact(a) /\ Tells(rows, a, Duplicate)
  BY DEF FactsOf

LEMMA ValuesAreThere ==
    /\ \A companies \in SUBSET Issuers : companies # Absent
    /\ \A derived \in DerivedRows : derived # Absent
    /\ {"completed"} # Absent /\ {"failed"} # Absent /\ {"completed"} # {"failed"}
    /\ Processed # Absent /\ Duplicate # Absent /\ Processed # Duplicate
<1>1. {"completed"} # {"failed"}
  <2>1. "completed" \in {"completed"} /\ "completed" \notin {"failed"}
    OBVIOUS
  <2>. QED BY <2>1
<1>2. Processed # Duplicate
  <2>1. "processed" \in Processed /\ "processed" \notin Duplicate
    BY DEF Processed, Duplicate
  <2>. QED BY <2>1
<1>. QED BY <1>1, <1>2, AbsentAssumption

\* More rows support what fewer do.
LEMMA BackedByMore ==
    ASSUME NEW rows, NEW more, rows \subseteq more, NEW row, NEW value, Backed(rows, row, value)
    PROVE  Backed(more, row, value)
  BY DEF Backed, RunWhole, BatchStored, BatchAnalysed, BatchDigested

LEMMA StartByMore ==
    ASSUME NEW rows, NEW more, rows \subseteq more, NEW r, StartProgress(rows, r)
    PROVE  StartProgress(more, r)
  BY DEF StartProgress, BatchAnalysed, BatchDigested

LEMMA RecordByMore ==
    ASSUME NEW rows, NEW more, rows \subseteq more, NEW r, RecordBacked(rows, r)
    PROVE  RecordBacked(more, r)
<1>1. ReadsBacked(rows, r) => ReadsBacked(more, r)
  BY DEF ReadsBacked
<1>. QED BY <1>1, StartByMore DEF RecordBacked, PendingBacked

\* A row that a worker sees is there for everybody or it has written it.
LEMMA SeesVisible ==
    ASSUME NEW w \in Workers, WritesBacked(w), NEW row \in Rows
    PROVE  Sees(w, row) # Absent <=> row \in SeenRows(w)
<1>0. row \notin FactsOf(database) /\ row \notin FactsOf(writes[w])
  BY FactsAreNoRows
<1>1. CASE row \in DOMAIN writes[w]
  BY <1>1 DEF Sees, SeenRows, WritesBacked, Backed
<1>2. CASE row \notin DOMAIN writes[w]
  BY <1>0, <1>2 DEF Sees, SeenRows, StoredRows
<1>. QED BY <1>1, <1>2

LEMMA SeesBacked ==
    ASSUME NEW w \in Workers, DatabaseBacked, WritesBacked(w), NEW row \in SeenRows(w) \cap Rows
    PROVE  Backed(SeenRows(w), row, Sees(w, row))
<1>1. StoredRows \subseteq SeenRows(w)
  BY DEF SeenRows
<1>2. CASE row \in DOMAIN writes[w]
  BY <1>1, <1>2 DEF Sees, WritesBacked
<1>3. CASE row \notin DOMAIN writes[w]
  <2>1. row \in StoredRows
    BY <1>3, FactsAreNoRows DEF SeenRows
  <2>2. Backed(StoredRows, row, database[row])
    BY <2>1 DEF DatabaseBacked
  <2>. QED BY <1>1, <1>3, <2>2, BackedByMore DEF Sees
<1>. QED BY <1>2, <1>3

\* What a worker sees of an article is among what it sees.
LEMMA SeesFacts ==
    ASSUME NEW w \in Workers, DatabaseBacked, AddedOnce(w), NEW a \in NewsArticles
    PROVE  /\ Sees(w, ArticleRow(a)) = Processed <=> ProcessedFact(a) \in SeenRows(w)
           /\ Sees(w, ArticleRow(a)) = Duplicate <=> DuplicateFact(a) \in SeenRows(w)
<1> DEFINE row == ArticleRow(a)
<1>1. row \in Rows /\ row \in NewsRows /\ DOMAIN database = Rows
  BY RowsAreRows DEF NewsRows, DatabaseBacked
<1>2. ProcessedFact(a) \notin Rows /\ DuplicateFact(a) \notin Rows
  BY DEF ProcessedFact, DuplicateFact, Rows, Registry, Dataset, Official, CompanyRow, ArticleRow,
     RejectionRow, AnalysisRow, DigestRow, SignalRow, RunRow
<1>3. /\ ProcessedFact(a) \in SeenRows(w) <=>
            Tells(database, a, Processed) \/ Tells(writes[w], a, Processed)
      /\ DuplicateFact(a) \in SeenRows(w) <=>
            Tells(database, a, Duplicate) \/ Tells(writes[w], a, Duplicate)
  BY <1>2, FactsAre DEF SeenRows, StoredRows
<1>4. CASE row \in DOMAIN writes[w]
  <2>1. database[row] = Absent
    BY <1>1, <1>4 DEF AddedOnce
  <2>2. ~Tells(database, a, Processed) /\ ~Tells(database, a, Duplicate)
    BY <2>1, ValuesAreThere DEF Tells
  <2>. QED BY <1>3, <1>4, <2>2 DEF Sees, Tells
<1>5. CASE row \notin DOMAIN writes[w]
  BY <1>1, <1>3, <1>5 DEF Sees, Tells
<1>. QED BY <1>4, <1>5

LEMMA StoredIsThere ==
    ASSUME DOMAIN database = Rows
    PROVE  /\ \A row \in Rows : row \in StoredRows <=> database[row] # Absent
           /\ \A a \in NewsArticles :
                 /\ ProcessedFact(a) \in StoredRows <=> database[ArticleRow(a)] = Processed
                 /\ DuplicateFact(a) \in StoredRows <=> database[ArticleRow(a)] = Duplicate
<1>1. \A row \in Rows : row \notin FactsOf(database)
  BY FactsAreNoRows
<1>2. ASSUME NEW a \in NewsArticles
      PROVE  /\ ProcessedFact(a) \in StoredRows <=> database[ArticleRow(a)] = Processed
             /\ DuplicateFact(a) \in StoredRows <=> database[ArticleRow(a)] = Duplicate
  <2>1. ProcessedFact(a) \notin Rows /\ DuplicateFact(a) \notin Rows
    BY DEF ProcessedFact, DuplicateFact, Rows, Registry, Dataset, Official, CompanyRow, ArticleRow,
       RejectionRow, AnalysisRow, DigestRow, SignalRow, RunRow
  <2>2. ArticleRow(a) \in DOMAIN database
    BY RowsAreRows
  <2>. QED BY <2>1, <2>2, FactsAre DEF StoredRows, Tells
<1>. QED BY <1>1, <1>2 DEF StoredRows

-----------------------------------------------------------------------------
(* One worker at a time.                                                   *)

\* The steps of w that leave the others and the committed rows alone.
Local(w) ==
    /\ database' = database
    /\ DOMAIN writes' = Workers /\ DOMAIN worker' = Workers
    /\ \A v \in Workers \ {w} : writes'[v] = writes[v] /\ worker'[v] = worker[v]

\* w goes on as r, and has written nothing or one row.
Moved(w, r) ==
    Local(w) /\ worker'[w] = r /\ writes'[w] = writes[w]

Wrote(w, row, value, r) ==
    /\ Local(w) /\ worker'[w] = r
    /\ DOMAIN writes'[w] = {row} \cup DOMAIN writes[w]
    /\ writes'[w][row] = value
    /\ \A other \in DOMAIN writes[w] \ {row} : writes'[w][other] = writes[w][other]

LEMMA LocalKeepsOthers ==
    ASSUME DatabaseInv, NEW w \in Workers, Local(w), WorkerBacked(w)', AddedOnce(w)'
    PROVE  DatabaseInv'
<1>1. StoredRows' = StoredRows
  BY DEF Local, StoredRows
<1>2. DatabaseBacked'
  BY <1>1 DEF DatabaseInv, DatabaseBacked, Local
<1>3. ASSUME NEW v \in Workers \ {w} PROVE WorkerBacked(v)'
  <2>1. SeenRows(v)' = SeenRows(v) /\ worker'[v] = worker[v] /\ writes'[v] = writes[v]
    BY <1>1 DEF SeenRows, Local
  <2>2. WorkerBacked(v)
    BY DEF DatabaseInv
  <2>. QED BY <2>1, <2>2 DEF WorkerBacked, WritesBacked
<1>4. ASSUME NEW v \in Workers \ {w} PROVE AddedOnce(v)'
  <2>1. /\ writes'[v] = writes[v] /\ worker'[v] = worker[v] /\ database' = database
        /\ \A u \in Workers \ {w} : writes'[u] = writes[u]
    BY DEF Local
  <2>2. AddedOnce(v)
    BY DEF DatabaseInv
  <2>3. ASSUME NEW row \in NewsRows \cap DOMAIN writes[v]
        PROVE  database'[row] = Absent /\ ~Held(v, row)'
    <3>1. database[row] = Absent /\ ~Held(v, row)
      BY <2>2 DEF AddedOnce
    <3>2. row \notin DOMAIN writes'[w]
      BY <2>1 DEF AddedOnce, Held
    <3>. QED BY <2>1, <3>1, <3>2 DEF Held
  <2>4. LookHolds(v, worker[v])'
    BY <2>1, <2>2 DEF AddedOnce, LookHolds, Sees
  <2>. QED BY <2>1, <2>3, <2>4 DEF AddedOnce
<1>. QED BY <1>2, <1>3, <1>4 DEF DatabaseInv, Local

LEMMA MovedKeeps ==
    ASSUME DatabaseInv, NEW w \in Workers, NEW r, Moved(w, r),
           r.command = worker[w].command, RecordBacked(SeenRows(w), r), LookHolds(w, r)
    PROVE  DatabaseInv'
<1>1. SeenRows(w)' = SeenRows(w)
  BY DEF Moved, Local, SeenRows, StoredRows
<1>2. WritesBacked(w)'
  BY <1>1 DEF Moved, DatabaseInv, WorkerBacked, WritesBacked
<1>3. WorkerBacked(w)'
  BY <1>1, <1>2 DEF Moved, WorkerBacked
<1>4. AddedOnce(w)'
  <2>1. AddedOnce(w) /\ database' = database /\ worker'[w] = r
        /\ \A v \in Workers : writes'[v] = writes[v]
    BY DEF DatabaseInv, Moved, Local
  <2>2. \A row \in NewsRows \cap DOMAIN writes'[w] : database'[row] = Absent /\ ~Held(w, row)'
    BY <2>1 DEF AddedOnce, Held
  <2>3. LookHolds(w, worker[w])'
    BY <2>1 DEF LookHolds, Sees
  <2>. QED BY <2>2, <2>3 DEF AddedOnce
<1>. QED BY <1>3, <1>4, LocalKeepsOthers DEF Moved

LEMMA WroteKeeps ==
    ASSUME DatabaseInv, NEW w \in Workers, NEW row, NEW value, NEW r, Wrote(w, row, value, r),
           r.command = worker[w].command,
           r.command # "start" =>
              /\ \A c \in Issuers : row # CompanyRow(c)
              /\ \A v \in Workers : row # RunRow(v),
           row \in NewsRows => Sees(w, row) = Absent /\ ~Held(w, row),
           r.pending \notin NewsRows,
           row \in Rows => Backed(SeenRows(w) \cup ({row} \cap Rows), row, value),
           RecordBacked(SeenRows(w) \cup ({row} \cap Rows), r)
    PROVE  DatabaseInv'
<1> DEFINE more == SeenRows(w) \cup ({row} \cap Rows)
<1>0. WritesBacked(w) /\ AddedOnce(w)
  BY DEF DatabaseInv, WorkerBacked
<1>1. \A other \in NewsRows \cap DOMAIN writes[w] :
         other \in DOMAIN writes'[w] /\ writes'[w][other] = writes[w][other]
  <2> SUFFICES ASSUME NEW other \in NewsRows \cap DOMAIN writes[w] PROVE other # row
    BY DEF Wrote
  <2>1. writes[w][other] # Absent
    BY <1>0, FactsAreNoRows DEF WritesBacked, Backed
  <2>. QED BY <2>1 DEF Sees
<1>2. more \subseteq SeenRows(w)'
  <2>1. FactsOf(writes[w]) \subseteq FactsOf(writes'[w])
    <3>1. ASSUME NEW a \in NewsArticles, NEW told, Tells(writes[w], a, told)
          PROVE  Tells(writes'[w], a, told)
      BY <1>1, <3>1 DEF Tells, NewsRows
    <3>2. ASSUME NEW fact \in FactsOf(writes[w]) PROVE fact \in FactsOf(writes'[w])
      <4>1. PICK a \in NewsArticles :
              \/ fact = ProcessedFact(a) /\ Tells(writes[w], a, Processed)
              \/ fact = DuplicateFact(a) /\ Tells(writes[w], a, Duplicate)
        BY FactsAreOfArticles
      <4>. QED BY <3>1, <4>1, FactsAre
    <3>. QED BY <3>2
  <2>2. database' = database /\ DOMAIN writes'[w] = {row} \cup DOMAIN writes[w]
    BY DEF Wrote, Local
  <2>. QED BY <2>1, <2>2 DEF SeenRows, StoredRows
<1>3. WritesBacked(w)'
  <2>1. ASSUME NEW other \in DOMAIN writes'[w] \cap Rows
        PROVE  Backed(SeenRows(w)', other, writes'[w][other])
    <3>1. CASE other = row
      <4>1. Backed(more, other, writes'[w][other])
        BY <3>1 DEF Wrote
      <4> HIDE DEF more
      <4>. QED BY <1>2, <4>1, BackedByMore
    <3>2. CASE other # row
      <4>1. Backed(SeenRows(w), other, writes[w][other]) /\ writes'[w][other] = writes[w][other]
        BY <1>0, <3>2 DEF Wrote, WritesBacked
      <4>2. SeenRows(w) \subseteq SeenRows(w)'
        BY <1>2
      <4>. QED BY <4>1, <4>2, BackedByMore
    <3>. QED BY <3>1, <3>2
  <2>2. worker'[w].command = worker[w].command
    BY DEF Wrote
  <2>3. worker'[w].command # "start" =>
           /\ \A c \in Issuers : CompanyRow(c) \notin DOMAIN writes'[w]
           /\ \A v \in Workers : RunRow(v) \notin DOMAIN writes'[w]
    BY <1>0, <2>2 DEF Wrote, WritesBacked
  <2>. QED BY <2>1, <2>3 DEF WritesBacked
<1>4. WorkerBacked(w)'
  <2> HIDE DEF more
  <2>1. RecordBacked(SeenRows(w)', r)
    BY <1>2, RecordByMore DEF more
  <2>. QED BY <1>3, <2>1 DEF Wrote, WorkerBacked
<1>5. AddedOnce(w)'
  <2>1. /\ database' = database /\ worker'[w] = r
        /\ DOMAIN writes'[w] = {row} \cup DOMAIN writes[w]
        /\ \A v \in Workers \ {w} : writes'[v] = writes[v]
    BY DEF Wrote, Local
  <2>2. ASSUME NEW other \in NewsRows \cap DOMAIN writes'[w]
        PROVE  database'[other] = Absent /\ ~Held(w, other)'
    <3>1. CASE other \in DOMAIN writes[w]
      <4>1. database[other] = Absent /\ ~Held(w, other)
        BY <1>0, <3>1 DEF AddedOnce
      <4>. QED BY <2>1, <4>1 DEF Held
    <3>2. CASE other \notin DOMAIN writes[w]
      <4>1. other = row /\ Sees(w, row) = Absent /\ ~Held(w, row)
        BY <2>1, <3>2
      <4>. QED BY <2>1, <3>2, <4>1 DEF Held, Sees
    <3>. QED BY <3>1, <3>2
  <2>3. LookHolds(w, worker[w])'
    BY <2>1 DEF LookHolds, NewsRows
  <2>. QED BY <2>2, <2>3 DEF AddedOnce
<1>. QED BY <1>4, <1>5, LocalKeepsOthers DEF Wrote

LEMMA FreshBacked ==
    /\ DOMAIN Fresh = {"command", "at", "batch", "known", "todo", "dates", "listed",
                       "gathered", "pending", "found", "overtaken"}
    /\ Fresh.at = "idle" /\ Fresh.command = "none" /\ Fresh.batch = <<>>
    /\ Fresh.found = Absent /\ Fresh.pending = Absent
    /\ \A rows : RecordBacked(rows, Fresh)
<1>1. /\ DOMAIN Fresh = {"command", "at", "batch", "known", "todo", "dates", "listed",
                         "gathered", "pending", "found", "overtaken"}
      /\ Fresh.at = "idle" /\ Fresh.command = "none" /\ Fresh.batch = <<>>
      /\ Fresh.found = Absent /\ Fresh.pending = Absent
  BY DEF Fresh
<1>2. \A rows : RecordBacked(rows, Fresh)
  BY <1>1 DEF RecordBacked, WorkerShape, ReadsBacked, PendingBacked, SignalStages
<1>. QED BY <1>1, <1>2

LEMMA RolledBackKeeps ==
    ASSUME DatabaseInv, NEW w \in Workers, Rollback(w)
    PROVE  DatabaseInv'
<1>1. Local(w) /\ worker'[w] = Fresh /\ writes'[w] = <<>>
  BY DEF Rollback, DatabaseInv, Local
<1>2. DOMAIN writes'[w] = {}
  BY <1>1
<1>3. WritesBacked(w)'
  BY <1>2 DEF WritesBacked
<1>4. WorkerBacked(w)'
  BY <1>1, <1>3, FreshBacked DEF WorkerBacked
<1>5. AddedOnce(w)'
  BY <1>1, <1>2, FreshBacked, FactsAreNoRows DEF AddedOnce, LookHolds, NewsRows
<1>. QED BY <1>1, <1>4, <1>5, LocalKeepsOthers

-----------------------------------------------------------------------------
(* Statements on one row.                                                  *)

LEMMA WriteRowIs ==
    ASSUME DatabaseInv, NEW w \in Workers, NEW row, NEW value
    PROVE  LET after == WriteRow(w, row, value) IN
           /\ DOMAIN after = Workers
           /\ DOMAIN after[w] = {row} \cup DOMAIN writes[w]
           /\ after[w][row] = value
           /\ \A other \in DOMAIN writes[w] \ {row} : after[w][other] = writes[w][other]
           /\ \A v \in Workers \ {w} : after[v] = writes[v]
<1>1. DOMAIN writes = Workers
  BY DEF DatabaseInv
<1> DEFINE new == [r \in {row} \cup DOMAIN writes[w] |-> IF r = row THEN value ELSE writes[w][r]]
<1>2. WriteRow(w, row, value) = [writes EXCEPT ![w] = new]
  BY <1>1 DEF WriteRow
<1>3. /\ DOMAIN new = {row} \cup DOMAIN writes[w] /\ new[row] = value
      /\ \A other \in DOMAIN writes[w] \ {row} : new[other] = writes[w][other]
  OBVIOUS
<1> HIDE DEF new
<1>. QED BY <1>1, <1>2, <1>3

\* A record whose statement is done.
LEMMA LookedIs ==
    ASSUME NEW r, DOMAIN r = DOMAIN Fresh
    PROVE  /\ DOMAIN Looked(r) = DOMAIN Fresh
           /\ Looked(r).command = r.command /\ Looked(r).at = r.at /\ Looked(r).batch = r.batch
           /\ Looked(r).known = r.known /\ Looked(r).todo = r.todo /\ Looked(r).dates = r.dates
           /\ Looked(r).listed = r.listed /\ Looked(r).gathered = r.gathered
           /\ Looked(r).pending = Absent /\ Looked(r).found = Absent
  BY FreshBacked DEF Looked

\* The first statement.
LEMMA LookKeeps ==
    ASSUME DatabaseInv, NEW w \in Workers, NEW row, NEW replaces \in BOOLEAN,
           Look(w, row, replaces),
           replaces => row \notin NewsRows,
           replaces /\ worker[w].command # "start" =>
              /\ \A c \in Issuers : row # CompanyRow(c)
              /\ \A v \in Workers : row # RunRow(v)
    PROVE  DatabaseInv'
<1> DEFINE r == [worker[w] EXCEPT !.pending = row, !.overtaken = FALSE, !.found = Sees(w, row)]
<1>1. /\ DOMAIN writes = Workers /\ DOMAIN worker = Workers /\ WorkerBacked(w)
      /\ DatabaseBacked /\ WritesBacked(w)
  BY DEF DatabaseInv, WorkerBacked
<1>2. DOMAIN worker[w] = DOMAIN Fresh
  BY <1>1 DEF WorkerBacked, RecordBacked, WorkerShape
<1>3. /\ DOMAIN r = DOMAIN Fresh /\ r.command = worker[w].command /\ r.at = worker[w].at
      /\ r.batch = worker[w].batch /\ r.known = worker[w].known /\ r.todo = worker[w].todo
      /\ r.dates = worker[w].dates /\ r.listed = worker[w].listed
      /\ r.gathered = worker[w].gathered /\ r.pending = row /\ r.found = Sees(w, row)
  BY <1>2, FreshBacked
<1>4. worker' = [worker EXCEPT ![w] = r]
  BY <1>1, <1>2 DEF Look
<1>5. worker'[w] = r /\ DOMAIN worker' = Workers
      /\ \A v \in Workers \ {w} : worker'[v] = worker[v]
  BY <1>1, <1>4
<1> HIDE DEF r
<1>6. RecordBacked(SeenRows(w), r)
  <2>1. RecordBacked(SeenRows(w), worker[w])
    BY <1>1 DEF WorkerBacked
  <2>2. WorkerShape(r)
    BY <1>3, <2>1 DEF RecordBacked, WorkerShape
  <2>3. r.command = "start" => StartProgress(SeenRows(w), r)
    BY <1>3, <2>1 DEF RecordBacked, StartProgress
  <2>4. ReadsBacked(SeenRows(w), r)
    BY <1>3, <2>1 DEF RecordBacked, ReadsBacked
  <2>5. PendingBacked(SeenRows(w), r)
    BY <1>1, <1>3, SeesVisible DEF PendingBacked
  <2>. QED BY <2>2, <2>3, <2>4, <2>5 DEF RecordBacked
<1>7. CASE writes' = writes
  <2>1. Moved(w, r)
    BY <1>1, <1>5, <1>7 DEF Moved, Local, Look
  <2>2. LookHolds(w, r)
    BY <1>3 DEF LookHolds
  <2>. QED BY <1>3, <1>6, <2>1, <2>2, MovedKeeps
<1>8. CASE replaces /\ Sees(w, row) # Absent /\ writes' = WriteRow(w, row, Sees(w, row))
  <2>1. Wrote(w, row, Sees(w, row), r)
    BY <1>5, <1>8, WriteRowIs DEF Wrote, Local, Look
  <2>2. row \in Rows => SeenRows(w) \cup ({row} \cap Rows) = SeenRows(w)
                        /\ Backed(SeenRows(w), row, Sees(w, row))
    BY <1>1, <1>8, SeesVisible, SeesBacked
  <2>3. SeenRows(w) \cup ({row} \cap Rows) = SeenRows(w)
    BY <2>2
  <2>. QED BY <1>3, <1>6, <1>8, <2>1, <2>2, <2>3, WroteKeeps
<1>. QED BY <1>7, <1>8 DEF Look

\* The second one.
LEMMA WriteKeeps ==
    ASSUME DatabaseInv, NEW w \in Workers, NEW row, NEW value, NEW inserts \in BOOLEAN, NEW r,
           Write(w, row, value, inserts, r),
           row \in NewsRows => inserts /\ worker[w].found = Absent,
           DOMAIN r = DOMAIN Fresh, r.command = worker[w].command,
           r.command # "start" =>
              /\ \A c \in Issuers : row # CompanyRow(c)
              /\ \A v \in Workers : row # RunRow(v),
           row \in Rows => Backed(SeenRows(w) \cup ({row} \cap Rows), row, value),
           RecordBacked(SeenRows(w) \cup ({row} \cap Rows), Looked(r))
    PROVE  DatabaseInv'
<1>1. CASE Rollback(w)
  BY <1>1, RolledBackKeeps
<1>2. CASE /\ ~(inserts /\ worker[w].overtaken)
           /\ writes' = WriteRow(w, row, value)
           /\ worker' = [worker EXCEPT ![w] = Looked(r)]
           /\ database' = database
  <2>1. DOMAIN worker = Workers /\ LookHolds(w, worker[w])
    BY DEF DatabaseInv, AddedOnce
  <2>2. Wrote(w, row, value, Looked(r))
    BY <1>2, <2>1, WriteRowIs DEF Wrote, Local
  <2>3. row \in NewsRows => Sees(w, row) = Absent /\ ~Held(w, row)
    BY <1>2, <2>1 DEF Write, LookHolds, NewsRows
  <2>4. Looked(r).pending \notin NewsRows
    BY LookedIs, FactsAreNoRows
  <2>. QED BY <2>2, <2>3, <2>4, WroteKeeps, LookedIs
<1>. QED BY <1>1, <1>2 DEF Write

LEMMA AddRowKeeps ==
    ASSUME DatabaseInv, NEW w \in Workers, NEW row, NEW value, NEW r, AddRow(w, row, value, r),
           DOMAIN r = DOMAIN Fresh, r.command = worker[w].command,
           r.command # "start" =>
              /\ \A c \in Issuers : row # CompanyRow(c)
              /\ \A v \in Workers : row # RunRow(v),
           row \in Rows => Backed(SeenRows(w) \cup ({row} \cap Rows), row, value),
           RecordBacked(SeenRows(w) \cup ({row} \cap Rows), Looked(r))
    PROVE  DatabaseInv'
<1>1. CASE Look(w, row, FALSE)
  BY <1>1, LookKeeps
<1>2. CASE worker[w].found = Absent /\ Write(w, row, value, TRUE, r)
  BY <1>2, WriteKeeps
<1>3. CASE /\ worker[w].pending = row /\ worker[w].found # Absent
           /\ worker' = [worker EXCEPT ![w] = Looked(r)]
           /\ Reads
  <2>1. DOMAIN worker = Workers /\ DOMAIN writes = Workers /\ PendingBacked(SeenRows(w), worker[w])
    BY DEF DatabaseInv, WorkerBacked, RecordBacked
  <2>2. SeenRows(w) \cup ({row} \cap Rows) = SeenRows(w)
    BY <1>3, <2>1 DEF PendingBacked
  <2>3. Moved(w, Looked(r))
    BY <1>3, <2>1 DEF Moved, Local, Reads
  <2>4. LookHolds(w, Looked(r))
    BY LookedIs, FactsAreNoRows DEF LookHolds, NewsRows
  <2>. QED BY <2>2, <2>3, <2>4, MovedKeeps, LookedIs
<1>. QED BY <1>1, <1>2, <1>3 DEF AddRow

LEMMA ReplaceRowKeeps ==
    ASSUME DatabaseInv, NEW w \in Workers, NEW row, NEW value, NEW r, ReplaceRow(w, row, value, r),
           DOMAIN r = DOMAIN Fresh, r.command = worker[w].command, row \notin NewsRows,
           /\ \A c \in Issuers : row # CompanyRow(c)
           /\ \A v \in Workers : row # RunRow(v),
           row \in Rows => Backed(SeenRows(w) \cup ({row} \cap Rows), row, value),
           RecordBacked(SeenRows(w) \cup ({row} \cap Rows), Looked(r))
    PROVE  DatabaseInv'
  BY LookKeeps, WriteKeeps DEF ReplaceRow

\* A row that was there stays there: what is updated is of its kind.
LEMMA UpdatedIs ==
    ASSUME NEW seen, NEW now \in DerivedRows, NEW value \in DerivedRows
    PROVE  /\ Updated(seen, now, value) \in DerivedRows
           /\ Updated(seen, now, value).payload \in {now.payload, value.payload}
  BY DEF Updated, DerivedRows

LEMMA UpsertRowKeeps ==
    ASSUME DatabaseInv, NEW w \in Workers, NEW row, NEW value, NEW r, UpsertRow(w, row, value, r),
           DOMAIN r = DOMAIN Fresh, r.command = worker[w].command, row \notin NewsRows,
           /\ \A c \in Issuers : row # CompanyRow(c)
           /\ \A v \in Workers : row # RunRow(v),
           row \in Rows =>
              /\ Backed(SeenRows(w) \cup ({row} \cap Rows), row, value)
              /\ \A seen, now : Backed(SeenRows(w), row, now) =>
                    Backed(SeenRows(w) \cup ({row} \cap Rows), row, Updated(seen, now, value)),
           RecordBacked(SeenRows(w) \cup ({row} \cap Rows), Looked(r))
    PROVE  DatabaseInv'
<1>1. CASE Look(w, row, FALSE)
  BY <1>1, LookKeeps
<1>2. CASE Write(w, row, value, TRUE, r)
  BY <1>2, WriteKeeps
<1>3. CASE /\ worker[w].found # Absent
           /\ Write(w, row, Updated(worker[w].found, Sees(w, row), value), FALSE, r)
  <2>1. PendingBacked(SeenRows(w), worker[w]) /\ DatabaseBacked /\ WritesBacked(w)
    BY DEF DatabaseInv, WorkerBacked, RecordBacked
  <2>2. worker[w].pending = row
    BY <1>3 DEF Write
  <2>3. row \in Rows => Backed(SeenRows(w), row, Sees(w, row))
    BY <1>3, <2>1, <2>2, SeesBacked DEF PendingBacked
  <2>. QED BY <1>3, <2>3, WriteKeeps
<1>. QED BY <1>1, <1>2, <1>3 DEF UpsertRow

-----------------------------------------------------------------------------
(* The steps of a command.                                                 *)

\* A worker that is not idle, seen from its own step.
LEMMA WorkerKnows ==
    ASSUME DatabaseInv, NEW w \in Workers
    PROVE  /\ DOMAIN writes = Workers /\ DOMAIN worker = Workers
           /\ DOMAIN worker[w] = DOMAIN Fresh
           /\ WorkerShape(worker[w]) /\ WritesBacked(w) /\ DatabaseBacked
           /\ worker[w].command = "start" => StartProgress(SeenRows(w), worker[w])
           /\ ReadsBacked(SeenRows(w), worker[w]) /\ PendingBacked(SeenRows(w), worker[w])
           /\ \A row \in Rows : Sees(w, row) # Absent <=> row \in SeenRows(w)
           /\ \A row \in SeenRows(w) \cap Rows : Backed(SeenRows(w), row, Sees(w, row))
           /\ \A a \in NewsArticles :
                 /\ Sees(w, ArticleRow(a)) = Processed <=> ProcessedFact(a) \in SeenRows(w)
                 /\ Sees(w, ArticleRow(a)) = Duplicate <=> DuplicateFact(a) \in SeenRows(w)
  BY SeesVisible, SeesBacked, SeesFacts DEF DatabaseInv, WorkerBacked, RecordBacked, WorkerShape

\* The rows of which no more is told than that they are there.
LEMMA PlainRows ==
    ASSUME NEW rows, NEW row,
           \/ row = Registry \/ row = Dataset \/ row = Official
           \/ \E c : row = CompanyRow(c)
           \/ \E r : row = RejectionRow(r)
    PROVE  Backed(rows, row, Present)
<1>1. Present # Absent
  BY ValuesAreThere DEF Present
<1>. QED BY <1>1 DEF Backed, Registry, Dataset, Official, CompanyRow, ArticleRow, RejectionRow,
            AnalysisRow, DigestRow, SignalRow, RunRow

\* A record whose statement is done.
LEMMA LookedBacked ==
    ASSUME NEW rows, NEW r, WorkerShape(r),
           r.command = "start" => StartProgress(rows, r), ReadsBacked(rows, r)
    PROVE  RecordBacked(rows, Looked(r)) /\ DOMAIN r = DOMAIN Fresh
<1>1. DOMAIN r = DOMAIN Fresh
  BY DEF WorkerShape
<1>2. WorkerShape(Looked(r))
  BY <1>1, LookedIs DEF WorkerShape
<1>3. Looked(r).command = "start" => StartProgress(rows, Looked(r))
  BY <1>1, LookedIs DEF StartProgress
<1>4. ReadsBacked(rows, Looked(r))
  BY <1>1, LookedIs DEF ReadsBacked
<1>5. PendingBacked(rows, Looked(r))
  BY <1>1, LookedIs DEF PendingBacked
<1>. QED BY <1>1, <1>2, <1>3, <1>4, <1>5 DEF RecordBacked

\* What a step of w changes in its own record alone.
LEMMA RecordKeeps ==
    ASSUME DatabaseInv, NEW w \in Workers, NEW r, Reads,
           worker' = [worker EXCEPT ![w] = r],
           r.command = worker[w].command, WorkerShape(r),
           r.command = "start" => StartProgress(SeenRows(w), r), ReadsBacked(SeenRows(w), r),
           \/ r.pending = Absent
           \/ /\ r.pending = worker[w].pending /\ r.found = worker[w].found
              /\ r.overtaken = worker[w].overtaken
    PROVE  DatabaseInv'
<1>1. Moved(w, r)
  BY DEF DatabaseInv, Moved, Local, Reads
<1>2. PendingBacked(SeenRows(w), r)
  BY WorkerKnows, AbsentAssumption DEF PendingBacked
<1>3. LookHolds(w, r)
  BY FactsAreNoRows DEF DatabaseInv, AddedOnce, LookHolds, NewsRows
<1>. QED BY <1>1, <1>2, <1>3, MovedKeeps DEF RecordBacked

LEMMA BeginKeeps ==
    ASSUME DatabaseInv, NEW w \in Workers, BeginAny(w)
    PROVE  DatabaseInv'
<1>1. PICK r : /\ worker' = [worker EXCEPT ![w] = r]
               /\ WorkerAt(w, "idle") /\ UNCHANGED <<database, writes>>
               /\ RecordBacked(SeenRows(w), r) /\ r.pending = Absent
  <2>1. ASSUME NEW command \in {"ingest", "process", "digest", "signals"},
               NEW at \in {"registry", "aliases", "digest", "signals"},
               NEW batch \in Seq(NewsArticles \cup InvalidRecords), NEW dates,
               at = "aliases" => command = "process", at = "signals" => command = "signals",
               BeginCommand(w, command, at, batch, dates)
        PROVE  \E r : /\ worker' = [worker EXCEPT ![w] = r]
                      /\ WorkerAt(w, "idle") /\ UNCHANGED <<database, writes>>
                      /\ RecordBacked(SeenRows(w), r) /\ r.pending = Absent
    <3> DEFINE r == [Fresh EXCEPT !.command = command, !.at = at, !.batch = batch,
                                  !.dates = dates]
    <3>1. /\ DOMAIN r = DOMAIN Fresh /\ r.command = command /\ r.at = at
          /\ r.batch = batch /\ r.found = Absent /\ r.pending = Absent
      BY FreshBacked
    <3>2. /\ worker' = [worker EXCEPT ![w] = r]
          /\ WorkerAt(w, "idle") /\ UNCHANGED <<database, writes>>
      BY <2>1 DEF BeginCommand
    <3> HIDE DEF r
    <3>3. RecordBacked(SeenRows(w), r)
      BY <2>1, <3>1 DEF RecordBacked, WorkerShape, ReadsBacked, PendingBacked, SignalStages
    <3>. QED BY <3>1, <3>2, <3>3
  <2>2. CASE BeginStart(w)
    <3> DEFINE r == [Fresh EXCEPT !.command = "start", !.at = "registry", !.batch = DemoBatch,
                                  !.dates = {}]
    <3>1. /\ DOMAIN r = DOMAIN Fresh /\ r.command = "start" /\ r.at = "registry"
          /\ r.batch = DemoBatch /\ r.found = Absent /\ r.pending = Absent /\ r.known = {}
          /\ DemoBatch \in Seq(NewsArticles \cup InvalidRecords)
      BY FreshBacked, DatabaseAssumption DEF Fresh
    <3>2. /\ worker' = [worker EXCEPT ![w] = r]
          /\ WorkerAt(w, "idle") /\ UNCHANGED <<database, writes>>
      BY <2>2 DEF BeginStart, BeginCommand
    <3> HIDE DEF r
    <3>3. RecordBacked(SeenRows(w), r)
      BY <3>1 DEF RecordBacked, WorkerShape, ReadsBacked, PendingBacked, StartProgress,
         DemoRecords, DigestStages, SignalStages
    <3>. QED BY <3>1, <3>2, <3>3
  <2>3. CASE BeginIngest(w)
    BY <2>1, <2>3, DatabaseAssumption DEF BeginIngest
  <2>4. <<>> \in Seq(NewsArticles \cup InvalidRecords)
    OBVIOUS
  <2>5. CASE BeginProcess(w)
    BY <2>1, <2>4, <2>5 DEF BeginProcess
  <2>6. CASE BeginDigest(w)
    BY <2>1, <2>4, <2>6 DEF BeginDigest
  <2>7. CASE BeginSignals(w)
    BY <2>1, <2>4, <2>7 DEF BeginSignals
  <2>. QED BY <2>2, <2>3, <2>5, <2>6, <2>7 DEF BeginAny
<1>2. DOMAIN worker = Workers /\ DOMAIN writes = Workers
  BY DEF DatabaseInv
<1>3. Local(w) /\ worker'[w] = r /\ writes'[w] = writes[w]
  BY <1>1, <1>2 DEF Local
<1>4. worker[w].command # "start"
  BY <1>1, WorkerKnows DEF WorkerAt, WorkerShape
<1>5. /\ \A row \in DOMAIN writes[w] \cap Rows : Backed(SeenRows(w), row, writes[w][row])
      /\ \A c \in Issuers : CompanyRow(c) \notin DOMAIN writes[w]
      /\ \A v \in Workers : RunRow(v) \notin DOMAIN writes[w]
  BY <1>4, WorkerKnows DEF WritesBacked
<1>6. SeenRows(w)' = SeenRows(w)
  BY <1>3 DEF Local, SeenRows, StoredRows
<1>7. WorkerBacked(w)'
  BY <1>1, <1>3, <1>5, <1>6 DEF WorkerBacked, WritesBacked
<1>8. AddedOnce(w)'
  <2>1. AddedOnce(w) /\ \A v \in Workers : writes'[v] = writes[v]
    BY <1>3 DEF DatabaseInv, Local
  <2>2. \A row \in NewsRows \cap DOMAIN writes'[w] : database'[row] = Absent /\ ~Held(w, row)'
    BY <1>3, <2>1 DEF AddedOnce, Held, Local
  <2>3. LookHolds(w, worker[w])'
    BY <1>1, <1>3, FactsAreNoRows DEF LookHolds, NewsRows
  <2>. QED BY <2>2, <2>3 DEF AddedOnce
<1>. QED BY <1>3, <1>7, <1>8, LocalKeepsOthers

LEMMA LoadRegistryKeeps ==
    ASSUME DatabaseInv, NEW w \in Workers, LoadRegistry(w)
    PROVE  DatabaseInv'
<1> DEFINE r == [worker[w] EXCEPT !.at = IF worker[w].command = "start" THEN "companies"
                                         ELSE "records"]
           more == SeenRows(w) \cup ({Registry} \cap Rows)
<1>1. /\ DOMAIN r = DOMAIN Fresh /\ r.command = worker[w].command
      /\ r.at = (IF worker[w].command = "start" THEN "companies" ELSE "records")
      /\ r.batch = worker[w].batch /\ r.known = worker[w].known
  BY WorkerKnows, FreshBacked
<1>2. worker[w].at = "registry" /\ AddRow(w, Registry, Present, r)
  BY DEF LoadRegistry, WorkerAt
<1> HIDE DEF r
<1>3. WorkerShape(worker[w]) /\ WorkerShape(r) /\ ReadsBacked(more, r)
  BY <1>1, <1>2, WorkerKnows DEF WorkerShape, ReadsBacked, SignalStages
<1>4. r.command = "start" => StartProgress(more, r)
  <2>1. worker[w].command = "start" => StartProgress(more, worker[w])
    BY WorkerKnows, StartByMore
  <2>. QED BY <1>1, <1>2, <2>1 DEF StartProgress, DigestStages, SignalStages
<1>5. RecordBacked(more, Looked(r)) /\ DOMAIN r = DOMAIN Fresh
  BY <1>3, <1>4, LookedBacked
<1>6. Backed(more, Registry, Present)
  BY PlainRows
<1>7. /\ \A c \in Issuers : Registry # CompanyRow(c)
      /\ \A v \in Workers : Registry # RunRow(v)
  BY DEF Registry, CompanyRow, RunRow
<1>. QED BY <1>1, <1>2, <1>5, <1>6, <1>7, AddRowKeeps

LEMMA LoadCompaniesKeeps ==
    ASSUME DatabaseInv, NEW w \in Workers, LoadCompanies(w)
    PROVE  DatabaseInv'
<1>1. /\ worker[w].at = "companies" /\ worker[w].command = "start"
      /\ StartProgress(SeenRows(w), worker[w]) /\ WorkerShape(worker[w])
  BY WorkerKnows DEF LoadCompanies, WorkerAt, WorkerShape
<1>2. CASE AddRow(w, CompanyRow(NextCompany(w)), Present,
                  [worker[w] EXCEPT !.known = @ \cup {NextCompany(w)}])
  <2> DEFINE c == NextCompany(w)
             row == CompanyRow(c)
             r == [worker[w] EXCEPT !.known = @ \cup {c}]
             more == SeenRows(w) \cup ({row} \cap Rows)
  <2>1. /\ DOMAIN r = DOMAIN Fresh /\ r.command = worker[w].command
        /\ r.at = worker[w].at /\ r.batch = worker[w].batch
        /\ r.known = worker[w].known \cup {c}
    BY WorkerKnows, FreshBacked
  <2>2. AddRow(w, row, Present, r)
    BY <1>2
  <2> HIDE DEF r
  <2>3. WorkerShape(r) /\ ReadsBacked(more, r)
    BY <1>1, <2>1 DEF WorkerShape, ReadsBacked, SignalStages
  <2>4. StartProgress(more, r)
    <3>1. StartProgress(more, worker[w])
      BY <1>1, StartByMore
    <3>2. \A d \in r.known \cap Issuers : CompanyRow(d) \in more
      BY <1>1, <2>1, <3>1, RowsAreRows DEF StartProgress
    <3>. QED BY <1>1, <2>1, <3>1, <3>2 DEF StartProgress, DigestStages, SignalStages
  <2>5. RecordBacked(more, Looked(r))
    BY <2>3, <2>4, LookedBacked
  <2>6. Backed(more, row, Present)
    BY PlainRows
  <2>. QED BY <1>1, <2>1, <2>2, <2>5, <2>6, AddRowKeeps
<1>3. CASE worker[w].known = Issuers /\ Stage(w, "records") /\ Reads
  <2> DEFINE r == [worker[w] EXCEPT !.at = "records", !.pending = Absent]
  <2>1. /\ DOMAIN r = DOMAIN Fresh /\ r.command = worker[w].command
        /\ r.at = "records" /\ r.batch = worker[w].batch /\ r.pending = Absent
    BY WorkerKnows, FreshBacked
  <2>2. worker' = [worker EXCEPT ![w] = r]
    BY <1>3, WorkerKnows, FreshBacked DEF Stage
  <2> HIDE DEF r
  <2>3. WorkerShape(r) /\ ReadsBacked(SeenRows(w), r)
    BY <1>1, <2>1 DEF WorkerShape, ReadsBacked, SignalStages
  <2>4. StartProgress(SeenRows(w), r)
    <3>1. CompanyRows \subseteq SeenRows(w)
      BY <1>1, <1>3 DEF StartProgress, CompanyRows
    <3>. QED BY <1>1, <2>1, <3>1 DEF StartProgress, DigestStages, SignalStages
  <2>. QED BY <1>3, <2>1, <2>2, <2>3, <2>4, RecordKeeps
<1>. QED BY <1>2, <1>3 DEF LoadCompanies

LEMMA TailIs ==
    ASSUME NEW batch \in Seq(NewsArticles \cup InvalidRecords), batch # <<>>,
           NEW k \in DOMAIN batch, k # 1
    PROVE  k - 1 \in DOMAIN Tail(batch) /\ Tail(batch)[k - 1] = batch[k]
<1>1. k \in 1..Len(batch) /\ Len(batch) \in Nat
  OBVIOUS
<1>2. k - 1 \in 1..(Len(batch) - 1)
  BY <1>1
<1>3. Len(Tail(batch)) = Len(batch) - 1 /\ Tail(batch) \in Seq(NewsArticles \cup InvalidRecords)
  OBVIOUS
<1>4. DOMAIN Tail(batch) = 1..(Len(batch) - 1)
  BY <1>3
<1>. QED BY <1>1, <1>2, <1>4

LEMMA IngestRecordKeeps ==
    ASSUME DatabaseInv, NEW w \in Workers, IngestRecord(w)
    PROVE  DatabaseInv'
<1>1. /\ worker[w].at = "records" /\ WorkerShape(worker[w])
      /\ worker[w].command = "start" => StartProgress(SeenRows(w), worker[w])
  BY WorkerKnows DEF IngestRecord, WorkerAt
<1>2. CASE /\ worker[w].batch # <<>>
           /\ AddRow(w, RecordRow(Head(worker[w].batch)), RecordValue(w, Head(worker[w].batch)),
                     [worker[w] EXCEPT !.batch = Tail(@)])
  <2> DEFINE a == Head(worker[w].batch)
             row == RecordRow(a)
             value == RecordValue(w, a)
             r == [worker[w] EXCEPT !.batch = Tail(@)]
             more == SeenRows(w) \cup ({row} \cap Rows)
  <2>1. /\ DOMAIN r = DOMAIN Fresh /\ r.command = worker[w].command
        /\ r.at = worker[w].at /\ r.known = worker[w].known
        /\ r.batch = Tail(worker[w].batch)
    BY WorkerKnows, FreshBacked
  <2>2. AddRow(w, row, value, r)
    BY <1>2
  <2> HIDE DEF r
  <2>3. worker[w].batch \in Seq(NewsArticles \cup InvalidRecords)
    BY <1>1 DEF WorkerShape
  <2>4. /\ a \in NewsArticles \cup InvalidRecords
        /\ r.batch \in Seq(NewsArticles \cup InvalidRecords)
    BY <1>2, <2>1, <2>3
  <2>5. WorkerShape(r) /\ ReadsBacked(more, r)
    BY <1>1, <2>1, <2>4 DEF WorkerShape, ReadsBacked, SignalStages
  <2>6. r.command = "start" => StartProgress(more, r)
    <3> SUFFICES ASSUME worker[w].command = "start" PROVE StartProgress(more, r)
      BY <2>1
    <3>1. StartProgress(more, worker[w])
      BY <1>1, StartByMore
    <3>2. ASSUME NEW d \in DemoRecords
          PROVE  RecordRow(d) \in more \/ \E k \in DOMAIN r.batch : r.batch[k] = d
      <4>1. CASE RecordRow(d) \in more
        BY <4>1
      <4>2. ASSUME NEW k \in DOMAIN worker[w].batch, worker[w].batch[k] = d, k = 1
            PROVE  RecordRow(d) \in more
        <5>1. d = a
          BY <1>2, <2>3, <4>2
        <5>. QED BY <2>4, <5>1, RowOfRecord
      <4>3. ASSUME NEW k \in DOMAIN worker[w].batch, worker[w].batch[k] = d, k # 1
            PROVE  \E j \in DOMAIN r.batch : r.batch[j] = d
        <5>1. k - 1 \in DOMAIN r.batch /\ r.batch[k - 1] = worker[w].batch[k]
          BY <4>3, <1>2, <2>1, <2>3, TailIs
        <5>. QED BY <4>3, <5>1
      <4>. QED BY <3>1, <4>1, <4>2, <4>3 DEF StartProgress
    <3>. QED BY <1>1, <2>1, <3>1, <3>2 DEF StartProgress, DigestStages, SignalStages
  <2>7. RecordBacked(more, Looked(r))
    BY <2>5, <2>6, LookedBacked
  <2>8. Backed(more, row, value)
    <3>1. CASE a \in NewsArticles
      <4>1. row = ArticleRow(a) /\ value \in {Processed, Duplicate} /\ value # Absent
        BY <3>1, ValuesAreThere DEF RecordRow, RecordValue
      <4> HIDE DEF row, value
      <4>. QED BY <4>1 DEF Backed, ArticleRow, AnalysisRow, DigestRow, SignalRow, RunRow
    <3>2. CASE a \notin NewsArticles
      <4>1. row = RejectionRow(a) /\ value = Present
        BY <3>2 DEF RecordRow, RecordValue
      <4>. QED BY <4>1, PlainRows
    <3>. QED BY <3>1, <3>2
  <2>9. /\ \A c \in Issuers : row # CompanyRow(c)
        /\ \A v \in Workers : row # RunRow(v)
    BY DEF RecordRow, ArticleRow, RejectionRow, CompanyRow, RunRow
  <2> HIDE DEF row, value
  <2>. QED BY <2>1, <2>2, <2>7, <2>8, <2>9, AddRowKeeps
<1>3. CASE /\ worker[w].batch = <<>>
           /\ Stage(w, IF worker[w].command = "start" THEN "accounting" ELSE "commit")
           /\ Reads
  <2> DEFINE r == [worker[w] EXCEPT !.pending = Absent,
                     !.at = IF worker[w].command = "start" THEN "accounting" ELSE "commit"]
  <2>1. /\ DOMAIN r = DOMAIN Fresh /\ r.command = worker[w].command
        /\ r.at = (IF worker[w].command = "start" THEN "accounting" ELSE "commit")
        /\ r.batch = worker[w].batch /\ r.pending = Absent
    BY WorkerKnows, FreshBacked
  <2>2. worker' = [worker EXCEPT ![w] = r]
    BY <1>3, WorkerKnows, FreshBacked DEF Stage
  <2> HIDE DEF r
  <2>3. WorkerShape(r) /\ ReadsBacked(SeenRows(w), r)
    BY <1>1, <2>1 DEF WorkerShape, ReadsBacked, SignalStages
  <2>4. r.command = "start" => StartProgress(SeenRows(w), r)
    BY <1>1, <1>3, <2>1 DEF StartProgress, DigestStages, SignalStages
  <2>. QED BY <1>3, <2>1, <2>2, <2>3, <2>4, RecordKeeps
<1>. QED BY <1>2, <1>3 DEF IngestRecord

\* The run of a start is recorded once its rows allow it.
LEMMA RecordRunKeeps ==
    ASSUME DatabaseInv, NEW w \in Workers, NEW status \in {"completed", "failed"},
           RecordRun(w, status, "dataset"), worker[w].at \in {"accounting", "run"},
           status = "completed" => RunWhole(SeenRows(w))
    PROVE  DatabaseInv'
<1> DEFINE r == [worker[w] EXCEPT !.at = "dataset", !.pending = Absent]
           more == SeenRows(w) \cup ({RunRow(w)} \cap Rows)
<1>1. /\ DOMAIN r = DOMAIN Fresh /\ r.command = worker[w].command
      /\ r.at = "dataset" /\ r.batch = worker[w].batch /\ r.pending = Absent
  BY WorkerKnows, FreshBacked
<1>2. worker' = [worker EXCEPT ![w] = r]
  BY WorkerKnows, FreshBacked DEF RecordRun, Stage
<1> HIDE DEF r
<1>3. Wrote(w, RunRow(w), {status}, r)
  BY <1>2, WorkerKnows, WriteRowIs DEF RecordRun, Wrote, Local
<1>4. worker[w].command = "start" /\ WorkerShape(worker[w])
  BY WorkerKnows DEF WorkerShape
<1>5. StartProgress(more, worker[w])
  BY <1>4, WorkerKnows, StartByMore
<1>6. StartProgress(more, r)
  BY <1>1, <1>4, <1>5 DEF StartProgress, DigestStages, SignalStages
<1>7. RecordBacked(more, r)
  BY <1>1, <1>4, <1>6, AbsentAssumption
     DEF RecordBacked, WorkerShape, ReadsBacked, PendingBacked, SignalStages
<1>8. Backed(more, RunRow(w), {status})
  <2>1. {status} # Absent
    BY ValuesAreThere
  <2>2. {status} = {"completed"} => RunWhole(more)
    BY ValuesAreThere DEF RunWhole, BatchStored, BatchAnalysed, BatchDigested
  <2>3. CompanyRows \subseteq more
    BY <1>4, <1>5 DEF StartProgress
  <2>. QED BY <2>1, <2>2, <2>3 DEF Backed, ArticleRow, AnalysisRow, DigestRow, SignalRow, RunRow
<1>9. RunRow(w) \notin NewsRows /\ r.pending \notin NewsRows
  BY <1>1, FactsAreNoRows DEF NewsRows, RunRow, ArticleRow
<1>. QED BY <1>1, <1>3, <1>4, <1>7, <1>8, <1>9, WroteKeeps

LEMMA RunCompletesKeeps ==
    ASSUME DatabaseInv, NEW w \in Workers, RunCompletes(w)
    PROVE  DatabaseInv'
<1>1. worker[w].at = "run" /\ worker[w].command = "start"
  BY WorkerKnows DEF RunCompletes, WorkerAt, WorkerShape
<1>2. StartProgress(SeenRows(w), worker[w])
  BY <1>1, WorkerKnows
<1>3. RunWhole(SeenRows(w))
  BY <1>1, <1>2 DEF StartProgress, RunWhole, BatchStored, BatchDigested
<1>. QED BY <1>1, <1>3, RecordRunKeeps DEF RunCompletes

LEMMA AccountingKeeps ==
    ASSUME DatabaseInv, NEW w \in Workers, AccountingFails(w) \/ AccountingPasses(w)
    PROVE  DatabaseInv'
<1>1. CASE AccountingFails(w)
  <2>1. "failed" # "completed"
    OBVIOUS
  <2>. QED BY <1>1, <2>1, RecordRunKeeps DEF AccountingFails, WorkerAt
<1>2. CASE AccountingPasses(w)
  <2> DEFINE r == [worker[w] EXCEPT !.at = "aliases", !.pending = Absent]
  <2>1. /\ DOMAIN r = DOMAIN Fresh /\ r.command = worker[w].command
        /\ r.at = "aliases" /\ r.batch = worker[w].batch /\ r.pending = Absent
    BY WorkerKnows, FreshBacked
  <2>2. worker' = [worker EXCEPT ![w] = r]
    BY <1>2, WorkerKnows, FreshBacked DEF AccountingPasses, Stage
  <2> HIDE DEF r
  <2>3. /\ worker[w].at = "accounting" /\ worker[w].command = "start" /\ Reads
        /\ WorkerShape(worker[w]) /\ StartProgress(SeenRows(w), worker[w])
    BY <1>2, WorkerKnows DEF AccountingPasses, WorkerAt, WorkerShape
  <2>4. WorkerShape(r) /\ ReadsBacked(SeenRows(w), r)
    BY <2>1, <2>3 DEF WorkerShape, ReadsBacked, SignalStages
  <2>5. StartProgress(SeenRows(w), r)
    BY <2>1, <2>3 DEF StartProgress, DigestStages, SignalStages
  <2>. QED BY <2>1, <2>2, <2>3, <2>4, <2>5, RecordKeeps
<1>. QED BY <1>1, <1>2

\* The aliases are those of all companies or of none.
LEMMA ReadAliasesKeeps ==
    ASSUME DatabaseInv, NEW w \in Workers, ReadAliases(w)
    PROVE  DatabaseInv'
<1> DEFINE known == {c \in Issuers : Sees(w, CompanyRow(c)) # Absent}
           r == [worker[w] EXCEPT !.at = "list", !.known = known]
<1>1. /\ worker[w].at = "aliases" /\ WorkerShape(worker[w]) /\ Reads
      /\ worker[w].command = "start" => StartProgress(SeenRows(w), worker[w])
  BY WorkerKnows DEF ReadAliases, WorkerAt
<1>2. /\ DOMAIN r = DOMAIN Fresh /\ r.command = worker[w].command
      /\ r.at = "list" /\ r.batch = worker[w].batch /\ r.known = known
      /\ r.pending = worker[w].pending /\ r.found = worker[w].found
      /\ r.overtaken = worker[w].overtaken
  BY WorkerKnows, FreshBacked
<1>3. worker' = [worker EXCEPT ![w] = r]
  BY WorkerKnows, FreshBacked DEF ReadAliases
<1> HIDE DEF r
<1>4. \A c \in Issuers : c \in known <=> CompanyRow(c) \in SeenRows(w)
  BY WorkerKnows, RowsAreRows
<1>5. known \in {{}, Issuers}
  <2>1. CASE worker[w].command = "start"
    <3>1. CompanyRows \subseteq SeenRows(w)
      BY <1>1, <2>1 DEF StartProgress
    <3>. QED BY <1>4, <3>1 DEF CompanyRows
  <2>2. CASE worker[w].command # "start"
    <3>1. \A c \in Issuers : CompanyRow(c) \notin DOMAIN writes[w]
      BY <2>2, WorkerKnows DEF WritesBacked
    <3>2. CompanyRows \subseteq StoredRows \/ CompanyRows \cap StoredRows = {}
      BY WorkerKnows DEF DatabaseBacked
    <3>3. \A c \in Issuers : CompanyRow(c) \notin FactsOf(writes[w])
      BY RowsAreRows, FactsAreNoRows
    <3>. QED BY <1>4, <3>1, <3>2, <3>3 DEF CompanyRows, SeenRows
  <2>. QED BY <2>1, <2>2
<1>6. \A c \in known : CompanyRow(c) \in SeenRows(w)
  BY <1>4
<1> HIDE DEF known
<1>7. WorkerShape(r) /\ ReadsBacked(SeenRows(w), r)
  BY <1>1, <1>2, <1>5, <1>6 DEF WorkerShape, ReadsBacked, SignalStages
<1>8. r.command = "start" => StartProgress(SeenRows(w), r)
  BY <1>1, <1>2 DEF StartProgress, DigestStages, SignalStages
<1>. QED BY <1>1, <1>2, <1>3, <1>7, <1>8, RecordKeeps

LEMMA StoredIs ==
    ASSUME DatabaseInv, NEW w \in Workers
    PROVE  /\ StoredArticles(w) \subseteq NewsArticles
           /\ \A a \in NewsArticles : a \in StoredArticles(w) <=> ArticleRow(a) \in SeenRows(w)
           /\ ProcessedArticles(w) \subseteq NewsArticles
           /\ \A a \in NewsArticles :
                 a \in ProcessedArticles(w) <=> ProcessedFact(a) \in SeenRows(w)
  BY WorkerKnows, RowsAreRows DEF StoredArticles, ProcessedArticles

\* An article that is there is processed or a near duplicate.
LEMMA StoredIsEither ==
    ASSUME DatabaseInv, NEW w \in Workers, NEW a \in NewsArticles, ArticleRow(a) \in SeenRows(w)
    PROVE  ProcessedFact(a) \in SeenRows(w) \/ DuplicateFact(a) \in SeenRows(w)
<1>1. Backed(SeenRows(w), ArticleRow(a), Sees(w, ArticleRow(a)))
  BY WorkerKnows, RowsAreRows
<1>2. Sees(w, ArticleRow(a)) \in {Processed, Duplicate}
  BY <1>1 DEF Backed
<1>. QED BY <1>2, WorkerKnows

LEMMA ListArticlesKeeps ==
    ASSUME DatabaseInv, NEW w \in Workers, ListArticles(w)
    PROVE  DatabaseInv'
<1> DEFINE r == [worker[w] EXCEPT !.at = "analyse", !.todo = ProcessedArticles(w)]
<1>1. /\ worker[w].at = "list" /\ WorkerShape(worker[w]) /\ Reads
      /\ worker[w].command = "start" => StartProgress(SeenRows(w), worker[w])
      /\ ReadsBacked(SeenRows(w), worker[w])
  BY WorkerKnows DEF ListArticles, WorkerAt
<1>2. /\ DOMAIN r = DOMAIN Fresh /\ r.command = worker[w].command
      /\ r.at = "analyse" /\ r.batch = worker[w].batch /\ r.known = worker[w].known
      /\ r.todo = ProcessedArticles(w)
      /\ r.pending = worker[w].pending /\ r.found = worker[w].found
      /\ r.overtaken = worker[w].overtaken
  BY WorkerKnows, FreshBacked
<1>3. worker' = [worker EXCEPT ![w] = r]
  BY WorkerKnows, FreshBacked DEF ListArticles
<1> HIDE DEF r
<1>4. WorkerShape(r) /\ ReadsBacked(SeenRows(w), r)
  BY <1>1, <1>2, StoredIs DEF WorkerShape, ReadsBacked, SignalStages
<1>5. r.command = "start" => StartProgress(SeenRows(w), r)
  <2> SUFFICES ASSUME worker[w].command = "start" PROVE StartProgress(SeenRows(w), r)
    BY <1>2
  <2>1. ASSUME NEW a \in DemoArticles
        PROVE  a \in r.todo \/ DuplicateFact(a) \in SeenRows(w)
    <3>1. a \in NewsArticles /\ a \in DemoRecords /\ RecordRow(a) = ArticleRow(a)
      BY BatchIs
    <3>2. ArticleRow(a) \in SeenRows(w)
      BY <1>1, <3>1 DEF StartProgress
    <3>. QED BY <1>2, <3>1, <3>2, StoredIs, StoredIsEither
  <2>. QED BY <1>1, <1>2, <2>1 DEF StartProgress, DigestStages, SignalStages
<1>. QED BY <1>1, <1>2, <1>3, <1>4, <1>5, RecordKeeps

LEMMA AnalyseArticleKeeps ==
    ASSUME DatabaseInv, NEW w \in Workers, AnalyseArticle(w)
    PROVE  DatabaseInv'
<1>1. /\ worker[w].at = "analyse" /\ WorkerShape(worker[w])
      /\ worker[w].command = "start" => StartProgress(SeenRows(w), worker[w])
      /\ ReadsBacked(SeenRows(w), worker[w])
  BY WorkerKnows DEF AnalyseArticle, WorkerAt
<1>2. PICK a \in worker[w].todo :
         ReplaceRow(w, AnalysisRow(a), Mentioned[a] \cap worker[w].known,
                    [worker[w] EXCEPT !.todo = @ \ {a}])
  BY DEF AnalyseArticle
<1> DEFINE row == AnalysisRow(a)
           value == Mentioned[a] \cap worker[w].known
           r == [worker[w] EXCEPT !.todo = @ \ {a}]
           more == SeenRows(w) \cup ({row} \cap Rows)
<1>3. /\ DOMAIN r = DOMAIN Fresh /\ r.command = worker[w].command
      /\ r.at = worker[w].at /\ r.batch = worker[w].batch /\ r.known = worker[w].known
      /\ r.todo = worker[w].todo \ {a}
  BY WorkerKnows, FreshBacked
<1>4. ReplaceRow(w, row, value, r)
  BY <1>2
<1> HIDE DEF r
<1>5. a \in NewsArticles /\ row \in Rows /\ Mentioned[a] \in SUBSET Issuers
  BY <1>1, <1>2, RowsAreRows, DatabaseAssumption DEF ReadsBacked
<1>6. WorkerShape(r) /\ ReadsBacked(more, r)
  BY <1>1, <1>3 DEF WorkerShape, ReadsBacked, SignalStages
<1>7. r.command = "start" => StartProgress(more, r)
  <2> SUFFICES ASSUME worker[w].command = "start" PROVE StartProgress(more, r)
    BY <1>3
  <2>1. StartProgress(more, worker[w])
    BY <1>1, StartByMore
  <2>2. \A b \in DemoArticles :
           b \in r.todo \/ AnalysisRow(b) \in more \/ DuplicateFact(b) \in more
    BY <1>1, <1>3, <1>5, <2>1 DEF StartProgress
  <2>. QED BY <1>1, <1>3, <2>1, <2>2 DEF StartProgress, DigestStages, SignalStages
<1>8. RecordBacked(more, Looked(r))
  BY <1>6, <1>7, LookedBacked
<1>9. Backed(more, row, value)
  <2>1. value \in {{}, Mentioned[a]} /\ value \in SUBSET Issuers
    BY <1>1, <1>5 DEF ReadsBacked
  <2>2. value # Absent
    BY <2>1, ValuesAreThere
  <2>3. ProcessedFact(a) \in more /\ \A c \in value : CompanyRow(c) \in more
    BY <1>1 DEF ReadsBacked
  <2>4. \A b \in NewsArticles : row = AnalysisRow(b) => b = a
    BY DEF AnalysisRow
  <2> HIDE DEF value
  <2>. QED BY <2>1, <2>2, <2>3, <2>4
       DEF Backed, ArticleRow, AnalysisRow, DigestRow, SignalRow, RunRow
<1>10. /\ \A c \in Issuers : row # CompanyRow(c)
       /\ \A v \in Workers : row # RunRow(v)
       /\ row \notin NewsRows
  BY DEF AnalysisRow, CompanyRow, RunRow, NewsRows, ArticleRow
<1>. QED BY <1>3, <1>4, <1>8, <1>9, <1>10, ReplaceRowKeeps

LEMMA ArticlesAnalysedKeeps ==
    ASSUME DatabaseInv, NEW w \in Workers, ArticlesAnalysed(w)
    PROVE  DatabaseInv'
<1> DEFINE stage == IF worker[w].command = "process" THEN "commit"
                    ELSE IF StoredArticles(w) = {} THEN "run" ELSE "digest"
           dates == IF worker[w].command = "start"
                    THEN {MarketDate[a] : a \in StoredArticles(w)} ELSE {}
           r == [worker[w] EXCEPT !.at = stage, !.dates = dates]
<1>1. /\ worker[w].at = "analyse" /\ worker[w].todo = {} /\ WorkerShape(worker[w]) /\ Reads
      /\ worker[w].command = "start" => StartProgress(SeenRows(w), worker[w])
  BY WorkerKnows DEF ArticlesAnalysed, WorkerAt
<1>2. /\ DOMAIN r = DOMAIN Fresh /\ r.command = worker[w].command
      /\ r.at = stage /\ r.batch = worker[w].batch /\ r.dates = dates
      /\ r.pending = worker[w].pending /\ r.found = worker[w].found
      /\ r.overtaken = worker[w].overtaken
  BY WorkerKnows, FreshBacked
<1>3. worker' = [worker EXCEPT ![w] = r]
  BY WorkerKnows, FreshBacked DEF ArticlesAnalysed
<1> HIDE DEF r
<1>4. worker[w].command \in {"start", "process"}
  BY <1>1 DEF WorkerShape
<1>5. WorkerShape(r) /\ ReadsBacked(SeenRows(w), r)
  BY <1>1, <1>2, <1>4 DEF WorkerShape, ReadsBacked, SignalStages
<1>6. r.command = "start" => StartProgress(SeenRows(w), r)
  <2> SUFFICES ASSUME worker[w].command = "start" PROVE StartProgress(SeenRows(w), r)
    BY <1>2
  <2>1. StartProgress(SeenRows(w), worker[w])
    BY <1>1
  <2>2. CompanyRows \subseteq SeenRows(w) /\ BatchStored(SeenRows(w)) /\ BatchAnalysed(SeenRows(w))
    BY <1>1, <2>1 DEF StartProgress, BatchStored, BatchAnalysed
  <2>3. \A a \in DemoArticles : a \in StoredArticles(w)
    BY <2>2, StoredIs, BatchIs DEF BatchStored
  <2>4. \A a \in DemoArticles : MarketDate[a] \in dates
    BY <2>3
  <2>5. stage = "run" => BatchDigested(SeenRows(w))
    BY <2>3 DEF BatchDigested
  <2>6. stage \in {"run", "digest"}
    OBVIOUS
  <2> HIDE DEF dates, stage
  <2>. QED BY <1>2, <2>2, <2>4, <2>5, <2>6
       DEF StartProgress, BatchStored, DigestStages, SignalStages
<1>. QED BY <1>1, <1>2, <1>3, <1>5, <1>6, RecordKeeps

LEMMA GatherArticlesKeeps ==
    ASSUME DatabaseInv, NEW w \in Workers, GatherArticles(w)
    PROVE  DatabaseInv'
<1> DEFINE stage == IF worker[w].at = "digest" THEN "digest links" ELSE "signals links"
           listed == ArticlesOf(w, FirstDate(w))
           r == [worker[w] EXCEPT !.listed = listed, !.at = stage]
<1>1. /\ worker[w].at \in {"digest", "signals"} /\ WorkerShape(worker[w]) /\ Reads
      /\ worker[w].command = "start" => StartProgress(SeenRows(w), worker[w])
  BY WorkerKnows DEF GatherArticles
<1>2. /\ DOMAIN r = DOMAIN Fresh /\ r.command = worker[w].command
      /\ r.at = stage /\ r.batch = worker[w].batch /\ r.dates = worker[w].dates
      /\ r.listed = listed
      /\ r.pending = worker[w].pending /\ r.found = worker[w].found
      /\ r.overtaken = worker[w].overtaken
  BY WorkerKnows, FreshBacked
<1>3. worker' = [worker EXCEPT ![w] = r]
  BY WorkerKnows, FreshBacked DEF GatherArticles
<1> HIDE DEF r
<1>4. \A a \in listed :
         a \in NewsArticles /\ ProcessedFact(a) \in SeenRows(w) /\ MarketDate[a] = First(r.dates)
  BY <1>2, StoredIs DEF ArticlesOf, FirstDate, First
<1> HIDE DEF listed
<1>5. WorkerShape(r) /\ ReadsBacked(SeenRows(w), r)
  BY <1>1, <1>2, <1>4 DEF WorkerShape, ReadsBacked, SignalStages
<1>6. r.command = "start" => StartProgress(SeenRows(w), r)
  BY <1>1, <1>2 DEF StartProgress, DigestStages, SignalStages
<1>. QED BY <1>1, <1>2, <1>3, <1>5, <1>6, RecordKeeps

\* Links are of companies that are there.
LEMMA LinkedIs ==
    ASSUME DatabaseInv, NEW w \in Workers, NEW a \in NewsArticles
    PROVE  /\ LinkedTo(w, a) \in SUBSET Issuers
           /\ \A c \in LinkedTo(w, a) : CompanyRow(c) \in SeenRows(w)
<1>1. CASE Sees(w, AnalysisRow(a)) = Absent
  BY <1>1 DEF LinkedTo
<1>2. CASE Sees(w, AnalysisRow(a)) # Absent
  <2>1. Backed(SeenRows(w), AnalysisRow(a), Sees(w, AnalysisRow(a)))
    BY <1>2, WorkerKnows, RowsAreRows
  <2>2. LinkedTo(w, a) \in {{}, Mentioned[a]}
        /\ \A c \in LinkedTo(w, a) : CompanyRow(c) \in SeenRows(w)
    BY <1>2, <2>1 DEF LinkedTo, Backed
  <2>. QED BY <2>2, DatabaseAssumption
<1>. QED BY <1>1, <1>2

LEMMA GatherLinksKeeps ==
    ASSUME DatabaseInv, NEW w \in Workers, GatherLinks(w)
    PROVE  DatabaseInv'
<1> DEFINE stage == IF worker[w].at = "digest links" THEN "digest row" ELSE "signal rows"
           gathered == {<<a, LinkedTo(w, a)>> : a \in worker[w].listed}
           todo == UNION {LinkedTo(w, a) : a \in worker[w].listed}
           r == [worker[w] EXCEPT !.gathered = gathered, !.todo = todo, !.at = stage]
<1>1. /\ worker[w].at \in {"digest links", "signals links"}
      /\ WorkerShape(worker[w]) /\ Reads
      /\ worker[w].command = "start" => StartProgress(SeenRows(w), worker[w])
      /\ ReadsBacked(SeenRows(w), worker[w])
  BY WorkerKnows DEF GatherLinks
<1>2. /\ DOMAIN r = DOMAIN Fresh /\ r.command = worker[w].command
      /\ r.at = stage /\ r.batch = worker[w].batch /\ r.dates = worker[w].dates
      /\ r.gathered = gathered /\ r.todo = todo
      /\ r.pending = worker[w].pending /\ r.found = worker[w].found
      /\ r.overtaken = worker[w].overtaken
  BY WorkerKnows, FreshBacked
<1>3. worker' = [worker EXCEPT ![w] = r]
  BY WorkerKnows, FreshBacked DEF GatherLinks
<1> HIDE DEF r
<1>4. \A a \in worker[w].listed :
         a \in NewsArticles /\ ProcessedFact(a) \in SeenRows(w) /\ MarketDate[a] = First(r.dates)
  BY <1>1, <1>2 DEF ReadsBacked
<1>5. \A pair \in gathered :
         /\ pair \in Shown
         /\ ProcessedFact(pair[1]) \in SeenRows(w) /\ MarketDate[pair[1]] = First(r.dates)
         /\ \A c \in pair[2] : CompanyRow(c) \in SeenRows(w)
  BY <1>4, LinkedIs DEF Shown
<1>6. todo \subseteq Issuers
  BY <1>4, LinkedIs
<1> HIDE DEF gathered, todo
<1>7. WorkerShape(r) /\ ReadsBacked(SeenRows(w), r)
  BY <1>1, <1>2, <1>5, <1>6 DEF WorkerShape, ReadsBacked, SignalStages
<1>8. r.command = "start" => StartProgress(SeenRows(w), r)
  BY <1>1, <1>2 DEF StartProgress, DigestStages, SignalStages
<1>. QED BY <1>1, <1>2, <1>3, <1>7, <1>8, RecordKeeps

\* What is derived of some articles and their links.
LEMMA DerivedIs ==
    ASSUME NEW pairs \in SUBSET Shown
    PROVE  Derived(pairs) \in DerivedRows /\ Derived(pairs).payload = pairs
  BY DEF Derived, DerivedRows

LEMMA WriteDigestKeeps ==
    ASSUME DatabaseInv, NEW w \in Workers, WriteDigest(w)
    PROVE  DatabaseInv'
<1> DEFINE date == FirstDate(w)
           row == DigestRow(date)
           value == Derived(worker[w].gathered)
           stage == IF worker[w].command = "start" THEN "signals" ELSE "commit"
           r == [worker[w] EXCEPT !.todo = {}, !.listed = {}, !.gathered = {}, !.at = stage]
           more == SeenRows(w) \cup ({row} \cap Rows)
<1>1. /\ worker[w].at = "digest row" /\ WorkerShape(worker[w])
      /\ worker[w].command = "start" => StartProgress(SeenRows(w), worker[w])
      /\ ReadsBacked(SeenRows(w), worker[w])
  BY WorkerKnows DEF WriteDigest, WorkerAt
<1>2. /\ DOMAIN r = DOMAIN Fresh /\ r.command = worker[w].command
      /\ r.at = stage /\ r.batch = worker[w].batch /\ r.dates = worker[w].dates
  BY WorkerKnows, FreshBacked
<1>3. UpsertRow(w, row, value, r)
  BY DEF WriteDigest
<1> HIDE DEF r
<1>4. WorkerShape(r) /\ ReadsBacked(more, r)
  BY <1>1, <1>2 DEF WorkerShape, ReadsBacked, SignalStages
<1>5. r.command = "start" => StartProgress(more, r)
  <2> SUFFICES ASSUME worker[w].command = "start" PROVE StartProgress(more, r)
    BY <1>2
  <2>1. StartProgress(more, worker[w])
    BY <1>1, StartByMore
  <2>2. date = First(r.dates)
    BY <1>2 DEF FirstDate, First
  <2>3. \A d \in MarketDates : d = date => DigestRow(d) \in more
    BY RowsAreRows
  <2> HIDE DEF date
  <2>. QED BY <1>1, <1>2, <2>1, <2>2, <2>3 DEF StartProgress, DigestStages, SignalStages
<1>6. RecordBacked(more, Looked(r))
  BY <1>4, <1>5, LookedBacked
<1>7. /\ value \in DerivedRows
      /\ \A pair \in value.payload : ProcessedFact(pair[1]) \in more /\ MarketDate[pair[1]] = date
  <2>1. \A pair \in worker[w].gathered :
           /\ pair \in Shown
           /\ ProcessedFact(pair[1]) \in SeenRows(w) /\ MarketDate[pair[1]] = date
    BY <1>1 DEF ReadsBacked, FirstDate, First
  <2>2. worker[w].gathered \in SUBSET Shown
    BY <2>1
  <2>. QED BY <2>1, <2>2, DerivedIs
<1> HIDE DEF value
<1>8. ASSUME NEW derived \in DerivedRows, row \in Rows,
             \A pair \in derived.payload :
                ProcessedFact(pair[1]) \in more /\ MarketDate[pair[1]] = date
      PROVE  Backed(more, row, derived)
  <2>1. derived # Absent
    BY ValuesAreThere
  <2>2. \A d \in MarketDates : row = DigestRow(d) => d = date
    BY DEF DigestRow
  <2> HIDE DEF more, date
  <2>. QED BY <1>8, <2>1, <2>2 DEF Backed, ArticleRow, AnalysisRow, DigestRow, SignalRow, RunRow
<1>9. ASSUME row \in Rows, NEW seen, NEW now, Backed(SeenRows(w), row, now)
      PROVE  Backed(more, row, Updated(seen, now, value))
  <2>1. PICK d \in MarketDates : row = DigestRow(d)
    BY <1>9 DEF Rows, Registry, Dataset, Official, CompanyRow, ArticleRow, RejectionRow,
                AnalysisRow, DigestRow, SignalRow, RunRow
  <2>2. d = date
    BY <2>1 DEF DigestRow
  <2>3. /\ now \in DerivedRows
        /\ \A pair \in now.payload : ProcessedFact(pair[1]) \in more /\ MarketDate[pair[1]] = date
    BY <1>9, <2>1, <2>2 DEF Backed
  <2>4. /\ Updated(seen, now, value) \in DerivedRows
        /\ Updated(seen, now, value).payload \in {now.payload, value.payload}
    BY <1>7, <2>3, UpdatedIs
  <2>. QED BY <1>7, <1>8, <1>9, <2>3, <2>4
<1>10. /\ \A c \in Issuers : row # CompanyRow(c)
       /\ \A v \in Workers : row # RunRow(v)
       /\ row \notin NewsRows
  BY DEF DigestRow, CompanyRow, RunRow, NewsRows, ArticleRow
<1> HIDE DEF more, row
<1>11. row \in Rows =>
         /\ Backed(more, row, value)
         /\ \A seen, now : Backed(SeenRows(w), row, now) =>
               Backed(more, row, Updated(seen, now, value))
  BY <1>7, <1>8, <1>9
<1>. QED BY <1>2, <1>3, <1>6, <1>10, <1>11, UpsertRowKeeps DEF more

LEMMA WriteSignalKeeps ==
    ASSUME DatabaseInv, NEW w \in Workers, WriteSignal(w)
    PROVE  DatabaseInv'
<1>1. /\ worker[w].at = "signal rows" /\ WorkerShape(worker[w])
      /\ worker[w].command = "start" => StartProgress(SeenRows(w), worker[w])
      /\ ReadsBacked(SeenRows(w), worker[w])
  BY WorkerKnows DEF WriteSignal, WorkerAt
<1>2. PICK c \in worker[w].todo :
         UpsertRow(w, SignalRow(FirstDate(w), c),
                   Derived({pair \in worker[w].gathered : c \in pair[2]}),
                   [worker[w] EXCEPT !.todo = @ \ {c}])
  BY DEF WriteSignal
<1> DEFINE date == FirstDate(w)
           row == SignalRow(date, c)
           pairs == {pair \in worker[w].gathered : c \in pair[2]}
           value == Derived(pairs)
           r == [worker[w] EXCEPT !.todo = @ \ {c}]
           more == SeenRows(w) \cup ({row} \cap Rows)
           Of(pair) == /\ ProcessedFact(pair[1]) \in more /\ MarketDate[pair[1]] = date
                       /\ c \in pair[2] /\ CompanyRow(c) \in more
<1>3. /\ DOMAIN r = DOMAIN Fresh /\ r.command = worker[w].command
      /\ r.at = worker[w].at /\ r.batch = worker[w].batch /\ r.dates = worker[w].dates
      /\ r.gathered = worker[w].gathered /\ r.todo = worker[w].todo \ {c}
  BY WorkerKnows, FreshBacked
<1>4. UpsertRow(w, row, value, r)
  BY <1>2
<1> HIDE DEF r
<1>5. WorkerShape(r) /\ ReadsBacked(more, r)
  BY <1>1, <1>3 DEF WorkerShape, ReadsBacked, SignalStages
<1>6. r.command = "start" => StartProgress(more, r)
  <2> SUFFICES ASSUME worker[w].command = "start" PROVE StartProgress(more, r)
    BY <1>3
  <2>1. StartProgress(more, worker[w])
    BY <1>1, StartByMore
  <2>. QED BY <1>1, <1>3, <2>1 DEF StartProgress, DigestStages, SignalStages
<1>7. RecordBacked(more, Looked(r))
  BY <1>5, <1>6, LookedBacked
<1>8. value \in DerivedRows /\ \A pair \in value.payload : Of(pair)
  <2>1. \A pair \in pairs :
           /\ pair \in Shown
           /\ ProcessedFact(pair[1]) \in SeenRows(w) /\ MarketDate[pair[1]] = date
           /\ c \in pair[2] /\ CompanyRow(c) \in SeenRows(w)
    BY <1>1 DEF ReadsBacked, FirstDate, First
  <2>2. pairs \in SUBSET Shown
    BY <2>1
  <2>. QED BY <2>1, <2>2, DerivedIs
<1> HIDE DEF value
<1>9. ASSUME NEW derived \in DerivedRows, row \in Rows, \A pair \in derived.payload : Of(pair)
      PROVE  Backed(more, row, derived)
  <2>1. derived # Absent
    BY ValuesAreThere
  <2>2. \A d \in MarketDates, e \in Issuers : row = SignalRow(d, e) => d = date /\ e = c
    BY DEF SignalRow
  <2> HIDE DEF more, date
  <2>. QED BY <1>9, <2>1, <2>2 DEF Backed, ArticleRow, AnalysisRow, DigestRow, SignalRow, RunRow
<1>10. ASSUME row \in Rows, NEW seen, NEW now, Backed(SeenRows(w), row, now)
       PROVE  Backed(more, row, Updated(seen, now, value))
  <2>1. PICK d \in MarketDates, e \in Issuers : row = SignalRow(d, e)
    BY <1>10 DEF Rows, Registry, Dataset, Official, CompanyRow, ArticleRow, RejectionRow,
                 AnalysisRow, DigestRow, SignalRow, RunRow
  <2>2. d = date /\ e = c
    BY <2>1 DEF SignalRow
  <2>3. now \in DerivedRows /\ \A pair \in now.payload : Of(pair)
    BY <1>10, <2>1, <2>2 DEF Backed
  <2>4. /\ Updated(seen, now, value) \in DerivedRows
        /\ Updated(seen, now, value).payload \in {now.payload, value.payload}
    BY <1>8, <2>3, UpdatedIs
  <2> HIDE DEF Of
  <2>5. \A pair \in Updated(seen, now, value).payload : Of(pair)
    BY <1>8, <2>3, <2>4
  <2>. QED BY <1>9, <1>10, <2>4, <2>5
<1>11. /\ \A e \in Issuers : row # CompanyRow(e)
       /\ \A v \in Workers : row # RunRow(v)
       /\ row \notin NewsRows
  BY DEF SignalRow, CompanyRow, RunRow, NewsRows, ArticleRow
<1> HIDE DEF more, row, Of
<1>12. row \in Rows =>
         /\ Backed(more, row, value)
         /\ \A seen, now : Backed(SeenRows(w), row, now) =>
               Backed(more, row, Updated(seen, now, value))
  BY <1>8, <1>9, <1>10
<1>. QED BY <1>3, <1>4, <1>7, <1>11, <1>12, UpsertRowKeeps DEF more

LEMMA SignalsWrittenKeeps ==
    ASSUME DatabaseInv, NEW w \in Workers, SignalsWritten(w)
    PROVE  DatabaseInv'
<1> DEFINE rest == worker[w].dates \ {FirstDate(w)}
           stage == IF worker[w].command = "signals" THEN "commit"
                    ELSE IF rest = {} THEN "run" ELSE "digest"
           r == [worker[w] EXCEPT !.dates = rest, !.listed = {}, !.gathered = {}, !.at = stage]
<1>1. /\ worker[w].at = "signal rows" /\ WorkerShape(worker[w]) /\ Reads
      /\ worker[w].command = "start" => StartProgress(SeenRows(w), worker[w])
  BY WorkerKnows DEF SignalsWritten, WorkerAt
<1>2. /\ DOMAIN r = DOMAIN Fresh /\ r.command = worker[w].command
      /\ r.at = stage /\ r.batch = worker[w].batch /\ r.dates = rest
      /\ r.pending = worker[w].pending /\ r.found = worker[w].found
      /\ r.overtaken = worker[w].overtaken
  BY WorkerKnows, FreshBacked
<1>3. worker' = [worker EXCEPT ![w] = r]
  BY WorkerKnows, FreshBacked DEF SignalsWritten
<1> HIDE DEF r
<1>4. worker[w].command \in {"start", "signals"}
  BY <1>1 DEF WorkerShape, SignalStages
<1>5. WorkerShape(r) /\ ReadsBacked(SeenRows(w), r)
  BY <1>1, <1>2, <1>4 DEF WorkerShape, ReadsBacked, SignalStages
<1>6. r.command = "start" => StartProgress(SeenRows(w), r)
  <2> SUFFICES ASSUME worker[w].command = "start" PROVE StartProgress(SeenRows(w), r)
    BY <1>2
  <2>1. StartProgress(SeenRows(w), worker[w])
    BY <1>1
  <2>2. \A a \in DemoArticles :
           MarketDate[a] \in rest \/ DigestRow(MarketDate[a]) \in SeenRows(w)
    <3>1. \A a \in DemoArticles : MarketDate[a] \in MarketDates
      BY BatchIs
    <3>. QED BY <1>1, <2>1, <3>1 DEF StartProgress, DigestStages, SignalStages, First, FirstDate
  <2>3. /\ CompanyRows \subseteq SeenRows(w) /\ BatchStored(SeenRows(w))
        /\ BatchAnalysed(SeenRows(w))
    BY <1>1, <2>1 DEF StartProgress, BatchStored, SignalStages
  <2>4. stage = "run" => BatchDigested(SeenRows(w))
    BY <2>2 DEF BatchDigested
  <2>5. stage \in {"run", "digest"}
    OBVIOUS
  <2> HIDE DEF rest, stage
  <2>. QED BY <1>2, <2>2, <2>3, <2>4, <2>5
       DEF StartProgress, BatchStored, DigestStages, SignalStages
<1>. QED BY <1>1, <1>2, <1>3, <1>5, <1>6, RecordKeeps

LEMMA PersistDatasetKeeps ==
    ASSUME DatabaseInv, NEW w \in Workers, PersistDataset(w)
    PROVE  DatabaseInv'
<1> DEFINE r == [worker[w] EXCEPT !.at = "official"]
           more == SeenRows(w) \cup ({Dataset} \cap Rows)
<1>1. /\ worker[w].at = "dataset" /\ WorkerShape(worker[w]) /\ worker[w].command = "start"
      /\ StartProgress(SeenRows(w), worker[w])
  BY WorkerKnows DEF PersistDataset, WorkerAt, WorkerShape
<1>2. /\ DOMAIN r = DOMAIN Fresh /\ r.command = worker[w].command
      /\ r.at = "official" /\ r.batch = worker[w].batch
  BY WorkerKnows, FreshBacked
<1>3. ReplaceRow(w, Dataset, Present, r)
  BY DEF PersistDataset
<1> HIDE DEF r
<1>4. WorkerShape(r) /\ ReadsBacked(more, r)
  BY <1>1, <1>2 DEF WorkerShape, ReadsBacked, SignalStages
<1>5. StartProgress(more, worker[w]) /\ Dataset \in more
  BY <1>1, StartByMore, RowsAreRows
<1>6. StartProgress(more, r)
  BY <1>1, <1>2, <1>5 DEF StartProgress, DigestStages, SignalStages
<1>7. RecordBacked(more, Looked(r))
  BY <1>4, <1>6, LookedBacked
<1>8. Backed(more, Dataset, Present)
  BY PlainRows
<1>9. /\ \A c \in Issuers : Dataset # CompanyRow(c)
      /\ \A v \in Workers : Dataset # RunRow(v)
      /\ Dataset \notin NewsRows
  BY DEF Dataset, CompanyRow, RunRow, NewsRows, ArticleRow
<1>. QED BY <1>2, <1>3, <1>7, <1>8, <1>9, ReplaceRowKeeps

LEMMA PersistOfficialKeeps ==
    ASSUME DatabaseInv, NEW w \in Workers, PersistOfficial(w)
    PROVE  DatabaseInv'
<1> DEFINE r == [worker[w] EXCEPT !.at = "commit"]
           more == SeenRows(w) \cup ({Official} \cap Rows)
<1>1. /\ worker[w].at = "official" /\ WorkerShape(worker[w]) /\ worker[w].command = "start"
      /\ StartProgress(SeenRows(w), worker[w])
  BY WorkerKnows DEF PersistOfficial, WorkerAt, WorkerShape
<1>2. /\ DOMAIN r = DOMAIN Fresh /\ r.command = worker[w].command
      /\ r.at = "commit" /\ r.batch = worker[w].batch
  BY WorkerKnows, FreshBacked
<1>3. AddRow(w, Official, Present, r)
  BY DEF PersistOfficial
<1> HIDE DEF r
<1>4. WorkerShape(r) /\ ReadsBacked(more, r)
  BY <1>1, <1>2 DEF WorkerShape, ReadsBacked, SignalStages
<1>5. StartProgress(more, worker[w]) /\ Official \in more
  BY <1>1, StartByMore, RowsAreRows
<1>6. StartProgress(more, r)
  BY <1>1, <1>2, <1>5 DEF StartProgress, DigestStages, SignalStages
<1>7. RecordBacked(more, Looked(r))
  BY <1>4, <1>6, LookedBacked
<1>8. Backed(more, Official, Present)
  BY PlainRows
<1>. QED BY <1>1, <1>2, <1>3, <1>7, <1>8, AddRowKeeps

-----------------------------------------------------------------------------
(* A command commits.                                                      *)

LEMMA CommitKeeps ==
    ASSUME DatabaseInv, NEW w \in Workers, CommitAndClose(w)
    PROVE  DatabaseInv'
<1>1. /\ worker[w].at = "commit"
      /\ worker[w].command = "start" =>
            /\ CompanyRows \subseteq SeenRows(w)
            /\ Dataset \in SeenRows(w) /\ Official \in SeenRows(w)
  BY WorkerKnows DEF CommitAndClose, WorkerAt, StartProgress
<1>2. DOMAIN writes' = Workers /\ DOMAIN worker' = Workers
  BY WorkerKnows DEF CommitAndClose
<1>3. /\ DOMAIN database = Rows /\ DOMAIN database' = Rows
      /\ \A row \in Rows : database'[row] = Sees(w, row)
  BY WorkerKnows DEF CommitAndClose, DatabaseBacked, Sees
<1>4. StoredRows' = SeenRows(w)
  <2>1. \A row \in Rows : database'[row] # Absent <=> row \in SeenRows(w)
    BY <1>3, WorkerKnows
  <2>2. ASSUME NEW a \in NewsArticles
        PROVE  /\ Tells(database', a, Processed) <=> ProcessedFact(a) \in SeenRows(w)
               /\ Tells(database', a, Duplicate) <=> DuplicateFact(a) \in SeenRows(w)
    BY <1>3, RowsAreRows, WorkerKnows DEF Tells
  <2>3. ASSUME NEW fact \in FactsOf(database') PROVE fact \in SeenRows(w)
    <3>1. PICK a \in NewsArticles :
             \/ fact = ProcessedFact(a) /\ Tells(database', a, Processed)
             \/ fact = DuplicateFact(a) /\ Tells(database', a, Duplicate)
      BY FactsAreOfArticles
    <3>. QED BY <2>2, <3>1
  <2>4. ASSUME NEW rows, NEW fact \in FactsOf(rows), fact \in SeenRows(w)
        PROVE  fact \in FactsOf(database')
    <3>1. PICK a \in NewsArticles : fact = ProcessedFact(a) \/ fact = DuplicateFact(a)
      BY FactsAreOfArticles
    <3>. QED BY <2>2, <2>4, <3>1, FactsAre
  <2>5. SeenRows(w) \subseteq Rows \cup FactsOf(database) \cup FactsOf(writes[w])
    BY DEF SeenRows, StoredRows
  <2>6. StoredRows' = {row \in Rows : database'[row] # Absent} \cup FactsOf(database')
    BY DEF StoredRows
  <2>. QED BY <2>1, <2>3, <2>4, <2>5, <2>6
<1>5. DatabaseBacked'
  <2>1. \A row \in StoredRows' \cap Rows : Backed(StoredRows', row, database'[row])
    BY <1>3, <1>4, WorkerKnows
  <2>2. CompanyRows \subseteq StoredRows' \/ CompanyRows \cap StoredRows' = {}
    <3>1. CASE worker[w].command = "start"
      BY <1>1, <1>4, <3>1
    <3>2. CASE worker[w].command # "start"
      <4>1. \A c \in Issuers : CompanyRow(c) \notin DOMAIN writes[w]
        BY <3>2, WorkerKnows DEF WritesBacked
      <4>2. CompanyRows \subseteq StoredRows \/ CompanyRows \cap StoredRows = {}
        BY WorkerKnows DEF DatabaseBacked
      <4>3. \A c \in Issuers : CompanyRow(c) \notin FactsOf(writes[w])
        BY RowsAreRows, FactsAreNoRows
      <4>. QED BY <1>4, <4>1, <4>2, <4>3 DEF CompanyRows, SeenRows
    <3>. QED BY <3>1, <3>2
  <2>3. ASSUME NEW v \in Workers, database'[RunRow(v)] = {"completed"}
        PROVE  Dataset \in StoredRows' /\ Official \in StoredRows'
    <3>1. CASE RunRow(v) \in DOMAIN writes[w]
      <4>1. worker[w].command = "start"
        BY <3>1, WorkerKnows DEF WritesBacked
      <4>. QED BY <1>1, <1>4, <4>1
    <3>2. CASE RunRow(v) \notin DOMAIN writes[w]
      <4>1. database[RunRow(v)] = {"completed"}
        BY <1>3, <2>3, <3>2, RowsAreRows DEF Sees
      <4>. QED BY <1>4, <4>1, WorkerKnows DEF DatabaseBacked, SeenRows
    <3>. QED BY <3>1, <3>2
  <2>. QED BY <1>3, <2>1, <2>2, <2>3
       DEF DatabaseBacked, CompanyRows, CompanyRow, RunRow, Dataset, Official
<1>6. WorkerBacked(w)'
  <2>1. worker'[w] = Fresh /\ writes'[w] = <<>>
    BY WorkerKnows DEF CommitAndClose
  <2>2. DOMAIN writes'[w] = {}
    BY <2>1
  <2>3. WritesBacked(w)'
    BY <2>2 DEF WritesBacked
  <2>. QED BY <2>1, <2>3, FreshBacked DEF WorkerBacked
<1>7. ASSUME NEW v \in Workers \ {w} PROVE WorkerBacked(v)'
  <2> DEFINE r == worker'[v]
  <2>1. RecordBacked(SeenRows(v), worker[v]) /\ WritesBacked(v)
        /\ DOMAIN worker[v] = DOMAIN Fresh
    BY WorkerKnows DEF DatabaseInv, WorkerBacked
  <2>2. writes'[v] = writes[v]
    BY WorkerKnows DEF CommitAndClose
  <2>3. /\ DOMAIN r = DOMAIN worker[v] /\ r.command = worker[v].command
        /\ r.at = worker[v].at /\ r.batch = worker[v].batch /\ r.known = worker[v].known
        /\ r.todo = worker[v].todo /\ r.dates = worker[v].dates
        /\ r.listed = worker[v].listed /\ r.gathered = worker[v].gathered
        /\ r.pending = worker[v].pending /\ r.found = worker[v].found
    BY <2>1, FreshBacked DEF CommitAndClose
  <2>4. SeenRows(v) \subseteq SeenRows(v)'
    BY <1>4, <2>2 DEF SeenRows
  <2>5. RecordBacked(SeenRows(v)', worker[v])
    BY <2>1, <2>4, RecordByMore
  <2> HIDE DEF r
  <2>6. RecordBacked(SeenRows(v)', r)
    <3> DEFINE rows == SeenRows(v)'
    <3>1. RecordBacked(rows, worker[v])
      BY <2>5
    <3> HIDE DEF rows
    <3>2. WorkerShape(r)
      BY <2>3, <3>1 DEF RecordBacked, WorkerShape
    <3>3. r.command = "start" => StartProgress(rows, r)
      BY <2>3, <3>1 DEF RecordBacked, StartProgress
    <3>4. ReadsBacked(rows, r)
      BY <2>3, <3>1 DEF RecordBacked, ReadsBacked
    <3>5. PendingBacked(rows, r)
      BY <2>3, <3>1 DEF RecordBacked, PendingBacked
    <3>. QED BY <3>2, <3>3, <3>4, <3>5 DEF RecordBacked, rows
  <2>7. WritesBacked(v)'
    <3>1. \A row \in DOMAIN writes[v] \cap Rows : Backed(SeenRows(v)', row, writes[v][row])
      BY <2>1, <2>4, BackedByMore DEF WritesBacked
    <3>. QED BY <2>1, <2>2, <2>3, <3>1 DEF WritesBacked, r
  <2>. QED BY <2>6, <2>7 DEF WorkerBacked, r
<1>8. \A v \in Workers : DOMAIN writes'[v] = IF v = w THEN {} ELSE DOMAIN writes[v]
  <2>1. DOMAIN <<>> = {}
    OBVIOUS
  <2>. QED BY <2>1, WorkerKnows DEF CommitAndClose
<1>9. AddedOnce(w)'
  <2>1. worker'[w].pending = Absent
    BY FreshBacked DEF CommitAndClose
  <2>. QED BY <1>8, <2>1, FactsAreNoRows DEF AddedOnce, LookHolds, NewsRows
<1>10. ASSUME NEW v \in Workers \ {w} PROVE AddedOnce(v)'
  <2>1. AddedOnce(v) /\ DOMAIN worker[v] = DOMAIN Fresh
    BY WorkerKnows DEF DatabaseInv
  <2>2. writes'[v] = writes[v]
    BY WorkerKnows DEF CommitAndClose
  <2>3. \A row \in Rows \ DOMAIN writes[w] : database'[row] = database[row]
    BY <1>3 DEF Sees
  <2>4. ASSUME NEW row \in NewsRows \cap DOMAIN writes'[v]
        PROVE  database'[row] = Absent /\ ~Held(v, row)'
    <3>1. database[row] = Absent /\ ~Held(v, row) /\ row \in Rows
      BY <2>1, <2>2, FactsAreNoRows DEF AddedOnce
    <3>2. \A u \in Workers \ {v} : row \notin DOMAIN writes[u]
      BY <3>1 DEF Held
    <3>. QED BY <1>8, <2>3, <3>1, <3>2 DEF Held
  <2>5. LookHolds(v, worker[v])'
    <3>1. /\ worker'[v].pending = worker[v].pending /\ worker'[v].found = worker[v].found
          /\ worker'[v].overtaken = (worker[v].overtaken \/ worker[v].pending \in DOMAIN writes[w])
      BY <2>1, FreshBacked DEF CommitAndClose
    <3> SUFFICES ASSUME NEW a \in NewsArticles, worker'[v].pending = ArticleRow(a),
                        ~worker'[v].overtaken
                 PROVE  worker'[v].found = Sees(v, ArticleRow(a))'
      BY DEF LookHolds
    <3>2. ArticleRow(a) \notin DOMAIN writes[w] /\ ArticleRow(a) \in Rows
      BY <3>1, RowsAreRows
    <3>3. worker[v].found = Sees(v, ArticleRow(a))
      BY <2>1, <3>1 DEF AddedOnce, LookHolds
    <3>. QED BY <2>2, <2>3, <3>1, <3>2, <3>3 DEF Sees
  <2>. QED BY <2>4, <2>5 DEF AddedOnce
<1>. QED BY <1>2, <1>5, <1>6, <1>7, <1>9, <1>10 DEF DatabaseInv

-----------------------------------------------------------------------------
(* The start.                                                              *)

LEMMA StartedIs ==
    ASSUME NEW originals \in SUBSET DemoArticles
    PROVE  LET S == StartedDatabase(originals) IN
           /\ DOMAIN S = Rows
           /\ \A c \in Issuers : S[CompanyRow(c)] = Present
           /\ \A a \in NewsArticles :
                 /\ a \in originals => S[ArticleRow(a)] = Processed
                 /\ S[ArticleRow(a)] \in {Processed, Duplicate, Absent}
                 /\ \/ S[AnalysisRow(a)] = Absent
                    \/ a \in originals /\ S[AnalysisRow(a)] = Mentioned[a]
           /\ \A d \in MarketDates :
                 \/ S[DigestRow(d)] = Absent
                 \/ S[DigestRow(d)] = Derived(ShownBy({a \in originals : MarketDate[a] = d}))
           /\ \A d \in MarketDates, c \in Issuers :
                 \/ S[SignalRow(d, c)] = Absent
                 \/ S[SignalRow(d, c)] =
                       Derived(ShownBy({a \in {b \in originals : MarketDate[b] = d} :
                                           c \in Mentioned[a]}))
           /\ \A w \in Workers : S[RunRow(w)] = Absent
<1> DEFINE S == StartedDatabase(originals)
<1>1. DOMAIN S = Rows
  BY DEF StartedDatabase
<1>2. \A c \in Issuers : S[CompanyRow(c)] = Present
  BY RowsAreRows DEF StartedDatabase, CompanyRow
<1>3. ASSUME NEW a \in NewsArticles
      PROVE  /\ a \in originals => S[ArticleRow(a)] = Processed
             /\ S[ArticleRow(a)] \in {Processed, Duplicate, Absent}
  BY RowsAreRows DEF StartedDatabase, ArticleRow
<1>4. ASSUME NEW a \in NewsArticles
      PROVE  S[AnalysisRow(a)] = Absent \/ (a \in originals /\ S[AnalysisRow(a)] = Mentioned[a])
  BY RowsAreRows DEF StartedDatabase, AnalysisRow
<1>5. \A d \in MarketDates :
         \/ S[DigestRow(d)] = Absent
         \/ S[DigestRow(d)] = Derived(ShownBy({a \in originals : MarketDate[a] = d}))
  BY RowsAreRows DEF StartedDatabase, DigestRow
<1>6. \A d \in MarketDates, c \in Issuers :
         \/ S[SignalRow(d, c)] = Absent
         \/ S[SignalRow(d, c)] =
               Derived(ShownBy({a \in {b \in originals : MarketDate[b] = d} :
                                   c \in Mentioned[a]}))
  BY RowsAreRows DEF StartedDatabase, SignalRow
<1>7. \A w \in Workers : S[RunRow(w)] = Absent
  BY RowsAreRows DEF StartedDatabase, RunRow
<1>. QED BY <1>1, <1>2, <1>3, <1>4, <1>5, <1>6, <1>7

LEMMA ShownIs ==
    ASSUME NEW articles \in SUBSET NewsArticles
    PROVE  /\ ShownBy(articles) \in SUBSET Shown
           /\ \A pair \in ShownBy(articles) :
                 pair[1] \in articles /\ pair[2] = Mentioned[pair[1]]
  BY DatabaseAssumption DEF ShownBy, Shown

LEMMA DatabaseStarts ==
    ASSUME DatabaseInit
    PROVE  DatabaseInv
<1>1. /\ DOMAIN writes = Workers /\ DOMAIN worker = Workers
      /\ \A w \in Workers : writes[w] = <<>> /\ worker[w] = Fresh
  BY DEF DatabaseInit
<1>2. ASSUME NEW w \in Workers PROVE WorkerBacked(w) /\ AddedOnce(w)
  <2>1. DOMAIN writes[w] = {}
    BY <1>1
  <2>2. WorkerBacked(w)
    BY <1>1, <2>1, FreshBacked DEF WorkerBacked, WritesBacked
  <2>3. AddedOnce(w)
    BY <1>1, <2>1, FreshBacked, FactsAreNoRows DEF AddedOnce, LookHolds, NewsRows
  <2>. QED BY <2>2, <2>3
<1>3. CASE database = EmptyDatabase
  <2>1. DOMAIN database = Rows /\ \A row \in Rows : database[row] = Absent
    BY <1>3 DEF EmptyDatabase
  <2>2. StoredRows \cap Rows = {}
    BY <2>1, StoredIsThere
  <2>3. \A w \in Workers : database[RunRow(w)] # {"completed"}
    BY <2>1, RowsAreRows, ValuesAreThere
  <2>4. CompanyRows \cap StoredRows = {}
    BY <2>2, RowsAreRows DEF CompanyRows
  <2>. QED BY <1>1, <1>2, <2>1, <2>2, <2>3, <2>4 DEF DatabaseInv, DatabaseBacked
<1>4. ASSUME NEW originals \in SUBSET DemoArticles, database = StartedDatabase(originals)
      PROVE  DatabaseInv
  <2>1. DOMAIN database = Rows
    BY <1>4, StartedIs
  <2>2. originals \subseteq NewsArticles
    BY BatchIs
  <2>3. Present # Absent
    BY ValuesAreThere DEF Present
  <2>4. \A c \in Issuers : CompanyRow(c) \in StoredRows
    BY <1>4, <2>1, <2>3, StartedIs, RowsAreRows, StoredIsThere
  <2>5. \A a \in originals : ProcessedFact(a) \in StoredRows
    BY <1>4, <2>1, <2>2, StartedIs, StoredIsThere
  <2>6. \A w \in Workers : database[RunRow(w)] = Absent
    BY <1>4, StartedIs
  <2>7. ASSUME NEW row \in StoredRows \cap Rows PROVE Backed(StoredRows, row, database[row])
    <3>1. database[row] # Absent
      BY <2>1, StoredIsThere
    <3>2. ASSUME NEW a \in NewsArticles, row = AnalysisRow(a)
          PROVE  /\ database[row] \in {{}, Mentioned[a]} /\ ProcessedFact(a) \in StoredRows
                 /\ \A c \in database[row] : CompanyRow(c) \in StoredRows
      <4>1. database[row] = Mentioned[a] /\ a \in originals
        BY <1>4, <3>1, <3>2, StartedIs
      <4>. QED BY <2>4, <2>5, <4>1, DatabaseAssumption
    <3>3. ASSUME NEW d \in MarketDates, row = DigestRow(d)
          PROVE  /\ database[row] \in DerivedRows
                 /\ \A pair \in database[row].payload :
                       ProcessedFact(pair[1]) \in StoredRows /\ MarketDate[pair[1]] = d
      <4> DEFINE articles == {a \in originals : MarketDate[a] = d}
      <4>1. database[row] = Derived(ShownBy(articles))
        BY <1>4, <3>1, <3>3, StartedIs
      <4>2. /\ ShownBy(articles) \in SUBSET Shown
            /\ \A pair \in ShownBy(articles) : pair[1] \in articles
        BY <2>2, ShownIs
      <4>3. /\ Derived(ShownBy(articles)) \in DerivedRows
            /\ Derived(ShownBy(articles)).payload = ShownBy(articles)
        BY <4>2, DerivedIs
      <4>. QED BY <2>5, <4>1, <4>2, <4>3
    <3>4. ASSUME NEW d \in MarketDates, NEW c \in Issuers, row = SignalRow(d, c)
          PROVE  /\ database[row] \in DerivedRows
                 /\ \A pair \in database[row].payload :
                       /\ ProcessedFact(pair[1]) \in StoredRows /\ MarketDate[pair[1]] = d
                       /\ c \in pair[2] /\ CompanyRow(c) \in StoredRows
      <4> DEFINE articles == {a \in {b \in originals : MarketDate[b] = d} : c \in Mentioned[a]}
      <4>1. database[row] = Derived(ShownBy(articles))
        BY <1>4, <3>1, <3>4, StartedIs
      <4>2. /\ ShownBy(articles) \in SUBSET Shown
            /\ \A pair \in ShownBy(articles) :
                  pair[1] \in articles /\ pair[2] = Mentioned[pair[1]]
        BY <2>2, ShownIs
      <4>3. /\ Derived(ShownBy(articles)) \in DerivedRows
            /\ Derived(ShownBy(articles)).payload = ShownBy(articles)
        BY <4>2, DerivedIs
      <4>. QED BY <2>4, <2>5, <4>1, <4>2, <4>3
    <3>5. ASSUME NEW w \in Workers, row = RunRow(w) PROVE FALSE
      BY <2>6, <3>1, <3>5
    <3>6. ASSUME NEW a \in NewsArticles, row = ArticleRow(a)
          PROVE  database[row] \in {Processed, Duplicate}
      BY <1>4, <3>1, <3>6, StartedIs
    <3>. QED BY <3>1, <3>2, <3>3, <3>4, <3>5, <3>6 DEF Backed
  <2>8. \A w \in Workers : database[RunRow(w)] # {"completed"}
    BY <2>6, ValuesAreThere
  <2>9. CompanyRows \subseteq StoredRows
    BY <2>4 DEF CompanyRows
  <2>. QED BY <1>1, <1>2, <2>1, <2>7, <2>8, <2>9 DEF DatabaseInv, DatabaseBacked
<1>. QED BY <1>3, <1>4 DEF DatabaseInit, StartedDatabases

-----------------------------------------------------------------------------
(* Every step.                                                             *)

LEMMA DatabaseSteps ==
    ASSUME DatabaseInv, [DatabaseNext]_databaseVars
    PROVE  DatabaseInv'
<1>1. CASE UNCHANGED databaseVars
  BY <1>1 DEF databaseVars, DatabaseInv, DatabaseBacked, WorkerBacked, WritesBacked, SeenRows,
     StoredRows, AddedOnce, LookHolds, Held, Sees
<1>2. ASSUME NEW w \in Workers, BeginAny(w) PROVE DatabaseInv'
  BY <1>2, BeginKeeps
<1>3. ASSUME NEW w \in Workers, Advance(w) PROVE DatabaseInv'
  <2>1. CASE LoadRegistry(w)
    BY <2>1, LoadRegistryKeeps
  <2>2. CASE LoadCompanies(w)
    BY <2>2, LoadCompaniesKeeps
  <2>3. CASE IngestRecord(w)
    BY <2>3, IngestRecordKeeps
  <2>4. CASE AccountingPasses(w) \/ AccountingFails(w)
    BY <2>4, AccountingKeeps
  <2>5. CASE ReadAliases(w)
    BY <2>5, ReadAliasesKeeps
  <2>6. CASE ListArticles(w)
    BY <2>6, ListArticlesKeeps
  <2>7. CASE AnalyseArticle(w)
    BY <2>7, AnalyseArticleKeeps
  <2>8. CASE ArticlesAnalysed(w)
    BY <2>8, ArticlesAnalysedKeeps
  <2>9. CASE GatherArticles(w)
    BY <2>9, GatherArticlesKeeps
  <2>10. CASE GatherLinks(w)
    BY <2>10, GatherLinksKeeps
  <2>11. CASE WriteDigest(w)
    BY <2>11, WriteDigestKeeps
  <2>12. CASE WriteSignal(w)
    BY <2>12, WriteSignalKeeps
  <2>13. CASE SignalsWritten(w)
    BY <2>13, SignalsWrittenKeeps
  <2>14. CASE RunCompletes(w)
    BY <2>14, RunCompletesKeeps
  <2>15. CASE PersistDataset(w)
    BY <2>15, PersistDatasetKeeps
  <2>16. CASE CommitAndClose(w)
    BY <2>16, CommitKeeps
  <2>17. CASE BreakDeadlock(w)
    BY <2>17, RolledBackKeeps DEF BreakDeadlock
  <2>18. CASE PersistOfficial(w)
    BY <2>18, PersistOfficialKeeps
  <2>. QED BY <1>3, <2>1, <2>2, <2>3, <2>4, <2>5, <2>6, <2>7, <2>8, <2>9, <2>10, <2>11, <2>12,
              <2>13, <2>14, <2>15, <2>16, <2>17, <2>18 DEF Advance
<1>4. ASSUME NEW w \in Workers, KillWorker(w) PROVE DatabaseInv'
  BY <1>4, RolledBackKeeps DEF KillWorker
<1>. QED BY <1>1, <1>2, <1>3, <1>4 DEF DatabaseNext

\* Rows that are backed are sound.
LEMMA DatabaseInvIsSound ==
    ASSUME DatabaseInv
    PROVE  DatabaseRowsSound
<1>1. DatabaseBacked
  BY DEF DatabaseInv
<1>2. /\ \A row \in Rows : row \in StoredRows <=> database[row] # Absent
      /\ \A a \in NewsArticles :
            /\ ProcessedFact(a) \in StoredRows => database[ArticleRow(a)] = Processed
            /\ DuplicateFact(a) \in StoredRows => database[ArticleRow(a)] = Duplicate
  BY <1>1, StoredIsThere DEF DatabaseBacked
<1>3. \A row \in Rows : database[row] # Absent => Backed(StoredRows, row, database[row])
  BY <1>1, <1>2 DEF DatabaseBacked
<1>4. CompletedRunsAreWhole
  <2> SUFFICES ASSUME NEW w \in Workers, database[RunRow(w)] = {"completed"}
               PROVE  /\ database[Dataset] # Absent /\ database[Official] # Absent
                      /\ \A c \in Issuers : database[CompanyRow(c)] # Absent
                      /\ \A r \in DemoRecords : database[RecordRow(r)] # Absent
                      /\ \A a \in DemoArticles :
                            /\ database[DigestRow(MarketDate[a])] # Absent
                            /\ database[ArticleRow(a)] = Processed =>
                                  database[AnalysisRow(a)] # Absent
    BY DEF CompletedRunsAreWhole
  <2>1. RunWhole(StoredRows)
    BY <1>3, RowsAreRows, ValuesAreThere DEF Backed
  <2>2. Dataset \in StoredRows /\ Official \in StoredRows
    BY <1>1 DEF DatabaseBacked
  <2>3. \A c \in Issuers : database[CompanyRow(c)] # Absent
    BY <1>2, <2>1, RowsAreRows DEF RunWhole, CompanyRows
  <2>4. \A r \in DemoRecords : database[RecordRow(r)] # Absent
    BY <1>2, <2>1, RowOfRecord, BatchIs DEF RunWhole, BatchStored
  <2>5. ASSUME NEW a \in DemoArticles
        PROVE  /\ database[DigestRow(MarketDate[a])] # Absent
               /\ database[ArticleRow(a)] = Processed => database[AnalysisRow(a)] # Absent
    <3>1. a \in NewsArticles /\ MarketDate[a] \in MarketDates
      BY BatchIs
    <3>2. DigestRow(MarketDate[a]) \in StoredRows
      BY <2>1 DEF RunWhole, BatchDigested
    <3>3. AnalysisRow(a) \in StoredRows \/ database[ArticleRow(a)] = Duplicate
      BY <1>2, <2>1, <3>1 DEF RunWhole, BatchAnalysed
    <3>. QED BY <1>2, <3>1, <3>2, <3>3, RowsAreRows, ValuesAreThere
  <2>. QED BY <1>2, <2>2, <2>3, <2>4, <2>5, RowsAreRows
<1>5. LinksAreOfAllCompanies
  BY <1>3, RowsAreRows DEF LinksAreOfAllCompanies, Backed
<1>6. ASSUME NEW d \in MarketDates, NEW c \in Issuers
      PROVE  /\ database[DigestRow(d)] # Absent =>
                   \A pair \in database[DigestRow(d)].payload :
                       database[ArticleRow(pair[1])] = Processed /\ MarketDate[pair[1]] = d
             /\ database[SignalRow(d, c)] # Absent =>
                   \A pair \in database[SignalRow(d, c)].payload :
                       /\ database[ArticleRow(pair[1])] = Processed /\ MarketDate[pair[1]] = d
                       /\ c \in pair[2] /\ database[CompanyRow(c)] # Absent
  <2>1. DigestRow(d) \in Rows /\ SignalRow(d, c) \in Rows /\ CompanyRow(c) \in Rows
    BY RowsAreRows
  <2>2. \A derived \in DerivedRows : \A pair \in derived.payload : pair[1] \in NewsArticles
    BY DEF DerivedRows, Shown
  <2>3. database[DigestRow(d)] # Absent =>
           /\ database[DigestRow(d)] \in DerivedRows
           /\ \A pair \in database[DigestRow(d)].payload :
                 ProcessedFact(pair[1]) \in StoredRows /\ MarketDate[pair[1]] = d
    BY <1>3, <2>1 DEF Backed
  <2>4. database[SignalRow(d, c)] # Absent =>
           /\ database[SignalRow(d, c)] \in DerivedRows
           /\ \A pair \in database[SignalRow(d, c)].payload :
                 /\ ProcessedFact(pair[1]) \in StoredRows /\ MarketDate[pair[1]] = d
                 /\ c \in pair[2] /\ CompanyRow(c) \in StoredRows
    BY <1>3, <2>1 DEF Backed
  <2>. QED BY <1>2, <2>1, <2>2, <2>3, <2>4
<1>7. \A a \in NewsArticles :
         database[AnalysisRow(a)] # Absent => database[ArticleRow(a)] = Processed
  BY <1>2, <1>3, RowsAreRows DEF Backed
<1>8. DerivedRowsAreBacked
  BY <1>6, <1>7 DEF DerivedRowsAreBacked
<1>. QED BY <1>4, <1>5, <1>8 DEF DatabaseRowsSound

\* Whatever commands write at the same time, wait for each other, are ended
\* by the database or are killed: a start recorded as completed left the
\* companies, the dataset and the official data, a row of every record, the
\* digests and the analyses of its articles that are no near duplicates; an
\* article's links are of all companies or of none; and what is analysed or
\* shown by a digest or a signal is a processed article.
THEOREM DatabaseHolds == DatabaseSpec => []DatabaseRowsSound
<1>1. DatabaseInit => DatabaseInv
  BY DatabaseStarts
<1>2. DatabaseInv /\ [DatabaseNext]_databaseVars => DatabaseInv'
  BY DatabaseSteps
<1>3. DatabaseInv => DatabaseRowsSound
  BY DatabaseInvIsSound
<1>. QED BY <1>1, <1>2, <1>3, PTL DEF DatabaseSpec
-----------------------------------------------------------------------------
(* Numbers in their order.                                                 *)

BelowOrAt(S, n) == {m \in S : m <= n}
RankIn(S, n) == Cardinality(BelowOrAt(S, n))

\* A greater number has a greater rank.
LEMMA RankGrows ==
    ASSUME NEW S \in SUBSET Int, IsFiniteSet(S), NEW n \in S
    PROVE  /\ RankIn(S, n) \in 1..Cardinality(S)
           /\ \A m \in S : m < n => RankIn(S, m) < RankIn(S, n)
<1>1. IsFiniteSet(BelowOrAt(S, n)) /\ RankIn(S, n) <= Cardinality(S)
  BY FS_Subset DEF BelowOrAt, RankIn
<1>2. Cardinality(S) \in Nat /\ RankIn(S, n) \in Nat
  BY <1>1, FS_CardinalityType DEF RankIn
<1>3. BelowOrAt(S, n) # {}
  BY DEF BelowOrAt
<1>4. RankIn(S, n) # 0
  BY <1>1, <1>3, FS_EmptySet DEF RankIn
<1>5. ASSUME NEW m \in S, m < n PROVE RankIn(S, m) < RankIn(S, n)
  <2>1. BelowOrAt(S, m) \subseteq BelowOrAt(S, n) /\ BelowOrAt(S, m) # BelowOrAt(S, n)
    <3>1. m \in Int /\ n \in Int /\ \A l \in S : l \in Int
      OBVIOUS
    <3>2. n \in BelowOrAt(S, n) /\ n \notin BelowOrAt(S, m)
      BY <1>5, <3>1 DEF BelowOrAt
    <3>3. ASSUME NEW l \in BelowOrAt(S, m) PROVE l \in BelowOrAt(S, n)
      <4>1. l \in S /\ l \in Int /\ l <= m
        BY <3>1 DEF BelowOrAt
      <4>2. l <= n
        BY <1>5, <3>1, <4>1
      <4>. QED BY <4>1, <4>2 DEF BelowOrAt
    <3>. QED BY <3>2, <3>3
  <2>2. RankIn(S, m) <= RankIn(S, n) /\ RankIn(S, m) # RankIn(S, n)
    BY <1>1, <2>1, FS_Subset DEF RankIn
  <2>3. IsFiniteSet(BelowOrAt(S, m))
    BY <1>1, <2>1, FS_Subset
  <2>4. RankIn(S, m) \in Nat
    BY <2>3, FS_CardinalityType DEF RankIn
  <2>. QED BY <1>2, <2>2, <2>4
<1>. QED BY <1>1, <1>2, <1>4, <1>5

\* The number of a rank is that number.
LEMMA NthOfRank ==
    ASSUME NEW S \in SUBSET Int, IsFiniteSet(S), NEW n \in S
    PROVE  Nth(S, RankIn(S, n)) = n
<1>1. \A m \in S : RankIn(S, m) = RankIn(S, n) => m = n
  <2> SUFFICES ASSUME NEW m \in S, RankIn(S, m) = RankIn(S, n), m # n PROVE FALSE
    OBVIOUS
  <2>1. m < n \/ n < m
    OBVIOUS
  <2>2. RankIn(S, m) < RankIn(S, n) \/ RankIn(S, n) < RankIn(S, m)
    BY <2>1, RankGrows
  <2>3. RankIn(S, m) \in Int /\ RankIn(S, n) \in Int
    BY RankGrows
  <2>. QED BY <2>2, <2>3
<1>. QED BY <1>1 DEF Nth, RankIn, BelowOrAt

\* Every rank is that of a number.
LEMMA RankOfNth ==
    ASSUME NEW S \in SUBSET Int, IsFiniteSet(S), NEW k \in 1..Cardinality(S)
    PROVE  Nth(S, k) \in S /\ RankIn(S, Nth(S, k)) = k
<1> DEFINE T == 1..Cardinality(S)
           f == [n \in S |-> RankIn(S, n)]
<1>1. Cardinality(S) \in Nat
  BY FS_CardinalityType
<1>2. IsFiniteSet(T) /\ Cardinality(T) = Cardinality(S)
  BY <1>1, FS_Interval
<1>3. f \in [S -> T]
  BY RankGrows
<1>4. \A m, n \in S : f[m] = f[n] => m = n
  BY NthOfRank
<1>5. f \in Injection(S, T)
  BY <1>3, <1>4 DEF Injection, IsInjective
<1>6. f \in Surjection(S, T)
  BY <1>2, <1>5, FS_Injection
<1>7. PICK n \in S : f[n] = k
  BY <1>6 DEF Surjection
<1>. QED BY <1>7, NthOfRank

-----------------------------------------------------------------------------
(* Articles, newest first.                                                 *)

Place(S, a) == Cardinality(S) + 1 - RankIn(S, a)

LEMMA NewestFirstIs ==
    ASSUME NEW S \in SUBSET Int, IsFiniteSet(S)
    PROVE  LET sorted == NewestFirst(S) IN
           /\ DOMAIN sorted = 1..Cardinality(S)
           /\ \A i \in DOMAIN sorted : sorted[i] \in S /\ Place(S, sorted[i]) = i
           /\ \A a \in S : Place(S, a) \in DOMAIN sorted /\ sorted[Place(S, a)] = a
           /\ \A a, b \in S : Place(S, b) <= Place(S, a) <=> a <= b
<1> DEFINE count == Cardinality(S)
           sorted == NewestFirst(S)
<1>1. count \in Nat
  BY FS_CardinalityType
<1>2. sorted = [k \in 1..count |-> Nth(S, count + 1 - k)]
  BY DEF NewestFirst
<1> HIDE DEF sorted, count
<1>3. DOMAIN sorted = 1..count
  BY <1>2
<1>4. ASSUME NEW i \in 1..count PROVE sorted[i] \in S /\ Place(S, sorted[i]) = i
  <2>1. count + 1 - i \in 1..count /\ count + 1 - (count + 1 - i) = i
    BY <1>1
  <2>2. sorted[i] = Nth(S, count + 1 - i)
    BY <1>2
  <2>. QED BY <2>1, <2>2, RankOfNth DEF Place, count
<1>5. ASSUME NEW a \in S PROVE Place(S, a) \in 1..count /\ sorted[Place(S, a)] = a
  <2>1. RankIn(S, a) \in 1..count
    BY RankGrows DEF count
  <2>2. Place(S, a) \in 1..count /\ count + 1 - Place(S, a) = RankIn(S, a)
    BY <1>1, <2>1 DEF Place, count
  <2>3. sorted[Place(S, a)] = Nth(S, RankIn(S, a))
    BY <1>2, <2>2
  <2>. QED BY <2>2, <2>3, NthOfRank
<1>6. ASSUME NEW a \in S, NEW b \in S PROVE Place(S, b) <= Place(S, a) <=> a <= b
  <2>1. RankIn(S, a) \in Int /\ RankIn(S, b) \in Int /\ a \in Int /\ b \in Int
    BY RankGrows
  <2>2. a < b => RankIn(S, a) < RankIn(S, b)
    BY RankGrows
  <2>3. b < a => RankIn(S, b) < RankIn(S, a)
    BY RankGrows
  <2>. QED BY <1>1, <2>1, <2>2, <2>3 DEF Place, count
<1>. QED BY <1>3, <1>4, <1>5, <1>6 DEF sorted, count

\* As many of the articles that are let through come before an article as are
\* as new as it.
From(S, a) == {b \in S : b >= a}

LEMMA PlacesAmong ==
    ASSUME NEW S \in SUBSET Int, IsFiniteSet(S), NEW good \in SUBSET S, NEW a \in good
    PROVE  LET sorted == NewestFirst(S)
               places == {i \in DOMAIN sorted : sorted[i] \in good}
           IN  /\ places \in SUBSET Int /\ IsFiniteSet(places)
               /\ Place(S, a) \in places
               /\ RankIn(places, Place(S, a)) = Cardinality(From(good, a))
<1> DEFINE sorted == NewestFirst(S)
           places == {i \in DOMAIN sorted : sorted[i] \in good}
           newer == From(good, a)
           before == BelowOrAt(places, Place(S, a))
           f == [b \in newer |-> Place(S, b)]
<1>1. /\ DOMAIN sorted = 1..Cardinality(S)
      /\ \A i \in DOMAIN sorted : sorted[i] \in S /\ Place(S, sorted[i]) = i
      /\ \A b \in S : Place(S, b) \in DOMAIN sorted /\ sorted[Place(S, b)] = b
      /\ \A b, c \in S : Place(S, c) <= Place(S, b) <=> b <= c
  BY NewestFirstIs
<1> HIDE DEF sorted
<1>2. Cardinality(S) \in Nat
  BY FS_CardinalityType
<1>3. places \in SUBSET Int /\ IsFiniteSet(places)
  <2>1. IsFiniteSet(1..Cardinality(S)) /\ 1..Cardinality(S) \subseteq Int
    BY <1>2, FS_Interval
  <2>2. places \subseteq 1..Cardinality(S)
    BY <1>1
  <2> HIDE DEF places
  <2>. QED BY <2>1, <2>2, FS_Subset
<1>4. Place(S, a) \in places
  BY <1>1
<1>5. f \in [newer -> before]
  <2> SUFFICES ASSUME NEW b \in newer PROVE Place(S, b) \in before
    OBVIOUS
  <2>1. b \in good /\ b \in S /\ a \in S /\ a \in Int /\ b \in Int /\ b >= a
    BY DEF From
  <2>. QED BY <1>1, <2>1 DEF BelowOrAt
<1>6. \A b, c \in newer : f[b] = f[c] => b = c
  BY <1>1 DEF From
<1>7. ASSUME NEW i \in before PROVE \E b \in newer : f[b] = i
  <2>1. i \in DOMAIN sorted /\ sorted[i] \in good /\ i <= Place(S, a)
    BY DEF BelowOrAt
  <2>2. Place(S, sorted[i]) = i /\ sorted[i] \in S
    BY <1>1, <2>1
  <2>3. a <= sorted[i] /\ a \in Int /\ sorted[i] \in Int
    BY <1>1, <2>1, <2>2
  <2>4. sorted[i] \in newer
    BY <2>1, <2>3 DEF From
  <2>. QED BY <2>2, <2>4
<1>8. f \in Bijection(newer, before)
  BY <1>5, <1>6, <1>7 DEF Bijection, Injection, IsInjective, Surjection
<1>9. IsFiniteSet(newer)
  BY FS_Subset DEF From
<1>10. Cardinality(before) = Cardinality(newer)
  BY <1>8, <1>9, FS_Bijection DEF ExistsBijection
<1>. QED BY <1>3, <1>4, <1>10 DEF RankIn, sorted

-----------------------------------------------------------------------------
(* The endpoints that show articles.                                       *)

ArticlePaths == {"articles", "article", "company_articles"}

\* An endpoint answers from the section it is given.
LEMMA SectionsAre ==
    /\ \A section, filters : Rowset(section, filters).section = section
    /\ \A section : Whole(section).section = section
    /\ \A of, key, section, filter : RowsOf(of, key, section, filter).section = section
    /\ \A section, key : Detail(section, key).section = section
    /\ \A section, filters, usual, most : Page(section, filters, usual, most).section = section
    /\ \A section : Direct(Whole(section)).section = section
    /\ \A section, key : Direct(Detail(section, key)).section = section
    /\ \A section, filters, usual, most :
          Direct(Page(section, filters, usual, most)).section = section
  BY DEF Rowset, Whole, RowsOf, Detail, Page, Direct

LEMMA AnswersAre ==
    /\ \A section, filters, usual, most :
          LET page == Page(section, filters, usual, most)
          IN  /\ page.answer = "payload" /\ page.filters = filters
              /\ page.usual = usual /\ page.most = most
    /\ \A of, key, section, filter :
          LET rows == RowsOf(of, key, section, filter)
          IN  rows.answer = "payload" /\ DOMAIN rows.filters = {"id"}
    /\ \A section, key :
          LET rows == Detail(section, key)
          IN  rows.answer = "payload" /\ DOMAIN rows.filters = {"id"}
  BY DEF Rowset, RowsOf, Detail, Page

LEMMA NewsAre ==
    /\ DOMAIN NewsPaths = {"articles", "article", "companies", "company_articles", "events",
                           "digest", "daily_signals", "pipeline_runs", "overview"}
    /\ \A path \in ArticlePaths :
          /\ NewsPaths[path].section = "articles" /\ NewsPaths[path].answer = "payload"
          /\ "as_of" \notin DOMAIN NewsPaths[path].filters
    /\ \A path \in DOMAIN NewsPaths \ ArticlePaths : NewsPaths[path].section # "articles"
    /\ NewsPaths["articles"].usual = 20 /\ NewsPaths["articles"].most = 100
<1>1. DOMAIN NewsPaths = {"articles", "article", "companies", "company_articles", "events",
                          "digest", "daily_signals", "pipeline_runs", "overview"}
  BY DEF NewsPaths
<1>2. ASSUME NEW path \in ArticlePaths
      PROVE  /\ NewsPaths[path].section = "articles" /\ NewsPaths[path].answer = "payload"
             /\ "as_of" \notin DOMAIN NewsPaths[path].filters
  BY SectionsAre, AnswersAre DEF ArticlePaths, NewsPaths
<1>3. \A path \in DOMAIN NewsPaths \ ArticlePaths : NewsPaths[path].section # "articles"
  BY SectionsAre DEF ArticlePaths, NewsPaths
<1>4. NewsPaths["articles"].usual = 20 /\ NewsPaths["articles"].most = 100
  BY AnswersAre DEF NewsPaths
<1>. QED BY <1>1, <1>2, <1>3, <1>4

LEMMA FilesShowNoArticles ==
    ASSUME NEW paths \in PathsOfFiles, NEW path \in DOMAIN paths
    PROVE  paths[path].section # "articles"
<1>1. CASE paths = SourcePaths
  BY <1>1, SectionsAre DEF SourcePaths
<1>2. CASE paths = NlpPaths
  BY <1>2, SectionsAre DEF NlpPaths
<1>3. CASE paths = ResearchPaths
  BY <1>3, SectionsAre DEF ResearchPaths
<1>4. CASE paths = AssetPaths
  BY <1>4, SectionsAre DEF AssetPaths
<1>5. CASE paths = ImpactPaths
  BY <1>5, SectionsAre DEF ImpactPaths
<1>6. CASE paths = SignalPaths
  BY <1>6, SectionsAre DEF SignalPaths
<1>7. CASE paths = Mt5Paths
  BY <1>7, SectionsAre DEF Mt5Paths
<1>8. CASE paths = ReactionPaths
  BY <1>8, SectionsAre DEF ReactionPaths
<1>9. CASE paths = ReactionErrorPaths
  BY <1>9, SectionsAre DEF ReactionErrorPaths
<1>10. CASE paths = MarketDataPaths
  BY <1>10, SectionsAre DEF MarketDataPaths
<1>11. CASE paths = PaperPaths
  BY <1>11, SectionsAre DEF PaperPaths
<1>12. CASE paths = OfficialSeriesPaths
  BY <1>12, SectionsAre DEF OfficialSeriesPaths
<1>13. CASE paths = ObservationPaths
  <2> DEFINE filters ==
             [dataset_id |-> Is("dataset_id"), profile_id |-> Is("profile_id"),
              as_of |-> [test |-> "as of", field |-> "revisions"]]
  <2>1. \A f : Page("official-observations", f, 50, 200).section = "official-observations"
    BY SectionsAre
  <2>2. /\ DOMAIN ObservationPaths = {"official_observations"}
        /\ ObservationPaths["official_observations"] =
              Page("official-observations", filters, 50, 200)
    BY DEF ObservationPaths
  <2> HIDE DEF filters
  <2>. QED BY <1>13, <2>1, <2>2
<1>14. CASE paths = OfficialDocumentPaths
  BY <1>14, SectionsAre DEF OfficialDocumentPaths
<1>. QED BY <1>1, <1>2, <1>3, <1>4, <1>5, <1>6, <1>7, <1>8, <1>9, <1>10, <1>11, <1>12, <1>13, <1>14
     DEF PathsOfFiles

\* The paths of the API are those of its parts.
LEMMA EndpointIs ==
    ASSUME NEW path \in DOMAIN Endpoints
    PROVE  \E paths \in Paths : path \in DOMAIN paths /\ Endpoints[path] = paths[path]
<1>1. DOMAIN Endpoints = UNION {DOMAIN paths : paths \in Paths}
  BY DEF Endpoints
<1>2. PICK paths \in Paths : path \in DOMAIN paths
  BY <1>1
<1> DEFINE chosen == CHOOSE p \in Paths : path \in DOMAIN p
<1>3. chosen \in Paths /\ path \in DOMAIN chosen
  BY <1>2
<1>4. Endpoints[path] = chosen[path]
  BY <1>1 DEF Endpoints
<1>. QED BY <1>3, <1>4

LEMMA ArticleEndpoints ==
    ASSUME NEW path \in DOMAIN Endpoints
    PROVE  /\ path \in DOMAIN NewsPaths => Endpoints[path] = NewsPaths[path]
           /\ Endpoints[path].section = "articles" => path \in ArticlePaths
<1>1. PICK paths \in Paths : path \in DOMAIN paths /\ Endpoints[path] = paths[path]
  BY EndpointIs
<1>2. path \in DOMAIN NewsPaths => paths = NewsPaths
  <2>1. NewsPaths \in Paths
    BY DEF Paths
  <2>. QED BY <1>1, <2>1, EndpointsHaveSections
<1>3. CASE paths = NewsPaths
  BY <1>1, <1>3, NewsAre
<1>4. CASE paths \in PathsOfFiles
  BY <1>1, <1>2, <1>4, FilesShowNoArticles
<1>. QED BY <1>1, <1>2, <1>3, <1>4 DEF Paths

-----------------------------------------------------------------------------
(* The rows of an answer.                                                  *)

AnyIssuers == [Nobody EXCEPT !.companies = Issuers]
Fits(question, a) == Matches(NewsPaths.articles, question.asked, ArticleShown(AnyIssuers, a))
FitsAmong(question, S) == {a \in S : Fits(question, a)}

\* The filters by what is never written again look at the same fields of an
\* article whoever reads it.
LEMMA FitsShown ==
    ASSUME NEW question, Lasting(question), NEW c, NEW a
    PROVE  Matches(NewsPaths.articles, question.asked, ArticleShown(c, a)) <=> Fits(question, a)
<1> DEFINE filters == NewsPaths.articles.filters
           row == ArticleShown(c, a)
           other == ArticleShown(AnyIssuers, a)
<1>1. /\ row.words = other.words /\ row.source_key = other.source_key
      /\ row.language = other.language /\ row.market_date = other.market_date
  BY DEF ArticleShown
<1>2. /\ filters["query"] = Among("words") /\ filters["source"] = Is("source_key")
      /\ filters["language"] = Is("language")
      /\ filters["published_from"] = NotBefore("market_date")
      /\ filters["published_to"] = NotAfter("market_date")
  <2>1. filters = [query |-> Among("words"), source |-> Is("source_key"),
         ticker |-> Among("tickers"), event_type |-> Is("event"),
         sentiment_label |-> Is("sentiment"), language |-> Is("language"),
         published_from |-> NotBefore("market_date"),
         published_to |-> NotAfter("market_date")]
    BY AnswersAre DEF NewsPaths
  <2>. QED BY <2>1
<1> HIDE DEF filters, row, other
<1>3. ASSUME NEW value
      PROVE  /\ LetsThrough(Among("words"), value, row)
                   <=> LetsThrough(Among("words"), value, other)
             /\ LetsThrough(Is("source_key"), value, row)
                   <=> LetsThrough(Is("source_key"), value, other)
             /\ LetsThrough(Is("language"), value, row)
                   <=> LetsThrough(Is("language"), value, other)
             /\ LetsThrough(NotBefore("market_date"), value, row)
                   <=> LetsThrough(NotBefore("market_date"), value, other)
             /\ LetsThrough(NotAfter("market_date"), value, row)
                   <=> LetsThrough(NotAfter("market_date"), value, other)
  BY <1>1 DEF LetsThrough, Among, Is, NotBefore, NotAfter
<1>4. ASSUME NEW f \in DOMAIN question.asked
      PROVE  LetsThrough(filters[f], question.asked[f], row)
                <=> LetsThrough(filters[f], question.asked[f], other)
  <2>1. f \in {"query", "source", "language", "published_from", "published_to"}
    BY DEF Lasting, LastingFilters
  <2>. QED BY <1>2, <1>3, <2>1
<1>. QED BY <1>4 DEF Fits, Matches, filters, row, other

PlacesOf(endpoint, asked, rows) == {i \in DOMAIN rows : Matches(endpoint, asked, rows[i])}

\* Rows that match are rows that were read.
LEMMA MatchingIs ==
    ASSUME NEW endpoint, NEW asked, "as_of" \notin DOMAIN asked,
           NEW rows, NEW n \in Nat, DOMAIN rows = 1..n
    PROVE  LET places == PlacesOf(endpoint, asked, rows)
               matching == Matching(endpoint, asked, rows)
           IN  /\ places \in SUBSET Int /\ IsFiniteSet(places)
               /\ Cardinality(places) \in Nat
               /\ DOMAIN matching = 1..Cardinality(places)
               /\ Len(matching) = Cardinality(places)
               /\ \A k \in DOMAIN matching :
                     Nth(places, k) \in places /\ matching[k] = rows[Nth(places, k)]
<1> DEFINE places == PlacesOf(endpoint, asked, rows)
           matching == Matching(endpoint, asked, rows)
<1>1. places \subseteq 1..n
  BY DEF PlacesOf
<1>2. IsFiniteSet(1..n) /\ 1..n \subseteq Int
  BY FS_Interval
<1>3. matching = [k \in 1..Cardinality(places) |-> AsOf(asked, rows[Nth(places, k)])]
  BY DEF Matching, PlacesOf
<1> HIDE DEF places, matching
<1>4. places \in SUBSET Int /\ IsFiniteSet(places)
  BY <1>1, <1>2, FS_Subset
<1>5. Cardinality(places) \in Nat
  BY <1>4, FS_CardinalityType
<1>6. ASSUME NEW k \in 1..Cardinality(places)
      PROVE  Nth(places, k) \in places /\ matching[k] = rows[Nth(places, k)]
  <2>1. Nth(places, k) \in places
    BY <1>4, RankOfNth
  <2>2. \A row : AsOf(asked, row) = row
    BY DEF AsOf
  <2>. QED BY <1>3, <2>1, <2>2
<1>7. DOMAIN matching = 1..Cardinality(places)
  BY <1>3
<1>8. Len(matching) = Cardinality(places)
  <2>1. matching \in Seq({matching[k] : k \in 1..Cardinality(places)})
    <3> DEFINE T == {matching[k] : k \in 1..Cardinality(places)}
    <3>1. matching \in [1..Cardinality(places) -> T]
      BY <1>3
    <3> HIDE DEF T
    <3>. QED BY <1>5, <3>1 DEF T
  <2>. QED BY <1>5, <1>7, <2>1
<1>. QED BY <1>4, <1>5, <1>6, <1>7, <1>8 DEF places, matching

-----------------------------------------------------------------------------
(* A client.                                                               *)

ListedIds(c) == {row.article_id : row \in c.listed}

\* What is owed and has not been listed yet comes after the pages so far.
Ahead(c, S) ==
    \A a \in c.owed :
        /\ a \in FitsAmong(c.question, S)
        /\ a \in ListedIds(c) \/ Cardinality(From(FitsAmong(c.question, S), a)) > c.offset

ReadingStages == {"companies", "links", "digests", "signals", "payload"}

\* A question that is asked is of an endpoint, and what is owed to it is
\* ahead of its pages among the articles that are stored, or were when they
\* were read.
AskedOf(c, stored) ==
    /\ DOMAIN c = DOMAIN Nobody
    /\ c.at = "idle" => c = Nobody
    /\ c.at # "idle" => c.question \in Questions /\ Serving
    /\ c.owed # {} => Lasting(c.question) /\ c.owed \subseteq NewsArticles /\ c.offset \in Nat
    /\ c.at \in {"articles"} \cup ReadingStages /\ c.owed # {} =>
          c.question.limit \in 0..NewsPaths["articles"].most
    /\ c.at \in {"asked", "articles"} => Ahead(c, stored)
    /\ c.at \in ReadingStages => \E S \in SUBSET stored : c.articles = NewestFirst(S) /\ Ahead(c, S)
    /\ c.at = "answered" => c.owed \subseteq ListedIds(c)

\* A client that has read the companies has read all of them.
AllKnown(c) ==
    /\ c.at \in ReadingStages \ {"companies"} => c.companies = Issuers
    /\ c.at \in {"digests", "signals", "payload"} =>
          \A a \in NewsArticles : c.links[a] \subseteq Issuers
    /\ c.at # "idle" /\ Endpoints[c.question.path].section = "articles" =>
          \A row \in c.listed : UnknownTicker \notin row.tickers

ApiInv == DatabaseInv /\ AskedOf(client, Canonical) /\ AllKnown(client)

\* Nothing is owed to a question of other endpoints.
LEMMA OwedByArticles ==
    ASSUME NEW c, c.at # "idle", AskedOf(c, Canonical), c.owed # {}
    PROVE  /\ c.question.path = "articles" /\ Endpoints[c.question.path] = NewsPaths["articles"]
           /\ Endpoints[c.question.path] = NewsPaths.articles
           /\ Endpoints[c.question.path].most = 100 /\ Endpoints[c.question.path].usual = 20
           /\ Endpoints[c.question.path].answer = "payload"
           /\ Endpoints[c.question.path].section = "articles"
<1>1. c.question \in Questions /\ c.question.path = "articles"
  BY DEF AskedOf, Lasting
<1>2. "articles" \in DOMAIN Endpoints
  BY <1>1, ApiAssumption
<1>3. Endpoints["articles"] = NewsPaths["articles"]
  BY <1>2, ArticleEndpoints, NewsAre
<1>. QED BY <1>1, <1>3, NewsAre DEF ArticlePaths

\* Articles that are added come before or after those that are there.
LEMMA AheadAmongMore ==
    ASSUME NEW c, NEW more \in SUBSET NewsArticles, NEW S \in SUBSET more, Ahead(c, S),
           c.owed # {} => c.offset \in Nat
    PROVE  Ahead(c, more)
<1> SUFFICES ASSUME NEW a \in c.owed
             PROVE  /\ a \in FitsAmong(c.question, more)
                    /\ \/ a \in ListedIds(c)
                       \/ Cardinality(From(FitsAmong(c.question, more), a)) > c.offset
  BY DEF Ahead
<1> DEFINE some == From(FitsAmong(c.question, S), a)
           all == From(FitsAmong(c.question, more), a)
<1>1. some \subseteq all /\ all \subseteq NewsArticles
  BY DEF From, FitsAmong
<1>2. IsFiniteSet(all)
  BY <1>1, ApiAssumption, FS_Subset
<1>3. IsFiniteSet(some) /\ Cardinality(some) <= Cardinality(all)
  BY <1>1, <1>2, FS_Subset
<1>4. Cardinality(some) \in Nat /\ Cardinality(all) \in Nat
  BY <1>2, <1>3, FS_CardinalityType
<1>5. a \in FitsAmong(c.question, more)
  BY DEF Ahead, FitsAmong
<1>6. a \in ListedIds(c) \/ Cardinality(some) > c.offset
  BY DEF Ahead
<1>7. Cardinality(some) > c.offset => Cardinality(all) > c.offset
  BY <1>3, <1>4
<1>. QED BY <1>5, <1>6, <1>7

\* The database serves when all companies are there.
LEMMA ServingKnows ==
    ASSUME DatabaseInv, Serving
    PROVE  {c \in Issuers : Committed(CompanyRow(c))} = Issuers
<1>1. PICK w \in Workers : database[RunRow(w)] # Absent
  BY DEF Serving, Committed
<1>2. DatabaseBacked /\ \A row \in Rows : row \in StoredRows <=> database[row] # Absent
  BY StoredIsThere DEF DatabaseInv, DatabaseBacked
<1>3. CompanyRows \subseteq StoredRows
  BY <1>1, <1>2, RowsAreRows DEF DatabaseBacked, Backed
<1>. QED BY <1>2, <1>3, RowsAreRows DEF CompanyRows, Committed

LEMMA LinksAreOfIssuers ==
    ASSUME DatabaseInv, NEW a \in NewsArticles, Committed(AnalysisRow(a))
    PROVE  database[AnalysisRow(a)] \subseteq Issuers
<1>1. LinksAreOfAllCompanies
  BY DatabaseInvIsSound DEF DatabaseRowsSound
<1>. QED BY <1>1, DatabaseAssumption DEF LinksAreOfAllCompanies, Committed

-----------------------------------------------------------------------------
(* The database goes on.                                                   *)

\* Rows are never deleted for good, and what is processed stays so.
LEMMA RowsStay ==
    ASSUME DatabaseInv, [DatabaseNext]_databaseVars
    PROVE  StoredRows \subseteq StoredRows' /\ Canonical \subseteq Canonical'
<1>1. CASE database' = database
  BY <1>1 DEF StoredRows, Canonical
<1>2. ASSUME NEW w \in Workers, CommitAndClose(w)
      PROVE  StoredRows \subseteq StoredRows' /\ Canonical \subseteq Canonical'
  <2>1. DOMAIN database = Rows /\ DOMAIN database' = Rows
    BY <1>2 DEF DatabaseInv, DatabaseBacked, CommitAndClose
  <2>2. ASSUME NEW row \in Rows, database[row] # Absent PROVE database'[row] # Absent
    <3>1. database'[row] = IF row \in DOMAIN writes[w] THEN writes[w][row] ELSE database[row]
      BY <1>2, <2>1 DEF CommitAndClose
    <3>2. row \in DOMAIN writes[w] => writes[w][row] # Absent
      BY DEF DatabaseInv, WorkerBacked, WritesBacked, Backed
    <3>. QED BY <2>2, <3>1, <3>2
  <2>3. ASSUME NEW a \in NewsArticles, database[ArticleRow(a)] # Absent
        PROVE  database'[ArticleRow(a)] = database[ArticleRow(a)] /\ ArticleRow(a) \in Rows
    <3>1. ArticleRow(a) \notin DOMAIN writes[w]
      BY <2>3 DEF DatabaseInv, AddedOnce, NewsRows
    <3>. QED BY <1>2, <2>1, <3>1, RowsAreRows DEF CommitAndClose
  <2>4. Canonical \subseteq Canonical'
    BY <2>3, ValuesAreThere DEF Canonical
  <2>5. ASSUME NEW fact \in FactsOf(database) PROVE fact \in FactsOf(database')
    <3>1. PICK a \in NewsArticles : \/ fact = ProcessedFact(a) /\ Tells(database, a, Processed)
                                    \/ fact = DuplicateFact(a) /\ Tells(database, a, Duplicate)
      BY FactsAreOfArticles
    <3>2. database[ArticleRow(a)] # Absent
      BY <3>1, ValuesAreThere DEF Tells
    <3>3. /\ Tells(database, a, Processed) => Tells(database', a, Processed)
          /\ Tells(database, a, Duplicate) => Tells(database', a, Duplicate)
      BY <2>1, <2>3, <3>2 DEF Tells
    <3>. QED BY <3>1, <3>3, FactsAre
  <2>6. /\ StoredRows = {row \in Rows : database[row] # Absent} \cup FactsOf(database)
        /\ StoredRows' = {row \in Rows : database'[row] # Absent} \cup FactsOf(database')
    BY DEF StoredRows
  <2>. QED BY <2>2, <2>4, <2>5, <2>6
<1>3. CASE UNCHANGED databaseVars
  BY <1>1, <1>3 DEF databaseVars
<1>4. ASSUME NEW w \in Workers, BeginAny(w) \/ KillWorker(w) PROVE database' = database
  BY <1>4 DEF BeginAny, BeginStart, BeginIngest, BeginProcess, BeginDigest, BeginSignals,
     BeginCommand, KillWorker, Rollback
<1>5. ASSUME NEW w \in Workers, NEW row, NEW replaces, Look(w, row, replaces)
      PROVE  database' = database
  BY <1>5 DEF Look
<1>6. ASSUME NEW w \in Workers, NEW row, NEW value, NEW inserts, NEW stage,
             Write(w, row, value, inserts, stage)
      PROVE  database' = database
  BY <1>6 DEF Write, Rollback
<1>7. ASSUME NEW w \in Workers, NEW row, NEW value, NEW stage, AddRow(w, row, value, stage)
      PROVE  database' = database
  BY <1>5, <1>6, <1>7 DEF AddRow, Reads
<1>8. ASSUME NEW w \in Workers, NEW row, NEW value, NEW stage, ReplaceRow(w, row, value, stage)
      PROVE  database' = database
  BY <1>5, <1>6, <1>8 DEF ReplaceRow
<1>9. ASSUME NEW w \in Workers, NEW row, NEW value, NEW stage, UpsertRow(w, row, value, stage)
      PROVE  database' = database
  BY <1>5, <1>6, <1>9 DEF UpsertRow
<1>10. ASSUME NEW w \in Workers, Advance(w) PROVE database' = database \/ CommitAndClose(w)
  <2>1. CASE LoadRegistry(w) \/ LoadCompanies(w) \/ IngestRecord(w)
    BY <1>7, <2>1 DEF LoadRegistry, LoadCompanies, IngestRecord, Reads
  <2>2. CASE AccountingPasses(w) \/ AccountingFails(w) \/ RunCompletes(w)
    BY <2>2 DEF AccountingPasses, AccountingFails, RunCompletes, RecordRun, Reads
  <2>3. CASE ReadAliases(w) \/ ListArticles(w) \/ ArticlesAnalysed(w) \/ GatherArticles(w)
             \/ GatherLinks(w) \/ SignalsWritten(w)
    BY <2>3 DEF ReadAliases, ListArticles, ArticlesAnalysed, GatherArticles, GatherLinks,
       SignalsWritten, Reads
  <2>4. CASE AnalyseArticle(w) \/ PersistDataset(w)
    BY <1>8, <2>4 DEF AnalyseArticle, PersistDataset
  <2>7. CASE PersistOfficial(w)
    BY <1>7, <2>7 DEF PersistOfficial
  <2>5. CASE WriteDigest(w) \/ WriteSignal(w)
    BY <1>9, <2>5 DEF WriteDigest, WriteSignal
  <2>6. CASE BreakDeadlock(w)
    BY <2>6 DEF BreakDeadlock, Rollback
  <2>. QED BY <1>10, <2>1, <2>2, <2>3, <2>4, <2>5, <2>6, <2>7 DEF Advance
<1>. QED BY <1>1, <1>2, <1>3, <1>4, <1>10 DEF DatabaseNext

\* A client that waits is owed what it was.
LEMMA CommandsKeepApi ==
    ASSUME ApiInv, [DatabaseNext]_databaseVars, UNCHANGED client
    PROVE  ApiInv'
<1>1. DatabaseInv'
  BY DatabaseSteps DEF ApiInv
<1>2. StoredRows \subseteq StoredRows' /\ Canonical \subseteq Canonical'
  BY RowsStay DEF ApiInv
<1>3. Canonical \subseteq Canonical' /\ Canonical' \subseteq NewsArticles
  BY <1>2 DEF Canonical
<1>4. Serving => Serving'
  <2> SUFFICES ASSUME NEW w \in Workers, database[RunRow(w)] # Absent
               PROVE  database'[RunRow(w)] # Absent
    BY DEF Serving, Committed
  <2>1. RunRow(w) \in StoredRows'
    BY <1>2, RowsAreRows DEF StoredRows
  <2>2. RunRow(w) \notin FactsOf(database')
    BY RowsAreRows, FactsAreNoRows
  <2>. QED BY <2>1, <2>2 DEF StoredRows
<1>5. AskedOf(client, Canonical)
  BY DEF ApiInv
<1>6. client.at \in {"asked", "articles"} => Ahead(client, Canonical')
  BY <1>3, <1>5, AheadAmongMore DEF AskedOf
<1>7. AskedOf(client, Canonical)'
  <2>1. ASSUME NEW S, client.articles = NewestFirst(S) /\ Ahead(client, S)
        PROVE  client'.articles = NewestFirst(S) /\ Ahead(client', S)
    BY <2>1
  <2>. QED BY <1>3, <1>4, <1>5, <1>6, <2>1 DEF AskedOf, Ahead
<1>8. AllKnown(client)'
  BY DEF ApiInv, AllKnown
<1>. QED BY <1>1, <1>7, <1>8 DEF ApiInv

-----------------------------------------------------------------------------
(* A request.                                                              *)

LEMMA NobodyIs ==
    /\ DOMAIN Nobody = {"at", "question", "offset", "accounted", "articles", "companies", "links",
                        "digests", "signals", "listed", "owed"}
    /\ Nobody.at = "idle" /\ Nobody.owed = {} /\ Nobody.listed = {} /\ Nobody.offset = 0
  BY DEF Nobody

LEMMA AskKeeps ==
    ASSUME ApiInv, NEW question \in Questions, Ask(question)
    PROVE  ApiInv'
<1> DEFINE c == client'
<1>1. /\ c.at = "asked" /\ c.question = question /\ c.owed = Owed(question)
      /\ c.listed = {} /\ c.offset = 0 /\ DOMAIN c = DOMAIN Nobody /\ Serving
      /\ UNCHANGED databaseVars
  BY NobodyIs DEF Ask
<1>2. DatabaseInv'
  BY <1>1, DatabaseSteps DEF ApiInv
<1>3. Canonical' = Canonical /\ Serving'
  BY <1>1 DEF databaseVars, Canonical, Committed, Serving
<1> HIDE DEF c
<1>4. c.owed # {} => Lasting(question) /\ c.owed \subseteq Canonical
  BY <1>1 DEF Owed, Canonical
<1>5. ASSUME NEW a \in c.owed
      PROVE  /\ a \in FitsAmong(question, Canonical)
             /\ Cardinality(From(FitsAmong(question, Canonical), a)) > 0
  <2> DEFINE newer == From(FitsAmong(question, Canonical), a)
  <2>1. a \in FitsAmong(question, Canonical)
    <3>1. a \in Owed(question) /\ a \in Canonical
      BY <1>1, <1>4
    <3>2. Matches(NewsPaths.articles, question.asked, ArticleShown(AnyIssuers, a))
      BY <3>1 DEF Owed, AnyIssuers
    <3>. QED BY <3>1, <3>2 DEF FitsAmong, Fits
  <2>2. a \in newer
    <3>1. a \in Nat
      BY <1>4, DatabaseAssumption DEF Canonical
    <3>. QED BY <2>1, <3>1 DEF From
  <2>3. newer \subseteq NewsArticles
    BY DEF From, FitsAmong, Canonical
  <2>4. IsFiniteSet(newer)
    BY <2>3, ApiAssumption, FS_Subset
  <2>5. Cardinality(newer) \in Nat /\ Cardinality(newer) # 0
    BY <2>2, <2>4, FS_CardinalityType, FS_EmptySet
  <2>. QED BY <2>1, <2>5
<1>6. Ahead(c, Canonical)
  BY <1>1, <1>5 DEF Ahead
<1>7. AskedOf(client, Canonical)'
  BY <1>1, <1>3, <1>4, <1>6 DEF AskedOf, ReadingStages, Canonical, c
<1>8. AllKnown(client)'
  BY <1>1 DEF AllKnown, ReadingStages, c
<1>. QED BY <1>2, <1>7, <1>8 DEF ApiInv

\* The client goes on as c.
Becomes(c) == client' = c /\ UNCHANGED databaseVars

LEMMA BecomesKeeps ==
    ASSUME ApiInv, NEW c, Becomes(c), AskedOf(c, Canonical), AllKnown(c)
    PROVE  ApiInv'
<1>1. DatabaseInv'
  BY DatabaseSteps DEF ApiInv, Becomes
<1>2. Canonical' = Canonical /\ (Serving <=> Serving')
  BY DEF Becomes, databaseVars, Canonical, Committed, Serving
<1>3. AskedOf(client, Canonical)'
  BY <1>2 DEF Becomes, AskedOf, Ahead
<1>4. AllKnown(client)'
  BY DEF Becomes, AllKnown
<1>. QED BY <1>1, <1>3, <1>4 DEF ApiInv

LEMMA RefusalKeeps ==
    ASSUME ApiInv, RefuseLimit \/ AccountingRefuses \/ AskAgain
    PROVE  ApiInv'
<1>1. CASE AskAgain
  <2>1. AskedOf(Nobody, Canonical) /\ AllKnown(Nobody)
    BY NobodyIs DEF AskedOf, AllKnown, ReadingStages
  <2>. QED BY <1>1, <2>1, BecomesKeeps DEF AskAgain, Becomes
<1>2. ASSUME NEW outcome \in {"refused", "failed"}, client.at = "asked",
             Becomes([client EXCEPT !.at = outcome])
      PROVE  ApiInv'
  <2> DEFINE c == [client EXCEPT !.at = outcome]
  <2>1. AskedOf(client, Canonical) /\ AllKnown(client) /\ DOMAIN client = DOMAIN Nobody
    BY DEF ApiInv, AskedOf
  <2>2. /\ DOMAIN c = DOMAIN Nobody /\ c.at = outcome /\ c.question = client.question
        /\ c.owed = client.owed /\ c.offset = client.offset /\ c.listed = client.listed
    BY <2>1, NobodyIs
  <2> HIDE DEF c
  <2>3. AskedOf(c, Canonical) /\ AllKnown(c)
    BY <1>2, <2>1, <2>2 DEF AskedOf, AllKnown, ReadingStages
  <2>. QED BY <1>2, <2>3, BecomesKeeps DEF c
<1>. QED BY <1>1, <1>2 DEF RefuseLimit, AccountingRefuses, Becomes

\* A statement that reads changes what the client knows and not what it has
\* listed.
LEMMA ReadingKeeps ==
    ASSUME ApiInv,
           \/ ReadAccounting \/ ReadArticles \/ ReadCompanies
           \/ ReadLinks \/ ReadDigests \/ ReadSignals
    PROVE  ApiInv'
<1> DEFINE c == client'
<1>1. /\ AskedOf(client, Canonical) /\ AllKnown(client) /\ DOMAIN client = DOMAIN Nobody
      /\ DatabaseInv
  BY DEF ApiInv, AskedOf
<1>2. /\ DOMAIN c = DOMAIN Nobody /\ c.question = client.question /\ c.owed = client.owed
      /\ c.offset = client.offset /\ c.listed = client.listed
  BY <1>1, NobodyIs DEF ReadAccounting, ReadArticles, ReadCompanies, ReadLinks, ReadDigests,
     ReadSignals, Reading
<1>3. Becomes(c)
  BY DEF ReadAccounting, ReadArticles, ReadCompanies, ReadLinks, ReadDigests, ReadSignals,
     Reading, Becomes
<1>4. \A S : Ahead(client, S) => Ahead(c, S)
  BY <1>2 DEF Ahead, ListedIds
<1>5. CASE ReadAccounting
  <2>1. client.at = "asked" /\ Proceeds /\ c.at = "articles"
    BY <1>1, <1>5, NobodyIs DEF ReadAccounting, Reading
  <2>2. client.owed # {} => client.question.limit \in 0..NewsPaths["articles"].most
    BY <1>1, <2>1, OwedByArticles, NewsAre DEF Proceeds, Endpoint
  <2> HIDE DEF c
  <2>3. AskedOf(c, Canonical)
    BY <1>1, <1>2, <1>4, <2>1, <2>2 DEF AskedOf, ReadingStages
  <2>4. AllKnown(c)
    BY <1>1, <1>2, <2>1 DEF AllKnown, ReadingStages
  <2>. QED BY <1>3, <2>3, <2>4, BecomesKeeps
<1>6. CASE ReadArticles
  <2>1. /\ client.at = "articles" /\ c.at = "companies"
        /\ c.articles = NewestFirst(Canonical)
    BY <1>1, <1>6, NobodyIs DEF ReadArticles, Reading, Canonical
  <2> HIDE DEF c
  <2>2. AskedOf(c, Canonical)
    BY <1>1, <1>2, <1>4, <2>1 DEF AskedOf, ReadingStages
  <2>3. AllKnown(c)
    BY <1>1, <1>2, <2>1 DEF AllKnown, ReadingStages
  <2>. QED BY <1>3, <2>2, <2>3, BecomesKeeps
<1>7. CASE ReadCompanies
  <2>1. /\ client.at = "companies" /\ c.at = "links" /\ c.articles = client.articles
        /\ c.companies = {x \in Issuers : Committed(CompanyRow(x))}
    BY <1>1, <1>7, NobodyIs DEF ReadCompanies, Reading
  <2>2. c.companies = Issuers
    BY <1>1, <2>1, ServingKnows DEF AskedOf
  <2> HIDE DEF c
  <2>3. AskedOf(c, Canonical)
    BY <1>1, <1>2, <1>4, <2>1 DEF AskedOf, ReadingStages
  <2>4. AllKnown(c)
    BY <1>1, <1>2, <2>1, <2>2 DEF AllKnown, ReadingStages
  <2>. QED BY <1>3, <2>3, <2>4, BecomesKeeps
<1>8. CASE ReadLinks
  <2>1. /\ client.at = "links" /\ c.at = "digests" /\ c.articles = client.articles
        /\ c.companies = client.companies
        /\ c.links = [a \in NewsArticles |->
              IF Committed(AnalysisRow(a)) THEN database[AnalysisRow(a)] ELSE {}]
    BY <1>1, <1>8, NobodyIs DEF ReadLinks, Reading
  <2>2. \A a \in NewsArticles : c.links[a] \subseteq Issuers
    BY <1>1, <2>1, LinksAreOfIssuers
  <2> HIDE DEF c
  <2>3. AskedOf(c, Canonical)
    BY <1>1, <1>2, <1>4, <2>1 DEF AskedOf, ReadingStages
  <2>4. AllKnown(c)
    BY <1>1, <1>2, <2>1, <2>2 DEF AllKnown, ReadingStages
  <2>. QED BY <1>3, <2>3, <2>4, BecomesKeeps
<1>9. CASE ReadDigests \/ ReadSignals
  <2>1. /\ client.at \in {"digests", "signals"} /\ c.at \in {"signals", "payload"}
        /\ c.articles = client.articles
        /\ c.companies = client.companies /\ c.links = client.links
    BY <1>1, <1>9, NobodyIs DEF ReadDigests, ReadSignals, Reading
  <2> HIDE DEF c
  <2>2. AskedOf(c, Canonical)
    BY <1>1, <1>2, <1>4, <2>1 DEF AskedOf, ReadingStages
  <2>3. AllKnown(c)
    BY <1>1, <1>2, <2>1 DEF AllKnown, ReadingStages
  <2>. QED BY <1>3, <2>2, <2>3, BecomesKeeps
<1>. QED BY <1>5, <1>6, <1>7, <1>8, <1>9

-----------------------------------------------------------------------------
(* An answer.                                                              *)

\* The pages go on after the rows that are shown.
LEMMA ShowIs ==
    ASSUME NEW rows, DOMAIN client = DOMAIN Nobody, Show(rows)
    PROVE  LET c == client'
               next == client.offset + Limit
               last == Endpoint.most = 0 \/ next >= Len(rows)
           IN  /\ DOMAIN c = DOMAIN Nobody /\ c.question = client.question /\ c.owed = client.owed
               /\ c.at = IF last THEN "answered" ELSE "asked"
               /\ c.offset = IF last THEN client.offset ELSE next
               /\ c.listed = client.listed \cup
                     (IF Endpoint.most = 0 THEN {rows[i] : i \in DOMAIN rows}
                      ELSE {rows[i] : i \in DOMAIN rows \cap (client.offset + 1)..next})
  BY NobodyIs DEF Show, ShowPage, PageOf, ToSet

\* The articles that a client has read, as they are shown.
RowsRead(c) == [i \in DOMAIN c.articles |-> ArticleShown(c, c.articles[i])]

\* A page brings what is owed and follows within it, and leaves the rest
\* ahead.
LEMMA PageKeepsOwed ==
    ASSUME NEW S \in SUBSET Canonical, client.articles = NewestFirst(S), Ahead(client, S),
           AskedOf(client, Canonical), client.at = "payload", client.owed # {},
           Show(Matching(Endpoint, client.question.asked, RowsRead(client)))
    PROVE  /\ client'.at = "answered" => client.owed \subseteq ListedIds(client')
           /\ client'.at = "asked" => Ahead(client', S)
           /\ client'.offset \in Nat
<1> DEFINE asked == client.question.asked
           rows == RowsRead(client)
           good == FitsAmong(client.question, S)
           places == PlacesOf(Endpoint, asked, rows)
           matching == Matching(Endpoint, asked, rows)
           next == client.offset + Limit
<1>1. /\ Endpoint = NewsPaths.articles /\ Endpoint.most = 100 /\ Endpoint.usual = 20
      /\ client.question \in Questions /\ Lasting(client.question)
      /\ DOMAIN client = DOMAIN Nobody /\ client.offset \in Nat
      /\ client.question.limit \in 0..NewsPaths["articles"].most
  BY OwedByArticles DEF AskedOf, Endpoint, ReadingStages
<1>2. Limit \in Nat /\ next \in Nat
  BY <1>1, NewsAre DEF Limit
<1>3. S \in SUBSET Int /\ IsFiniteSet(S) /\ good \in SUBSET S
  <2>1. S \subseteq NewsArticles
    BY DEF Canonical
  <2>2. IsFiniteSet(S)
    BY <2>1, ApiAssumption, FS_Subset
  <2>3. S \in SUBSET Int
    BY <2>1, DatabaseAssumption
  <2>4. good \in SUBSET S
    BY DEF FitsAmong
  <2>. QED BY <2>2, <2>3, <2>4
<1>4. "as_of" \notin DOMAIN asked
  BY <1>1 DEF Lasting, LastingFilters
<1>5. /\ DOMAIN rows = 1..Cardinality(S) /\ Cardinality(S) \in Nat
      /\ \A i \in DOMAIN rows : /\ client.articles[i] \in S
                                /\ rows[i] = ArticleShown(client, client.articles[i])
  BY <1>3, NewestFirstIs, FS_CardinalityType DEF RowsRead
<1> HIDE DEF rows, good, next
<1>6. places = {i \in DOMAIN client.articles : client.articles[i] \in good}
  <2>1. DOMAIN rows = DOMAIN client.articles
    BY DEF rows, RowsRead
  <2>2. ASSUME NEW i \in DOMAIN rows
        PROVE  Matches(Endpoint, asked, rows[i]) <=> client.articles[i] \in good
    BY <1>1, <1>5, FitsShown DEF good, FitsAmong
  <2>. QED BY <2>1, <2>2 DEF PlacesOf
<1>7. /\ places \in SUBSET Int /\ IsFiniteSet(places) /\ Cardinality(places) \in Nat
      /\ DOMAIN matching = 1..Cardinality(places) /\ Len(matching) = Cardinality(places)
      /\ \A k \in DOMAIN matching :
            Nth(places, k) \in places /\ matching[k] = rows[Nth(places, k)]
  <2>1. PICK n \in Nat : DOMAIN rows = 1..n
    BY <1>5
  <2> DEFINE endpoint == Endpoint
  <2>2. "as_of" \notin DOMAIN asked
    BY <1>4
  <2> HIDE DEF asked, endpoint
  <2>. QED BY <2>2, <2>1, MatchingIs
<1> HIDE DEF places, matching
\* The place of an article that is owed among the rows.
<1>8. ASSUME NEW a \in client.owed
      PROVE  LET r == Cardinality(From(good, a))
             IN  /\ r \in DOMAIN matching /\ matching[r].article_id = a
                 /\ a \in ListedIds(client) \/ r > client.offset
  <2> DEFINE r == Cardinality(From(good, a))
             p == Place(S, a)
  <2>1. a \in good /\ (a \in ListedIds(client) \/ r > client.offset)
    BY DEF Ahead, good
  <2>2. p \in places /\ RankIn(places, p) = r
    BY <1>3, <1>6, <2>1, PlacesAmong
  <2>3. r \in DOMAIN matching /\ Nth(places, r) = p
    <3> HIDE DEF p, r
    <3>1. RankIn(places, p) \in 1..Cardinality(places) /\ Nth(places, RankIn(places, p)) = p
      BY <1>7, <2>2, RankGrows, NthOfRank
    <3>. QED BY <1>7, <2>2, <3>1
  <2>4. client.articles[p] = a /\ p \in DOMAIN rows
    BY <1>3, <1>5, <2>1, NewestFirstIs
  <2>5. matching[r] = ArticleShown(client, a)
    BY <1>5, <1>7, <2>3, <2>4
  <2>6. matching[r].article_id = a
    BY <2>5 DEF ArticleShown
  <2>. QED BY <2>1, <2>3, <2>6
<1>9. /\ client'.question = client.question /\ client'.owed = client.owed
      /\ client'.at = IF next >= Len(matching) THEN "answered" ELSE "asked"
      /\ client'.offset = IF next >= Len(matching) THEN client.offset ELSE next
      /\ client'.listed = client.listed \cup
            {matching[i] : i \in DOMAIN matching \cap (client.offset + 1)..next}
  BY <1>1, ShowIs DEF matching, next, rows
<1>10. ASSUME NEW a \in client.owed
       PROVE  a \in ListedIds(client') \/ Cardinality(From(good, a)) > next
  <2> DEFINE r == Cardinality(From(good, a))
  <2>1. r \in DOMAIN matching /\ matching[r].article_id = a /\ r \in Nat
    BY <1>7, <1>8
  <2>2. CASE a \in ListedIds(client)
    BY <1>9, <2>2 DEF ListedIds
  <2>3. CASE r > client.offset /\ r <= next
    <3>1. r \in (client.offset + 1)..next
      BY <1>1, <1>2, <2>1, <2>3
    <3>2. matching[r] \in client'.listed
      BY <1>9, <2>1, <3>1
    <3>. QED BY <2>1, <3>2 DEF ListedIds
  <2>4. CASE r > next
    BY <2>4
  <2>5. r > next \/ r <= next
    BY <1>2, <2>1
  <2>. QED BY <1>8, <2>2, <2>3, <2>4, <2>5
<1>11. CASE next >= Len(matching)
  <2>1. ASSUME NEW a \in client.owed PROVE a \in ListedIds(client')
    <3>1. Cardinality(From(good, a)) \in 1..Cardinality(places)
      BY <1>7, <1>8
    <3>2. ~(Cardinality(From(good, a)) > next)
      BY <1>2, <1>7, <1>11, <3>1
    <3>. QED BY <1>10, <3>2
  <2>2. client'.at = "answered" /\ client'.offset = client.offset
    BY <1>9, <1>11
  <2>. QED BY <1>1, <2>1, <2>2
<1>12. CASE ~(next >= Len(matching))
  <2>1. client'.at = "asked" /\ client'.offset = next
    BY <1>9, <1>12
  <2>2. Ahead(client', S)
    BY <1>9, <1>10, <2>1 DEF Ahead, good
  <2>. QED BY <1>2, <2>1, <2>2
<1>. QED BY <1>11, <1>12

\* An answer from the articles that a client has read names companies that
\* it knows.
LEMMA PageKnows ==
    ASSUME NEW S \in SUBSET Canonical, client.articles = NewestFirst(S), AllKnown(client),
           AskedOf(client, Canonical), client.at = "payload", Endpoint.section = "articles",
           Show(Matching(Endpoint, client.question.asked, RowsRead(client)))
    PROVE  \A row \in client'.listed : UnknownTicker \notin row.tickers
<1> DEFINE asked == client.question.asked
           rows == RowsRead(client)
           places == PlacesOf(Endpoint, asked, rows)
           matching == Matching(Endpoint, asked, rows)
<1>1. /\ client.question \in Questions /\ DOMAIN client = DOMAIN Nobody
      /\ client.companies = Issuers /\ \A a \in NewsArticles : client.links[a] \subseteq Issuers
      /\ \A row \in client.listed : UnknownTicker \notin row.tickers
  BY DEF AskedOf, AllKnown, Endpoint, ReadingStages
<1>2. "as_of" \notin DOMAIN asked
  <2>1. client.question.path \in DOMAIN Endpoints /\ client.question.path \in ArticlePaths
    BY <1>1, ApiAssumption, ArticleEndpoints DEF Endpoint
  <2>2. "as_of" \notin DOMAIN Endpoints[client.question.path].filters
    BY <2>1, ArticleEndpoints, NewsAre DEF ArticlePaths
  <2>. QED BY <1>1, <2>2, ApiAssumption
<1>3. S \in SUBSET Int /\ IsFiniteSet(S) /\ S \subseteq NewsArticles
  <2>1. S \subseteq NewsArticles
    BY DEF Canonical
  <2>2. IsFiniteSet(S)
    BY <2>1, ApiAssumption, FS_Subset
  <2>. QED BY <2>1, <2>2, DatabaseAssumption
<1>4. /\ DOMAIN rows = 1..Cardinality(S) /\ Cardinality(S) \in Nat
      /\ \A i \in DOMAIN rows : /\ client.articles[i] \in S
                                /\ rows[i] = ArticleShown(client, client.articles[i])
  BY <1>3, NewestFirstIs, FS_CardinalityType DEF RowsRead
<1> HIDE DEF rows
<1>5. ASSUME NEW i \in DOMAIN rows PROVE UnknownTicker \notin rows[i].tickers
  <2> DEFINE a == client.articles[i]
  <2>1. a \in NewsArticles
    BY <1>3, <1>4
  <2>2. rows[i].tickers = {IF issuer \in Issuers THEN issuer ELSE UnknownTicker :
                              issuer \in client.links[a]}
    BY <1>1, <1>4 DEF ArticleShown
  <2>3. client.links[a] \subseteq Issuers
    BY <1>1, <2>1
  <2>. QED BY <2>2, <2>3, ApiAssumption
<1>6. \A k \in DOMAIN matching : \E i \in DOMAIN rows : matching[k] = rows[i]
  <2>1. PICK n \in Nat : DOMAIN rows = 1..n
    BY <1>4
  <2> DEFINE endpoint == Endpoint
  <2>2. "as_of" \notin DOMAIN asked
    BY <1>2
  <2> HIDE DEF asked, endpoint
  <2> HIDE DEF matching
  <2>3. places \subseteq DOMAIN rows
    BY DEF PlacesOf
  <2> HIDE DEF places
  <2>4. \A k \in DOMAIN matching : Nth(places, k) \in places /\ matching[k] = rows[Nth(places, k)]
    BY <2>1, <2>2, MatchingIs DEF matching, places
  <2>. QED BY <2>3, <2>4
<1>7. ASSUME NEW row \in client'.listed
      PROVE  row \in client.listed \/ \E k \in DOMAIN matching : row = matching[k]
  <2> HIDE DEF matching
  <2>. QED BY <1>1, ShowIs DEF matching, rows
<1>. QED BY <1>1, <1>5, <1>6, <1>7

LEMMA AnswerKeeps ==
    ASSUME ApiInv, Answer
    PROVE  ApiInv'
<1> DEFINE c == client'
           shown == Matching(Endpoint, client.question.asked,
                             PayloadSection(client, Endpoint.section))
<1>1. /\ AskedOf(client, Canonical) /\ AllKnown(client) /\ DOMAIN client = DOMAIN Nobody
      /\ client.at = "payload"
  BY DEF ApiInv, AskedOf, Answer
<1>2. \/ c = [client EXCEPT !.at = "not found"]
      \/ Show(shown)
  BY DEF Answer, AnswerFrom
<1>3. Becomes(c)
  BY DEF Answer, AnswerFrom, Becomes
<1>4. CASE c = [client EXCEPT !.at = "not found"]
  <2>1. /\ DOMAIN c = DOMAIN Nobody /\ c.at = "not found" /\ c.question = client.question
        /\ c.owed = client.owed /\ c.offset = client.offset /\ c.listed = client.listed
    BY <1>1, <1>4, NobodyIs
  <2> HIDE DEF c
  <2>2. AskedOf(c, Canonical) /\ AllKnown(c)
    BY <1>1, <2>1 DEF AskedOf, AllKnown, ReadingStages
  <2>. QED BY <1>3, <2>2, BecomesKeeps
<1>5. CASE Show(shown)
  <2>1. PICK S \in SUBSET Canonical : client.articles = NewestFirst(S) /\ Ahead(client, S)
    BY <1>1 DEF AskedOf, ReadingStages
  <2>2. /\ DOMAIN c = DOMAIN Nobody /\ c.question = client.question /\ c.owed = client.owed
        /\ c.at \in {"answered", "asked"}
    BY <1>1, <1>5, ShowIs
  <2>3. Endpoint.section = "articles" =>
            PayloadSection(client, Endpoint.section) = RowsRead(client)
    BY DEF PayloadSection, RowsRead
  <2>4. Endpoint.section = "articles" => \A row \in c.listed : UnknownTicker \notin row.tickers
    BY <1>1, <1>5, <2>1, <2>3, PageKnows
  <2>5. ASSUME c.owed # {}
        PROVE  /\ c.at = "answered" => c.owed \subseteq ListedIds(c)
               /\ c.at = "asked" => Ahead(c, Canonical)
               /\ c.offset \in Nat
    <3>1. Endpoint.section = "articles" /\ client.owed # {}
      BY <1>1, <2>2, <2>5, OwedByArticles DEF Endpoint
    <3>2. /\ c.at = "answered" => client.owed \subseteq ListedIds(c)
          /\ c.at = "asked" => Ahead(c, S)
          /\ c.offset \in Nat
      BY <1>1, <1>5, <2>1, <2>3, <3>1, PageKeepsOwed
    <3>3. c.at = "asked" => Ahead(c, Canonical)
      BY <3>2, AheadAmongMore DEF Canonical
    <3>. QED BY <2>2, <3>2, <3>3
  <2>6. c.owed = {} => Ahead(c, Canonical)
    BY DEF Ahead
  <2> HIDE DEF c
  <2>7. AskedOf(c, Canonical)
    BY <1>1, <2>2, <2>5, <2>6 DEF AskedOf, ReadingStages
  <2>8. AllKnown(c)
    BY <1>1, <2>2, <2>4 DEF AllKnown, ReadingStages, Endpoint
  <2>. QED BY <1>3, <2>7, <2>8, BecomesKeeps
<1>. QED BY <1>2, <1>4, <1>5

\* What is answered directly owes nothing.
LEMMA DirectAnswerKeeps ==
    ASSUME ApiInv, AnswerDirectly
    PROVE  ApiInv'
<1> DEFINE c == client'
           shown == Matching(Endpoint, client.question.asked, DirectSection(Endpoint.section))
<1>1. /\ AskedOf(client, Canonical) /\ AllKnown(client) /\ DOMAIN client = DOMAIN Nobody
      /\ client.at = "asked" /\ Endpoint.answer = "direct"
  BY DEF ApiInv, AskedOf, AnswerDirectly
<1>2. c = [client EXCEPT !.at = "not found"] \/ Show(shown)
  BY DEF AnswerDirectly, AnswerFrom
<1>3. Becomes(c)
  BY DEF AnswerDirectly, AnswerFrom, Becomes
<1>4. /\ DOMAIN c = DOMAIN Nobody /\ c.question = client.question /\ c.owed = client.owed
      /\ c.at \in {"answered", "asked", "not found"}
  <2>1. CASE c = [client EXCEPT !.at = "not found"]
    BY <1>1, <2>1, NobodyIs
  <2>2. CASE Show(shown)
    BY <1>1, <2>2, ShowIs
  <2>. QED BY <1>2, <2>1, <2>2
<1>5. client.owed = {}
  BY <1>1, OwedByArticles DEF Endpoint
<1>6. Endpoints[client.question.path].section # "articles"
  <2>1. client.question.path \in DOMAIN Endpoints
    BY <1>1, ApiAssumption DEF AskedOf
  <2>2. ASSUME Endpoints[client.question.path].section = "articles" PROVE FALSE
    <3>1. client.question.path \in ArticlePaths
      BY <2>1, <2>2, ArticleEndpoints
    <3>2. Endpoints[client.question.path] = NewsPaths[client.question.path]
      BY <2>1, <3>1, ArticleEndpoints, NewsAre DEF ArticlePaths
    <3>3. Endpoint.answer = "payload"
      BY <3>1, <3>2, NewsAre DEF Endpoint
    <3>. QED BY <1>1, <3>3
  <2>. QED BY <2>2
<1> HIDE DEF c
<1>7. AskedOf(c, Canonical) /\ AllKnown(c)
  BY <1>1, <1>4, <1>5, <1>6 DEF AskedOf, AllKnown, ReadingStages, Ahead
<1>. QED BY <1>3, <1>7, BecomesKeeps

LEMMA ApiStarts ==
    ASSUME DatabaseInit, ApiInit
    PROVE  ApiInv
<1>1. client = Nobody
  BY DEF ApiInit
<1>2. AskedOf(client, Canonical) /\ AllKnown(client)
  BY <1>1, NobodyIs DEF AskedOf, AllKnown, ReadingStages
<1>. QED BY <1>2, DatabaseStarts DEF ApiInv

LEMMA ApiSteps ==
    ASSUME ApiInv, [ReadNext]_readVars
    PROVE  ApiInv'
<1>1. CASE UNCHANGED readVars
  BY <1>1, CommandsKeepApi DEF readVars, apiVars
<1>2. CASE DatabaseNext /\ UNCHANGED apiVars
  BY <1>2, CommandsKeepApi DEF apiVars
<1>3. CASE AskAny
  BY <1>3, AskKeeps DEF AskAny
<1>4. CASE RefuseLimit \/ AccountingRefuses \/ AskAgain
  BY <1>4, RefusalKeeps
<1>5. CASE \/ ReadAccounting \/ ReadArticles \/ ReadCompanies
           \/ ReadLinks \/ ReadDigests \/ ReadSignals
  BY <1>5, ReadingKeeps
<1>6. CASE Answer
  BY <1>6, AnswerKeeps
<1>7. CASE AnswerDirectly
  BY <1>7, DirectAnswerKeeps
<1>. QED BY <1>1, <1>2, <1>3, <1>4, <1>5, <1>6, <1>7 DEF ReadNext, Request

LEMMA ApiInvIsSound == ApiInv => PagesMissNothing /\ TickersAreKnown /\ DatabaseRowsSound
<1> SUFFICES ASSUME ApiInv PROVE PagesMissNothing /\ TickersAreKnown /\ DatabaseRowsSound
  OBVIOUS
<1>1. PagesMissNothing
  BY DEF ApiInv, AskedOf, PagesMissNothing, ListedIds
<1>2. TickersAreKnown
  BY DEF ApiInv, AllKnown, TickersAreKnown, Endpoint
<1>3. DatabaseRowsSound
  BY DatabaseInvIsSound DEF ApiInv
<1>. QED BY <1>1, <1>2, <1>3

\* Whatever commands commit between the requests of a client and between the
\* statements of one request: who follows the pages of the articles to the
\* last is shown every article that was there at the first and that matches,
\* by any filters on what is never written again, and no answer names a
\* company that is not known.
THEOREM ApiHolds == ReadSpec => [](PagesMissNothing /\ TickersAreKnown)
<1>1. DatabaseInit /\ ApiInit => ApiInv
  BY ApiStarts
<1>2. ApiInv /\ [ReadNext]_readVars => ApiInv'
  BY ApiSteps
<1>. QED BY <1>1, <1>2, ApiInvIsSound, PTL DEF ReadSpec

-----------------------------------------------------------------------------
(* Types, and the locks on rows.                                           *)

RunRows == {RunRow(v) : v \in Workers}

\* The companies that have been loaded are the first of their file.
CompaniesUpTo(n) == {CompaniesFile[i] : i \in 1..n}
FirstCompanies(S) == \E n \in 0..Len(CompaniesFile) : S = CompaniesUpTo(n)

RecordTyped(r) ==
    /\ r.at \in Stages
    /\ r.pending \in (Rows \ RunRows) \cup {Absent}
    /\ r.at \in {"registry", "companies"} => FirstCompanies(r.known)
    /\ r.dates \subseteq MarketDates
    /\ r.at \in DigestStages \cup SignalStages => r.dates # {}

\* A row that is written is locked; the row of a run is its own worker's.
RowsLocked ==
    /\ \A w \in Workers : DOMAIN writes[w] \subseteq Rows
    /\ \A w \in Workers : worker[w].at = "idle" => writes[w] = <<>>
    /\ \A w, v \in Workers : w # v => DOMAIN writes[w] \cap DOMAIN writes[v] = {}
    /\ \A w, v \in Workers : RunRow(v) \in DOMAIN writes[w] => v = w

DatabaseTyped ==
    /\ \A w \in Workers : RecordTyped(worker[w])
    /\ RowsLocked
    /\ begun \in 0..MaxDatabaseCommands /\ stopped \in 0..MaxStops

LEMMA FreshTyped == RecordTyped(Fresh)
  BY FreshBacked DEF RecordTyped, Stages, DigestStages, SignalStages, Fresh

\* A step of w alone, that locks at most one row or lets all of its rows go.
LEMMA LocalTyped ==
    ASSUME DatabaseInv, DatabaseTyped, NEW w \in Workers, Local(w), RecordTyped(worker'[w]),
           \/ writes'[w] = <<>>
           \/ /\ worker'[w].at # "idle"
              /\ \/ DOMAIN writes'[w] = DOMAIN writes[w]
                 \/ \E row \in Rows : /\ DOMAIN writes'[w] = {row} \cup DOMAIN writes[w]
                                      /\ ~Held(w, row)
                                      /\ \A v \in Workers : row = RunRow(v) => v = w,
           begun' \in 0..MaxDatabaseCommands, stopped' \in 0..MaxStops
    PROVE  DatabaseTyped'
<1>1. \A v \in Workers : RecordTyped(worker[v])'
  BY DEF DatabaseTyped, Local, RecordTyped
<1>2. RowsLocked'
  <2>0. \A v \in Workers : v # w => writes'[v] = writes[v] /\ worker'[v] = worker[v]
    BY DEF Local
  <2>1. CASE writes'[w] = <<>>
    <3>1. DOMAIN writes'[w] = {}
      BY <2>1
    <3>. QED BY <2>0, <2>1, <3>1 DEF DatabaseTyped, RowsLocked
  <2>2. CASE worker'[w].at # "idle" /\ DOMAIN writes'[w] = DOMAIN writes[w]
    BY <2>0, <2>2 DEF DatabaseTyped, RowsLocked
  <2>3. ASSUME worker'[w].at # "idle", NEW row \in Rows,
               DOMAIN writes'[w] = {row} \cup DOMAIN writes[w], ~Held(w, row),
               \A v \in Workers : row = RunRow(v) => v = w
        PROVE  RowsLocked'
    <3>1. \A v \in Workers : v # w => row \notin DOMAIN writes[v]
      BY <2>3 DEF Held
    <3>. QED BY <2>0, <2>3, <3>1 DEF DatabaseTyped, RowsLocked
  <2>. QED BY <2>1, <2>2, <2>3
<1>. QED BY <1>1, <1>2 DEF DatabaseTyped

LEMMA RolledBackTyped ==
    ASSUME DatabaseInv, DatabaseTyped, NEW w \in Workers, Rollback(w), stopped' \in 0..MaxStops
    PROVE  DatabaseTyped'
<1>1. Local(w) /\ worker'[w] = Fresh /\ writes'[w] = <<>> /\ begun' = begun
  BY DEF Rollback, DatabaseInv, Local
<1>. QED BY <1>1, FreshTyped, LocalTyped DEF DatabaseTyped

\* A step that only reads, and goes on as r.
LEMMA ReadsTyped ==
    ASSUME DatabaseInv, DatabaseTyped, NEW w \in Workers, NEW r, Reads,
           worker' = [worker EXCEPT ![w] = r], RecordTyped(r), r.at # "idle"
    PROVE  DatabaseTyped'
<1>1. Local(w) /\ worker'[w] = r /\ writes'[w] = writes[w] /\ begun' = begun /\ stopped' = stopped
  BY DEF DatabaseInv, Local, Reads
<1>. QED BY <1>1, LocalTyped DEF DatabaseTyped

LEMMA LookTyped ==
    ASSUME DatabaseInv, DatabaseTyped, NEW w \in Workers, NEW row \in Rows \ RunRows,
           NEW replaces, Look(w, row, replaces), worker[w].at # "idle"
    PROVE  DatabaseTyped'
<1> DEFINE r == [worker[w] EXCEPT !.pending = row, !.overtaken = FALSE, !.found = Sees(w, row)]
<1>1. worker' = [worker EXCEPT ![w] = r]
  BY WorkerKnows, FreshBacked DEF Look
<1>2. /\ r.at = worker[w].at /\ r.known = worker[w].known /\ r.dates = worker[w].dates
      /\ r.pending = row
  BY WorkerKnows, FreshBacked
<1> HIDE DEF r
<1>3. RecordTyped(r)
  BY <1>2 DEF DatabaseTyped, RecordTyped
<1>4. \A v \in Workers : row # RunRow(v)
  BY DEF RunRows
<1>5. DOMAIN writes = Workers /\ DOMAIN worker = Workers
  BY WorkerKnows
<1>6. CASE writes' = writes
  <2>1. Local(w) /\ worker'[w] = r
    BY <1>1, <1>5, <1>6 DEF Local, Look
  <2>. QED BY <1>2, <1>3, <1>6, <2>1, LocalTyped DEF DatabaseTyped, Look
<1>7. CASE ~Held(w, row) /\ writes' = WriteRow(w, row, Sees(w, row))
  <2> DEFINE after == WriteRow(w, row, Sees(w, row))
  <2>1. /\ DOMAIN after = Workers /\ DOMAIN after[w] = {row} \cup DOMAIN writes[w]
        /\ \A v \in Workers \ {w} : after[v] = writes[v]
    BY WriteRowIs
  <2>2. writes' = after /\ database' = database
    BY <1>7 DEF Look
  <2> HIDE DEF after
  <2>3. Local(w) /\ worker'[w] = r /\ DOMAIN writes'[w] = {row} \cup DOMAIN writes[w]
    BY <1>1, <1>5, <2>1, <2>2 DEF Local
  <2>. QED BY <1>2, <1>3, <1>4, <1>7, <2>3, LocalTyped DEF DatabaseTyped, Look
<1>. QED BY <1>6, <1>7 DEF Look

\* A record that a statement leaves when it is done.
StageTyped(r) ==
    /\ DOMAIN r = DOMAIN Fresh /\ r.at \in Stages \ {"idle"}
    /\ r.at \in {"registry", "companies"} => FirstCompanies(r.known)
    /\ r.dates \subseteq MarketDates
    /\ r.at \in DigestStages \cup SignalStages => r.dates # {}

LEMMA LookedTyped ==
    ASSUME NEW r, StageTyped(r)
    PROVE  RecordTyped(Looked(r)) /\ Looked(r).at # "idle"
  BY LookedIs DEF StageTyped, RecordTyped

LEMMA WriteTyped ==
    ASSUME DatabaseInv, DatabaseTyped, NEW w \in Workers, NEW row \in Rows \ RunRows,
           NEW value, NEW inserts, NEW r, StageTyped(r), Write(w, row, value, inserts, r)
    PROVE  DatabaseTyped'
<1>1. CASE inserts /\ worker[w].overtaken
  BY <1>1, RolledBackTyped DEF Write, DatabaseTyped
<1>2. CASE ~(inserts /\ worker[w].overtaken)
  <2>1. /\ DOMAIN writes = Workers /\ DOMAIN worker = Workers /\ ~Held(w, row)
        /\ writes' = WriteRow(w, row, value) /\ worker' = [worker EXCEPT ![w] = Looked(r)]
        /\ database' = database /\ begun' = begun /\ stopped' = stopped
    BY <1>2, WorkerKnows DEF Write
  <2>2. /\ Local(w) /\ worker'[w] = Looked(r)
        /\ DOMAIN writes'[w] = {row} \cup DOMAIN writes[w]
    BY <2>1, WriteRowIs DEF Local
  <2>3. \A v \in Workers : row # RunRow(v)
    BY DEF RunRows
  <2>. QED BY <2>1, <2>2, <2>3, LookedTyped, LocalTyped DEF DatabaseTyped
<1>. QED BY <1>1, <1>2

LEMMA AddRowTyped ==
    ASSUME DatabaseInv, DatabaseTyped, NEW w \in Workers, NEW row \in Rows \ RunRows,
           NEW value, NEW r, StageTyped(r), AddRow(w, row, value, r), worker[w].at # "idle"
    PROVE  DatabaseTyped'
<1>1. CASE Look(w, row, FALSE)
  BY <1>1, LookTyped
<1>2. CASE Write(w, row, value, TRUE, r)
  BY <1>2, WriteTyped
<1>3. CASE worker' = [worker EXCEPT ![w] = Looked(r)] /\ Reads
  BY <1>3, LookedTyped, ReadsTyped
<1>. QED BY <1>1, <1>2, <1>3 DEF AddRow

LEMMA ReplaceRowTyped ==
    ASSUME DatabaseInv, DatabaseTyped, NEW w \in Workers, NEW row \in Rows \ RunRows,
           NEW value, NEW r, StageTyped(r), ReplaceRow(w, row, value, r), worker[w].at # "idle"
    PROVE  DatabaseTyped'
  BY LookTyped, WriteTyped DEF ReplaceRow

LEMMA UpsertRowTyped ==
    ASSUME DatabaseInv, DatabaseTyped, NEW w \in Workers, NEW row \in Rows \ RunRows,
           NEW value, NEW r, StageTyped(r), UpsertRow(w, row, value, r), worker[w].at # "idle"
    PROVE  DatabaseTyped'
<1>1. CASE Look(w, row, FALSE)
  BY <1>1, LookTyped
<1>2. CASE Write(w, row, value, TRUE, r)
  BY <1>2, WriteTyped
<1>3. CASE Write(w, row, Updated(worker[w].found, Sees(w, row), value), FALSE, r)
  BY <1>3, WriteTyped
<1>. QED BY <1>1, <1>2, <1>3 DEF UpsertRow

LEMMA LockableRows ==
    /\ Registry \in Rows \ RunRows /\ Dataset \in Rows \ RunRows /\ Official \in Rows \ RunRows
    /\ \A c \in Issuers : CompanyRow(c) \in Rows \ RunRows
    /\ \A a \in NewsArticles : AnalysisRow(a) \in Rows \ RunRows
    /\ \A r \in NewsArticles \cup InvalidRecords : RecordRow(r) \in Rows \ RunRows
    /\ \A d \in MarketDates : DigestRow(d) \in Rows \ RunRows
    /\ \A d \in MarketDates, c \in Issuers : SignalRow(d, c) \in Rows \ RunRows
<1>1. \A row \in RunRows : row[1] = "pipeline_runs"
  BY DEF RunRows, RunRow
<1>2. \A a \in NewsArticles : ArticleRow(a) \in Rows \ RunRows
  BY <1>1, RowsAreRows DEF ArticleRow
<1>3. \A r \in InvalidRecords : RejectionRow(r) \in Rows \ RunRows
  BY <1>1, RowsAreRows DEF RejectionRow
<1>4. \A r \in NewsArticles \cup InvalidRecords : RecordRow(r) \in Rows \ RunRows
  BY <1>2, <1>3 DEF RecordRow
<1>. QED BY <1>1, <1>4, RowsAreRows DEF Registry, Dataset, Official, CompanyRow, AnalysisRow,
            DigestRow, SignalRow

\* The first of some dates is one of them.
LEMMA FirstIsOne ==
    ASSUME NEW dates \in SUBSET MarketDates, dates # {}
    PROVE  First(dates) \in dates
<1>1. MarketDates \in SUBSET Int /\ IsFiniteSet(MarketDates)
  <2>1. IsFiniteSet(NewsArticles) /\ MarketDate \in [NewsArticles -> Int]
    BY ApiAssumption, DatabaseAssumption
  <2> DEFINE T == MarketDates
  <2>2. MarketDate \in Surjection(NewsArticles, T)
    BY <2>1 DEF MarketDates, Surjection
  <2>3. IsFiniteSet(T)
    <3> HIDE DEF T
    <3>. QED BY <2>1, <2>2, FS_Surjection
  <2>. QED BY <2>1, <2>3 DEF MarketDates
<1>2. IsFiniteSet(dates) /\ dates \in SUBSET Int
  BY <1>1, FS_Subset
<1>3. Cardinality(dates) \in Nat /\ Cardinality(dates) # 0
  BY <1>2, FS_CardinalityType, FS_EmptySet
<1>4. 1 \in 1..Cardinality(dates)
  BY <1>3
<1> DEFINE d == Nth(dates, 1)
<1>5. d \in dates /\ RankIn(dates, d) = 1
  BY <1>2, <1>4, RankOfNth
<1> HIDE DEF d
<1>6. \A e \in dates : d <= e
  <2> SUFFICES ASSUME NEW e \in dates, e < d PROVE FALSE
    BY <1>2, <1>5
  <2>1. RankIn(dates, e) < 1 /\ RankIn(dates, e) \in 1..Cardinality(dates)
    BY <1>2, <1>5, RankGrows
  <2>. QED BY <1>3, <2>1
<1>. QED BY <1>5, <1>6 DEF First

\* While companies are missing, the next of the file is one that is missing.
LEMMA NextCompanyIs ==
    ASSUME NEW w \in Workers, FirstCompanies(worker[w].known), worker[w].known # Issuers
    PROVE  /\ NextCompany(w) \in Issuers
           /\ FirstCompanies(worker[w].known \cup {NextCompany(w)})
<1>1. PICK n \in 0..Len(CompaniesFile) : worker[w].known = CompaniesUpTo(n)
  BY DEF FirstCompanies
<1>2. /\ Len(CompaniesFile) \in Nat /\ DOMAIN CompaniesFile = 1..Len(CompaniesFile)
      /\ \A i, j \in DOMAIN CompaniesFile : CompaniesFile[i] = CompaniesFile[j] => i = j
  BY DatabaseAssumption
<1>3. n # Len(CompaniesFile)
  <2>1. CompaniesUpTo(Len(CompaniesFile)) = Issuers
    BY <1>2 DEF Issuers, CompaniesUpTo
  <2>. QED BY <1>1, <2>1
<1>4. n + 1 \in 1..Len(CompaniesFile) /\ n \in Nat
  <2> DEFINE len == Len(CompaniesFile)
  <2>1. len \in Nat /\ n \in 0..len /\ n # len
    BY <1>2, <1>3
  <2> HIDE DEF len
  <2>2. n + 1 \in 1..len /\ n \in Nat
    BY <2>1
  <2>. QED BY <2>2 DEF len
<1>5. Cardinality(worker[w].known) = n
  <2> DEFINE f == [i \in 1..n |-> CompaniesFile[i]]
             known == worker[w].known
  <2>1. IsFiniteSet(1..n) /\ Cardinality(1..n) = n
    BY <1>4, FS_Interval
  <2>2. 1..n \subseteq DOMAIN CompaniesFile
    BY <1>2, <1>4
  <2>3. /\ f \in [1..n -> known]
        /\ \A i, j \in 1..n : f[i] = f[j] => i = j
        /\ \A c \in known : \E i \in 1..n : f[i] = c
    BY <1>1, <1>2, <2>2 DEF CompaniesUpTo
  <2> HIDE DEF f, known
  <2>4. f \in Bijection(1..n, known)
    BY <2>3 DEF Bijection, Injection, Surjection, IsInjective
  <2>5. Cardinality(known) = n
    <3>1. ExistsBijection(1..n, known)
      BY <2>4 DEF ExistsBijection
    <3>2. Cardinality(known) = Cardinality(1..n)
      BY <2>1, <3>1, FS_Bijection
    <3>. QED BY <2>1, <3>2
  <2>. QED BY <2>5 DEF known
<1>6. NextCompany(w) = CompaniesFile[n + 1]
  BY <1>5 DEF NextCompany
<1>7. worker[w].known \cup {NextCompany(w)} = CompaniesUpTo(n + 1)
  <2>1. 1..(n + 1) = 1..n \cup {n + 1}
    BY <1>4
  <2>. QED BY <1>1, <1>6, <2>1 DEF CompaniesUpTo
<1>8. NextCompany(w) \in Issuers
  BY <1>2, <1>4, <1>6 DEF Issuers
<1>9. n + 1 \in 0..Len(CompaniesFile)
  BY <1>2, <1>4
<1>. QED BY <1>7, <1>8, <1>9 DEF FirstCompanies

LEMMA WorkerTyped ==
    ASSUME DatabaseInv, DatabaseTyped, NEW w \in Workers
    PROVE  /\ RecordTyped(worker[w])
           /\ worker[w].at \in DigestStages \cup SignalStages =>
                 FirstDate(w) \in worker[w].dates /\ FirstDate(w) \in MarketDates
<1>1. RecordTyped(worker[w])
  BY DEF DatabaseTyped
<1>. QED BY <1>1, FirstIsOne DEF RecordTyped, First, FirstDate

LEMMA BeginTyped ==
    ASSUME DatabaseInv, DatabaseTyped, NEW w \in Workers, BeginAny(w)
    PROVE  DatabaseTyped'
<1>1. ASSUME NEW command, NEW stage, NEW batch, NEW dates \in SUBSET MarketDates,
             BeginCommand(w, command, stage, batch, dates),
             stage \in {"registry", "aliases", "digest", "signals"},
             stage \in {"digest", "signals"} => dates # {}
      PROVE  DatabaseTyped'
  <2> DEFINE r == [Fresh EXCEPT !.command = command, !.at = stage, !.batch = batch,
                                !.dates = dates]
  <2>1. r.at = stage /\ r.dates = dates /\ r.pending = Absent /\ r.known = {}
    BY FreshBacked DEF Fresh
  <2>2. FirstCompanies({})
    <3>1. CompaniesUpTo(0) = {}
      BY DEF CompaniesUpTo
    <3>2. 0 \in 0..Len(CompaniesFile)
      BY DatabaseAssumption
    <3>. QED BY <3>1, <3>2 DEF FirstCompanies
  <2>3. Local(w) /\ worker'[w] = r /\ writes' = writes
    BY <1>1, WorkerKnows DEF BeginCommand, Local
  <2> HIDE DEF r
  <2>4. RecordTyped(r) /\ r.at # "idle"
    BY <1>1, <2>1, <2>2 DEF RecordTyped, Stages, DigestStages, SignalStages
  <2>5. begun' \in 0..MaxDatabaseCommands /\ stopped' \in 0..MaxStops
    BY <1>1, DatabaseAssumption DEF BeginCommand, DatabaseTyped
  <2>. QED BY <2>3, <2>4, <2>5, LocalTyped
<1>2. CASE BeginStart(w)
  BY <1>1, <1>2 DEF BeginStart
<1>3. CASE BeginIngest(w)
  BY <1>1, <1>3 DEF BeginIngest
<1>4. CASE BeginProcess(w)
  BY <1>1, <1>4 DEF BeginProcess
<1>5. CASE BeginDigest(w)
  BY <1>1, <1>5 DEF BeginDigest
<1>6. CASE BeginSignals(w)
  BY <1>1, <1>6 DEF BeginSignals
<1>. QED BY <1>2, <1>3, <1>4, <1>5, <1>6 DEF BeginAny

\* The steps that write a row.
LEMMA WritingTyped ==
    ASSUME DatabaseInv, DatabaseTyped, NEW w \in Workers,
           \/ LoadRegistry(w) \/ LoadCompanies(w) \/ IngestRecord(w) \/ AnalyseArticle(w)
           \/ WriteDigest(w) \/ WriteSignal(w) \/ PersistDataset(w) \/ PersistOfficial(w)
    PROVE  DatabaseTyped'
<1>0. /\ RecordTyped(worker[w]) /\ DOMAIN worker[w] = DOMAIN Fresh /\ WorkerShape(worker[w])
      /\ ReadsBacked(SeenRows(w), worker[w])
  BY WorkerTyped, WorkerKnows
<1>1. CASE LoadRegistry(w)
  <2> DEFINE r == [worker[w] EXCEPT
                     !.at = IF worker[w].command = "start" THEN "companies" ELSE "records"]
  <2>1. /\ DOMAIN r = DOMAIN Fresh /\ r.at \in {"companies", "records"}
        /\ r.known = worker[w].known /\ r.dates = worker[w].dates
    BY <1>0, FreshBacked
  <2>2. worker[w].at = "registry" /\ AddRow(w, Registry, Present, r)
    BY <1>1 DEF LoadRegistry, WorkerAt
  <2> HIDE DEF r
  <2>3. StageTyped(r)
    BY <1>0, <2>1, <2>2 DEF StageTyped, RecordTyped, Stages, DigestStages, SignalStages
  <2>. QED BY <2>2, <2>3, LockableRows, AddRowTyped
<1>2. CASE LoadCompanies(w)
  <2>1. worker[w].at = "companies" /\ FirstCompanies(worker[w].known)
    BY <1>0, <1>2 DEF LoadCompanies, WorkerAt, RecordTyped
  <2>2. CASE /\ worker[w].known # Issuers
             /\ AddRow(w, CompanyRow(NextCompany(w)), Present,
                       [worker[w] EXCEPT !.known = @ \cup {NextCompany(w)}])
    <3> DEFINE c == NextCompany(w)
               r == [worker[w] EXCEPT !.known = @ \cup {c}]
    <3>1. c \in Issuers /\ FirstCompanies(worker[w].known \cup {c})
      BY <2>1, <2>2, NextCompanyIs
    <3>2. AddRow(w, CompanyRow(c), Present, r)
      BY <2>2
    <3> HIDE DEF c
    <3>3. /\ DOMAIN r = DOMAIN Fresh /\ r.at = worker[w].at
          /\ r.known = worker[w].known \cup {c} /\ r.dates = worker[w].dates
      BY <1>0, FreshBacked
    <3> HIDE DEF r
    <3>4. StageTyped(r)
      BY <1>0, <2>1, <3>1, <3>3 DEF StageTyped, RecordTyped, Stages, DigestStages, SignalStages
    <3>. QED BY <2>1, <3>1, <3>2, <3>4, LockableRows, AddRowTyped
  <2>3. CASE Stage(w, "records") /\ Reads
    <3> DEFINE r == [worker[w] EXCEPT !.at = "records", !.pending = Absent]
    <3>1. r.at = "records" /\ r.pending = Absent /\ r.dates = worker[w].dates
      BY <1>0, FreshBacked
    <3>2. worker' = [worker EXCEPT ![w] = r]
      BY <1>0, <2>3, FreshBacked DEF Stage
    <3> HIDE DEF r
    <3>3. RecordTyped(r)
      BY <1>0, <3>1 DEF RecordTyped, Stages, DigestStages, SignalStages
    <3>. QED BY <2>3, <3>1, <3>2, <3>3, ReadsTyped
  <2>. QED BY <1>2, <2>2, <2>3 DEF LoadCompanies
<1>3. CASE IngestRecord(w)
  <2>1. /\ worker[w].at = "records"
        /\ worker[w].batch \in Seq(NewsArticles \cup InvalidRecords)
    BY <1>0, <1>3 DEF IngestRecord, WorkerAt, WorkerShape
  <2>2. CASE /\ worker[w].batch # <<>>
             /\ LET record == Head(worker[w].batch)
                IN AddRow(w, RecordRow(record), RecordValue(w, record),
                          [worker[w] EXCEPT !.batch = Tail(@)])
    <3> DEFINE record == Head(worker[w].batch)
               r == [worker[w] EXCEPT !.batch = Tail(@)]
    <3>1. record \in NewsArticles \cup InvalidRecords
      BY <2>1, <2>2
    <3>2. AddRow(w, RecordRow(record), RecordValue(w, record), r)
      BY <2>2
    <3> HIDE DEF record
    <3>3. DOMAIN r = DOMAIN Fresh /\ r.at = worker[w].at /\ r.dates = worker[w].dates
      BY <1>0, FreshBacked
    <3> HIDE DEF r
    <3>4. StageTyped(r)
      BY <1>0, <2>1, <3>3 DEF StageTyped, RecordTyped, Stages, DigestStages, SignalStages
    <3>. QED BY <2>1, <3>1, <3>2, <3>4, LockableRows, AddRowTyped
  <2>3. CASE /\ Stage(w, IF worker[w].command = "start" THEN "accounting" ELSE "commit")
             /\ Reads
    <3> DEFINE stage == IF worker[w].command = "start" THEN "accounting" ELSE "commit"
               r == [worker[w] EXCEPT !.at = stage, !.pending = Absent]
    <3>1. /\ r.at \in {"accounting", "commit"} /\ r.pending = Absent
          /\ r.dates = worker[w].dates
      BY <1>0, FreshBacked
    <3>2. worker' = [worker EXCEPT ![w] = r]
      BY <1>0, <2>3, FreshBacked DEF Stage
    <3> HIDE DEF r
    <3>3. RecordTyped(r)
      BY <1>0, <3>1 DEF RecordTyped, Stages, DigestStages, SignalStages
    <3>. QED BY <2>3, <3>1, <3>2, <3>3, ReadsTyped
  <2>. QED BY <1>3, <2>2, <2>3 DEF IngestRecord
<1>4. CASE AnalyseArticle(w)
  <2>1. worker[w].at = "analyse" /\ worker[w].todo \subseteq NewsArticles
    BY <1>0, <1>4 DEF AnalyseArticle, WorkerAt, ReadsBacked
  <2>2. PICK a \in worker[w].todo :
           ReplaceRow(w, AnalysisRow(a), Mentioned[a] \cap worker[w].known,
                      [worker[w] EXCEPT !.todo = @ \ {a}])
    BY <1>4 DEF AnalyseArticle
  <2> DEFINE r == [worker[w] EXCEPT !.todo = @ \ {a}]
  <2>3. DOMAIN r = DOMAIN Fresh /\ r.at = worker[w].at /\ r.dates = worker[w].dates
    BY <1>0, FreshBacked
  <2>4. ReplaceRow(w, AnalysisRow(a), Mentioned[a] \cap worker[w].known, r)
    BY <2>2
  <2> HIDE DEF r
  <2>5. StageTyped(r)
    BY <1>0, <2>1, <2>3 DEF StageTyped, RecordTyped, Stages, DigestStages, SignalStages
  <2>. QED BY <2>1, <2>4, <2>5, LockableRows, ReplaceRowTyped
<1>5. CASE WriteDigest(w)
  <2>1. /\ worker[w].at = "digest row" /\ FirstDate(w) \in MarketDates
        /\ worker[w].dates # {} /\ worker[w].dates \subseteq MarketDates
    BY <1>0, <1>5, WorkerTyped DEF WriteDigest, WorkerAt, RecordTyped, DigestStages
  <2> DEFINE r == [worker[w] EXCEPT !.todo = {}, !.listed = {}, !.gathered = {},
                     !.at = IF worker[w].command = "start" THEN "signals" ELSE "commit"]
  <2>2. /\ DOMAIN r = DOMAIN Fresh /\ r.at \in {"signals", "commit"}
        /\ r.dates = worker[w].dates
    BY <1>0, FreshBacked
  <2>3. UpsertRow(w, DigestRow(FirstDate(w)), Derived(worker[w].gathered), r)
    BY <1>5 DEF WriteDigest
  <2> HIDE DEF r
  <2>4. StageTyped(r)
    BY <2>1, <2>2 DEF StageTyped, Stages, DigestStages, SignalStages
  <2>. QED BY <2>1, <2>3, <2>4, LockableRows, UpsertRowTyped
<1>6. CASE WriteSignal(w)
  <2>1. /\ worker[w].at = "signal rows" /\ FirstDate(w) \in MarketDates
        /\ worker[w].dates # {} /\ worker[w].dates \subseteq MarketDates
        /\ worker[w].todo \subseteq Issuers
    BY <1>0, <1>6, WorkerTyped DEF WriteSignal, WorkerAt, RecordTyped, SignalStages, ReadsBacked
  <2>2. PICK c \in worker[w].todo :
           UpsertRow(w, SignalRow(FirstDate(w), c),
                     Derived({pair \in worker[w].gathered : c \in pair[2]}),
                     [worker[w] EXCEPT !.todo = @ \ {c}])
    BY <1>6 DEF WriteSignal
  <2> DEFINE r == [worker[w] EXCEPT !.todo = @ \ {c}]
             value == Derived({pair \in worker[w].gathered : c \in pair[2]})
  <2>3. DOMAIN r = DOMAIN Fresh /\ r.at = worker[w].at /\ r.dates = worker[w].dates
    BY <1>0, FreshBacked
  <2>4. UpsertRow(w, SignalRow(FirstDate(w), c), value, r)
    BY <2>2
  <2> HIDE DEF r, value
  <2>5. StageTyped(r)
    BY <2>1, <2>3 DEF StageTyped, Stages, DigestStages, SignalStages
  <2>6. SignalRow(FirstDate(w), c) \in Rows \ RunRows
    BY <2>1, LockableRows
  <2>. QED BY <2>1, <2>4, <2>5, <2>6, UpsertRowTyped
<1>7. CASE PersistDataset(w)
  <2> DEFINE r == [worker[w] EXCEPT !.at = "official"]
  <2>1. DOMAIN r = DOMAIN Fresh /\ r.at = "official" /\ r.dates = worker[w].dates
    BY <1>0, FreshBacked
  <2>2. worker[w].at = "dataset" /\ ReplaceRow(w, Dataset, Present, r)
    BY <1>7 DEF PersistDataset, WorkerAt
  <2> HIDE DEF r
  <2>3. StageTyped(r)
    BY <1>0, <2>1 DEF StageTyped, RecordTyped, Stages, DigestStages, SignalStages
  <2>. QED BY <2>2, <2>3, LockableRows, ReplaceRowTyped
<1>8. CASE PersistOfficial(w)
  <2> DEFINE r == [worker[w] EXCEPT !.at = "commit"]
  <2>1. DOMAIN r = DOMAIN Fresh /\ r.at = "commit" /\ r.dates = worker[w].dates
    BY <1>0, FreshBacked
  <2>2. worker[w].at = "official" /\ AddRow(w, Official, Present, r)
    BY <1>8 DEF PersistOfficial, WorkerAt
  <2> HIDE DEF r
  <2>3. StageTyped(r)
    BY <1>0, <2>1 DEF StageTyped, RecordTyped, Stages, DigestStages, SignalStages
  <2>. QED BY <2>2, <2>3, LockableRows, AddRowTyped
<1>. QED BY <1>1, <1>2, <1>3, <1>4, <1>5, <1>6, <1>7, <1>8

LEMMA RecordRunTyped ==
    ASSUME DatabaseInv, DatabaseTyped, NEW w \in Workers, NEW status,
           NEW stage \in {"dataset", "commit"}, RecordRun(w, status, stage)
    PROVE  DatabaseTyped'
<1> DEFINE r == [worker[w] EXCEPT !.at = stage, !.pending = Absent]
           after == WriteRow(w, RunRow(w), {status})
<1>1. r.at = stage /\ r.pending = Absent /\ r.dates = worker[w].dates
  BY WorkerKnows, FreshBacked
<1>2. /\ DOMAIN after = Workers /\ DOMAIN after[w] = {RunRow(w)} \cup DOMAIN writes[w]
      /\ \A v \in Workers \ {w} : after[v] = writes[v]
  BY WriteRowIs
<1>3. worker' = [worker EXCEPT ![w] = r]
  BY WorkerKnows, FreshBacked DEF RecordRun, Stage
<1>4. /\ writes' = after /\ database' = database /\ begun' = begun /\ stopped' = stopped
      /\ DOMAIN worker = Workers
  BY WorkerKnows DEF RecordRun
<1> HIDE DEF r, after
<1>5. /\ Local(w) /\ worker'[w] = r
      /\ DOMAIN writes'[w] = {RunRow(w)} \cup DOMAIN writes[w]
  BY <1>2, <1>3, <1>4 DEF Local
<1>6. RecordTyped(r) /\ r.at # "idle"
  BY <1>1, WorkerTyped DEF RecordTyped, Stages, DigestStages, SignalStages
<1>7. RunRow(w) \in Rows /\ \A v \in Workers : RunRow(w) = RunRow(v) => v = w
  BY RowsAreRows DEF RunRow
<1>8. ~Held(w, RunRow(w))
  BY DEF Held, DatabaseTyped, RowsLocked
<1>. QED BY <1>4, <1>5, <1>6, <1>7, <1>8, LocalTyped DEF DatabaseTyped

\* The steps that only read.
LEMMA ReadingTyped ==
    ASSUME DatabaseInv, DatabaseTyped, NEW w \in Workers,
           \/ AccountingPasses(w) \/ ReadAliases(w) \/ ListArticles(w) \/ ArticlesAnalysed(w)
           \/ GatherArticles(w) \/ GatherLinks(w) \/ SignalsWritten(w)
    PROVE  DatabaseTyped'
<1>0. /\ RecordTyped(worker[w]) /\ DOMAIN worker[w] = DOMAIN Fresh /\ WorkerShape(worker[w])
  BY WorkerTyped, WorkerKnows
<1>1. CASE AccountingPasses(w)
  <2> DEFINE r == [worker[w] EXCEPT !.at = "aliases", !.pending = Absent]
  <2>1. r.at = "aliases" /\ r.pending = Absent /\ r.dates = worker[w].dates
    BY <1>0, FreshBacked
  <2>2. worker' = [worker EXCEPT ![w] = r] /\ Reads
    BY <1>0, <1>1, FreshBacked DEF AccountingPasses, Stage
  <2> HIDE DEF r
  <2>3. RecordTyped(r)
    BY <1>0, <2>1 DEF RecordTyped, Stages, DigestStages, SignalStages
  <2>. QED BY <2>1, <2>2, <2>3, ReadsTyped
<1>2. CASE ReadAliases(w)
  <2> DEFINE known == {c \in Issuers : Sees(w, CompanyRow(c)) # Absent}
             r == [worker[w] EXCEPT !.at = "list", !.known = known]
  <2>1. r.at = "list" /\ r.pending = worker[w].pending /\ r.dates = worker[w].dates
    BY <1>0, FreshBacked
  <2>2. worker' = [worker EXCEPT ![w] = r] /\ Reads
    BY <1>0, <1>2, FreshBacked DEF ReadAliases
  <2> HIDE DEF r
  <2>3. RecordTyped(r)
    BY <1>0, <2>1 DEF RecordTyped, Stages, DigestStages, SignalStages
  <2>. QED BY <2>1, <2>2, <2>3, ReadsTyped
<1>3. CASE ListArticles(w)
  <2> DEFINE todo == ProcessedArticles(w)
             r == [worker[w] EXCEPT !.at = "analyse", !.todo = todo]
  <2>1. r.at = "analyse" /\ r.pending = worker[w].pending /\ r.dates = worker[w].dates
    BY <1>0, FreshBacked
  <2>2. worker' = [worker EXCEPT ![w] = r] /\ Reads
    BY <1>0, <1>3, FreshBacked DEF ListArticles
  <2> HIDE DEF r
  <2>3. RecordTyped(r)
    BY <1>0, <2>1 DEF RecordTyped, Stages, DigestStages, SignalStages
  <2>. QED BY <2>1, <2>2, <2>3, ReadsTyped
<1>4. CASE ArticlesAnalysed(w)
  <2> DEFINE stored == StoredArticles(w)
             stage == IF worker[w].command = "process" THEN "commit"
                      ELSE IF stored = {} THEN "run" ELSE "digest"
             dates == IF worker[w].command = "start" THEN {MarketDate[a] : a \in stored} ELSE {}
             r == [worker[w] EXCEPT !.at = stage, !.dates = dates]
  <2>1. r.at = stage /\ r.pending = worker[w].pending /\ r.dates = dates
    BY <1>0, FreshBacked
  <2>2. worker' = [worker EXCEPT ![w] = r] /\ Reads
    BY <1>0, <1>4, FreshBacked DEF ArticlesAnalysed
  <2>3. worker[w].command \in {"start", "process"}
    BY <1>0, <1>4 DEF ArticlesAnalysed, WorkerAt, WorkerShape
  <2>4. stored \subseteq NewsArticles
    BY DEF StoredArticles
  <2> HIDE DEF r, stored
  <2>5. dates \subseteq MarketDates
    BY <2>4 DEF MarketDates
  <2>6. stage \in {"commit", "run", "digest"} /\ (stage = "digest" => dates # {})
    BY <2>3
  <2> HIDE DEF stage, dates
  <2>7. RecordTyped(r)
    BY <1>0, <2>1, <2>5, <2>6 DEF RecordTyped, Stages, DigestStages, SignalStages
  <2>. QED BY <2>1, <2>2, <2>6, <2>7, ReadsTyped
<1>5. CASE GatherArticles(w)
  <2> DEFINE stage == IF worker[w].at = "digest" THEN "digest links" ELSE "signals links"
             listed == ArticlesOf(w, FirstDate(w))
             r == [worker[w] EXCEPT !.listed = listed, !.at = stage]
  <2>1. /\ r.at \in {"digest links", "signals links"}
        /\ r.pending = worker[w].pending /\ r.dates = worker[w].dates
    BY <1>0, FreshBacked
  <2>2. worker' = [worker EXCEPT ![w] = r] /\ Reads
    BY <1>0, <1>5, FreshBacked DEF GatherArticles
  <2>3. worker[w].at \in {"digest", "signals"}
    BY <1>5 DEF GatherArticles
  <2> HIDE DEF r
  <2>4. RecordTyped(r)
    BY <1>0, <2>1, <2>3 DEF RecordTyped, Stages, DigestStages, SignalStages
  <2>. QED BY <2>1, <2>2, <2>4, ReadsTyped
<1>6. CASE GatherLinks(w)
  <2> DEFINE stage == IF worker[w].at = "digest links" THEN "digest row" ELSE "signal rows"
             gathered == {<<a, LinkedTo(w, a)>> : a \in worker[w].listed}
             todo == UNION {LinkedTo(w, a) : a \in worker[w].listed}
             r == [worker[w] EXCEPT !.gathered = gathered, !.todo = todo, !.at = stage]
  <2>1. /\ r.at \in {"digest row", "signal rows"}
        /\ r.pending = worker[w].pending /\ r.dates = worker[w].dates
    BY <1>0, FreshBacked
  <2>2. worker' = [worker EXCEPT ![w] = r] /\ Reads
    BY <1>0, <1>6, FreshBacked DEF GatherLinks
  <2>3. worker[w].at \in {"digest links", "signals links"}
    BY <1>6 DEF GatherLinks
  <2> HIDE DEF r
  <2>4. RecordTyped(r)
    BY <1>0, <2>1, <2>3 DEF RecordTyped, Stages, DigestStages, SignalStages
  <2>. QED BY <2>1, <2>2, <2>4, ReadsTyped
<1>7. CASE SignalsWritten(w)
  <2> DEFINE rest == worker[w].dates \ {FirstDate(w)}
             stage == IF worker[w].command = "signals" THEN "commit"
                      ELSE IF rest = {} THEN "run" ELSE "digest"
             r == [worker[w] EXCEPT !.dates = rest, !.listed = {}, !.gathered = {}, !.at = stage]
  <2>1. r.at = stage /\ r.pending = worker[w].pending /\ r.dates = rest
    BY <1>0, FreshBacked
  <2>2. worker' = [worker EXCEPT ![w] = r] /\ Reads
    BY <1>0, <1>7, FreshBacked DEF SignalsWritten
  <2> HIDE DEF r
  <2>3. stage \in {"commit", "run", "digest"} /\ (stage = "digest" => rest # {})
    OBVIOUS
  <2>4. rest \subseteq MarketDates
    BY <1>0 DEF RecordTyped
  <2> HIDE DEF stage, rest
  <2>5. RecordTyped(r)
    BY <1>0, <2>1, <2>3, <2>4 DEF RecordTyped, Stages, DigestStages, SignalStages
  <2>. QED BY <2>1, <2>2, <2>3, <2>5, ReadsTyped
<1>. QED BY <1>1, <1>2, <1>3, <1>4, <1>5, <1>6, <1>7

LEMMA CommitTyped ==
    ASSUME DatabaseInv, DatabaseTyped, NEW w \in Workers, CommitAndClose(w)
    PROVE  DatabaseTyped'
<1>1. DOMAIN writes = Workers /\ DOMAIN worker = Workers
  BY WorkerKnows
<1>2. /\ writes'[w] = <<>> /\ \A v \in Workers \ {w} : writes'[v] = writes[v]
  BY <1>1 DEF CommitAndClose
<1>3. worker'[w] = Fresh
  BY DEF CommitAndClose
<1>4. ASSUME NEW v \in Workers \ {w}
      PROVE  /\ worker'[v].at = worker[v].at /\ worker'[v].pending = worker[v].pending
             /\ worker'[v].known = worker[v].known /\ worker'[v].dates = worker[v].dates
  <2> DEFINE overtaken == worker[v].overtaken \/ worker[v].pending \in DOMAIN writes[w]
  <2>1. worker'[v] = [worker[v] EXCEPT !.overtaken = overtaken]
    BY DEF CommitAndClose
  <2>2. DOMAIN worker[v] = DOMAIN Fresh
    BY WorkerKnows
  <2> HIDE DEF overtaken
  <2>. QED BY <2>1, <2>2, FreshBacked
<1>5. \A v \in Workers : RecordTyped(worker[v])'
  <2>1. ASSUME NEW v \in Workers \ {w} PROVE RecordTyped(worker[v])'
    BY <1>4 DEF DatabaseTyped, RecordTyped
  <2>2. RecordTyped(worker[w])'
    BY <1>3, FreshTyped DEF RecordTyped
  <2>. QED BY <2>1, <2>2
<1>6. RowsLocked'
  <2>1. DOMAIN writes'[w] = {}
    BY <1>2
  <2>. QED BY <1>2, <1>4, <2>1 DEF DatabaseTyped, RowsLocked
<1>. QED BY <1>5, <1>6 DEF DatabaseTyped, CommitAndClose

LEMMA DatabaseStartsTyped ==
    ASSUME DatabaseInit
    PROVE  DatabaseTyped
<1>1. \A w \in Workers : worker[w] = Fresh /\ writes[w] = <<>>
  BY DEF DatabaseInit
<1>2. \A w \in Workers : DOMAIN writes[w] = {}
  BY <1>1
<1>3. RowsLocked
  BY <1>1, <1>2 DEF RowsLocked
<1>4. begun \in 0..MaxDatabaseCommands /\ stopped \in 0..MaxStops
  BY DatabaseAssumption DEF DatabaseInit
<1>. QED BY <1>1, <1>3, <1>4, FreshTyped DEF DatabaseTyped

LEMMA DatabaseStepsTyped ==
    ASSUME DatabaseInv, DatabaseTyped, [DatabaseNext]_databaseVars
    PROVE  DatabaseTyped'
<1>1. CASE UNCHANGED databaseVars
  BY <1>1 DEF databaseVars, DatabaseTyped, RowsLocked, RecordTyped
<1>2. ASSUME NEW w \in Workers, Advance(w) PROVE DatabaseTyped'
  <2>1. CASE BreakDeadlock(w)
    BY <2>1, RolledBackTyped DEF BreakDeadlock, DatabaseTyped
  <2>2. CASE AccountingFails(w) \/ RunCompletes(w)
    BY <2>2, RecordRunTyped DEF AccountingFails, RunCompletes
  <2>3. CASE CommitAndClose(w)
    BY <2>3, CommitTyped
  <2>. QED BY <1>2, <2>1, <2>2, <2>3, WritingTyped, ReadingTyped DEF Advance
<1>3. ASSUME NEW w \in Workers, KillWorker(w) PROVE DatabaseTyped'
  <2>1. stopped' \in 0..MaxStops
    BY <1>3, DatabaseAssumption DEF KillWorker, DatabaseTyped
  <2>. QED BY <1>3, <2>1, RolledBackTyped DEF KillWorker
<1>. QED BY <1>1, <1>2, <1>3, BeginTyped DEF DatabaseNext

LEMMA TypedDatabase ==
    ASSUME DatabaseInv, DatabaseTyped
    PROVE  DatabaseTypeOK
<1>1. DOMAIN database = Rows
  BY DEF DatabaseInv, DatabaseBacked
<1>2. \A w \in Workers : \A row \in DOMAIN writes[w] : ~Held(w, row)
  BY DEF DatabaseTyped, RowsLocked, Held
<1>. QED BY <1>1, <1>2 DEF DatabaseTyped, RowsLocked, RecordTyped, DatabaseTypeOK

\* Rows are of their tables, and no row is written by two commands at a time,
\* though a run is recorded without a look at its row.
THEOREM DatabaseTypesHold == DatabaseSpec => []DatabaseTypeOK
<1>1. DatabaseInit => DatabaseInv /\ DatabaseTyped
  BY DatabaseStarts, DatabaseStartsTyped
<1>2. DatabaseInv /\ DatabaseTyped /\ [DatabaseNext]_databaseVars => (DatabaseInv /\ DatabaseTyped)'
  BY DatabaseSteps, DatabaseStepsTyped
<1>3. DatabaseInv /\ DatabaseTyped => DatabaseTypeOK
  BY TypedDatabase
<1>. QED BY <1>1, <1>2, <1>3, PTL DEF DatabaseSpec

-----------------------------------------------------------------------------
(* The types of the client's variables.                                    *)

PagesBounded(endpoint) == endpoint.usual \in Nat /\ endpoint.most \in Nat

LEMMA BoundsAre ==
    /\ \A section, filters : PagesBounded(Rowset(section, filters))
    /\ \A section : PagesBounded(Whole(section))
    /\ \A of, key, section, filter : PagesBounded(RowsOf(of, key, section, filter))
    /\ \A section, key : PagesBounded(Detail(section, key))
    /\ \A section, filters : \A usual, most \in Nat :
          PagesBounded(Page(section, filters, usual, most))
    /\ \A section : PagesBounded(Direct(Whole(section)))
    /\ \A section, key : PagesBounded(Direct(Detail(section, key)))
    /\ \A section, filters : \A usual, most \in Nat :
          PagesBounded(Direct(Page(section, filters, usual, most)))
  BY DEF PagesBounded, Rowset, Whole, RowsOf, Detail, Page, Direct

LEMMA FilesAreBounded ==
    ASSUME NEW paths \in PathsOfFiles, NEW path \in DOMAIN paths
    PROVE  PagesBounded(paths[path])
<1>1. CASE paths = SourcePaths
  BY <1>1, BoundsAre DEF SourcePaths
<1>2. CASE paths = NlpPaths
  BY <1>2, BoundsAre DEF NlpPaths
<1>3. CASE paths = ResearchPaths
  BY <1>3, BoundsAre DEF ResearchPaths
<1>4. CASE paths = AssetPaths
  BY <1>4, BoundsAre DEF AssetPaths
<1>5. CASE paths = ImpactPaths
  BY <1>5, BoundsAre DEF ImpactPaths
<1>6. CASE paths = SignalPaths
  BY <1>6, BoundsAre DEF SignalPaths
<1>7. CASE paths = Mt5Paths
  BY <1>7, BoundsAre DEF Mt5Paths
<1>8. CASE paths = ReactionPaths
  BY <1>8, BoundsAre DEF ReactionPaths
<1>9. CASE paths = ReactionErrorPaths
  BY <1>9, BoundsAre DEF ReactionErrorPaths
<1>10. CASE paths = MarketDataPaths
  BY <1>10, BoundsAre DEF MarketDataPaths
<1>11. CASE paths = PaperPaths
  BY <1>11, BoundsAre DEF PaperPaths
<1>12. CASE paths = OfficialSeriesPaths
  BY <1>12, BoundsAre DEF OfficialSeriesPaths
<1>13. CASE paths = ObservationPaths
  <2> DEFINE filters ==
             [dataset_id |-> Is("dataset_id"), profile_id |-> Is("profile_id"),
              as_of |-> [test |-> "as of", field |-> "revisions"]]
  <2>1. \A f : PagesBounded(Page("official-observations", f, 50, 200))
    BY BoundsAre
  <2>2. /\ DOMAIN ObservationPaths = {"official_observations"}
        /\ ObservationPaths["official_observations"] =
              Page("official-observations", filters, 50, 200)
    BY DEF ObservationPaths
  <2> HIDE DEF filters
  <2>. QED BY <1>13, <2>1, <2>2
<1>14. CASE paths = OfficialDocumentPaths
  BY <1>14, BoundsAre DEF OfficialDocumentPaths
<1>. QED BY <1>1, <1>2, <1>3, <1>4, <1>5, <1>6, <1>7, <1>8, <1>9, <1>10, <1>11, <1>12, <1>13, <1>14
     DEF PathsOfFiles

LEMMA EndpointsAreBounded ==
    ASSUME NEW path \in DOMAIN Endpoints
    PROVE  PagesBounded(Endpoints[path])
<1>1. PICK paths \in Paths : path \in DOMAIN paths /\ Endpoints[path] = paths[path]
  BY EndpointIs
<1>2. CASE paths = NewsPaths
  BY <1>1, <1>2, BoundsAre DEF NewsPaths
<1>3. CASE paths \in PathsOfFiles
  BY <1>1, <1>3, FilesAreBounded
<1>. QED BY <1>1, <1>2, <1>3 DEF Paths

\* Besides, the limit of a request that is answered is one that its endpoint
\* allows.
ApiTyped == ApiTypeOK /\ (client.at \in {"articles"} \cup ReadingStages => Proceeds)

\* A request goes on with its question, and its offset by its limit.
GoesOn(c) ==
    /\ c.question = client.question /\ c.owed = client.owed
    /\ c.offset = client.offset \/ (Endpoint.most # 0 /\ c.offset = client.offset + Limit)

LEMMA RequestTyped ==
    ASSUME ApiInv, ApiTyped, client.at # "idle", Proceeds, GoesOn(client'),
           client'.at \in {"asked", "articles"} \cup ReadingStages \cup Outcomes,
           UNCHANGED questionsAsked
    PROVE  ApiTyped'
<1>1. client.question \in Questions /\ client.question.limit \in Int
  BY ApiAssumption DEF ApiInv, AskedOf
<1>2. Endpoint.usual \in Nat /\ Endpoint.most \in Nat
  BY <1>1, ApiAssumption, EndpointsAreBounded DEF Endpoint, PagesBounded
<1>3. Endpoint.most # 0 => Limit \in Nat
  BY <1>1, <1>2 DEF Proceeds, Limit
<1>4. client'.offset \in Nat
  BY <1>3 DEF GoesOn, ApiTyped, ApiTypeOK
<1>5. Proceeds'
  BY DEF GoesOn, Proceeds, Endpoint
<1>. QED BY <1>4, <1>5 DEF GoesOn, ApiTyped, ApiTypeOK, ReadingStages, Outcomes

LEMMA AnswerFromTyped ==
    ASSUME ApiInv, ApiTyped, client.at # "idle", Proceeds, UNCHANGED questionsAsked,
           \/ client' = [client EXCEPT !.at = "not found"]
           \/ \E rows : Show(rows)
    PROVE  ApiTyped'
<1>1. DOMAIN client = DOMAIN Nobody
  BY DEF ApiInv, AskedOf
<1>2. CASE client' = [client EXCEPT !.at = "not found"]
  <2>1. GoesOn(client') /\ client'.at = "not found"
    BY <1>1, <1>2, NobodyIs DEF GoesOn
  <2>. QED BY <2>1, RequestTyped DEF Outcomes
<1>3. ASSUME NEW rows, Show(rows) PROVE ApiTyped'
  <2>1. GoesOn(client') /\ client'.at \in {"answered", "asked"}
    BY <1>1, <1>3, ShowIs DEF GoesOn
  <2>. QED BY <2>1, RequestTyped DEF Outcomes
<1>. QED BY <1>2, <1>3

LEMMA ApiTypesGoOn ==
    ASSUME ApiInv, ApiTyped, [ReadNext]_readVars
    PROVE  ApiTyped'
<1>0. DOMAIN client = DOMAIN Nobody
  BY DEF ApiInv, AskedOf
<1>1. CASE UNCHANGED apiVars
  BY <1>1 DEF apiVars, ApiTyped, ApiTypeOK, Proceeds, Endpoint
<1>2. ASSUME NEW question \in Questions, Ask(question) PROVE ApiTyped'
  <2>1. /\ client'.question = question /\ client'.at = "asked" /\ client'.offset = 0
        /\ client'.owed = Owed(question)
    BY <1>2, NobodyIs DEF Ask
  <2>2. Owed(question) \subseteq NewsArticles
    BY DEF Owed, Canonical
  <2>3. questionsAsked' \in 0..MaxQuestions
    BY <1>2, ApiAssumption DEF Ask, ApiTyped, ApiTypeOK
  <2>. QED BY <2>1, <2>2, <2>3 DEF ApiTyped, ApiTypeOK, ReadingStages
<1>3. CASE AskAgain
  <2>1. client'.question = NoQuestion /\ client'.at = "idle" /\ client'.offset = 0
        /\ client'.owed = {} /\ questionsAsked' = questionsAsked
    BY <1>3 DEF AskAgain, Nobody
  <2>. QED BY <2>1 DEF ApiTyped, ApiTypeOK, ReadingStages
<1>4. CASE RefuseLimit
  <2>1. /\ client'.question = client.question /\ client'.at = "refused"
        /\ client'.offset = client.offset /\ client'.owed = client.owed
        /\ questionsAsked' = questionsAsked
    BY <1>0, <1>4, NobodyIs DEF RefuseLimit
  <2>. QED BY <2>1 DEF ApiTyped, ApiTypeOK, ReadingStages, Outcomes
<1>5. CASE \/ AccountingRefuses \/ ReadAccounting \/ ReadArticles \/ ReadCompanies
           \/ ReadLinks \/ ReadDigests \/ ReadSignals
  <2>1. /\ GoesOn(client') /\ UNCHANGED questionsAsked
        /\ client'.at \in {"articles", "failed"} \cup ReadingStages
    BY <1>0, <1>5, NobodyIs DEF AccountingRefuses, ReadAccounting, ReadArticles, ReadCompanies,
       ReadLinks, ReadDigests, ReadSignals, Reading, GoesOn, ReadingStages
  <2>2. client.at # "idle" /\ Proceeds
    BY <1>5 DEF AccountingRefuses, ReadAccounting, ReadArticles, ReadCompanies, ReadLinks,
       ReadDigests, ReadSignals, Reading, ApiTyped, ReadingStages
  <2>. QED BY <2>1, <2>2, RequestTyped DEF Outcomes
<1>6. CASE Answer
  <2>1. client.at # "idle" /\ Proceeds
    BY <1>6 DEF Answer, ApiTyped, ReadingStages
  <2>. QED BY <1>6, <2>1, AnswerFromTyped DEF Answer, AnswerFrom
<1>7. CASE AnswerDirectly
  BY <1>7, AnswerFromTyped DEF AnswerDirectly, AnswerFrom
<1>. QED BY <1>1, <1>2, <1>3, <1>4, <1>5, <1>6, <1>7
     DEF ReadNext, Request, AskAny, readVars

LEMMA ApiTypesStart == ApiInit => ApiTyped
  BY ApiAssumption DEF ApiInit, Nobody, ApiTyped, ApiTypeOK, ReadingStages

\* The client's variables stay in their ranges; its offset is a number
\* because an answered request has a limit that its endpoint allows.
THEOREM ApiTypesHold == ReadSpec => []ApiTypeOK
<1>1. DatabaseInit /\ ApiInit => ApiInv /\ ApiTyped
  BY ApiStarts, ApiTypesStart
<1>2. ApiInv /\ ApiTyped /\ [ReadNext]_readVars => (ApiInv /\ ApiTyped)'
  BY ApiSteps, ApiTypesGoOn
<1>3. ApiTyped => ApiTypeOK
  BY DEF ApiTyped
<1>. QED BY <1>1, <1>2, <1>3, PTL DEF ReadSpec

LEMMA ReadingIsNoCommand ==
    ASSUME [ReadNext]_readVars
    PROVE  [DatabaseNext]_databaseVars
<1>1. ASSUME NEW question \in Questions, Ask(question) PROVE UNCHANGED databaseVars
  BY <1>1 DEF Ask
<1>2. CASE RefuseLimit \/ AccountingRefuses \/ AskAgain \/ Answer \/ AnswerDirectly
  BY <1>2 DEF RefuseLimit, AccountingRefuses, AskAgain, Answer, AnswerDirectly, AnswerFrom
<1>3. CASE \/ ReadAccounting \/ ReadArticles \/ ReadCompanies
           \/ ReadLinks \/ ReadDigests \/ ReadSignals
  BY <1>3 DEF ReadAccounting, ReadArticles, ReadCompanies, ReadLinks, ReadDigests, ReadSignals,
     Reading
<1>. QED BY <1>1, <1>2, <1>3 DEF ReadNext, Request, AskAny, readVars

=============================================================================
