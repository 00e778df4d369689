----------------------------- MODULE SourceParsers -----------------------------
(***************************************************************************)
(* What the parsers make of the documents of a source: feed.py and         *)
(* announcements.py for documents that are fetched or exported by a user,  *)
(* local_feed.py and fixtures.py for local files, official_data.py for the *)
(* payloads of the statistical agencies.                                   *)
(*                                                                         *)
(* A source publishes items, newest first, and lets old ones go; the       *)
(* document is read again and again.  An item is known by what a parser    *)
(* asks of it: whether it is an object at all, its own name, its link,     *)
(* and which of the remaining fields can be read.                          *)
(***************************************************************************)
EXTENDS Integers, Sequences, FiniteSets, SequencesExt

CONSTANTS
    Items,          \* the items a source may publish
    ItemOf,         \* an item's object, name, link, dated, filled
    Empty,          \* an empty field
    Formats,        \* the formats of the sources
    MostColumns,    \* max_records of a columnar payload
    MaxPublished,   \* bound: items in a document
    MaxReadings     \* bound: times the document is read

Fetched == {"rss", "atom", "json", "columnar"}
UserExports == {"user json", "user csv"}
LocalFiles == {"local rss", "local atom", "fixture"}
Agencies == {"bls", "eia", "cftc", "federal register"}

ASSUME ParserAssumption ==
    /\ Formats \subseteq Fetched \cup UserExports \cup LocalFiles \cup Agencies
    /\ \A i \in Items : DOMAIN ItemOf[i] = {"object", "name", "link", "dated", "filled"}
    \* Who names its items does not name two alike.
    /\ \A i, j \in Items : i # j =>
          /\ ItemOf[i].name = ItemOf[j].name => ItemOf[i].name = Empty
          /\ ItemOf[i].link = ItemOf[j].link => ItemOf[i].link = Empty
          /\ ItemOf[i].name # ItemOf[j].link \/ ItemOf[i].name = Empty
    /\ MostColumns \in Nat /\ MaxPublished \in Nat /\ MaxReadings \in Nat

VARIABLES
    format,     \* of the source
    document,   \* its items, newest first
    archive,    \* every record that was read: its item and its identifier
    reading,    \* the last reading and the document it was of
    readings    \* readings so far

parserVars == <<format, document, archive, reading, readings>>

-----------------------------------------------------------------------------
(* Identifiers                                                             *)

Positional(index) == <<"position", index>>
NameOr(item, other) == IF ItemOf[item].name # Empty THEN ItemOf[item].name ELSE other
NameOrLink(item) == NameOr(item, ItemOf[item].link)

\* Mutant: the position first.
RssIdByPosition(item, index) == Positional(index)

RssId(item, index) ==
    IF NameOrLink(item) # Empty THEN NameOrLink(item) ELSE Positional(index)
AtomId(item, index) == NameOr(item, Positional(index))
MappedId(item, index) == NameOr(item, Positional(index))
ColumnarId(item, index) == ItemOf[item].name
LocalRssId(item, index) == NameOrLink(item)
LocalAtomId(item, index) == ItemOf[item].name
FixtureId(item, index) == ItemOf[item].name

\* The agencies' records are known by the period and the series.
AgencyId(item, index) == ItemOf[item].name

-----------------------------------------------------------------------------
(* Readings                                                                *)

Refused == [read |-> FALSE, records |-> {}, rejected |-> 0]
Record(item, id) == [item |-> item, id |-> id]

RecordsAt(items, places, Id(_, _)) == {Record(items[k], Id(items[k], k)) : k \in places}

\* An item that cannot be read is counted and left out.
Isolated(items, Raises(_), Id(_, _)) ==
    LET good == {k \in DOMAIN items : ~Raises(items[k])}
    IN [read |-> TRUE, records |-> RecordsAt(items, good, Id),
        rejected |-> Len(items) - Cardinality(good)]

\* Some items are passed over; one of the others that cannot be read refuses
\* the document.
Strict(items, Passed(_), Raises(_), Id(_, _)) ==
    LET taken == {k \in DOMAIN items : ~Passed(items[k])}
    IN IF \E k \in taken : Raises(items[k]) THEN Refused
       ELSE [read |-> TRUE, records |-> RecordsAt(items, taken, Id), rejected |-> 0]

Undated(item) == ~ItemOf[item].dated
Never(item) == FALSE
Unmapped(item) == ~ItemOf[item].object \/ ~ItemOf[item].filled \/ ~ItemOf[item].dated
Unfiled(item) == ItemOf[item].name = Empty \/ ~ItemOf[item].dated \/ ~ItemOf[item].filled
Incomplete(item) == ~ItemOf[item].object \/ ~ItemOf[item].filled
NoObject(item) == ~ItemOf[item].object

\* parse_feed_bytes: a declaration in the first bytes, a document that is not
\* XML or an unknown root is refused.
ReadFeed(shape, items, Raises(_), Id(_, _)) ==
    IF shape # "sound" THEN Refused ELSE Isolated(items, Raises, Id)

ReadRss(shape, items) == ReadFeed(shape, items, Undated, RssId)
ReadAtom(shape, items) == ReadFeed(shape, items, Never, AtomId)

\* parse_json_announcement_payload: rows under the mapped path.
ReadMapped(shape, items) ==
    IF shape # "sound" THEN Refused ELSE Isolated(items, Unmapped, MappedId)

\* Columns of equal length, the first max_records rows of them.
ReadColumns(shape, items) ==
    IF shape # "sound" THEN Refused
    ELSE Isolated(SubSeq(items, 1, IF Len(items) < MostColumns THEN Len(items) ELSE MostColumns),
                  Unfiled, ColumnarId)

\* read_user_export: the size is looked at first.
ReadUserJson(shape, items) ==
    IF shape \in {"oversized", "malformed", "foreign"} THEN Refused
    ELSE Isolated(items, Unmapped, MappedId)

\* Every row of a CSV is an object, and every text is one; the bytes may not
\* be text.
ReadUserCsv(shape, items) ==
    IF shape \in {"oversized", "malformed"} THEN Refused ELSE Isolated(items, Unmapped, MappedId)

\* LocalFeedSource: a root that is no feed is taken for RSS, without channel.
ReadLocalRss(shape, items) ==
    IF shape \in {"oversized", "malformed"} THEN Refused
    ELSE Strict(IF shape = "foreign" THEN <<>> ELSE items, Never, Undated, LocalRssId)

ReadLocalAtom(shape, items) ==
    IF shape = "foreign" THEN ReadLocalRss(shape, items)
    ELSE IF shape \in {"oversized", "malformed"} THEN Refused
    ELSE Strict(items, Never, Never, LocalAtomId)

\* JsonlFixtureSource: the keys must be there, the name may be empty.
ReadFixture(shape, items) ==
    IF shape \in {"oversized", "malformed"} THEN Refused ELSE Strict(items, Never, Incomplete, FixtureId)

\* parse_bls_observations: rows that are no objects are passed over, a period
\* or a value that cannot be read refuses the payload.
Unreadable(item) == ~ItemOf[item].dated \/ ~ItemOf[item].filled
ReadBls(shape, items) ==
    IF shape # "sound" THEN Refused ELSE Strict(items, NoObject, Unreadable, AgencyId)
ReadEia(shape, items) ==
    IF shape # "sound" THEN Refused ELSE Strict(items, NoObject, Unreadable, AgencyId)
ReadCot(shape, items) ==
    IF shape # "sound" THEN Refused ELSE Strict(items, NoObject, Unreadable, AgencyId)
ReadRegister(shape, items) ==
    IF shape # "sound" THEN Refused ELSE Strict(items, NoObject, Undated, AgencyId)

Parsed(form, shape, items) ==
    CASE form = "rss" -> ReadRss(shape, items)
      [] form = "atom" -> ReadAtom(shape, items)
      [] form = "json" -> ReadMapped(shape, items)
      [] form = "columnar" -> ReadColumns(shape, items)
      [] form = "user json" -> ReadUserJson(shape, items)
      [] form = "user csv" -> ReadUserCsv(shape, items)
      [] form = "local rss" -> ReadLocalRss(shape, items)
      [] form = "local atom" -> ReadLocalAtom(shape, items)
      [] form = "fixture" -> ReadFixture(shape, items)
      [] form = "bls" -> ReadBls(shape, items)
      [] form = "eia" -> ReadEia(shape, items)
      [] form = "cftc" -> ReadCot(shape, items)
      [] form = "federal register" -> ReadRegister(shape, items)

-----------------------------------------------------------------------------
(* A source over time                                                      *)

Shapes == {"sound", "malformed", "unsafe", "foreign", "oversized"}

ParserInit ==
    /\ format \in Formats
    /\ document = <<>> /\ archive = {}
    /\ reading = [items |-> <<>>, shape |-> "sound", outcome |-> Refused]
    /\ readings = 0

PublishItem ==
    /\ Len(document) < MaxPublished
    /\ \E item \in Items \ ToSet(document) : document' = <<item>> \o document
    /\ UNCHANGED <<format, archive, reading, readings>>

ExpireItem ==
    /\ document # <<>> /\ document' = Front(document)
    /\ UNCHANGED <<format, archive, reading, readings>>

\* The document may arrive in any shape.
ReadDocument ==
    /\ readings < MaxReadings /\ readings' = readings + 1
    /\ \E shape \in Shapes :
          LET outcome == Parsed(format, shape, document)
          IN /\ reading' = [items |-> document, shape |-> shape, outcome |-> outcome]
             /\ archive' = archive \cup outcome.records
    /\ UNCHANGED <<format, document>>

ParserNext == PublishItem \/ ExpireItem \/ ReadDocument

ParserSpec == ParserInit /\ [][ParserNext]_parserVars
-----------------------------------------------------------------------------
(* Properties                                                              *)

\* Every variable of the parsers holds values of its kind.
ParserTypeOK ==
    /\ format \in Formats
    /\ ToSet(document) \subseteq Items /\ reading.shape \in Shapes
    /\ \A record \in archive : record.item \in Items
    /\ readings \in 0..MaxReadings

\* An item that its source names in the way of the format.
Named(item) ==
    IF format \in {"rss", "local rss"} THEN NameOrLink(item) # Empty ELSE ItemOf[item].name # Empty

\* However a document grows, shrinks and is read again, an item with a name
\* has one identifier, and no other item with a name has it: reading it again
\* is a replay, and never a replay of another.
NamesStay ==
    \A r, s \in archive :
        Named(r.item) /\ Named(s.item) => (r.id = s.id <=> r.item = s.item)

\* What the last reading had to read: one item that cannot be read takes no
\* other with it in the documents of remote sources and user exports, where it
\* is counted, and takes all with it in the others.
Readable(item) ==
    CASE format \in {"rss", "local rss"} -> ItemOf[item].dated
      [] format \in {"atom", "local atom"} -> TRUE
      [] format = "columnar" -> ItemOf[item].name # Empty /\ ItemOf[item].dated /\ ItemOf[item].filled
      [] format = "fixture" -> ItemOf[item].object /\ ItemOf[item].filled
      [] format = "federal register" -> ItemOf[item].object => ItemOf[item].dated
      [] format \in {"bls", "eia", "cftc"} ->
            ItemOf[item].object => ItemOf[item].dated /\ ItemOf[item].filled
      [] OTHER -> ItemOf[item].object /\ ItemOf[item].dated /\ ItemOf[item].filled

\* Whatever a document is made of, the items read are those that could be.
ReadItemsArrive ==
    LET offered == IF format # "columnar" THEN ToSet(reading.items)
                   ELSE {reading.items[k] : k \in 1..MostColumns \cap DOMAIN reading.items}
        arrived == {r.item : r \in reading.outcome.records}
    IN reading.outcome.read /\ reading.shape # "foreign" =>
        IF format \in Fetched \cup UserExports
        THEN /\ arrived = {i \in offered : Readable(i)}
             /\ reading.outcome.rejected = Cardinality(offered) - Cardinality(arrived)
        ELSE /\ \A i \in offered : Readable(i)
             /\ arrived = {i \in offered : format \in Agencies => ItemOf[i].object}

\* An identifier stays that of its item however its document changes, and an
\* item that can be read arrives.
ParsersAreSound == NamesStay /\ ReadItemsArrive
=============================================================================
