--------------------------- MODULE MCOfflineCommands ---------------------------
(* Small instances of the services, each with the cases its code tells      *)
(* apart.                                                                   *)
EXTENDS OfflineCommands

CONSTANTS acme, bolt,              \* companies
          bad,                     \* a record that is refused
          e1, e2, c1, o1, o2,      \* exporters, a checker and directories
          gold, euro, home, s1, s2,  \* assets, a profile and symbols
          w1, w2, w3,              \* writers of signal packages
          i1, i2, i3, i4, n1, n2, l3  \* items, their names and a link

-----------------------------------------------------------------------------
(* Research: a calendar in order, with a gap in its numbers, out of order  *)
(* (two ways), empty; a policy unknown to the code; a window given twice.  *)
Session(date, open, close, sequence) ==
    [date |-> date, open |-> open, close |-> close, sequence |-> sequence]
Ordered == {Session(1, 3, 5, 1), Session(2, 8, 10, 2), Session(3, 13, 15, 3)}
Gapped == {Session(1, 3, 5, 1), Session(2, 8, 10, 3)}
Crossed == {Session(1, 8, 10, 1), Session(2, 3, 5, 2)}

Setting(calendar, policy, windows, persist) ==
    [calendar |-> calendar, policy |-> policy, windows |-> windows, persist |-> persist]
MCSettings ==
    {Setting(Ordered, "session_close", <<1, 2>>, TRUE),
     Setting(Gapped, "session_close", <<2>>, FALSE),
     Setting(Crossed, "pre_open_15m", <<1, 2>>, FALSE),
     Setting({}, "session_close", <<1>>, FALSE),
     Setting(Ordered, "midday", <<1>>, FALSE),
     Setting(Ordered, "session_close", <<1, 1>>, TRUE)}
MCTargets ==
    {[e \in Exporters |-> o1], [e \in Exporters |-> IF e = e1 THEN o1 ELSE o2]}
MCArticles ==
    {[published |-> 0, delay |-> 1, companies |-> {acme}],
     [published |-> 3, delay |-> 1, companies |-> {acme, bolt}]}

-----------------------------------------------------------------------------
(* The bridge: maps that are absent, malformed, valid, with two symbols of *)
(* an asset, with a symbol twice, with an unknown asset, too long, and     *)
(* with nothing enabled.                                                   *)
Entry(asset, symbol) ==
    [profile |-> home, asset |-> asset, symbol |-> symbol, enabled |-> TRUE, flaw |-> FALSE]
MCMapFiles ==
    {NoMap, MalformedMap} \cup {MapOf(entries) : entries \in
        {<<Entry(gold, s1), Entry(euro, s2)>>, <<Entry(gold, s1), Entry(gold, s2)>>,
         <<Entry(gold, s1), Entry(euro, s1)>>, <<Entry("unknown", s1)>>,
         <<Entry(gold, s1), Entry(euro, s2), Entry(euro, s1)>>,
         <<[Entry(gold, s1) EXCEPT !.enabled = FALSE]>>}}

RateBar(time, quote) == [time |-> time, quote |-> quote]
MCAnswers ==
    {<<>>, <<RateBar(1, "crossed")>>,
     <<RateBar(1, "ordered"), RateBar(2, "ordered")>>,
     <<RateBar(2, "ordered"), RateBar(1, "ordered")>>,
     <<RateBar(2, "ordered"), RateBar(2, "ordered")>>,
     <<RateBar(1, "ordered"), RateBar(2, "ordered"), RateBar(3, "ordered")>>}

-----------------------------------------------------------------------------
(* Event studies: signals before, between, on and after the sessions.      *)
MCSessionDays == <<1, 2, 5, 6, 7, 8, 9, 12>>
MCHorizons == <<"one_day", "three_day">>
MCLastOffset == [h \in {"one_day", "three_day"} |-> IF h = "one_day" THEN 1 ELSE 3]

Call(day, direction, state, confidence, strong) ==
    [day |-> day, direction |-> direction, status |-> state,
     confidence |-> confidence, strong |-> strong]
MCSignalLists ==
    {<<Call(day, "positive", "research", "high", TRUE)>> : day \in 1..13}
    \cup {<<Call(9, "negative", "abstained", "medium", TRUE)>>,
          <<Call(6, "uncertain", "research", "high", FALSE)>>,
          <<Call(5, "negative", "research", "low", FALSE),
            Call(6, "positive", "research", "high", TRUE)>>,
          <<Call(6, "uncertain", "research", "high", FALSE),
            Call(7, "positive", "research", "high", TRUE),
            Call(4, "mixed", "informational", "missing", FALSE)>>}

-----------------------------------------------------------------------------
(* The database and the API: four articles of two days, of which 1 names   *)
(* both companies, and 1 and 4 are near duplicates of each other, so that  *)
(* the first to come is the original; the fixtures hold a record that is   *)
(* refused.                                                                *)
MCNewsArticles == 1..4
MCMentioned == [a \in 1..4 |-> IF a = 1 THEN {acme, bolt} ELSE {bolt}]
MCMarketDate == [a \in 1..4 |-> IF a < 3 THEN 1 ELSE 2]
MCNearAmong ==
    [a \in 1..4 |-> IF a \in {1, 4} THEN {S \in SUBSET (1..4) : 5 - a \in S} ELSE {}]
MCCompaniesFile == <<acme, bolt>>
MCDemoBatch == <<1, 3, bad>>
MCFeedBatches == {<<2>>, <<4>>}
MCArticleText ==
    [a \in 1..4 |-> [words |-> {"report"}, source_key |-> a, language |-> "en"]]

Question(path, limit, asked) == [path |-> path, limit |-> limit, asked |-> asked]
MCQuestions ==
    {Question("articles", 1, asked) : asked \in {<<>>, [ticker |-> bolt], [query |-> "report", published_from |-> 1]}}
    \cup {Question("articles", 101, <<>>),
          Question("company_articles", 0, [id |-> bolt]),
          Question("digest", 0, [id |-> 1]),
          Question("official_observations", 1, [as_of |-> 1])}

(* A section of files has two rows, which differ in all fields.            *)
FiltersUsed ==
    UNION {{Endpoints[p].filters[f] : f \in DOMAIN Endpoints[p].filters} : p \in DOMAIN Endpoints}
FieldsOf(tests) == {filter.field : filter \in {f \in FiltersUsed : f.test \in tests}}
KeysUsed == {Endpoints[p].of[2] : p \in {q \in DOMAIN Endpoints : Endpoints[q].of # <<>>}}
FileRow(n) ==
    [field \in FieldsOf({"equal", "from", "to"}) \cup KeysUsed
                  \cup {"slice_type", "slice_value", "current"} |-> n]
    @@ [field \in FieldsOf({"member"}) |-> {n}]
    @@ [revisions |-> {[available |-> n, number |-> 1], [available |-> n + 1, number |-> 2]}]
MCFileSections ==
    [section \in {Endpoints[p].section : p \in DOMAIN Endpoints}
                    \ (NewsSections \cup {"events", "pipeline-runs"}) |->
        <<FileRow(1), FileRow(2)>>]

(* Every path that is asked nothing of below answers: with the rows of its *)
(* section, or with those that match every filter it has.                  *)
ASSUME EveryPathAnswers ==
    \A path \in DOMAIN Endpoints \ DOMAIN NewsPaths :
        LET endpoint == Endpoints[path]
            filters == {f \in DOMAIN endpoint.filters : endpoint.filters[f].test # "slice"}
            rows == Matching(endpoint, [f \in filters |-> 1], FileRows(endpoint.section))
        IN Len(rows) =
              IF \A f \in filters : endpoint.filters[f].test = "from" THEN 2 ELSE 1

-----------------------------------------------------------------------------
(* Parsers: an item with a name, one with a name and no date, one without  *)
(* a name, and what is no object.                                          *)
Item(object, name, link, dated, filled) ==
    [object |-> object, name |-> name, link |-> link, dated |-> dated, filled |-> filled]
MCItemOf ==
    (i1 :> Item(TRUE, n1, Empty, TRUE, TRUE)) @@ (i2 :> Item(TRUE, n2, Empty, FALSE, TRUE))
    @@ (i3 :> Item(TRUE, Empty, l3, TRUE, TRUE)) @@ (i4 :> Item(FALSE, Empty, Empty, TRUE, FALSE))
MCFormats == Fetched \cup UserExports \cup LocalFiles \cup Agencies

-----------------------------------------------------------------------------
(* Rules: an alias within two others.                                      *)
MCAliases ==
    <<[company |-> acme, length |-> 1], [company |-> acme, length |-> 2],
      [company |-> bolt, length |-> 2]>>
MCInside == <<{1}, {1, 2}, {1, 3}>>
MCEventKeywords == <<2, 1, 3>>
=============================================================================
