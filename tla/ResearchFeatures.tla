--------------------------- MODULE ResearchFeatures ---------------------------
(***************************************************************************)
(* The rows of a research export, application/services/research_export.py: *)
(* which calendars are accepted, when a session's decision is cut off,     *)
(* which session an article is assigned to, which articles a row of a      *)
(* company, a session and a window holds, and the leakage audit.           *)
(*                                                                         *)
(* A calendar is the set of its sessions.  Times are integers.  A window   *)
(* is a number of sessions; the windows of an export are a sequence, so    *)
(* that one given twice gives its rows twice.                              *)
(***************************************************************************)
EXTENDS Integers, Sequences, FiniteSets

CONSTANTS
    Companies,     \* the companies of the repository
    PreOpenLead,   \* the fifteen minutes before the opening
    Nothing        \* no time, no package

ASSUME FeaturesAssumption == PreOpenLead \in Nat /\ Nothing \notin Int

Policies == {"pre_open_15m", "session_close"}

\* Breaks lie between open and close and take part in nothing else.
Sessions == [date : Int, open : Int, close : Int, sequence : Int]

ValidCalendar(calendar) ==
    /\ \A s \in calendar : s.sequence > 0 /\ s.open < s.close
    /\ \A s, t \in calendar :
          /\ s # t => s.sequence # t.sequence
          /\ s.sequence < t.sequence => s.date < t.date

\* sorted(windows) == windows, and none is zero or negative.
ValidWindows(windows) ==
    \A i \in DOMAIN windows :
        /\ windows[i] > 0
        /\ \A j \in DOMAIN windows : i < j => windows[i] <= windows[j]

DecisionCutoff(session, policy) ==
    IF policy = "pre_open_15m" THEN session.open - PreOpenLead ELSE session.close

\* first_seen is published_at and a delay of at least five minutes.
FirstSeen(article) == article.published + article.delay
InformationAvailable(article) ==
    IF article.published > FirstSeen(article) THEN article.published
    ELSE FirstSeen(article)

\* The first session, in the order of the sequence numbers, whose cutoff
\* the article does not miss: a set of one session, or empty.
AssignSession(calendar, policy, article) ==
    {s \in calendar :
        /\ InformationAvailable(article) <= DecisionCutoff(s, policy)
        /\ \A t \in calendar : t.sequence < s.sequence =>
              InformationAvailable(article) > DecisionCutoff(t, policy)}

\* The articles of a row.  Sequence numbers start at one, which is the
\* lower limit of the code's range.
RowArticles(calendar, policy, corpus, session, company, window) ==
    {a \in corpus :
        /\ company \in a.companies
        /\ \E t \in AssignSession(calendar, policy, a) :
              session.sequence - window < t.sequence /\ t.sequence <= session.sequence}

LatestInformation(articles) ==
    IF articles = {} THEN Nothing
    ELSE CHOOSE n \in {InformationAvailable(a) : a \in articles} :
            \A a \in articles : InformationAvailable(a) <= n

\* A row: its articles and the features that depend on time and on links.
Features(articles, cutoff) ==
    [articles |-> articles,
     news_count |-> Cardinality(articles),
     hours_since_latest_news |->
        IF articles = {} THEN Nothing ELSE cutoff - LatestInformation(articles),
     contains_multi_company_article |->
        \E a \in articles : Cardinality(a.companies) > 1]

RowKeys(calendar, windows) == calendar \X Companies \X DOMAIN windows

FeatureRows(calendar, policy, windows, corpus) ==
    [k \in RowKeys(calendar, windows) |->
        Features(RowArticles(calendar, policy, corpus, k[1], k[2], windows[k[3]]),
                 DecisionCutoff(k[1], policy))]

ExcludedObservations(calendar, policy, corpus) ==
    {o \in corpus \X Companies :
        o[2] \in o[1].companies /\ AssignSession(calendar, policy, o[1]) = {}}

\* No lineage row of the package is later than the cutoff it names.
LeakageAuditPasses(calendar, policy, windows, rows) ==
    \A k \in RowKeys(calendar, windows) : \A a \in rows[k].articles :
        InformationAvailable(a) <= DecisionCutoff(k[1], policy)

QualityReport(calendar, policy, windows, corpus, rows) ==
    [rows_with_news |-> Cardinality({k \in RowKeys(calendar, windows) :
                                        rows[k].news_count > 0}),
     excluded |-> Cardinality(ExcludedObservations(calendar, policy, corpus))]

\* Everything the files of a package hold.
BuildPackage(calendar, policy, windows, corpus) ==
    LET rows == FeatureRows(calendar, policy, windows, corpus) IN
    [calendar |-> calendar, policy |-> policy, windows |-> windows,
     corpus |-> corpus, rows |-> rows,
     quality |-> QualityReport(calendar, policy, windows, corpus, rows)]

\* The conditions under which build_research_export returns a package.  An
\* empty calendar is valid and ends in an exception all the same.
Buildable(calendar, policy, windows, corpus) ==
    /\ ValidCalendar(calendar) /\ calendar # {}
    /\ ValidWindows(windows)
    /\ Companies # {}
    /\ policy \in Policies
    /\ LeakageAuditPasses(calendar, policy, windows,
                          FeatureRows(calendar, policy, windows, corpus))

-----------------------------------------------------------------------------
(* What the rows should be.                                                *)

\* What could be known at the cutoff and was not before the window began.
KnownInWindow(calendar, policy, corpus, session, company, window) ==
    {a \in corpus :
        /\ company \in a.companies
        /\ InformationAvailable(a) <= DecisionCutoff(session, policy)
        /\ \A t \in calendar : t.sequence <= session.sequence - window =>
              InformationAvailable(a) > DecisionCutoff(t, policy)}

PointInTime(package) ==
    \A k \in RowKeys(package.calendar, package.windows) :
        package.rows[k].articles =
            KnownInWindow(package.calendar, package.policy, package.corpus,
                          k[1], k[2], package.windows[k[3]])
=============================================================================
