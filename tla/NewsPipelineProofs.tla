--------------------------- MODULE NewsPipelineProofs ---------------------------
(***************************************************************************)
(* Proofs about NewsPipeline, for any sources, texts, records, similarity  *)
(* and bounds, and over both repositories.  An article, once stored, is    *)
(* never changed: everything else follows from what is true when it is.    *)
(***************************************************************************)
EXTENDS NewsPipeline, FiniteSetTheorems, TLAPS

\* The parts of a record.
LEMMA RecordFields ==
    ASSUME NEW r \in Records
    PROVE  /\ r.source \in Sources /\ r.published \in Int
           /\ r.content \in Contents \cup {None}
           /\ Valid(r) <=> r.content \in Contents
  BY RecordsAssumption, NoneAssumption DEF Valid

-----------------------------------------------------------------------------
(* Articles, links and raw articles. *)

ArticlesTypeOK ==
    /\ DOMAIN articles = Contents
    /\ \A c \in Contents : /\ articles[c].state \in {"absent", "processed", "duplicate"}
                          /\ articles[c].published \in Int
    /\ duplicates \subseteq Contents \X Contents
    /\ sources \subseteq Sources
    /\ \A raw \in raws : raw.source \in Sources /\ raw.content \in Contents
    /\ analysed \subseteq Contents

\* A duplicate has a row, and no text is the candidate of two.
Linked ==
    /\ \A c \in Contents : articles[c].state = "duplicate" =>
          \E link \in duplicates : link[1] = c
    /\ \A k, l \in duplicates : k[1] = l[1] => k = l

ArticlesInv ==
    ArticlesTypeOK /\ LinksAreOneHop /\ Linked /\ RawsBackArticles /\ OnlyCanonicalsAnalysed

\* The ways a record may change the articles.
KeepArticles(r) ==
    /\ UNCHANGED <<articles, duplicates, analysed>>
    /\ raws' = raws \/ (Valid(r) /\ ~RawKnown(r) /\ AddRaw(r))

StoreArticle(r, state) ==
    NewArticle(r) /\ AddRaw(r) /\ AddArticle(r, state) /\ UNCHANGED analysed

StoreCanonical(r) == StoreArticle(r, "processed") /\ UNCHANGED duplicates

StoreDuplicate(r, c) ==
    /\ c \in Processed
    /\ StoreArticle(r, "duplicate")
    /\ duplicates' = duplicates \cup {<<r.content, c>>}

\* What is chosen as the original of a near duplicate is a processed article.
LEMMA OriginalIsProcessed ==
    ASSUME NEW r, NEW pool \in Pools(r), NEW c \in NearDuplicates(r, pool)
    PROVE  c \in Processed
  BY DEF Pools, NearDuplicates, Best, Window

\* Every way a record may end is one of these.
LEMMA IngestArticles ==
    ASSUME NEW r \in Records, Ingest(r)
    PROVE  /\ sources' = sources \cup {r.source}
           /\ \/ KeepArticles(r) \/ StoreCanonical(r)
              \/ \E c \in Contents : StoreDuplicate(r, c)
<1>1. CASE RejectInvalid(r)
  BY <1>1 DEF RejectInvalid, Observe, AddSource, KeepArticles
<1>2. CASE ReplayObservation(r)
  BY <1>2 DEF ReplayObservation, Observe, AddSource, KeepArticles
<1>3. CASE ExactDuplicate(r)
  BY <1>3 DEF ExactDuplicate, Observe, AddSource, KeepArticles
<1>4. CASE FailScoring(r)
  BY <1>4 DEF FailScoring, Observe, AddSource, StoreCanonical, StoreArticle
<1>5. CASE NearDuplicate(r)
  <2>1. PICK pool \in Pools(r) : \E c \in NearDuplicates(r, pool) :
           duplicates' = duplicates \cup {<<r.content, c>>}
    BY <1>5 DEF NearDuplicate
  <2>2. PICK c \in NearDuplicates(r, pool) :
           duplicates' = duplicates \cup {<<r.content, c>>}
    BY <2>1
  <2>3. c \in Processed /\ c \in Contents
    BY OriginalIsProcessed DEF Processed
  <2>. QED BY <1>5, <2>2, <2>3
           DEF NearDuplicate, Observe, AddSource, StoreDuplicate, StoreArticle
<1>6. CASE Canonical(r)
  BY <1>6 DEF Canonical, Observe, AddSource, StoreCanonical, StoreArticle
<1>. QED BY <1>1, <1>2, <1>3, <1>4, <1>5, <1>6 DEF Ingest

\* A stored article is never changed, and no row of the other tables is lost.
LEMMA Monotone ==
    ASSUME ArticlesInv, NEW r \in Records,
           KeepArticles(r) \/ StoreCanonical(r) \/ \E c \in Contents : StoreDuplicate(r, c)
    PROVE  /\ \A c \in Stored : articles'[c] = articles[c] /\ c \in Stored'
           /\ duplicates \subseteq duplicates' /\ raws \subseteq raws'
  BY DEF KeepArticles, StoreCanonical, StoreDuplicate, StoreArticle, NewArticle,
         AddArticle, AddRaw, Stored, ArticlesInv, ArticlesTypeOK

LEMMA InitArticles == Init => ArticlesInv
<1>1. NoArticle.state = "absent" /\ NoArticle.published \in Int
  BY DEF NoArticle
<1>. QED BY <1>1 DEF Init, ArticlesInv, ArticlesTypeOK, LinksAreOneHop, Linked,
                     RawsBackArticles, OnlyCanonicalsAnalysed, Stored

\* A raw article with a new identifier keeps raw articles apart.
LEMMA NewRaw ==
    ASSUME ArticlesInv, NEW r \in Records, Valid(r), ~RawKnown(r), AddRaw(r)
    PROVE  /\ \A raw \in raws' : raw.source \in Sources /\ raw.content \in Contents
           /\ \A x, y \in raws' : x.source = y.source /\ x.id = y.id => x = y
<1>1. /\ RawOf(r).source = r.source /\ RawOf(r).id = ObservationId(r)
      /\ RawOf(r).content = r.content
  BY DEF RawOf
<1>2. \A x \in raws : ~(x.source = RawOf(r).source /\ x.id = RawOf(r).id)
  BY <1>1 DEF RawKnown
<1>3. raws' = raws \cup {RawOf(r)}
  BY DEF AddRaw
<1>4. r.source \in Sources /\ r.content \in Contents
  BY RecordFields
<1>. QED BY <1>1, <1>2, <1>3, <1>4 DEF ArticlesInv, ArticlesTypeOK, RawsBackArticles

LEMMA KeepArticlesInv ==
    ASSUME ArticlesInv, NEW r \in Records, KeepArticles(r),
           sources' = sources \cup {r.source}
    PROVE  ArticlesInv'
<1>1. r.source \in Sources
  BY RecordFields
<1>2. /\ \A raw \in raws' : raw.source \in Sources /\ raw.content \in Contents
      /\ \A x, y \in raws' : x.source = y.source /\ x.id = y.id => x = y
  BY NewRaw DEF KeepArticles, ArticlesInv, ArticlesTypeOK, RawsBackArticles
<1>3. raws \subseteq raws'
  BY DEF KeepArticles, AddRaw
<1>4. ArticlesTypeOK'
  BY <1>1, <1>2 DEF KeepArticles, ArticlesInv, ArticlesTypeOK
<1>5. LinksAreOneHop' /\ Linked' /\ OnlyCanonicalsAnalysed'
  BY DEF KeepArticles, ArticlesInv, LinksAreOneHop, Linked, OnlyCanonicalsAnalysed
<1>6. RawsBackArticles'
  BY <1>2, <1>3 DEF KeepArticles, ArticlesInv, RawsBackArticles, Stored
<1>. QED BY <1>4, <1>5, <1>6 DEF ArticlesInv

\* What storing an article does to the articles, whatever its state.
LEMMA StoreArticleInv ==
    ASSUME ArticlesInv, NEW r \in Records, NEW state \in {"processed", "duplicate"},
           StoreArticle(r, state), sources' = sources \cup {r.source},
           duplicates' \subseteq Contents \X Contents
    PROVE  /\ r.content \in Contents /\ articles[r.content].state = "absent"
           /\ articles'[r.content].state = state
           /\ \A c \in Contents \ {r.content} : articles'[c] = articles[c]
           /\ ArticlesTypeOK' /\ RawsBackArticles' /\ OnlyCanonicalsAnalysed'
<1> DEFINE row == [state |-> state, raw |-> RawOf(r), published |-> r.published]
<1>1. /\ r.source \in Sources /\ r.published \in Int
      /\ r.content \in Contents /\ articles[r.content].state = "absent"
  BY RecordFields DEF StoreArticle, NewArticle, Stored
<1>2. articles' = [articles EXCEPT ![r.content] = row]
  BY DEF StoreArticle, AddArticle
<1>3. row.state = state /\ row.published = r.published /\ row.raw = RawOf(r)
  OBVIOUS
<1> HIDE DEF row
<1>4. articles'[r.content] = row
  BY <1>1, <1>2 DEF ArticlesInv, ArticlesTypeOK
<1>5. \A c \in Contents \ {r.content} : articles'[c] = articles[c]
  BY <1>2 DEF ArticlesInv, ArticlesTypeOK
<1>6. DOMAIN articles' = Contents
  BY <1>2 DEF ArticlesInv, ArticlesTypeOK
<1>7. /\ \A raw \in raws' : raw.source \in Sources /\ raw.content \in Contents
      /\ \A x, y \in raws' : x.source = y.source /\ x.id = y.id => x = y
      /\ raws' = raws \cup {RawOf(r)} /\ RawOf(r).content = r.content
  BY NewRaw DEF StoreArticle, NewArticle, AddRaw, RawOf
<1>8. \A c \in Contents : /\ articles'[c].state \in {"absent", "processed", "duplicate"}
                         /\ articles'[c].published \in Int
  BY <1>1, <1>3, <1>4, <1>5 DEF ArticlesInv, ArticlesTypeOK
<1>9. ArticlesTypeOK'
  BY <1>1, <1>6, <1>7, <1>8 DEF StoreArticle, ArticlesInv, ArticlesTypeOK
<1>10. RawsBackArticles'
  BY <1>3, <1>4, <1>5, <1>7 DEF ArticlesInv, RawsBackArticles, Stored
<1>11. OnlyCanonicalsAnalysed'
  BY <1>1, <1>5 DEF StoreArticle, ArticlesInv, ArticlesTypeOK, OnlyCanonicalsAnalysed
<1>. QED BY <1>1, <1>3, <1>4, <1>5, <1>9, <1>10, <1>11

LEMMA StoreCanonicalInv ==
    ASSUME ArticlesInv, NEW r \in Records, StoreCanonical(r),
           sources' = sources \cup {r.source}
    PROVE  ArticlesInv'
<1>1. /\ r.content \in Contents /\ articles[r.content].state = "absent"
      /\ articles'[r.content].state = "processed"
      /\ \A c \in Contents \ {r.content} : articles'[c] = articles[c]
      /\ ArticlesTypeOK' /\ RawsBackArticles' /\ OnlyCanonicalsAnalysed'
  BY StoreArticleInv DEF StoreCanonical, ArticlesInv, ArticlesTypeOK
<1>2. \A link \in duplicates : link[1] \in Contents /\ link[2] \in Contents
  BY DEF ArticlesInv, ArticlesTypeOK
<1>3. LinksAreOneHop'
  BY <1>1, <1>2 DEF StoreCanonical, ArticlesInv, LinksAreOneHop
<1>4. Linked'
  BY <1>1 DEF StoreCanonical, ArticlesInv, Linked
<1>. QED BY <1>1, <1>3, <1>4 DEF ArticlesInv

LEMMA StoreDuplicateInv ==
    ASSUME ArticlesInv, NEW r \in Records, NEW c \in Contents, StoreDuplicate(r, c),
           sources' = sources \cup {r.source}
    PROVE  ArticlesInv'
<1>1. r.content \in Contents
  BY RecordFields DEF StoreDuplicate, StoreArticle, NewArticle
<1>2. duplicates' = duplicates \cup {<<r.content, c>>}
  BY DEF StoreDuplicate
<1>3. duplicates' \subseteq Contents \X Contents
  BY <1>1, <1>2 DEF ArticlesInv, ArticlesTypeOK
<1>4. /\ articles[r.content].state = "absent"
      /\ articles'[r.content].state = "duplicate"
      /\ \A x \in Contents \ {r.content} : articles'[x] = articles[x]
      /\ ArticlesTypeOK' /\ RawsBackArticles' /\ OnlyCanonicalsAnalysed'
  BY <1>3, StoreArticleInv DEF StoreDuplicate
<1>5. articles[c].state = "processed"
  BY DEF StoreDuplicate, Processed
<1>6. \A link \in duplicates : link[1] \in Contents /\ link[2] \in Contents
  BY DEF ArticlesInv, ArticlesTypeOK
<1>7. \A link \in duplicates : link[1] # r.content
  BY <1>4 DEF ArticlesInv, LinksAreOneHop
<1>8. LinksAreOneHop'
  <2> SUFFICES ASSUME NEW link \in duplicates'
               PROVE  /\ articles'[link[1]].state = "duplicate"
                      /\ articles'[link[2]].state = "processed"
    BY DEF LinksAreOneHop
  <2>1. CASE link \in duplicates
    BY <1>4, <1>6, <2>1 DEF ArticlesInv, LinksAreOneHop
  <2>2. CASE link = <<r.content, c>>
    BY <1>4, <1>5, <2>2
  <2>. QED BY <1>2, <2>1, <2>2
<1>9. Linked'
  <2>1. <<r.content, c>> \in duplicates' /\ <<r.content, c>>[1] = r.content
    BY <1>2
  <2>2. \A x \in Contents : articles'[x].state = "duplicate" =>
           \E link \in duplicates' : link[1] = x
    BY <1>2, <1>4, <2>1 DEF ArticlesInv, Linked
  <2>3. \A k, l \in duplicates' : k[1] = l[1] => k = l
    BY <1>2, <1>7, <2>1 DEF ArticlesInv, Linked
  <2>. QED BY <2>2, <2>3 DEF Linked
<1>. QED BY <1>4, <1>8, <1>9 DEF ArticlesInv

LEMMA NextArticles ==
    ASSUME ArticlesInv, [Next]_vars
    PROVE  ArticlesInv'
<1>1. ASSUME NEW r \in Records, Ingest(r) PROVE ArticlesInv'
  BY <1>1, IngestArticles, KeepArticlesInv, StoreCanonicalInv, StoreDuplicateInv
<1>2. CASE ProcessArticles
  <2>1. /\ UNCHANGED <<sources, raws, articles, duplicates>>
        /\ analysed' = analysed \cup Processed
    BY <1>2 DEF ProcessArticles, tables
  <2>. QED BY <2>1 DEF ArticlesInv, ArticlesTypeOK, LinksAreOneHop, Linked,
                       RawsBackArticles, OnlyCanonicalsAnalysed, Stored, Processed
<1>3. CASE NextBatch \/ UNCHANGED vars
  <2>1. UNCHANGED <<sources, raws, articles, duplicates, analysed>>
    BY <1>3 DEF NextBatch, vars, tables
  <2>. QED BY <2>1 DEF ArticlesInv, ArticlesTypeOK, LinksAreOneHop, Linked,
                       RawsBackArticles, OnlyCanonicalsAnalysed, Stored
<1>. QED BY <1>1, <1>2, <1>3 DEF Next

LEMMA ArticlesInvHolds == Spec => []ArticlesInv
  BY InitArticles, NextArticles, PTL DEF Spec

\* Near-duplicate rows never chain, for any similarity and any pool.
THEOREM LinksNeverChain == Spec => []LinksAreOneHop
<1>1. ArticlesInv => LinksAreOneHop
  BY DEF ArticlesInv
<1>. QED BY <1>1, ArticlesInvHolds, PTL

\* An article is marked duplicate exactly when one row says of what.
THEOREM OneLinkPerDuplicate == Spec => []DuplicatesHaveOneLink
<1>1. ArticlesInv => DuplicatesHaveOneLink
  <2> SUFFICES ASSUME ArticlesInv, NEW c \in Contents
               PROVE  Cardinality({link \in duplicates : link[1] = c}) =
                         IF articles[c].state = "duplicate" THEN 1 ELSE 0
    BY DEF DuplicatesHaveOneLink
  <2>1. CASE articles[c].state = "duplicate"
    <3>1. PICK link \in duplicates : link[1] = c
      BY <2>1 DEF ArticlesInv, Linked
    <3>2. {k \in duplicates : k[1] = c} = {link}
      BY <3>1 DEF ArticlesInv, Linked
    <3>. QED BY <2>1, <3>2, FS_Singleton
  <2>2. CASE articles[c].state # "duplicate"
    <3>1. {k \in duplicates : k[1] = c} = {}
      BY <2>2 DEF ArticlesInv, LinksAreOneHop
    <3>. QED BY <2>2, <3>1, FS_EmptySet
  <2>. QED BY <2>1, <2>2
<1>. QED BY <1>1, ArticlesInvHolds, PTL

\* No article that was analysed turns into a duplicate.
THEOREM AnalysedStayCanonical == Spec => []OnlyCanonicalsAnalysed
<1>1. ArticlesInv => OnlyCanonicalsAnalysed
  BY DEF ArticlesInv
<1>. QED BY <1>1, ArticlesInvHolds, PTL

\* A source never has two raw articles under one identifier, and an article has
\* the text of its raw article.
THEOREM RawsStayApart == Spec => []RawsBackArticles
<1>1. ArticlesInv => RawsBackArticles
  BY DEF ArticlesInv
<1>. QED BY <1>1, ArticlesInvHolds, PTL
-----------------------------------------------------------------------------
(* The ledger. *)

\* What holds of a disposition, and goes on holding: it agrees with the tables,
\* and the id it is assigned to is that of the raw article behind its article.
Entry(d) ==
    /\ d.outcome \in Outcomes /\ d.article \in Contents \cup {None}
    /\ d.outcome = "canonical" =>
          /\ d.article \in Contents /\ articles[d.article].state = "processed"
          /\ articles[d.article].raw.id = d.obs
    /\ d.outcome = "near_duplicate" =>
          \E link \in duplicates : /\ link[2] = d.article
                                   /\ link[1] \in Stored
                                   /\ articles[link[1]].raw.id = d.obs
    /\ d.article # None => d.article \in Stored
                           /\ articles[d.article].raw.id = d.canonical

LedgerInv == \A d \in dispositions : Entry(d)

\* Adding a disposition brings no other and loses no observation id; PostgreSQL
\* loses no disposition, and leaves the ledger alone when it knows the id.
LEMMA DispositionAdded ==
    ASSUME NEW d, AddDisposition(d)
    PROVE  /\ dispositions' \subseteq dispositions \cup {d}
           /\ \E e \in dispositions' : e.obs = d.obs
           /\ \A e \in dispositions : \E f \in dispositions' : f.obs = e.obs
           /\ profile = "postgres" =>
                 /\ dispositions \subseteq dispositions'
                 /\ (\E e \in dispositions : e.obs = d.obs) => dispositions' = dispositions
<1> DEFINE same == {e \in dispositions : e.obs = d.obs}
<1>1. dispositions' = IF profile = "memory" THEN (dispositions \ same) \cup {d}
                      ELSE IF same = {} THEN dispositions \cup {d} ELSE dispositions
  BY DEF AddDisposition
<1>2. CASE profile = "memory"
  BY <1>1, <1>2
<1>3. CASE profile # "memory" /\ same = {}
  BY <1>1, <1>3
<1>4. CASE profile # "memory" /\ same # {}
  BY <1>1, <1>4
<1>. QED BY <1>2, <1>3, <1>4

\* The id of the canonical observation of a stored article is the id of the raw
\* article behind it, whatever became of its canonical disposition.
LEMMA CanonicalIsRaw ==
    ASSUME LedgerInv, NEW c \in Contents
    PROVE  CanonicalObservationId(c) = articles[c].raw.id
<1> DEFINE ds == {d \in dispositions : d.outcome = "canonical" /\ d.article = c}
<1>1. CASE ds # {}
  <2>1. (CHOOSE d \in ds : TRUE) \in ds
    BY <1>1
  <2>2. (CHOOSE d \in ds : TRUE).obs = articles[c].raw.id
    BY <2>1 DEF LedgerInv, Entry
  <2>. QED BY <1>1, <2>2 DEF CanonicalObservationId
<1>2. CASE ds = {}
  BY <1>2 DEF CanonicalObservationId
<1>. QED BY <1>1, <1>2

\* What holds of a disposition survives every record.
LEMMA EntryStays ==
    ASSUME ArticlesInv, NEW r \in Records, Ingest(r), NEW d, Entry(d)
    PROVE  Entry(d)'
<1>1. /\ \A c \in Stored : articles'[c] = articles[c] /\ c \in Stored'
      /\ duplicates \subseteq duplicates'
  BY IngestArticles, Monotone
<1>2. d.outcome = "canonical" => d.article \in Stored
  BY DEF Entry, Stored
<1>3. d.outcome = "near_duplicate" =>
          \E link \in duplicates' : /\ link[2] = d.article
                                    /\ link[1] \in Stored'
                                    /\ articles'[link[1]].raw.id = d.obs
  BY <1>1 DEF Entry
<1>. QED BY <1>1, <1>2, <1>3 DEF Entry

\* The id under which a record is observed.
IdOf(r) == IF Valid(r) THEN ObservationId(r) ELSE UnvalidatedId(r)

\* A record brings one disposition, under its id, that agrees with the tables.
Brings(r, d, obs) ==
    /\ AddDisposition(d) /\ d.obs = obs
    /\ seen' = seen \cup {<<r, obs>>}

LEMMA RejectionBrings ==
    ASSUME NEW r \in Records, RejectInvalid(r) \/ FailScoring(r)
    PROVE  \E d, obs : Brings(r, d, obs) /\ Entry(d)' /\ obs = IdOf(r)
<1>1. ASSUME NEW obs, NEW d, d = Disposition(obs, "rejected", None, None)
      PROVE  Entry(d)' /\ d.obs = obs
  BY <1>1 DEF Entry, Disposition, Outcomes
<1>2. CASE RejectInvalid(r)
  BY <1>1, <1>2 DEF RejectInvalid, Observe, Brings, IdOf
<1>3. CASE FailScoring(r)
  BY <1>1, <1>3 DEF FailScoring, Observe, Brings, IdOf, NewArticle
<1>. QED BY <1>2, <1>3

LEMMA CopyBrings ==
    ASSUME ArticlesInv, LedgerInv, NEW r \in Records,
           ReplayObservation(r) \/ ExactDuplicate(r)
    PROVE  \E d, obs : Brings(r, d, obs) /\ Entry(d)' /\ obs = IdOf(r)
<1>1. ASSUME NEW obs, NEW d, d = Disposition(obs, "exact_duplicate", None, None)
      PROVE  Entry(d)' /\ d.obs = obs
  BY <1>1 DEF Entry, Disposition, Outcomes
<1>2. UNCHANGED articles
  BY DEF ReplayObservation, ExactDuplicate
<1>3. ASSUME NEW obs, NEW c \in Stored, NEW id, id = articles[c].raw.id, NEW d,
             d = Disposition(obs, "exact_duplicate", id, c)
      PROVE  Entry(d)' /\ d.obs = obs
  <2>1. /\ d.outcome = "exact_duplicate" /\ d.article = c /\ d.canonical = id /\ d.obs = obs
        /\ c \in Contents
    BY <1>3 DEF Disposition, Stored
  <2>2. c \in Stored' /\ articles'[c].raw.id = id
    BY <1>2, <1>3 DEF Stored
  <2>. QED BY <2>1, <2>2 DEF Entry, Outcomes
<1>4. \A c \in Stored : CanonicalObservationId(c) = articles[c].raw.id
  BY CanonicalIsRaw DEF Stored
<1>5. Valid(r) /\ seen' = seen \cup {<<r, ObservationId(r)>>}
  BY DEF ReplayObservation, ExactDuplicate, Observe
<1>6. \/ /\ r.content \in Stored
         /\ AddDisposition(Disposition(ObservationId(r), "exact_duplicate",
                                       CanonicalObservationId(r.content), r.content))
      \/ AddDisposition(Disposition(ObservationId(r), "exact_duplicate", None, None))
  BY DEF ReplayObservation, ExactDuplicate
<1>. QED BY <1>1, <1>3, <1>4, <1>5, <1>6 DEF Brings, IdOf

LEMMA NearDuplicateBrings ==
    ASSUME ArticlesInv, LedgerInv, NEW r \in Records, NearDuplicate(r)
    PROVE  \E d, obs : Brings(r, d, obs) /\ Entry(d)' /\ obs = IdOf(r)
<1>1. PICK pool \in Pools(r) : \E c \in NearDuplicates(r, pool) :
         /\ duplicates' = duplicates \cup {<<r.content, c>>}
         /\ AddDisposition(Disposition(ObservationId(r), "near_duplicate",
                                       CanonicalObservationId(c), c))
  BY DEF NearDuplicate
<1>2. PICK c \in NearDuplicates(r, pool) :
         /\ duplicates' = duplicates \cup {<<r.content, c>>}
         /\ AddDisposition(Disposition(ObservationId(r), "near_duplicate",
                                       CanonicalObservationId(c), c))
  BY <1>1
<1>3. c \in Stored /\ c \in Contents
  BY OriginalIsProcessed DEF Processed, Stored
<1>4. r.content \in Contents
  BY RecordFields DEF NearDuplicate, NewArticle
<1>5. c \in Stored' /\ articles'[c] = articles[c]
  BY <1>3, IngestArticles, Monotone DEF Ingest
<1>6. /\ r.content \in Stored'
      /\ articles'[r.content].raw.id = ObservationId(r)
  BY <1>4 DEF NearDuplicate, AddArticle, Stored, RawOf, ArticlesInv, ArticlesTypeOK
<1>7. CanonicalObservationId(c) = articles[c].raw.id
  BY <1>3, CanonicalIsRaw
<1>8. ASSUME NEW obs, obs = ObservationId(r), NEW id, id = articles[c].raw.id, NEW d,
             d = Disposition(obs, "near_duplicate", id, c)
      PROVE  Entry(d)' /\ d.obs = obs
  <2>1. /\ d.outcome = "near_duplicate" /\ d.article = c /\ d.canonical = id /\ d.obs = obs
    BY <1>8 DEF Disposition
  <2>2. <<r.content, c>> \in duplicates' /\ <<r.content, c>>[1] = r.content
        /\ <<r.content, c>>[2] = c
    BY <1>2
  <2>3. \E link \in duplicates' : /\ link[2] = c /\ link[1] \in Stored'
                                 /\ articles'[link[1]].raw.id = obs
    BY <1>6, <1>8, <2>2
  <2>. QED BY <1>3, <1>5, <1>8, <2>1, <2>3 DEF Entry, Outcomes
<1>9. Valid(r) /\ seen' = seen \cup {<<r, ObservationId(r)>>}
  BY DEF NearDuplicate, NewArticle, Observe
<1>. QED BY <1>2, <1>7, <1>8, <1>9 DEF Brings, IdOf

LEMMA CanonicalBrings ==
    ASSUME ArticlesInv, NEW r \in Records, Canonical(r)
    PROVE  \E d, obs : Brings(r, d, obs) /\ Entry(d)' /\ obs = IdOf(r)
<1>1. r.content \in Contents
  BY RecordFields DEF Canonical, NewArticle
<1>2. /\ r.content \in Stored' /\ articles'[r.content].state = "processed"
      /\ articles'[r.content].raw.id = ObservationId(r)
  BY <1>1 DEF Canonical, AddArticle, Stored, RawOf, ArticlesInv, ArticlesTypeOK
<1>3. ASSUME NEW obs, obs = ObservationId(r), NEW d,
             d = Disposition(obs, "canonical", obs, r.content)
      PROVE  Entry(d)' /\ d.obs = obs
  <2>1. /\ d.outcome = "canonical" /\ d.article = r.content /\ d.canonical = obs
        /\ d.obs = obs
    BY <1>3 DEF Disposition
  <2>. QED BY <1>1, <1>2, <1>3, <2>1 DEF Entry, Outcomes
<1>4. Valid(r) /\ seen' = seen \cup {<<r, ObservationId(r)>>}
  BY DEF Canonical, NewArticle, Observe
<1>5. AddDisposition(Disposition(ObservationId(r), "canonical", ObservationId(r), r.content))
  BY DEF Canonical
<1>. QED BY <1>3, <1>4, <1>5 DEF Brings, IdOf

LEMMA IngestBrings ==
    ASSUME ArticlesInv, LedgerInv, NEW r \in Records, Ingest(r)
    PROVE  \E d, obs : Brings(r, d, obs) /\ Entry(d)' /\ obs = IdOf(r)
  BY RejectionBrings, CopyBrings, NearDuplicateBrings, CanonicalBrings DEF Ingest

LEMMA NextLedger ==
    ASSUME ArticlesInv, LedgerInv, [Next]_vars
    PROVE  LedgerInv'
<1>1. ASSUME NEW r \in Records, Ingest(r) PROVE LedgerInv'
  <2>1. PICK d, obs : Brings(r, d, obs) /\ Entry(d)'
    BY <1>1, IngestBrings
  <2>2. dispositions' \subseteq dispositions \cup {d}
    BY <2>1, DispositionAdded DEF Brings
  <2>3. \A e \in dispositions : Entry(e)'
    BY <1>1, EntryStays DEF LedgerInv
  <2>. QED BY <2>1, <2>2, <2>3 DEF LedgerInv
<1>2. CASE ProcessArticles \/ NextBatch \/ UNCHANGED vars
  <2>1. UNCHANGED <<articles, duplicates, dispositions>>
    BY <1>2 DEF ProcessArticles, NextBatch, vars, tables
  <2>. QED BY <2>1 DEF LedgerInv, Entry, Stored
<1>. QED BY <1>1, <1>2 DEF Next

LEMMA LedgerInvHolds == Spec => []LedgerInv
<1>1. Init => LedgerInv
  BY DEF Init, LedgerInv
<1>. QED BY <1>1, NextLedger, ArticlesInvHolds, PTL DEF Spec

\* The ledger agrees with the article tables, over both repositories.
THEOREM LedgerAgrees == Spec => []LedgerMatchesTables
<1>1. LedgerInv => LedgerMatchesTables
  BY DEF LedgerInv, Entry, LedgerMatchesTables
<1>. QED BY <1>1, LedgerInvHolds, PTL

\* A ledger the accounting accepts assigns every duplicate to a canonical
\* observation of its article, though the accounting never compares the two.
THEOREM AcceptedIsOneHop == Spec => []AcceptedAccountingIsOneHop
<1>1. LedgerInv => AcceptedAccountingIsOneHop
  <2> SUFFICES ASSUME LedgerInv, AccountingAccepts, NEW d \in ValidDispositions
               PROVE  \E k \in CanonicalDispositions :
                         k.obs = d.canonical /\ k.article = d.article
    BY DEF AcceptedAccountingIsOneHop
  <2>1. d.article # None /\ d.article \in CanonicalArticles /\ d \in dispositions
    BY DEF AccountingAccepts, ValidDispositions
  <2>2. PICK k \in CanonicalDispositions : k.article = d.article
    BY <2>1 DEF CanonicalArticles
  <2>3. k.obs = articles[k.article].raw.id
    BY DEF CanonicalDispositions, LedgerInv, Entry
  <2>4. d.canonical = articles[d.article].raw.id
    BY <2>1 DEF LedgerInv, Entry
  <2>. QED BY <2>2, <2>3, <2>4
<1>. QED BY <1>1, LedgerInvHolds, PTL

\* In PostgreSQL no disposition is changed or dropped.
THEOREM LedgerKeeps == Spec => LedgerImmutable
<1>1. ArticlesInv /\ LedgerInv /\ [Next]_vars =>
         [profile = "postgres" => dispositions \subseteq dispositions']_vars
  <2> SUFFICES ASSUME ArticlesInv, LedgerInv, Next, profile = "postgres"
               PROVE  dispositions \subseteq dispositions'
    OBVIOUS
  <2>1. ASSUME NEW r \in Records, Ingest(r) PROVE dispositions \subseteq dispositions'
    BY <2>1, IngestBrings, DispositionAdded DEF Brings
  <2>. QED BY <2>1 DEF Next, ProcessArticles, NextBatch, tables
<1>. QED BY <1>1, ArticlesInvHolds, LedgerInvHolds, PTL DEF Spec, LedgerImmutable

-----------------------------------------------------------------------------
(* Replays. *)

\* What ingesting a record leaves behind for its replay to find.
SeenInv ==
    \A s \in seen :
        /\ s[1].source \in sources
        /\ Valid(s[1]) => RawKnown(s[1])
        /\ \E d \in dispositions : d.obs = s[2]

LEMMA NextSeen ==
    ASSUME ArticlesInv, LedgerInv, SeenInv, [Next]_vars
    PROVE  SeenInv'
<1>1. ASSUME NEW r \in Records, Ingest(r) PROVE SeenInv'
  <2>1. PICK d, obs : Brings(r, d, obs)
    BY <1>1, IngestBrings
  <2>2. /\ \E e \in dispositions' : e.obs = obs
        /\ \A e \in dispositions : \E f \in dispositions' : f.obs = e.obs
    BY <2>1, DispositionAdded DEF Brings
  <2>3. sources' = sources \cup {r.source} /\ raws \subseteq raws'
    BY <1>1, IngestArticles, Monotone
  <2>4. Valid(r) => RawKnown(r)'
    <3>1. RawKnown(r) => RawKnown(r)'
      BY <2>3 DEF RawKnown
    <3>2. AddRaw(r) => RawKnown(r)'
      <4>1. RawOf(r).source = r.source /\ RawOf(r).id = ObservationId(r)
        BY DEF RawOf
      <4>. QED BY <4>1 DEF AddRaw, RawKnown
    <3>3. Valid(r) => RawKnown(r) \/ AddRaw(r)
      BY <1>1 DEF Ingest, RejectInvalid, ReplayObservation, ExactDuplicate, FailScoring,
                  NearDuplicate, Canonical
    <3>. QED BY <3>1, <3>2, <3>3
  <2>5. ASSUME NEW s \in seen
        PROVE  /\ s[1].source \in sources'
               /\ Valid(s[1]) => RawKnown(s[1])'
               /\ \E e \in dispositions' : e.obs = s[2]
    BY <2>2, <2>3 DEF SeenInv, RawKnown
  <2>6. \A s \in seen' : s \in seen \/ (s[1] = r /\ s[2] = obs)
    BY <2>1 DEF Brings
  <2>7. Valid(r)' <=> Valid(r)
    BY DEF Valid
  <2>. QED BY <2>2, <2>3, <2>4, <2>5, <2>6 DEF SeenInv, Valid, RawKnown
<1>2. CASE ProcessArticles \/ NextBatch \/ UNCHANGED vars
  <2>1. UNCHANGED <<sources, raws, dispositions, seen>>
    BY <1>2 DEF ProcessArticles, NextBatch, vars, tables
  <2>. QED BY <2>1 DEF SeenInv, RawKnown, Valid
<1>. QED BY <1>1, <1>2 DEF Next

LEMMA SeenInvHolds == Spec => []SeenInv
<1>1. Init => SeenInv
  BY DEF Init, SeenInv
<1>. QED BY <1>1, NextSeen, ArticlesInvHolds, LedgerInvHolds, PTL DEF Spec

\* In PostgreSQL a record ingested again under the same identifier changes no
\* table, however many others came between.
THEOREM ReplaysChangeNothing == Spec => ReplayChangesNothing
<1> DEFINE Replays == \A r \in Records, obs \in {s[2] : s \in seen} :
              /\ profile = "postgres"
              /\ <<r, obs>> \in seen
              /\ Ingest(r)
              /\ obs = IF Valid(r) THEN ObservationId(r) ELSE UnvalidatedId(r)
              => UNCHANGED tables
<1>1. ArticlesInv /\ LedgerInv /\ SeenInv => Replays
  <2> SUFFICES ASSUME ArticlesInv, LedgerInv, SeenInv, NEW r \in Records, NEW obs,
                      profile = "postgres", <<r, obs>> \in seen, Ingest(r),
                      obs = IdOf(r)
               PROVE  UNCHANGED tables
    BY DEF IdOf
  <2>1. PICK d, id : Brings(r, d, id) /\ id = IdOf(r)
    BY IngestBrings
  <2>2. r.source \in sources /\ (Valid(r) => RawKnown(r))
        /\ \E e \in dispositions : e.obs = obs
    BY DEF SeenInv
  <2>3. dispositions' = dispositions
    BY <2>1, <2>2, DispositionAdded DEF Brings
  <2>4. sources' = sources
    BY <2>2, IngestArticles
  <2>5. UNCHANGED <<articles, duplicates, raws>>
    BY <2>2, IngestArticles
       DEF KeepArticles, StoreCanonical, StoreDuplicate, StoreArticle, NewArticle
  <2>. QED BY <2>3, <2>4, <2>5 DEF tables
<1>. QED BY <1>1, ArticlesInvHolds, LedgerInvHolds, SeenInvHolds, PTL
         DEF Spec, ReplayChangesNothing
-----------------------------------------------------------------------------
(* Types. *)

CountersTypeOK ==
    /\ profile \in {"memory", "postgres"}
    /\ \A k \in DOMAIN counts : counts[k] \in Nat
    /\ \A k \in DOMAIN runs : runs[k] \in Nat

LEMMA NextCounters ==
    ASSUME CountersTypeOK, [Next]_vars
    PROVE  CountersTypeOK'
<1>1. ASSUME NEW r \in Records, Ingest(r) PROVE CountersTypeOK'
  <2>1. PICK obs, kinds, outcome : Observe(r, obs, kinds, outcome)
    BY <1>1 DEF Ingest, RejectInvalid, ReplayObservation, ExactDuplicate, FailScoring,
                NearDuplicate, Canonical
  <2>2. profile' = profile
    BY <2>1 DEF Observe
  <2>3. \A k \in DOMAIN counts' : counts'[k] \in Nat
    BY <2>1 DEF Observe, Count, CountersTypeOK
  <2>4. \A k \in DOMAIN runs' : runs'[k] \in Nat
    <3>1. PICK status : runs' = [runs EXCEPT ![status] = @ + 1]
      BY <2>1 DEF Observe, AddIngestionRun
    <3>. QED BY <3>1 DEF CountersTypeOK
  <2>. QED BY <2>2, <2>3, <2>4 DEF CountersTypeOK
<1>2. CASE NextBatch
  BY <1>2 DEF NextBatch, CountersTypeOK
<1>3. CASE ProcessArticles \/ UNCHANGED vars
  BY <1>3 DEF ProcessArticles, vars, CountersTypeOK
<1>. QED BY <1>1, <1>2, <1>3 DEF Next

\* Every variable holds rows of its table.
THEOREM TypesHold == Spec => []TypeOK
<1>1. Init => CountersTypeOK
  BY DEF Init, CountersTypeOK
<1>2. Spec => []CountersTypeOK
  BY <1>1, NextCounters, PTL DEF Spec
<1>3. ArticlesInv /\ LedgerInv /\ CountersTypeOK => TypeOK
  BY DEF ArticlesInv, ArticlesTypeOK, LedgerInv, Entry, CountersTypeOK, TypeOK
<1>. QED BY <1>2, <1>3, ArticlesInvHolds, LedgerInvHolds, PTL

-----------------------------------------------------------------------------
(* The pipeline implements the register of canonical texts. *)

Roles == [c \in Contents |-> Role(c)]

\* The role of a text is read off its article and its row.
LEMMA RoleValues ==
    ASSUME ArticlesInv, NEW c \in Contents
    PROVE  /\ articles[c].state = "absent" => Role(c) = None
           /\ articles[c].state = "processed" => Role(c) = c
           /\ \A link \in duplicates : link[1] = c => Role(c) = link[2]
<1>1. ASSUME NEW link \in duplicates, link[1] = c PROVE Role(c) = link[2]
  <2>1. articles[c].state = "duplicate"
    BY <1>1 DEF ArticlesInv, LinksAreOneHop
  <2>2. (CHOOSE k \in duplicates : k[1] = c) = link
    BY <1>1 DEF ArticlesInv, Linked
  <2>. QED BY <2>1, <2>2 DEF Role
<1>. QED BY <1>1 DEF Role

\* A text that has a role keeps it.
LEMMA RoleStays ==
    ASSUME ArticlesInv, ArticlesInv', duplicates \subseteq duplicates',
           NEW c \in Contents, articles'[c].state = articles[c].state
    PROVE  Role(c)' = Role(c)
<1>1. CASE articles[c].state = "duplicate"
  <2>1. PICK link \in duplicates : link[1] = c
    BY <1>1 DEF ArticlesInv, Linked
  <2>2. (CHOOSE k \in duplicates : k[1] = c) = link
    BY <2>1 DEF ArticlesInv, Linked
  <2>3. (CHOOSE k \in duplicates' : k[1] = c) = link
    BY <2>1 DEF ArticlesInv, Linked
  <2>. QED BY <1>1, <2>2, <2>3 DEF Role
<1>2. CASE articles[c].state \in {"absent", "processed"}
  BY <1>2 DEF Role
<1>. QED BY <1>1, <1>2 DEF ArticlesInv, ArticlesTypeOK

LEMMA IngestRegisters ==
    ASSUME ArticlesInv, ArticlesInv', NEW r \in Records, Ingest(r)
    PROVE  Register!Next \/ UNCHANGED Roles
<1>1. sources' = sources \cup {r.source}
  BY IngestArticles
<1>2. CASE KeepArticles(r)
  BY <1>2 DEF KeepArticles, Roles, Role
<1>3. ASSUME NEW state \in {"processed", "duplicate"}, StoreArticle(r, state),
             duplicates \subseteq duplicates', duplicates' \subseteq Contents \X Contents
      PROVE  /\ r.content \in Contents /\ Roles[r.content] = None
             /\ articles'[r.content].state = state
             /\ Roles' = [Roles EXCEPT ![r.content] = Role(r.content)']
  <2>1. /\ r.content \in Contents /\ articles[r.content].state = "absent"
        /\ articles'[r.content].state = state
        /\ \A c \in Contents \ {r.content} : articles'[c] = articles[c]
    BY <1>1, <1>3, StoreArticleInv
  <2>2. \A c \in Contents \ {r.content} : Role(c)' = Role(c)
    BY <1>3, <2>1, RoleStays
  <2>. QED BY <2>1, <2>2, RoleValues DEF Roles
<1>4. CASE StoreCanonical(r)
  <2>1. /\ r.content \in Contents /\ Roles[r.content] = None
        /\ articles'[r.content].state = "processed"
        /\ Roles' = [Roles EXCEPT ![r.content] = Role(r.content)']
    BY <1>3, <1>4 DEF StoreCanonical, ArticlesInv, ArticlesTypeOK
  <2>2. Role(r.content)' = r.content
    BY <2>1 DEF Role
  <2>. QED BY <2>1, <2>2 DEF Register!Next, Register!Register, Roles
<1>5. ASSUME NEW c \in Contents, StoreDuplicate(r, c) PROVE Register!Next
  <2>1. duplicates' \subseteq Contents \X Contents
    BY DEF ArticlesInv, ArticlesTypeOK
  <2>2. /\ r.content \in Contents /\ Roles[r.content] = None
        /\ articles'[r.content].state = "duplicate"
        /\ Roles' = [Roles EXCEPT ![r.content] = Role(r.content)']
    BY <1>3, <1>5, <2>1 DEF StoreDuplicate
  <2>3. <<r.content, c>> \in duplicates' /\ <<r.content, c>>[1] = r.content
        /\ <<r.content, c>>[2] = c
    BY <1>5 DEF StoreDuplicate
  <2>4. (CHOOSE k \in duplicates' : k[1] = r.content) = <<r.content, c>>
    BY <2>3 DEF ArticlesInv, Linked
  <2>5. Role(r.content)' = c
    BY <2>2, <2>3, <2>4 DEF Role
  <2>6. Roles[c] = c
    BY <1>5, RoleValues DEF StoreDuplicate, Processed, Roles
  <2>. QED BY <2>2, <2>5, <2>6
           DEF Register!Next, Register!Represent, Register!IsCanonical, Roles
<1>. QED BY <1>2, <1>4, <1>5, IngestArticles

LEMMA NextRegisters ==
    ASSUME ArticlesInv, ArticlesInv', [Next]_vars
    PROVE  [Register!Next]_Roles
<1>1. ASSUME NEW r \in Records, Ingest(r) PROVE [Register!Next]_Roles
  BY <1>1, IngestRegisters
<1>2. CASE ProcessArticles \/ NextBatch \/ UNCHANGED vars
  <2>1. UNCHANGED <<articles, duplicates>>
    BY <1>2 DEF ProcessArticles, NextBatch, vars, tables
  <2>. QED BY <2>1 DEF Roles, Role
<1>. QED BY <1>1, <1>2 DEF Next

\* Whatever is ingested, replayed or rejected, each text gets one canonical text,
\* once, and a canonical text is its own.
THEOREM Refinement == Spec => RegisterSpec
<1>1. Init => Register!Init
  BY DEF Init, Register!Init, Role, NoArticle
<1>2. ArticlesInv /\ ArticlesInv' /\ [Next]_vars => [Register!Next]_([c \in Contents |-> Role(c)])
  BY NextRegisters DEF Roles
<1>. QED BY <1>1, <1>2, ArticlesInvHolds, PTL DEF Spec, RegisterSpec, Register!Spec
-----------------------------------------------------------------------------
(* What the runs check, put together. *)

\* Every near duplicate has one row, and it points at a processed article, for
\* any texts, windows and similarities.
THEOREM DuplicatesHold == Spec => []DuplicatesSound
<1>1. LinksAreOneHop /\ DuplicatesHaveOneLink => DuplicatesSound
  BY DEF DuplicatesSound
<1>. QED BY <1>1, LinksNeverChain, OneLinkPerDuplicate, PTL

\* Raw articles, articles and ledger agree, and what the accounting accepts is
\* assigned to canonical observations of the same articles.
THEOREM LedgerHolds == Spec => []LedgerSound
<1>1. RawsBackArticles /\ LedgerMatchesTables /\ AcceptedAccountingIsOneHop => LedgerSound
  BY DEF LedgerSound
<1>. QED BY <1>1, RawsStayApart, LedgerAgrees, AcceptedIsOneHop, PTL

\* In PostgreSQL a replay rewrites neither the ledger nor the business tables.
THEOREM ReplaysKeep == Spec => ReplaysKeepRows
<1>. QED BY LedgerKeeps, ReplaysChangeNothing DEF ReplaysKeepRows
=============================================================================
