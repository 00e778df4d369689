------------------------------- MODULE TextRules -------------------------------
(***************************************************************************)
(* The rules that process_articles applies to an article: link_companies,  *)
(* classify_event and analyze_sentiment of infrastructure/nlp.  A text is  *)
(* what the rules look for in it: the aliases it contains, the keywords of *)
(* every event type, and how many of the words of each list.               *)
(*                                                                         *)
(* The score of a sentiment is a sum of floating-point numbers, here in    *)
(* millionths with what the rounding leaves: as many positive as negative  *)
(* words, three or more of each, do not add up to zero but to a little     *)
(* less, and one negative word more than positive ones, three at most, to  *)
(* a little more than -0.35 where a negator follows.                       *)
(***************************************************************************)
EXTENDS Integers, Sequences, FiniteSets

CONSTANTS
    Aliases,        \* aliases in the order they are stored: company and length
    Inside,         \* the aliases whose text an alias contains, itself included
    EventKeywords,  \* number of keywords of each event type, in the table's order
    MostWords       \* bound: words of a list in a text

AliasIds == DOMAIN Aliases
EventTypes == DOMAIN EventKeywords

ASSUME RuleAssumption ==
    /\ Len(Aliases) \in Nat /\ AliasIds = 1..Len(Aliases)
    /\ \A a \in AliasIds : DOMAIN Aliases[a] = {"company", "length"} /\ Aliases[a].length \in Nat
    /\ Inside \in [AliasIds -> SUBSET AliasIds]
    /\ \A a \in AliasIds : a \in Inside[a]
    /\ \A a \in AliasIds : \A b \in Inside[a] :
          Inside[b] \subseteq Inside[a] /\ (b # a => Aliases[b].length < Aliases[a].length)
    /\ EventKeywords \in Seq(Nat) /\ MostWords \in Nat

VARIABLES text, analysis
ruleVars == <<text, analysis>>

Texts == [aliases : {UNION {Inside[a] : a \in s} : s \in SUBSET AliasIds},
          keywords : {f \in [EventTypes -> 0..MostWords] : \A t \in EventTypes : f[t] <= EventKeywords[t]},
          positive : 0..MostWords, negative : 0..MostWords, uncertain : 0..1,
          negated : BOOLEAN, intensified : BOOLEAN]

-----------------------------------------------------------------------------
(* Links                                                                   *)

\* A stable sort: of aliases of one length the one stored first is first.
Earlier(a, b) ==
    \/ Aliases[a].length > Aliases[b].length
    \/ Aliases[a].length = Aliases[b].length /\ a < b
Stored(a, b) == a < b

SortedBy(aliases, Before(_, _)) ==
    [n \in 1..Cardinality(aliases) |->
        CHOOSE a \in aliases : Cardinality({b \in aliases : Before(b, a)}) = n - 1]
LongestFirst(aliases) == SortedBy(aliases, Earlier)

\* A company that is linked is not linked again.
Link(links, a) ==
    IF \E l \in links : Aliases[l].company = Aliases[a].company THEN links ELSE links \cup {a}

LinkAlong(aliases) ==
    LET links[n \in 0..Len(aliases)] ==
            IF n = 0 THEN {} ELSE Link(links[n - 1], aliases[n])
    IN links[Len(aliases)]

\* Mutant: in the order they are stored.
LinkInStoredOrder(aliases) == LinkAlong(SortedBy(aliases, Stored))

\* One link for each company, by the first of its aliases.
LinkCompanies(aliases) == LinkAlong(LongestFirst(aliases))

-----------------------------------------------------------------------------
(* Events                                                                  *)

Other == 0

\* A type with more hits than the best before it is the best.
Better(keywords, best, t) ==
    IF keywords[t] > (IF best = Other THEN 0 ELSE keywords[best]) THEN t ELSE best

ClassifyEvent(keywords) ==
    LET best[t \in 0..Len(EventKeywords)] ==
            IF t = 0 THEN Other ELSE Better(keywords, best[t - 1], t)
    IN best[Len(EventKeywords)]

-----------------------------------------------------------------------------
(* Sentiment                                                               *)

Words(positive, negative) ==
    350000 * (positive - negative)
    + (IF positive = negative /\ negative >= 3 THEN -4
       ELSE IF negative = positive + 1 /\ negative <= 3 THEN 4 ELSE 0)

Bounded(score) == IF score > 1000000 THEN 1000000 ELSE IF score < -1000000 THEN -1000000 ELSE score

\* A negator softens what is negative.
Softened(score, negated) == IF negated /\ score < 0 THEN score + 150000 ELSE score

Intensified(score, intensified) == IF intensified THEN (score * 5) \div 4 ELSE score

Score(t) == Bounded(Intensified(Softened(Words(t.positive, t.negative), t.negated), t.intensified))

Label(t) ==
    IF t.uncertain > 0 /\ Score(t) > -500000 /\ Score(t) < 500000 THEN "uncertain"
    ELSE IF Score(t) >= 250000 THEN "positive"
    ELSE IF Score(t) <= -250000 THEN "negative"
    ELSE "neutral"

-----------------------------------------------------------------------------
RuleInit == text \in Texts /\ analysis = <<>>

AnalyseText ==
    /\ analysis = <<>>
    /\ analysis' = <<LinkCompanies(text.aliases), ClassifyEvent(text.keywords), Label(text)>>
    /\ UNCHANGED text

RuleSpec == RuleInit /\ [][AnalyseText]_ruleVars
-----------------------------------------------------------------------------
(* Properties                                                              *)

\* An analysis is of the aliases and the event types there are.
RuleTypeOK ==
    /\ text \in Texts
    /\ analysis # <<>> =>
          /\ analysis[1] \subseteq text.aliases
          /\ analysis[2] \in EventTypes \cup {Other}
          /\ analysis[3] \in {"positive", "negative", "neutral", "uncertain"}

\* A company is linked when one of its aliases is in the text, once, and by an
\* alias that no longer alias of it in the text contains; the event is the
\* first of those with the most keywords.
LinksAndEventsAreBest ==
    analysis # <<>> =>
        /\ \A a \in text.aliases :
              \E l \in analysis[1] : /\ Aliases[l].company = Aliases[a].company
                                     /\ Aliases[l].length >= Aliases[a].length
        /\ \A l, k \in analysis[1] : Aliases[l].company = Aliases[k].company => l = k
        /\ \A t \in EventTypes :
              /\ text.keywords[t] > 0 => analysis[2] # Other
              /\ analysis[2] # Other =>
                    \/ text.keywords[t] < text.keywords[analysis[2]]
                    \/ text.keywords[t] = text.keywords[analysis[2]] /\ analysis[2] <= t

\* A positive word more never lowers the score and a negative one never raises
\* it, whatever negators and intensifiers there are, and the label follows: a
\* text of more negative than positive words is never positive.
SentimentFollowsWords ==
    /\ \A more \in text.positive..MostWords : Score(text) <= Score([text EXCEPT !.positive = more])
    /\ \A more \in text.negative..MostWords : Score(text) >= Score([text EXCEPT !.negative = more])
    /\ analysis # <<>> =>
          /\ text.negative >= text.positive => analysis[3] # "positive"
          /\ text.negative <= text.positive => analysis[3] # "negative"

\* The links and the event of a text are the best of those it names, and its
\* sentiment follows its words.
RulesAreSound == LinksAndEventsAreBest /\ SentimentFollowsWords
=============================================================================
