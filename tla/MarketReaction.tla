---------------------------- MODULE MarketReaction ----------------------------
(***************************************************************************)
(* The event studies of application/services/market_reaction.py: for every *)
(* signal and every reaction window, the session its decision falls on,    *)
(* the bars before and after it, the label of the return, and the counts   *)
(* made of the labels, the cases listed as errors, and what is published.  *)
(*                                                                         *)
(* Time is counted in days.  The bar of a session becomes available at the *)
(* midnight that follows it, so that it is available at a signal's cutoff  *)
(* just when the cutoff is on a later day: the hour of a cutoff decides    *)
(* nothing.  Prices are the environment's: a study meets an abnormal       *)
(* return above, below or within the threshold.  The scenarios are studied *)
(* one after the other and share nothing but the signals: a run is of one. *)
(***************************************************************************)
EXTENDS Integers, Sequences, FiniteSets

CONSTANTS
    SessionDays,        \* the days of the sessions, in their order
    Horizons,           \* the reaction windows
    LastOffset,         \* sessions from the decision to the end of a window
    ControlSessions,    \* sessions of the control window
    SessionsKept,       \* sessions kept free for the longest window
    RegimeLength,       \* sessions of a market state
    SignalLists,        \* the signals a run may find
    MaxSignals,         \* signals studied
    MaxErrorCases,      \* error cases listed, those of missing bars not counted
    StudiesShown,       \* studies published
    EffectLength        \* sessions over which a planted effect fades

Directions == {"positive", "negative", "mixed", "uncertain"}
LiveStatuses == {"informational", "research"}
SignalStatuses == LiveStatuses \cup {"abstained", "rejected", "expired"}
Confidences == {"high", "medium", "low", "missing"}
Scenarios == {"null", "planted", "regime_shift"}

\* day: the date of information_cutoff_at.  strong: the product of score and
\* confidence is 0.3 or more, which it never is where the direction has no
\* sign.  A low confidence is above zero.
ReactionSignals ==
    [day : Int, direction : Directions, status : SignalStatuses,
     confidence : Confidences, strong : BOOLEAN]

N == Len(SessionDays)

ASSUME ReactionAssumption ==
    /\ SessionDays \in Seq(Int)
    /\ \A i, j \in 1..N : i < j => SessionDays[i] < SessionDays[j]
    /\ Horizons \in Seq(DOMAIN LastOffset)
    /\ LastOffset \in [DOMAIN LastOffset -> Nat \ {0}]
    /\ ControlSessions \in Nat \ {0}
    /\ SessionsKept \in 1..N
    /\ \A h \in DOMAIN LastOffset : LastOffset[h] < SessionsKept
    /\ RegimeLength \in Nat \ {0}
    /\ \A l \in SignalLists : l \in Seq(ReactionSignals)
    /\ \A l \in SignalLists : \A i \in DOMAIN l :
          l[i].strong => l[i].direction \in {"positive", "negative"}
    /\ MaxSignals \in Nat /\ MaxErrorCases \in Nat /\ StudiesShown \in Nat
    /\ EffectLength \in Nat

VARIABLES
    scenario,          \* the scenario of the run
    reactionSignals,   \* the signals studied
    position,          \* signal and window that are next
    studies,           \* the studies made so far, in their order
    labels,            \* the label of each
    metrics,           \* the counts made of the labels
    errorCases,        \* the labels listed as errors, and their categories
    published          \* what the static payload holds

reactionVars == <<scenario, reactionSignals, position, studies, labels, metrics,
                  errorCases, published>>

Least(m, n) == IF m <= n THEN m ELSE n

\* _eligible_signals: those that say where the price should go, or that it
\* may go both ways.
HasDirection(signal) == signal.direction # "uncertain"
Eligible(list) == {i \in DOMAIN list : HasDirection(list[i])}
EligibleUpTo(list, i) == {j \in Eligible(list) : j <= i}

\* The first of them, in their order.
EligibleSignals(list) ==
    [place \in 1 .. Least(Cardinality(Eligible(list)), MaxSignals) |->
        list[CHOOSE i \in Eligible(list) : Cardinality(EligibleUpTo(list, i)) = place]]

NotMade == [made |-> FALSE]

ReactionInit ==
    /\ scenario \in Scenarios
    /\ \E list \in SignalLists : reactionSignals = EligibleSignals(list)
    /\ position = [signal |-> 1, horizon |-> 1]
    /\ studies = <<>> /\ labels = <<>>
    /\ metrics = NotMade /\ errorCases = NotMade /\ published = NotMade

-----------------------------------------------------------------------------
(* A study                                                                 *)

AvailableDay(session) == SessionDays[session] + 1

\* Mutant: no room is kept for the longest window.
DecisionIndexUncapped(signal) ==
    LET later == {i \in 1..N : SessionDays[i] >= signal.day} IN
    IF later = {} THEN N \div 2 + 1 ELSE CHOOSE i \in later : \A j \in later : i <= j

\* The first session on the day of the signal or later, or earlier than
\* that, so that the longest window fits; of a signal after the last
\* session, the middle one.
DecisionIndex(signal) ==
    LET later == {i \in 1..N : SessionDays[i] >= signal.day} IN
    IF later = {} THEN N \div 2 + 1
    ELSE Least(CHOOSE i \in later : \A j \in later : i <= j, N - SessionsKept + 1)

WindowEnd(signal, horizon) == Least(DecisionIndex(signal) + LastOffset[horizon], N)
Window(signal, horizon) == DecisionIndex(signal) .. WindowEnd(signal, horizon)
ControlWindow(signal) ==
    (DecisionIndex(signal) - ControlSessions) .. (DecisionIndex(signal) - 1)

\* Why a study is excluded.  The reasons are looked for in this order.
ExcludedReason(signal, horizon) ==
    IF \/ WindowEnd(signal, horizon) <= DecisionIndex(signal)
       \/ DecisionIndex(signal) - ControlSessions < 1
    THEN "insufficient_bar_coverage"
    ELSE IF \E i \in Window(signal, horizon) : AvailableDay(i) <= signal.day
    THEN "bar_not_after_decision"
    ELSE "none"

Study(signal, horizon) ==
    LET reason == ExcludedReason(signal, horizon) IN
    [signal |-> signal, horizon |-> horizon, excluded |-> reason,
     bars |-> IF reason = "none" THEN Window(signal, horizon) ELSE {},
     control |-> IF reason = "none" THEN ControlWindow(signal) ELSE {},
     decision_day |-> IF reason = "none" THEN AvailableDay(DecisionIndex(signal))
                      ELSE signal.day]

\* The sessions whose bars a scenario moves because of a signal.  A signal
\* that is studied late has them moved before it was known.
PlantedSessions(signal) ==
    IF scenario = "null" \/ signal.direction = "mixed" THEN {}
    ELSE {i \in DecisionIndex(signal) .. (DecisionIndex(signal) + EffectLength - 1) : i <= N}

-----------------------------------------------------------------------------
(* Its label                                                               *)

AbnormalReturns == {"above", "below", "within"}
ReactionOutcomes == {"muted", "mixed", "consistent_positive", "consistent_negative", "opposite"}

ReactionLabel(signal, abnormal) ==
    CASE signal.status \notin LiveStatuses ->
            IF abnormal = "within" THEN "muted" ELSE "mixed"
      [] signal.status \in LiveStatuses /\ signal.direction \in {"mixed", "uncertain"} ->
            "mixed"
      [] OTHER ->
            IF abnormal = "within" THEN "muted"
            ELSE IF signal.direction = "positive" /\ abnormal = "above"
                 THEN "consistent_positive"
            ELSE IF signal.direction = "negative" /\ abnormal = "below"
                 THEN "consistent_negative"
            ELSE "opposite"

\* The market state of a day that is no session is that of the first one.
MarketStates == <<"calm", "risk_off", "high_volatility", "commodity_shock",
                  "crypto_stress">>
MarketState(day) ==
    LET index == IF \E i \in 1..N : SessionDays[i] = day
                 THEN CHOOSE i \in 1..N : SessionDays[i] = day ELSE 1
    IN MarketStates[Least((index - 1) \div RegimeLength, Len(MarketStates) - 1) + 1]

LabelOf(study, abnormal) ==
    [study |-> study,
     label |-> IF study.excluded # "none" THEN "unavailable"
               ELSE ReactionLabel(study.signal, abnormal),
     market_state |-> MarketState(study.decision_day)]

-----------------------------------------------------------------------------
(* Metrics, of a set of labels named by their places in the list           *)

Labelled(rows, outcomes) == {i \in rows : labels[i].label \in outcomes}
SignalOf(i) == labels[i].study.signal
Consistent == {"consistent_positive", "consistent_negative"}

\* The counts of a row of metrics; rates and correlations follow from them
\* and from the returns.
MetricRow(rows) ==
    [evaluated_signal_count |-> Cardinality(Labelled(rows, ReactionOutcomes)),
     unavailable_count |-> Cardinality(Labelled(rows, {"unavailable"})),
     consistent_count |-> Cardinality(Labelled(rows, Consistent)),
     opposite_count |-> Cardinality(Labelled(rows, {"opposite"})),
     muted_count |-> Cardinality(Labelled(rows, {"muted"})),
     false_negative_count |->
        Cardinality({i \in Labelled(rows, {"muted"}) : SignalOf(i).strong}),
     high_confidence_wrong_count |->
        Cardinality({i \in Labelled(rows, {"opposite"}) : SignalOf(i).confidence = "high"}),
     low_confidence_right_count |->
        Cardinality({i \in Labelled(rows, Consistent) :
                        SignalOf(i).confidence \in {"low", "missing"}})]

\* One row for all labels, and one for the labels of each window, status,
\* market state and confidence bucket.
Slices ==
    {[type |-> "scenario", value |-> "all"]}
        \cup [type : {"horizon"}, value : DOMAIN LastOffset]
        \cup [type : {"signal_status"}, value : SignalStatuses]
        \cup [type : {"regime"}, value : {MarketStates[i] : i \in DOMAIN MarketStates}]
        \cup [type : {"confidence_bucket"}, value : Confidences]

InSlice(i, slice) ==
    \/ slice.type = "scenario"
    \/ slice.type = "horizon" /\ labels[i].study.horizon = slice.value
    \/ slice.type = "signal_status" /\ SignalOf(i).status = slice.value
    \/ slice.type = "regime" /\ labels[i].market_state = slice.value
    \/ slice.type = "confidence_bucket" /\ SignalOf(i).confidence = slice.value

LabelsOf(slice) == {i \in DOMAIN labels : InSlice(i, slice)}

MetricsOfLabels ==
    [made |-> TRUE,
     rows |-> [slice \in {s \in Slices : LabelsOf(s) # {}} |-> MetricRow(LabelsOf(slice))]]

-----------------------------------------------------------------------------
(* Error cases                                                             *)

\* The place of a confidence in the order of the cases, that of none being
\* the last of all.
Rank(confidence) ==
    CASE confidence = "high" -> 1 [] confidence = "medium" -> 2
      [] confidence = "low" -> 3 [] confidence = "missing" -> 4

\* Label i comes before j whatever the ids: opposite ones first, then those
\* of the higher confidence.
Sooner(i, j) ==
    \/ labels[i].label = "opposite" /\ labels[j].label # "opposite"
    \/ /\ labels[i].label = "opposite" <=> labels[j].label = "opposite"
       /\ Rank(SignalOf(i).confidence) < Rank(SignalOf(j).confidence)

Candidates == Labelled(DOMAIN labels, ReactionOutcomes)
Listed ==
    {chosen \in SUBSET Candidates :
        /\ Cardinality(chosen) = Least(Cardinality(Candidates), MaxErrorCases)
        /\ \A i \in chosen, j \in Candidates \ chosen : ~Sooner(j, i)}

\* In the second half of the third scenario every case is a failure of the
\* regime, whatever its label.
ErrorCategory(i) ==
    LET label == labels[i].label
        confidence == SignalOf(i).confidence
    IN IF scenario = "regime_shift"
            /\ labels[i].market_state \in {"commodity_shock", "crypto_stress"}
       THEN "regime_shift_failure"
       ELSE IF label = "opposite" /\ confidence = "high" THEN "high_confidence_opposite"
       ELSE IF label = "muted" /\ SignalOf(i).strong THEN "high_strength_muted"
       ELSE IF label \in Consistent /\ confidence \in {"low", "missing"}
            THEN "low_confidence_consistent"
       ELSE IF label = "mixed" THEN "contradictory_or_mixed_event"
       ELSE "asset_or_family_weak_spot"

\* Of the labels without bars the first is listed as well.
Missing ==
    LET without == Labelled(DOMAIN labels, {"unavailable"})
    IN {i \in without : \A j \in without : i <= j}

CasesOf(chosen) ==
    [i \in chosen \cup Missing |->
        IF i \in Missing THEN "missing_bar_case" ELSE ErrorCategory(i)]

-----------------------------------------------------------------------------
(* The run                                                                 *)

Studying == position.signal <= Len(reactionSignals) /\ Horizons # <<>>

\* The windows of a signal, then the next signal.
NextPosition ==
    IF position.horizon < Len(Horizons)
    THEN [position EXCEPT !.horizon = @ + 1]
    ELSE [signal |-> position.signal + 1, horizon |-> 1]

MakeStudy(abnormal) ==
    LET study == Study(reactionSignals[position.signal], Horizons[position.horizon]) IN
    /\ Studying
    /\ studies' = Append(studies, study)
    /\ labels' = Append(labels, LabelOf(study, abnormal))
    /\ position' = NextPosition
    /\ UNCHANGED <<scenario, reactionSignals, metrics, errorCases, published>>

MakeMetrics ==
    /\ ~Studying /\ ~metrics.made
    /\ metrics' = MetricsOfLabels
    /\ UNCHANGED <<scenario, reactionSignals, position, studies, labels, errorCases, published>>

ListErrors ==
    /\ metrics.made /\ ~errorCases.made
    /\ \E chosen \in Listed :
          errorCases' = [made |-> TRUE, cases |-> CasesOf(chosen)]
    /\ UNCHANGED <<scenario, reactionSignals, position, studies, labels, metrics, published>>

\* The audit measures the longer window again; its diagnostics say PASS
\* whatever was measured.
LeakageAudit ==
    [measured |-> MetricRow({i \in DOMAIN labels :
                                labels[i].study.horizon = Horizons[Len(Horizons)]}),
     status |-> "PASS"]

\* The payload holds every label, but of the studies the first ones only.
PublishStudies ==
    /\ errorCases.made /\ ~published.made
    /\ published' = [made |-> TRUE,
                     audit |-> LeakageAudit,
                     studies |-> SubSeq(studies, 1, Least(Len(studies), StudiesShown)),
                     label_count |-> Len(labels),
                     evaluated_label_count |-> Cardinality(Candidates),
                     error_case_count |-> Cardinality(DOMAIN errorCases.cases)]
    /\ UNCHANGED <<scenario, reactionSignals, position, studies, labels, metrics, errorCases>>

ReactionNext ==
    \/ \E abnormal \in AbnormalReturns : MakeStudy(abnormal)
    \/ MakeMetrics \/ ListErrors \/ PublishStudies

ReactionSpec == ReactionInit /\ [][ReactionNext]_reactionVars /\ WF_reactionVars(ReactionNext)

-----------------------------------------------------------------------------
(* Properties                                                              *)

\* Every variable of the studies holds values of its kind.
ReactionTypeOK ==
    /\ reactionSignals \in Seq(ReactionSignals) /\ scenario \in Scenarios
    /\ position \in [signal : Nat \ {0}, horizon : Nat \ {0}]
    /\ DOMAIN studies = DOMAIN labels
    /\ \A i \in DOMAIN studies :
          /\ studies[i].signal \in ReactionSignals
          /\ studies[i].horizon \in DOMAIN LastOffset
          /\ studies[i].bars \subseteq 1..N /\ studies[i].control \subseteq 1..N
          /\ labels[i].label \in ReactionOutcomes \cup {"unavailable"}
    /\ \A report \in {metrics, errorCases, published} : report.made \in BOOLEAN

\* A study that is not excluded measures the whole of its window, from the
\* first session whose bar was not available at the signal's cutoff, against
\* the whole of a control window of sessions whose bars all were, and which
\* the relation planted for the signal leaves alone.  A signal too late for
\* that is excluded, although its decision is moved to an earlier session.
StudiesPointInTime ==
    \A k \in DOMAIN studies : studies[k].excluded = "none" =>
        \E first \in 1..N :
            /\ \A i \in 1..N : AvailableDay(i) <= studies[k].signal.day <=> i < first
            /\ studies[k].bars = first .. (first + LastOffset[studies[k].horizon])
            /\ studies[k].control = (first - ControlSessions) .. (first - 1)
            /\ studies[k].bars \cup studies[k].control \subseteq 1..N
            /\ studies[k].control \cap PlantedSessions(studies[k].signal) = {}

\* The cases listed agree with the metrics, which are counted separately
\* and over all labels: as long as there is room for them, every confident
\* call that went the wrong way is a case, and but for the third scenario is
\* named as one; and the labels that were not evaluated are one case at most.
CasesAgreeWithMetrics ==
    errorCases.made /\ labels # <<>> =>
        LET all == metrics.rows[[type |-> "scenario", value |-> "all"]]
            cases == errorCases.cases
            wrong == {i \in DOMAIN cases :
                        labels[i].label = "opposite" /\ SignalOf(i).confidence = "high"}
        IN /\ Cardinality(wrong) = Least(all.high_confidence_wrong_count, MaxErrorCases)
           /\ scenario # "regime_shift" =>
                 wrong = {i \in DOMAIN cases : cases[i] = "high_confidence_opposite"}
           /\ Cardinality(DOMAIN cases) =
                 Least(all.evaluated_signal_count, MaxErrorCases)
                    + Least(all.unavailable_count, 1)

\* Studies use no bar from their future, and the cases listed are those the
\* metrics count.
StudiesAreSound == StudiesPointInTime /\ CasesAgreeWithMetrics
=============================================================================
