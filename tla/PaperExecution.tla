----------------------------- MODULE PaperExecution -----------------------------
(***************************************************************************)
(* One scenario of the paper execution engine,                             *)
(* application/services/paper_execution.py.  The signals of the scenario   *)
(* are taken one by one: the risk gates decide, an order intent is built   *)
(* and its notional reserved, a simulated reviewer rules on it, and a      *)
(* simulated fill may move the paper portfolio.  Every scenario starts     *)
(* from a fresh state, so one scenario is all there is to a behaviour.     *)
(*                                                                         *)
(* Amounts are integers: the quantization to six decimals is left out.     *)
(* Times are compared with fixed instants only, so a signal carries the    *)
(* outcome of each comparison.                                             *)
(***************************************************************************)
EXTENDS Integers, FiniteSetsExt

CONSTANTS
    Assets, Classes, Days,
    ClassOf,                \* the asset class of an asset
    AllowedClasses,         \* policy.allowed_asset_classes
    Signals,                \* the signals of the scenario
    NoSignal,
    OpenPrices,             \* opening prices of the bars
    OrderNotional,          \* policy.default_order_notional
    MaxOrdersPerDay, MaxOrdersPerAssetDay,
    MaxPerAsset, MaxPerClass, MaxTotal,
    MaxDrawdownBps,         \* policy.max_drawdown, in basis points
    SlippageBps, CommissionBps,
    StartingCash,           \* policy.starting_cash
    NavBase                 \* the module's STARTING_CASH

Directions == {"positive", "negative", "mixed", "uncertain"}
Statuses == {"informational", "research", "abstained", "rejected", "expired"}

\* usable: not stale, not missing, covered by bars and not excluded.
\* coherent: the order intent made of the signal passes its own validation.
\* bar: a bar opens after the decision time and not after the expiry.
ASSUME SignalsAssumption ==
    /\ IsFiniteSet(Signals)
    /\ Signals \subseteq [id : Nat, asset : Assets, day : Days,
                          direction : Directions, status : Statuses,
                          confident : BOOLEAN, expired : BOOLEAN, usable : BOOLEAN,
                          coherent : BOOLEAN, bar : BOOLEAN]

ASSUME NoSignalAssumption == NoSignal \notin Signals

ASSUME AssetsAssumption ==
    /\ IsFiniteSet(Assets)
    /\ ClassOf \in [Assets -> Classes]
    /\ AllowedClasses \subseteq Classes

ASSUME PricesAssumption == OpenPrices \subseteq Nat \ {0}

ASSUME PolicyAssumption ==
    /\ OrderNotional \in Nat \ {0}
    /\ MaxOrdersPerDay \in Nat /\ MaxOrdersPerAssetDay \in Nat
    /\ MaxPerAsset \in Nat /\ MaxPerClass \in Nat /\ MaxTotal \in Nat
    /\ MaxDrawdownBps \in Nat /\ SlippageBps \in Nat
    /\ StartingCash \in Nat /\ NavBase \in Nat \ {0}

Commission == (OrderNotional * CommissionBps) \div 10000

\* A commission is no more than what it is charged on, and the starting cash
\* covers the largest exposure and its commissions.
ASSUME FundingAssumption ==
    /\ Commission \in 0 .. OrderNotional
    /\ StartingCash >= 2 * MaxTotal

VARIABLES
    policy,            \* the switches of the risk policy
    considered,        \* signals whose risk was evaluated
    stage,             \* what the loop does next
    order,             \* the signal whose order is under way
    decisions, reviews, fills,    \* outcome per signal, of those that have one
    ordersByDay, ordersByAssetDay, notionalByAsset, notionalByClass,
    grossExposure,     \* the reservations of portfolio_state
    maxDrawdown,       \* portfolio_state["max_drawdown"], in basis points
    quantity, bookCost, lastPrice,   \* paper positions, by asset
    cash, costs, turnover

reservations == <<ordersByDay, ordersByAssetDay, notionalByAsset,
                  notionalByClass, grossExposure>>
portfolio == <<quantity, bookCost, lastPrice, cash, costs, turnover>>
vars == <<policy, considered, stage, order, decisions, reviews, fills,
          reservations, maxDrawdown, portfolio>>

Init ==
    /\ policy \in [killSwitch : BOOLEAN, informational : BOOLEAN,
                   lowConfidence : {"manual_review", "reject"}]
    /\ considered = {} /\ stage = "risk" /\ order = NoSignal
    /\ decisions = [s \in Signals |-> "none"]
    /\ reviews = [s \in Signals |-> "none"]
    /\ fills = [s \in Signals |-> "none"]
    /\ ordersByDay = [d \in Days |-> 0]
    /\ ordersByAssetDay = [x \in Assets \X Days |-> 0]
    /\ notionalByAsset = [a \in Assets |-> 0]
    /\ notionalByClass = [c \in Classes |-> 0]
    /\ grossExposure = 0 /\ maxDrawdown = 0
    /\ quantity = [a \in Assets |-> 0]
    /\ bookCost = [a \in Assets |-> 0]
    /\ lastPrice = [a \in Assets |-> 0]
    /\ cash = StartingCash /\ costs = 0 /\ turnover = 0

-----------------------------------------------------------------------------
(* evaluate_paper_risk *)

Issuing == {"approved_for_paper", "requires_manual_review"}

\* The gates on the signal itself, in the order of the code.
SignalGate(s) ==
    IF policy.killSwitch THEN "kill_switch_active"
    ELSE IF s \in considered THEN "duplicate"
    ELSE IF s.status = "expired" \/ s.expired THEN "expired"
    ELSE IF s.status \notin {"research", "informational"} THEN "rejected"
    ELSE IF s.status = "informational" /\ ~policy.informational THEN "rejected"
    ELSE IF ClassOf[s.asset] \notin AllowedClasses THEN "rejected"
    ELSE IF s.direction = "uncertain" THEN "rejected"
    ELSE IF s.direction = "mixed" THEN "requires_manual_review"
    ELSE IF s.confident THEN "approved_for_paper"
    ELSE IF policy.lowConfidence = "manual_review" THEN "requires_manual_review"
    ELSE "rejected"

\* Mutant: compares what is reserved already, without the order.
WithinCapsBeforeOrder(s) ==
    /\ ordersByDay[s.day] < MaxOrdersPerDay
    /\ ordersByAssetDay[<<s.asset, s.day>>] < MaxOrdersPerAssetDay
    /\ notionalByAsset[s.asset] <= MaxPerAsset
    /\ notionalByClass[ClassOf[s.asset]] <= MaxPerClass
    /\ grossExposure <= MaxTotal

\* The order fits under every cap, on top of what is reserved already.
WithinCaps(s) ==
    /\ ordersByDay[s.day] < MaxOrdersPerDay
    /\ ordersByAssetDay[<<s.asset, s.day>>] < MaxOrdersPerAssetDay
    /\ notionalByAsset[s.asset] + OrderNotional <= MaxPerAsset
    /\ notionalByClass[ClassOf[s.asset]] + OrderNotional <= MaxPerClass
    /\ grossExposure + OrderNotional <= MaxTotal

Decision(s) ==
    LET gate == SignalGate(s)
    IN  IF gate \in Issuing
           /\ ~(s.usable /\ WithinCaps(s) /\ maxDrawdown <= MaxDrawdownBps)
        THEN "rejected" ELSE gate

Consider(s) ==
    /\ stage = "risk"
    /\ s \in Signals \ considered
    /\ considered' = considered \cup {s}
    /\ decisions' = [decisions EXCEPT ![s] = Decision(s)]
    /\ UNCHANGED <<policy, reviews, fills, maxDrawdown, portfolio>>

\* No gate lets the signal through.
Block(s) ==
    /\ Consider(s)
    /\ Decision(s) \notin Issuing
    /\ UNCHANGED <<stage, order, reservations>>

\* Mutant: an order that would reduce exposure releases it.
ReserveSigned(s) ==
    LET n == IF s.direction = "negative" THEN -OrderNotional ELSE OrderNotional
    IN  /\ ordersByDay' = [ordersByDay EXCEPT ![s.day] = @ + 1]
        /\ ordersByAssetDay' = [ordersByAssetDay EXCEPT ![<<s.asset, s.day>>] = @ + 1]
        /\ notionalByAsset' = [notionalByAsset EXCEPT ![s.asset] = @ + n]
        /\ notionalByClass' = [notionalByClass EXCEPT ![ClassOf[s.asset]] = @ + n]
        /\ grossExposure' = grossExposure + n

\* Mutant: the order is not counted for its asset.
ReserveUncounted(s) ==
    /\ ordersByDay' = [ordersByDay EXCEPT ![s.day] = @ + 1]
    /\ notionalByAsset' = [notionalByAsset EXCEPT ![s.asset] = @ + OrderNotional]
    /\ notionalByClass' =
          [notionalByClass EXCEPT ![ClassOf[s.asset]] = @ + OrderNotional]
    /\ grossExposure' = grossExposure + OrderNotional
    /\ UNCHANGED ordersByAssetDay

Reserve(s) ==
    /\ ordersByDay' = [ordersByDay EXCEPT ![s.day] = @ + 1]
    /\ ordersByAssetDay' = [ordersByAssetDay EXCEPT ![<<s.asset, s.day>>] = @ + 1]
    /\ notionalByAsset' = [notionalByAsset EXCEPT ![s.asset] = @ + OrderNotional]
    /\ notionalByClass' =
          [notionalByClass EXCEPT ![ClassOf[s.asset]] = @ + OrderNotional]
    /\ grossExposure' = grossExposure + OrderNotional

\* The order intent is built; its validation error ends the whole build.
IssueOrder(s) ==
    /\ Consider(s)
    /\ Decision(s) \in Issuing
    /\ Reserve(s)
    /\ IF s.coherent THEN stage' = "review" /\ order' = s
                     ELSE stage' = "aborted" /\ UNCHANGED order

-----------------------------------------------------------------------------
(* simulate_manual_review: the hash of the order id picks one of the       *)
(* verdicts open to its kind.  An order still has time left here.          *)

Verdicts(decision) ==
    IF decision = "approved_for_paper" THEN {"approved", "pending_review"}
                                       ELSE {"rejected", "pending_review"}

Review ==
    /\ stage = "review"
    /\ \E verdict \in Verdicts(decisions[order]) :
          reviews' = [reviews EXCEPT ![order] = verdict]
    /\ stage' = "fill"
    /\ UNCHANGED <<policy, considered, order, decisions, fills, reservations,
                   maxDrawdown, portfolio>>

-----------------------------------------------------------------------------
(* simulate_paper_fill and _apply_fill_to_state *)

Side(s) == CASE s.direction = "positive" -> "long"
             [] s.direction = "mixed"    -> "flat"
             [] OTHER                    -> "reduce"

\* Mutant: only a rejection stops the fill.
FailureUnlessRejected(s) ==
    IF reviews[s] = "rejected" THEN "not_approved"
    ELSE IF Side(s) \in {"flat", "reduce"} THEN "paper_exposure_absent"
    ELSE IF ~s.bar THEN "missing_next_bar"
    ELSE "none"

Failure(s) ==
    IF reviews[s] # "approved" THEN "not_approved"
    ELSE IF Side(s) \in {"flat", "reduce"} THEN "paper_exposure_absent"
    ELSE IF ~s.bar THEN "missing_next_bar"
    ELSE "none"

FinishFill(status) ==
    /\ fills' = [fills EXCEPT ![order] = status]
    /\ stage' = "risk" /\ order' = NoSignal
    /\ UNCHANGED <<policy, considered, decisions, reviews, reservations, maxDrawdown>>

FailFill ==
    /\ stage = "fill" /\ Failure(order) # "none"
    /\ FinishFill(Failure(order))
    /\ UNCHANGED portfolio

FillPrice(open) == open + (open * SlippageBps) \div 10000

\* Mutant: the commission is booked as a cost and never paid.
FillWithoutCommission ==
    /\ stage = "fill" /\ Failure(order) = "none"
    /\ FinishFill("filled")
    /\ \E open \in OpenPrices :
          LET a == order.asset  price == FillPrice(open)
          IN  /\ quantity' = [quantity EXCEPT ![a] = @ + OrderNotional \div price]
              /\ bookCost' = [bookCost EXCEPT ![a] = @ + OrderNotional]
              /\ lastPrice' = [lastPrice EXCEPT ![a] = price]
    /\ cash' = cash - OrderNotional
    /\ costs' = costs + Commission
    /\ turnover' = turnover + OrderNotional

\* Only long orders are ever filled, so positions only grow.
Fill ==
    /\ stage = "fill" /\ Failure(order) = "none"
    /\ FinishFill("filled")
    /\ \E open \in OpenPrices :
          LET a == order.asset  price == FillPrice(open)
          IN  /\ quantity' = [quantity EXCEPT ![a] = @ + OrderNotional \div price]
              /\ bookCost' = [bookCost EXCEPT ![a] = @ + OrderNotional]
              /\ lastPrice' = [lastPrice EXCEPT ![a] = price]
    /\ cash' = cash - (OrderNotional + Commission)
    /\ costs' = costs + Commission
    /\ turnover' = turnover + OrderNotional

-----------------------------------------------------------------------------
(* _nav_rows *)

MarketValue == MapThenSumSet(LAMBDA a : quantity[a] * lastPrice[a], Assets)
Nav == cash + MarketValue
Drawdown == IF Nav >= NavBase THEN 0 ELSE ((NavBase - Nav) * 10000) \div NavBase

\* After the last signal the portfolio is valued once.
CloseScenario ==
    /\ stage = "risk" /\ considered = Signals
    /\ stage' = "closed"
    /\ maxDrawdown' = IF Drawdown > maxDrawdown THEN Drawdown ELSE maxDrawdown
    /\ UNCHANGED <<policy, considered, order, decisions, reviews, fills,
                   reservations, portfolio>>

Next ==
    \/ \E s \in Signals : Block(s) \/ IssueOrder(s)
    \/ Review \/ FailFill \/ Fill \/ CloseScenario

Spec == Init /\ [][Next]_vars /\ WF_vars(Next)

-----------------------------------------------------------------------------
(* Properties. *)

Issued == {s \in Signals : decisions[s] \in Issuing}

\* Outcomes, reservations and amounts in their ranges.
BooksTypeOK ==
    /\ policy \in [killSwitch : BOOLEAN, informational : BOOLEAN,
                   lowConfidence : {"manual_review", "reject"}]
    /\ considered \subseteq Signals
    /\ stage \in {"risk", "review", "fill", "closed", "aborted"}
    /\ order \in Signals \cup {NoSignal}
    /\ decisions \in [Signals -> Issuing \cup
          {"none", "kill_switch_active", "duplicate", "expired", "rejected"}]
    /\ reviews \in [Signals -> {"none", "approved", "pending_review", "rejected"}]
    /\ fills \in [Signals -> {"none", "filled", "not_approved",
                              "paper_exposure_absent", "missing_next_bar"}]
    /\ ordersByDay \in [Days -> Nat]
    /\ ordersByAssetDay \in [Assets \X Days -> Nat]
    /\ notionalByAsset \in [Assets -> Nat]
    /\ notionalByClass \in [Classes -> Nat]
    /\ grossExposure \in Nat
    /\ quantity \in [Assets -> Int]
    /\ bookCost \in [Assets -> Nat]
    /\ lastPrice \in [Assets -> Int]
    /\ cash \in Int /\ costs \in Nat /\ turnover \in Nat

\* Every variable stays in its range; amounts reserved are never negative.
TypeOK == BooksTypeOK /\ maxDrawdown \in Int

\* No sequence of orders takes a reservation over its cap, and what was spent
\* on an asset never exceeds what was reserved for it.
ExposureWithinCaps ==
    /\ \A a \in Assets : /\ bookCost[a] <= notionalByAsset[a]
                        /\ notionalByAsset[a] <= MaxPerAsset
    /\ \A c \in Classes : notionalByClass[c] <= MaxPerClass
    /\ turnover <= grossExposure
    /\ grossExposure <= MaxTotal

\* Counters and reservations are those of the orders issued, however decisions,
\* reviews and fills followed each other.
ReservationsMatchOrders ==
    /\ grossExposure = OrderNotional * Cardinality(Issued)
    /\ \A a \in Assets, d \in Days :
          LET n == Cardinality({s \in Issued : s.asset = a /\ s.day = d})
          IN  n = ordersByAssetDay[<<a, d>>] /\ n <= MaxOrdersPerAssetDay
    /\ \A d \in Days : Cardinality({s \in Issued : s.day = d}) <= MaxOrdersPerDay
    /\ \A c \in Classes : notionalByClass[c] =
          OrderNotional * Cardinality({s \in Issued : ClassOf[s.asset] = c})

\* Only an order the gates approved outright and the reviewer approved is
\* filled: one sent to manual review, mixed or unsure, never is.
FilledWasApproved ==
    \A s \in Signals : fills[s] = "filled" =>
        /\ decisions[s] = "approved_for_paper" /\ reviews[s] = "approved"
        /\ s.direction = "positive" /\ s.confident
        /\ ~policy.killSwitch

\* Between two signals every order has one review and one fill row, and nothing
\* that is not an order has either.
OrdersAreFinished ==
    stage \in {"risk", "closed"} =>
        \A s \in Signals : /\ s \in Issued <=> reviews[s] # "none"
                          /\ s \in Issued <=> fills[s] # "none"

\* The books balance: cash, the cost of the positions and the commissions add
\* up to the starting cash (the run row reports "passed" without checking).
CashReconciles ==
    cash + MapThenSumSet(LAMBDA a : bookCost[a], Assets) + costs = StartingCash

\* Cash never goes negative, although nothing in the fill compares with it.
NoNegativeCash == cash >= 0

\* What the caps promise together: reservations under every cap, what was spent
\* under what was reserved, and so, though no fill compares it, cash for it.
CapsRespected == ExposureWithinCaps /\ NoNegativeCash

\* What the counters count are the orders, each reviewed and filled once.
OrdersSound == ReservationsMatchOrders /\ OrdersAreFinished

\* What the methodology says of flat and reduce orders: they close existing
\* exposure, and fail as "paper_exposure_absent" when there is none.
AbsentExposureIsAbsent ==
    [][\A s \in Signals :
          fills'[s] = "paper_exposure_absent" /\ fills[s] = "none"
          => quantity[s.asset] = 0]_vars

\* What the risk policy says of the drawdown stop: past the limit, no new order.
DrawdownStopsOrders ==
    [][\A s \in Signals : IssueOrder(s) => Drawdown <= MaxDrawdownBps]_vars
=============================================================================
