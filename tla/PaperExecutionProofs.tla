-------------------------- MODULE PaperExecutionProofs --------------------------
(***************************************************************************)
(* Proofs about PaperExecution, for any signals, policy and prices: types, *)
(* the caps and the cash they protect, the approvals behind a fill, and    *)
(* the balance of the books.                                               *)
(***************************************************************************)
EXTENDS PaperExecution, FiniteSetTheorems, WellFoundedInduction, TLAPS

\* The fields of a signal.
LEMMA SignalFields ==
    ASSUME NEW s \in Signals
    PROVE  /\ s.asset \in Assets /\ s.day \in Days
           /\ ClassOf[s.asset] \in Classes
           /\ s.direction \in Directions /\ s.confident \in BOOLEAN
           /\ s # NoSignal
  BY SignalsAssumption, AssetsAssumption, NoSignalAssumption

\* What a decision can be, whatever the state.
LEMMA DecisionRange ==
    ASSUME NEW s \in Signals,
           policy \in [killSwitch : BOOLEAN, informational : BOOLEAN,
                       lowConfidence : {"manual_review", "reject"}]
    PROVE  /\ Decision(s) \in Issuing \cup
                {"kill_switch_active", "duplicate", "expired", "rejected"}
           /\ Decision(s) = "approved_for_paper" =>
                /\ ~policy.killSwitch /\ s.confident
                /\ s.direction \in {"positive", "negative"}
           /\ Decision(s) \in Issuing => WithinCaps(s)
  BY SignalFields DEF Decision, SignalGate, Issuing, Directions

\* A bar has a positive price, so the quantity filled is a number.
LEMMA Filled ==
    ASSUME NEW open \in OpenPrices
    PROVE  /\ FillPrice(open) \in Nat \ {0}
           /\ OrderNotional \div FillPrice(open) \in Int
<1> DEFINE slip == (open * SlippageBps) \div 10000
<1>1. open \in Nat /\ open > 0 /\ SlippageBps \in Nat /\ OrderNotional \in Nat
  BY PricesAssumption, PolicyAssumption
<1>2. open * SlippageBps \in Nat
  BY <1>1
<1>3. slip \in Nat
  BY <1>2
<1>4. FillPrice(open) = open + slip
  BY DEF FillPrice
<1>5. FillPrice(open) \in Nat \ {0}
  BY <1>1, <1>3, <1>4
<1>. QED BY <1>1, <1>5

-----------------------------------------------------------------------------
(* Types. *)

LEMMA InitTypes == Init => BooksTypeOK
  BY PolicyAssumption DEF Init, BooksTypeOK, Issuing

LEMMA ReserveTypes ==
    ASSUME NEW s \in Signals, BooksTypeOK, Reserve(s)
    PROVE  /\ ordersByDay' \in [Days -> Nat]
           /\ ordersByAssetDay' \in [Assets \X Days -> Nat]
           /\ notionalByAsset' \in [Assets -> Nat]
           /\ notionalByClass' \in [Classes -> Nat]
           /\ grossExposure' \in Nat
  BY SignalFields, PolicyAssumption DEF BooksTypeOK, Reserve

LEMMA ConsiderTypes ==
    ASSUME NEW s \in Signals, BooksTypeOK, Consider(s)
    PROVE  /\ considered' \subseteq Signals
           /\ decisions' \in [Signals -> Issuing \cup
                 {"none", "kill_switch_active", "duplicate", "expired", "rejected"}]
<1>1. Decision(s) \in Issuing \cup
         {"kill_switch_active", "duplicate", "expired", "rejected"}
  BY DecisionRange DEF BooksTypeOK
<1>. QED BY <1>1 DEF BooksTypeOK, Consider

\* A fill keeps the books in their ranges.
LEMMA FillTypes ==
    ASSUME BooksTypeOK, Fill, order \in Signals
    PROVE  BooksTypeOK'
<1>1. order.asset \in Assets /\ OrderNotional \in Nat /\ Commission \in Nat
  BY SignalFields, PolicyAssumption, FundingAssumption
<1>2. /\ fills' \in [Signals -> {"none", "filled", "not_approved",
                                 "paper_exposure_absent", "missing_next_bar"}]
      /\ stage' = "risk" /\ order' = NoSignal
      /\ UNCHANGED <<policy, considered, decisions, reviews, reservations>>
  BY DEF Fill, FinishFill, BooksTypeOK
<1>3. /\ quantity' \in [Assets -> Int] /\ lastPrice' \in [Assets -> Int]
      /\ bookCost' \in [Assets -> Nat]
  <2>1. PICK open \in OpenPrices :
           /\ quantity' = [quantity EXCEPT ![order.asset] =
                               @ + OrderNotional \div FillPrice(open)]
           /\ bookCost' = [bookCost EXCEPT ![order.asset] = @ + OrderNotional]
           /\ lastPrice' = [lastPrice EXCEPT ![order.asset] = FillPrice(open)]
    BY DEF Fill
  <2>2. FillPrice(open) \in Int /\ OrderNotional \div FillPrice(open) \in Int
    BY Filled
  <2>. QED BY <1>1, <2>1, <2>2 DEF BooksTypeOK
<1>4. cash' \in Int /\ costs' \in Nat /\ turnover' \in Nat
  BY <1>1 DEF Fill, BooksTypeOK
<1>. QED BY <1>2, <1>3, <1>4 DEF BooksTypeOK, reservations

\* An order is under way exactly in the two stages that handle one.
OrderUnderWay == stage \in {"review", "fill"} => order \in Signals

LEMMA NextTypes ==
    ASSUME BooksTypeOK, OrderUnderWay, [Next]_vars
    PROVE  BooksTypeOK' /\ OrderUnderWay'
<1>1. ASSUME NEW s \in Signals, Block(s) PROVE BooksTypeOK' /\ OrderUnderWay'
  BY <1>1, ConsiderTypes
     DEF Block, Consider, BooksTypeOK, OrderUnderWay, reservations, portfolio
<1>2. ASSUME NEW s \in Signals, IssueOrder(s) PROVE BooksTypeOK' /\ OrderUnderWay'
  <2>1. Consider(s) /\ Reserve(s)
    BY <1>2 DEF IssueOrder
  <2>2. /\ stage' \in {"review", "aborted"} /\ order' \in Signals \cup {NoSignal}
        /\ OrderUnderWay'
    BY <1>2 DEF IssueOrder, OrderUnderWay, BooksTypeOK
  <2>. QED BY <2>1, <2>2, ConsiderTypes, ReserveTypes
           DEF Consider, BooksTypeOK, portfolio
<1>3. CASE Review
  <2>1. reviews' \in [Signals -> {"none", "approved", "pending_review", "rejected"}]
    BY <1>3 DEF Review, Verdicts, BooksTypeOK
  <2>. QED BY <1>3, <2>1
           DEF Review, BooksTypeOK, OrderUnderWay, reservations, portfolio
<1>4. CASE FailFill
  <2>1. Failure(order) \in {"not_approved", "paper_exposure_absent",
                            "missing_next_bar", "none"}
    BY DEF Failure
  <2>. QED BY <1>4, <2>1 DEF FailFill, FinishFill, BooksTypeOK, OrderUnderWay,
                             reservations, portfolio
<1>5. CASE Fill
  <2>1. OrderUnderWay'
    BY <1>5 DEF Fill, FinishFill, OrderUnderWay
  <2>2. order \in Signals
    BY <1>5 DEF Fill, OrderUnderWay
  <2>. QED BY <1>5, <2>1, <2>2, FillTypes
<1>6. CASE CloseScenario
  BY <1>6 DEF CloseScenario, BooksTypeOK, OrderUnderWay, reservations, portfolio
<1>7. CASE UNCHANGED vars
  BY <1>7 DEF vars, BooksTypeOK, OrderUnderWay, reservations, portfolio
<1>. QED BY <1>1, <1>2, <1>3, <1>4, <1>5, <1>6, <1>7 DEF Next

\* Outcomes, reservations and amounts keep their types through every scenario.
THEOREM TypesHold == Spec => [](BooksTypeOK /\ OrderUnderWay)
<1>1. Init => BooksTypeOK /\ OrderUnderWay
  BY InitTypes DEF Init, OrderUnderWay
<1>2. BooksTypeOK /\ OrderUnderWay /\ [Next]_vars => (BooksTypeOK /\ OrderUnderWay)'
  BY NextTypes
<1>. QED BY <1>1, <1>2, PTL DEF Spec

-----------------------------------------------------------------------------
(* Caps and cash.  Between the reservation of an order and its fill, the   *)
(* reservation runs ahead of what was spent by the notional of the order,  *)
(* which is what makes the caps inductive.                                 *)

Pending == IF stage \in {"review", "fill"} THEN OrderNotional ELSE 0
PendingOf(a) ==
    IF stage \in {"review", "fill"} /\ order.asset = a THEN OrderNotional ELSE 0

Reserved ==
    /\ \A a \in Assets : /\ bookCost[a] + PendingOf(a) <= notionalByAsset[a]
                         /\ notionalByAsset[a] <= MaxPerAsset
    /\ \A c \in Classes : notionalByClass[c] <= MaxPerClass
    /\ turnover + Pending <= grossExposure
    /\ grossExposure <= MaxTotal

Funded ==
    /\ cash = StartingCash - turnover - costs
    /\ costs <= turnover

CapsInv == BooksTypeOK /\ OrderUnderWay /\ Reserved /\ Funded

LEMMA InitCaps == Init => CapsInv
  BY InitTypes, PolicyAssumption
     DEF Init, CapsInv, BooksTypeOK, OrderUnderWay, Reserved, Funded, Pending, PendingOf

LEMMA IssueOrderCaps ==
    ASSUME CapsInv, NEW s \in Signals, IssueOrder(s)
    PROVE  Reserved' /\ Funded'
<1>1. /\ Reserve(s) /\ stage = "risk"
      /\ stage' = "review" => order' = s
      /\ stage' \in {"review", "aborted"}
      /\ UNCHANGED <<bookCost, cash, costs, turnover>>
  BY DEF IssueOrder, Consider, portfolio
<1>2. WithinCaps(s)
  BY DecisionRange DEF IssueOrder, CapsInv, BooksTypeOK
<1>3. /\ OrderNotional \in Nat /\ s.asset \in Assets /\ ClassOf[s.asset] \in Classes
      /\ MaxPerAsset \in Nat /\ MaxPerClass \in Nat /\ MaxTotal \in Nat
  BY SignalFields, PolicyAssumption
<1>4. ASSUME NEW a \in Assets
      PROVE  /\ bookCost'[a] + PendingOf(a)' <= notionalByAsset'[a]
             /\ notionalByAsset'[a] <= MaxPerAsset
  BY <1>1, <1>2, <1>3
     DEF CapsInv, BooksTypeOK, Reserved, PendingOf, Reserve, WithinCaps
<1>5. \A c \in Classes : notionalByClass'[c] <= MaxPerClass
  BY <1>1, <1>2, <1>3 DEF CapsInv, BooksTypeOK, Reserved, Reserve, WithinCaps
<1>6. turnover' + Pending' <= grossExposure' /\ grossExposure' <= MaxTotal
  BY <1>1, <1>2, <1>3
     DEF CapsInv, BooksTypeOK, Reserved, Pending, Reserve, WithinCaps
<1>7. Funded'
  BY <1>1 DEF CapsInv, Funded
<1>. QED BY <1>4, <1>5, <1>6, <1>7 DEF Reserved

LEMMA FillCaps ==
    ASSUME CapsInv, Fill
    PROVE  Reserved' /\ Funded'
<1>1. /\ order \in Signals /\ order.asset \in Assets /\ OrderNotional \in Nat
      /\ StartingCash \in Int
  BY SignalFields, PolicyAssumption DEF CapsInv, OrderUnderWay, Fill
<1>2. /\ stage = "fill" /\ stage' = "risk"
      /\ UNCHANGED <<notionalByAsset, notionalByClass, grossExposure>>
      /\ bookCost' = [bookCost EXCEPT ![order.asset] = @ + OrderNotional]
      /\ cash' = cash - (OrderNotional + Commission)
      /\ costs' = costs + Commission
      /\ turnover' = turnover + OrderNotional
  BY DEF Fill, FinishFill, reservations
<1>3. Commission \in Int /\ Commission <= OrderNotional
  BY <1>1, FundingAssumption
<1>4. Funded'
  BY <1>1, <1>2, <1>3 DEF CapsInv, BooksTypeOK, Funded
<1>5. \A a \in Assets : bookCost'[a] + PendingOf(a)' <= notionalByAsset'[a]
  BY <1>1, <1>2 DEF CapsInv, BooksTypeOK, Reserved, PendingOf
<1>6. turnover' + Pending' <= grossExposure'
  BY <1>1, <1>2 DEF CapsInv, BooksTypeOK, Reserved, Pending
<1>. QED BY <1>2, <1>4, <1>5, <1>6 DEF CapsInv, Reserved

LEMMA NextCaps ==
    ASSUME CapsInv, [Next]_vars
    PROVE  CapsInv'
<1>1. BooksTypeOK' /\ OrderUnderWay'
  BY NextTypes DEF CapsInv
<1>2. OrderNotional \in Nat
  BY PolicyAssumption
<1>3. ASSUME NEW s \in Signals, Block(s) PROVE Reserved' /\ Funded'
  BY <1>3 DEF Block, Consider, CapsInv, Reserved, Funded, Pending, PendingOf,
              reservations, portfolio
<1>4. CASE Review
  BY <1>1, <1>4 DEF Review, CapsInv, Reserved, Funded, Pending, PendingOf,
              reservations, portfolio
\* Steps after which no order is under way, and nothing was spent.
<1>5. ASSUME stage' \notin {"review", "fill"}, UNCHANGED <<reservations, portfolio>>
      PROVE  Reserved' /\ Funded'
  <2>1. \A a \in Assets : bookCost[a] \in Nat /\ notionalByAsset[a] \in Nat
    BY DEF CapsInv, BooksTypeOK
  <2>2. \A a \in Assets : bookCost[a] <= notionalByAsset[a]
    BY <1>2, <2>1 DEF CapsInv, Reserved, PendingOf
  <2>3. turnover <= grossExposure
    BY <1>2 DEF CapsInv, BooksTypeOK, Reserved, Pending
  <2>4. turnover + 0 = turnover /\ \A a \in Assets : bookCost[a] + 0 = bookCost[a]
    BY <2>1 DEF CapsInv, BooksTypeOK
  <2>. QED BY <1>5, <2>2, <2>3, <2>4
           DEF CapsInv, Reserved, Funded, Pending, PendingOf, reservations, portfolio
<1>6. CASE FailFill
  BY <1>1, <1>5, <1>6 DEF FailFill, FinishFill, CapsInv
<1>7. CASE CloseScenario
  BY <1>1, <1>5, <1>7 DEF CloseScenario, CapsInv
<1>8. CASE UNCHANGED vars
  BY <1>1, <1>8 DEF vars, CapsInv, Reserved, Funded, Pending, PendingOf,
              reservations, portfolio
<1>. QED BY <1>1, <1>3, <1>4, <1>6, <1>7, <1>8, IssueOrderCaps, FillCaps
         DEF Next, CapsInv

LEMMA CapsInvHolds == Spec => []CapsInv
<1>. QED BY InitCaps, NextCaps, PTL DEF Spec

LEMMA CapsInvGivesCaps == CapsInv => ExposureWithinCaps /\ NoNegativeCash
<1> SUFFICES ASSUME CapsInv PROVE ExposureWithinCaps /\ NoNegativeCash
  OBVIOUS
<1>1. OrderNotional \in Nat /\ MaxTotal \in Nat /\ StartingCash \in Nat
  BY PolicyAssumption
<1>2. \A a \in Assets : bookCost[a] <= notionalByAsset[a]
  BY <1>1 DEF CapsInv, BooksTypeOK, Reserved, PendingOf
<1>3. turnover <= grossExposure /\ grossExposure <= MaxTotal
  BY <1>1 DEF CapsInv, BooksTypeOK, Reserved, Pending
<1>4. ExposureWithinCaps
  BY <1>2, <1>3 DEF CapsInv, Reserved, ExposureWithinCaps
<1>5. cash >= 0
  BY <1>1, <1>3, FundingAssumption DEF CapsInv, BooksTypeOK, Funded
<1>. QED BY <1>4, <1>5 DEF NoNegativeCash

\* No sequence of orders takes a reservation over its cap or spends more than
\* was reserved, for any caps, prices and signals.
THEOREM CapsHold == Spec => []ExposureWithinCaps
<1>. QED BY CapsInvHolds, CapsInvGivesCaps, PTL

\* Although no fill looks at it, the cash never goes negative, as soon as the
\* starting cash is twice the total cap and a commission is no more than the
\* notional it is charged on.
THEOREM CashNeverNegative == Spec => []NoNegativeCash
<1>. QED BY CapsInvHolds, CapsInvGivesCaps, PTL

-----------------------------------------------------------------------------
(* Approvals.  A signal not yet considered has no outcome at all, and the  *)
(* only signal with some outcomes and not others is the one under way.     *)

Untouched ==
    \A s \in Signals \ considered :
        decisions[s] = "none" /\ reviews[s] = "none" /\ fills[s] = "none"

Approvals ==
    \A s \in Signals :
        /\ decisions[s] = "approved_for_paper" =>
              ~policy.killSwitch /\ s.confident
        /\ reviews[s] = "approved" => decisions[s] = "approved_for_paper"
        /\ fills[s] = "filled" => reviews[s] = "approved" /\ s.direction = "positive"

UnderWay ==
    /\ stage \in {"review", "fill"} => order \in Issued \cap considered
    /\ stage = "review" => reviews[order] = "none" /\ fills[order] = "none"
    /\ stage = "fill" => reviews[order] # "none" /\ fills[order] = "none"

Complete(s) == /\ s \in Issued <=> reviews[s] # "none"
               /\ s \in Issued <=> fills[s] # "none"

OthersComplete ==
    stage # "aborted" =>
        \A s \in Signals : Complete(s) \/ (stage \in {"review", "fill"} /\ s = order)

ApprovalInv ==
    /\ BooksTypeOK /\ OrderUnderWay
    /\ Untouched /\ Approvals /\ UnderWay /\ OthersComplete

LEMMA InitApproval == Init => ApprovalInv
  BY InitTypes DEF Init, ApprovalInv, OrderUnderWay, Untouched, Approvals, UnderWay,
                   OthersComplete, Complete, Issued, Issuing

LEMMA ConsiderApproval ==
    ASSUME ApprovalInv, NEW s \in Signals, Consider(s)
    PROVE  /\ Untouched' /\ Approvals'
           /\ decisions[s] = "none" /\ reviews[s] = "none" /\ fills[s] = "none"
           /\ decisions'[s] = Decision(s) /\ s \in considered'
           /\ \A t \in Signals \ {s} : decisions'[t] = decisions[t]
           /\ UNCHANGED <<reviews, fills>>
<1>1. /\ decisions[s] = "none" /\ reviews[s] = "none" /\ fills[s] = "none"
      /\ considered' = considered \cup {s}
      /\ decisions' = [decisions EXCEPT ![s] = Decision(s)]
      /\ UNCHANGED <<policy, reviews, fills>>
      /\ s \notin considered
  BY DEF Consider, ApprovalInv, Untouched
<1>2. decisions'[s] = Decision(s) /\ \A t \in Signals \ {s} : decisions'[t] = decisions[t]
  BY <1>1 DEF ApprovalInv, BooksTypeOK
<1>3. Untouched'
  BY <1>1, <1>2 DEF ApprovalInv, Untouched
<1>4. Decision(s) = "approved_for_paper" => ~policy.killSwitch /\ s.confident
  BY DecisionRange DEF ApprovalInv, BooksTypeOK
<1>5. Approvals'
  BY <1>1, <1>2, <1>4 DEF ApprovalInv, Approvals
<1>. QED BY <1>1, <1>2, <1>3, <1>5

LEMMA BlockApproval ==
    ASSUME ApprovalInv, NEW s \in Signals, Block(s)
    PROVE  Untouched' /\ Approvals' /\ UnderWay' /\ OthersComplete'
<1>1. /\ stage = "risk" /\ stage' = "risk" /\ Consider(s)
      /\ Decision(s) \notin Issuing
  BY DEF Block, Consider
<1>2. UnderWay'
  BY <1>1 DEF UnderWay
<1>3. OthersComplete'
  <2>1. s \notin Issued' /\ reviews'[s] = "none" /\ fills'[s] = "none"
    BY <1>1, ConsiderApproval DEF Issued
  <2>2. \A t \in Signals \ {s} : Complete(t)' <=> Complete(t)
    BY <1>1, ConsiderApproval DEF Complete, Issued
  <2>3. \A t \in Signals : Complete(t)
    BY <1>1 DEF ApprovalInv, OthersComplete
  <2>. QED BY <2>1, <2>2, <2>3 DEF OthersComplete, Complete
<1>. QED BY <1>1, <1>2, <1>3, ConsiderApproval

LEMMA IssueApproval ==
    ASSUME ApprovalInv, NEW s \in Signals, IssueOrder(s)
    PROVE  Untouched' /\ Approvals' /\ UnderWay' /\ OthersComplete'
<1>1. /\ stage = "risk" /\ Consider(s) /\ Decision(s) \in Issuing
      /\ \/ stage' = "review" /\ order' = s
         \/ stage' = "aborted"
  BY DEF IssueOrder, Consider
<1>2. UnderWay'
  BY <1>1, ConsiderApproval DEF UnderWay, Issued
<1>3. OthersComplete'
  <2>1. \A t \in Signals \ {s} : Complete(t)' <=> Complete(t)
    BY <1>1, ConsiderApproval DEF Complete, Issued
  <2>2. \A t \in Signals : Complete(t)
    BY <1>1 DEF ApprovalInv, OthersComplete
  <2>. QED BY <1>1, <2>1, <2>2 DEF OthersComplete
<1>. QED BY <1>1, <1>2, <1>3, ConsiderApproval

LEMMA ReviewApproval ==
    ASSUME ApprovalInv, Review
    PROVE  Untouched' /\ Approvals' /\ UnderWay' /\ OthersComplete'
<1>1. PICK verdict \in Verdicts(decisions[order]) :
         reviews' = [reviews EXCEPT ![order] = verdict]
  BY DEF Review
<1>2. /\ stage = "review" /\ stage' = "fill" /\ order \in Issued \cap considered
      /\ fills[order] = "none"
      /\ UNCHANGED <<policy, considered, order, decisions, fills>>
  BY DEF Review, ApprovalInv, UnderWay
<1>3. /\ reviews'[order] = verdict
      /\ \A t \in Signals \ {order} : reviews'[t] = reviews[t]
  BY <1>1, <1>2 DEF ApprovalInv, BooksTypeOK, Issued
<1>4. /\ verdict # "none"
      /\ verdict = "approved" => decisions[order] = "approved_for_paper"
  BY <1>1 DEF Verdicts
<1>5. Untouched'
  BY <1>2, <1>3 DEF ApprovalInv, Untouched
<1>6. Approvals'
  BY <1>2, <1>3, <1>4 DEF ApprovalInv, Approvals
<1>7. UnderWay'
  BY <1>2, <1>3, <1>4 DEF ApprovalInv, UnderWay, Issued
<1>8. OthersComplete'
  BY <1>2, <1>3 DEF ApprovalInv, OthersComplete, Complete, Issued
<1>. QED BY <1>5, <1>6, <1>7, <1>8

LEMMA FinishApproval ==
    ASSUME ApprovalInv, stage = "fill", NEW status, status # "none", FinishFill(status),
           status = "filled" => reviews[order] = "approved" /\ order.direction = "positive"
    PROVE  Untouched' /\ Approvals' /\ UnderWay' /\ OthersComplete'
<1>1. /\ stage' = "risk" /\ order \in Issued \cap considered
      /\ reviews[order] # "none"
      /\ fills' = [fills EXCEPT ![order] = status]
      /\ UNCHANGED <<policy, considered, decisions, reviews>>
  BY DEF FinishFill, ApprovalInv, UnderWay
<1>2. /\ fills'[order] = status
      /\ \A t \in Signals \ {order} : fills'[t] = fills[t]
  BY <1>1 DEF ApprovalInv, BooksTypeOK, Issued
<1>3. Untouched' /\ Approvals'
  BY <1>1, <1>2 DEF ApprovalInv, Untouched, Approvals
<1>4. UnderWay'
  BY <1>1 DEF UnderWay
<1>5. OthersComplete'
  <2> SUFFICES ASSUME NEW t \in Signals PROVE Complete(t)'
    BY DEF OthersComplete
  <2>1. CASE t = order
    BY <1>1, <1>2, <2>1 DEF Complete, Issued
  <2>2. CASE t # order
    BY <1>1, <1>2, <2>2 DEF ApprovalInv, OthersComplete, Complete, Issued
  <2>. QED BY <2>1, <2>2
<1>. QED BY <1>3, <1>4, <1>5

LEMMA NextApproval ==
    ASSUME ApprovalInv, [Next]_vars
    PROVE  ApprovalInv'
<1>1. BooksTypeOK' /\ OrderUnderWay'
  BY NextTypes DEF ApprovalInv
<1>2. ASSUME NEW s \in Signals, Block(s) \/ IssueOrder(s) PROVE ApprovalInv'
  BY <1>1, <1>2, BlockApproval, IssueApproval DEF ApprovalInv
<1>3. CASE Review
  BY <1>1, <1>3, ReviewApproval DEF ApprovalInv
<1>4. CASE FailFill
  <2>1. Failure(order) # "none" /\ Failure(order) # "filled"
    BY <1>4 DEF FailFill, Failure
  <2>. QED BY <1>1, <1>4, <2>1, FinishApproval DEF FailFill, ApprovalInv
<1>5. CASE Fill
  <2>1. reviews[order] = "approved" /\ Side(order) \notin {"flat", "reduce"}
    BY <1>5 DEF Fill, Failure
  <2>2. order.direction = "positive"
    BY <2>1 DEF Side
  <2>. QED BY <1>1, <1>5, <2>1, <2>2, FinishApproval DEF Fill, ApprovalInv
<1>6. CASE CloseScenario
  BY <1>1, <1>6 DEF CloseScenario, ApprovalInv, Untouched, Approvals, UnderWay,
                    OthersComplete, Complete, Issued
<1>7. CASE UNCHANGED vars
  BY <1>1, <1>7 DEF vars, ApprovalInv, Untouched, Approvals, UnderWay,
                    OthersComplete, Complete, Issued
<1>. QED BY <1>2, <1>3, <1>4, <1>5, <1>6, <1>7 DEF Next

LEMMA ApprovalInvHolds == Spec => []ApprovalInv
<1>. QED BY InitApproval, NextApproval, PTL DEF Spec

\* Only an order the gates approved outright and the reviewer approved is ever
\* filled; one that needed manual review, mixed or unsure, never is.
THEOREM FillsAreApproved == Spec => []FilledWasApproved
<1>1. ApprovalInv => FilledWasApproved
  BY DEF ApprovalInv, Approvals, FilledWasApproved
<1>. QED BY <1>1, ApprovalInvHolds, PTL

\* Between two signals every order issued has its review and its fill row, and
\* no other signal has either.
THEOREM OrdersFinish == Spec => []OrdersAreFinished
<1>1. ApprovalInv => OrdersAreFinished
  BY DEF ApprovalInv, OthersComplete, Complete, OrdersAreFinished
<1>. QED BY <1>1, ApprovalInvHolds, PTL

-----------------------------------------------------------------------------
(* Counters and reservations are those of the orders issued. *)

OfAssetDay(a, d) == {s \in Issued : s.asset = a /\ s.day = d}
OfDay(d) == {s \in Issued : s.day = d}
OfClass(c) == {s \in Issued : ClassOf[s.asset] = c}

CountsInv ==
    /\ ApprovalInv
    /\ grossExposure = OrderNotional * Cardinality(Issued)
    /\ \A a \in Assets, d \in Days :
          /\ ordersByAssetDay[<<a, d>>] = Cardinality(OfAssetDay(a, d))
          /\ ordersByAssetDay[<<a, d>>] <= MaxOrdersPerAssetDay
    /\ \A d \in Days : /\ ordersByDay[d] = Cardinality(OfDay(d))
                       /\ ordersByDay[d] <= MaxOrdersPerDay
    /\ \A c \in Classes : notionalByClass[c] = OrderNotional * Cardinality(OfClass(c))

\* A subset of the signals has a size, one more when a signal joins it.
LEMMA OneMore ==
    ASSUME NEW S \in SUBSET Signals, NEW s \in Signals, s \notin S
    PROVE  /\ Cardinality(S) \in Nat
           /\ Cardinality(S \cup {s}) = Cardinality(S) + 1
<1>1. IsFiniteSet(S)
  BY FS_Subset, SignalsAssumption
<1>. QED BY <1>1, FS_AddElement, FS_CardinalityType

LEMMA InitCounts == Init => CountsInv
<1> SUFFICES ASSUME Init PROVE CountsInv
  OBVIOUS
<1>1. Issued = {} /\ Cardinality({}) = 0
  BY FS_EmptySet DEF Init, Issued, Issuing
<1>2. /\ \A a \in Assets, d \in Days : OfAssetDay(a, d) = {}
      /\ \A d \in Days : OfDay(d) = {}
      /\ \A c \in Classes : OfClass(c) = {}
  BY <1>1 DEF OfAssetDay, OfDay, OfClass
<1>3. /\ OrderNotional * 0 = 0 /\ grossExposure = 0
      /\ MaxOrdersPerDay >= 0 /\ MaxOrdersPerAssetDay >= 0
  BY PolicyAssumption DEF Init
<1>4. /\ \A a \in Assets, d \in Days : ordersByAssetDay[<<a, d>>] = 0
      /\ \A d \in Days : ordersByDay[d] = 0
      /\ \A c \in Classes : notionalByClass[c] = 0
  BY DEF Init
<1>. QED BY <1>1, <1>2, <1>3, <1>4, InitApproval DEF CountsInv

\* Steps that issue no order.
LEMMA SameCounts ==
    ASSUME CountsInv, ApprovalInv', Issued' = Issued, UNCHANGED reservations
    PROVE  CountsInv'
  BY DEF CountsInv, reservations, OfAssetDay, OfDay, OfClass

LEMMA IssueCounts ==
    ASSUME CountsInv, ApprovalInv', NEW s \in Signals, IssueOrder(s)
    PROVE  CountsInv'
<1>1. /\ Reserve(s) /\ WithinCaps(s)
      /\ s \notin Issued /\ Issued' = Issued \cup {s}
  <2>1. Reserve(s) /\ Consider(s) /\ Decision(s) \in Issuing
    BY DEF IssueOrder
  <2>2. WithinCaps(s)
    BY <2>1, DecisionRange DEF CountsInv, ApprovalInv, BooksTypeOK
  <2>3. /\ decisions[s] = "none" /\ decisions'[s] \in Issuing
        /\ \A t \in Signals \ {s} : decisions'[t] = decisions[t]
    BY <2>1, ConsiderApproval DEF CountsInv
  <2>4. s \notin Issued /\ s \in Issued'
    BY <2>3 DEF Issued, Issuing
  <2>5. \A t \in Signals \ {s} : t \in Issued' <=> t \in Issued
    BY <2>3 DEF Issued
  <2>6. Issued' = Issued \cup {s}
    BY <2>4, <2>5 DEF Issued
  <2>. QED BY <2>1, <2>2, <2>4, <2>6
<1>2. /\ OrderNotional \in Nat /\ s.asset \in Assets /\ s.day \in Days
      /\ ClassOf[s.asset] \in Classes
      /\ MaxOrdersPerDay \in Nat /\ MaxOrdersPerAssetDay \in Nat
  BY SignalFields, PolicyAssumption
<1>3. \A n \in Nat : OrderNotional * (n + 1) = OrderNotional * n + OrderNotional
  BY <1>2
<1>4. grossExposure' = OrderNotional * Cardinality(Issued')
  <2>1. /\ Cardinality(Issued) \in Nat
        /\ Cardinality(Issued \cup {s}) = Cardinality(Issued) + 1
    BY <1>1, OneMore DEF Issued
  <2>. QED BY <1>1, <1>3, <2>1 DEF CountsInv, Reserve
<1>5. ASSUME NEW a \in Assets, NEW d \in Days
      PROVE  /\ ordersByAssetDay'[<<a, d>>] = Cardinality(OfAssetDay(a, d)')
             /\ ordersByAssetDay'[<<a, d>>] <= MaxOrdersPerAssetDay
  <2>1. CASE s.asset = a /\ s.day = d
    <3>1. OfAssetDay(a, d)' = OfAssetDay(a, d) \cup {s}
      BY <1>1, <2>1 DEF OfAssetDay
    <3>2. s \notin OfAssetDay(a, d) /\ OfAssetDay(a, d) \in SUBSET Signals
      BY <1>1 DEF OfAssetDay, Issued
    <3>3. Cardinality(OfAssetDay(a, d)') = Cardinality(OfAssetDay(a, d)) + 1
      BY <3>1, <3>2, OneMore
    <3>4. ordersByAssetDay'[<<a, d>>] = ordersByAssetDay[<<a, d>>] + 1
      BY <1>1, <2>1 DEF Reserve, CountsInv, ApprovalInv, BooksTypeOK
    <3>5. ordersByAssetDay[<<a, d>>] \in Nat
      BY DEF CountsInv, ApprovalInv, BooksTypeOK
    <3>. QED BY <1>1, <1>2, <2>1, <3>3, <3>4, <3>5 DEF CountsInv, WithinCaps
  <2>2. CASE ~(s.asset = a /\ s.day = d)
    <3>1. OfAssetDay(a, d)' = OfAssetDay(a, d)
      BY <1>1, <2>2 DEF OfAssetDay
    <3>2. ordersByAssetDay'[<<a, d>>] = ordersByAssetDay[<<a, d>>]
      BY <1>1, <1>2, <2>2 DEF Reserve, CountsInv, ApprovalInv, BooksTypeOK
    <3>. QED BY <3>1, <3>2 DEF CountsInv
  <2>. QED BY <2>1, <2>2
<1>6. ASSUME NEW d \in Days
      PROVE  /\ ordersByDay'[d] = Cardinality(OfDay(d)')
             /\ ordersByDay'[d] <= MaxOrdersPerDay
  <2>1. CASE s.day = d
    <3>1. OfDay(d)' = OfDay(d) \cup {s}
      BY <1>1, <2>1 DEF OfDay
    <3>2. s \notin OfDay(d) /\ OfDay(d) \in SUBSET Signals
      BY <1>1 DEF OfDay, Issued
    <3>3. Cardinality(OfDay(d)') = Cardinality(OfDay(d)) + 1
      BY <3>1, <3>2, OneMore
    <3>4. ordersByDay'[d] = ordersByDay[d] + 1 /\ ordersByDay[d] \in Nat
      BY <1>1, <2>1 DEF Reserve, CountsInv, ApprovalInv, BooksTypeOK
    <3>. QED BY <1>1, <1>2, <2>1, <3>3, <3>4 DEF CountsInv, WithinCaps
  <2>2. CASE s.day # d
    <3>1. OfDay(d)' = OfDay(d)
      BY <1>1, <2>2 DEF OfDay
    <3>2. ordersByDay'[d] = ordersByDay[d]
      BY <1>1, <1>2, <2>2 DEF Reserve, CountsInv, ApprovalInv, BooksTypeOK
    <3>. QED BY <3>1, <3>2 DEF CountsInv
  <2>. QED BY <2>1, <2>2
<1>7. ASSUME NEW c \in Classes
      PROVE  notionalByClass'[c] = OrderNotional * Cardinality(OfClass(c)')
  <2>1. CASE ClassOf[s.asset] = c
    <3>1. OfClass(c)' = OfClass(c) \cup {s}
      BY <1>1, <2>1 DEF OfClass
    <3>2. s \notin OfClass(c) /\ OfClass(c) \in SUBSET Signals
      BY <1>1 DEF OfClass, Issued
    <3>3. /\ Cardinality(OfClass(c)') = Cardinality(OfClass(c)) + 1
          /\ Cardinality(OfClass(c)) \in Nat
      BY <3>1, <3>2, OneMore
    <3>4. notionalByClass'[c] = notionalByClass[c] + OrderNotional
      BY <1>1, <2>1 DEF Reserve, CountsInv, ApprovalInv, BooksTypeOK
    <3>. QED BY <1>3, <3>3, <3>4 DEF CountsInv
  <2>2. CASE ClassOf[s.asset] # c
    <3>1. OfClass(c)' = OfClass(c)
      BY <1>1, <2>2 DEF OfClass
    <3>2. notionalByClass'[c] = notionalByClass[c]
      BY <1>1, <1>2, <2>2 DEF Reserve, CountsInv, ApprovalInv, BooksTypeOK
    <3>. QED BY <3>1, <3>2 DEF CountsInv
  <2>. QED BY <2>1, <2>2
<1>. QED BY <1>4, <1>5, <1>6, <1>7 DEF CountsInv

LEMMA NextCounts ==
    ASSUME CountsInv, [Next]_vars
    PROVE  CountsInv'
<1>1. ApprovalInv'
  BY NextApproval DEF CountsInv
<1>2. ASSUME NEW s \in Signals, Block(s) PROVE CountsInv'
  <2>1. /\ s \notin Issued' /\ s \notin Issued
        /\ \A t \in Signals \ {s} : decisions'[t] = decisions[t]
    BY <1>2, ConsiderApproval DEF Block, CountsInv, Issued, Issuing
  <2>2. Issued' = Issued
    BY <2>1 DEF Issued
  <2>. QED BY <1>1, <1>2, <2>2, SameCounts DEF Block
<1>3. ASSUME NEW s \in Signals, IssueOrder(s) PROVE CountsInv'
  BY <1>1, <1>3, IssueCounts
<1>4. ASSUME UNCHANGED decisions, UNCHANGED reservations PROVE CountsInv'
  BY <1>1, <1>4, SameCounts DEF Issued
<1>5. CASE Review \/ FailFill \/ Fill \/ CloseScenario
  BY <1>4, <1>5 DEF Review, FailFill, Fill, FinishFill, CloseScenario
<1>6. CASE UNCHANGED vars
  BY <1>4, <1>6 DEF vars
<1>. QED BY <1>2, <1>3, <1>5, <1>6 DEF Next

\* Whatever was blocked, reviewed or filled in between, the daily counters and
\* the notional reserved are those of the orders issued, and within the limits
\* on the number of orders.
THEOREM ReservationsMatch == Spec => []ReservationsMatchOrders
<1>1. CountsInv => ReservationsMatchOrders
  BY DEF CountsInv, ReservationsMatchOrders, OfAssetDay, OfDay, OfClass
<1>. QED BY <1>1, InitCounts, NextCounts, PTL DEF Spec

-----------------------------------------------------------------------------
(* Sums over finite sets.                                                  *)

Picked(s) == CHOOSE a \in s : TRUE

\* f is the sum of g over every subset of S, taken element by element.
IsSum(g, S, f) ==
    f = [s \in SUBSET S |->
            IF s = {} THEN 0 ELSE g[Picked(s)] + f[s \ {Picked(s)}]]

LEMMA PickedElement ==
    ASSUME NEW s, s # {}
    PROVE  Picked(s) \in s
  BY DEF Picked

\* Of some subsets of a finite set one has no smaller one among them.
LEMMA SmallestSubset ==
    ASSUME NEW S, IsFiniteSet(S), NEW B, B \subseteq SUBSET S, B # {}
    PROVE  \E T \in B : \A U \in B : U \subseteq T => U = T
<1>1. IsWellFoundedOn(StrictSubsetOrdering(S), SUBSET S)
  BY FS_StrictSubsetOrderingWellFounded, FS_FiniteSubsetsOfFinite
<1>2. PICK T \in B : \A U \in B : ~ (<<U, T>> \in StrictSubsetOrdering(S))
  BY <1>1, WFMin
<1>. QED BY <1>2 DEF StrictSubsetOrdering

LEMMA SumUnique ==
    ASSUME NEW S, IsFiniteSet(S), NEW g, NEW T \in SUBSET S, NEW U \in SUBSET S,
           NEW f, NEW h, IsSum(g, T, f), IsSum(g, U, h)
    PROVE  \A s \in SUBSET (T \cap U) : f[s] = h[s]
<1> DEFINE B == {s \in SUBSET (T \cap U) : f[s] # h[s]}
<1>1. SUFFICES ASSUME B # {} PROVE FALSE
  OBVIOUS
<1>2. PICK s \in B : \A r \in B : r \subseteq s => r = s
  <2>1. B \subseteq SUBSET S
    OBVIOUS
  <2> HIDE DEF B
  <2>. QED BY <1>1, <2>1, SmallestSubset
<1>3. s \in SUBSET T /\ s \in SUBSET U /\ f[s] # h[s]
  OBVIOUS
<1>4. s # {}
  BY <1>3 DEF IsSum
<1>5. Picked(s) \in s
  BY <1>4, PickedElement
<1> DEFINE r == s \ {Picked(s)}
<1>6. f[r] = h[r]
  BY <1>2, <1>5
<1>7. f[s] = g[Picked(s)] + f[r] /\ h[s] = g[Picked(s)] + h[r]
  BY <1>3, <1>4 DEF IsSum
<1>. QED BY <1>3, <1>6, <1>7

LEMMA SumExists ==
    ASSUME NEW S, IsFiniteSet(S), NEW g
    PROVE  \A T \in SUBSET S : \E f : IsSum(g, T, f)
<1> DEFINE B == {T \in SUBSET S : ~ \E f : IsSum(g, T, f)}
<1>1. SUFFICES ASSUME B # {} PROVE FALSE
  OBVIOUS
<1>2. PICK T \in B : \A U \in B : U \subseteq T => U = T
  <2>1. B \subseteq SUBSET S
    OBVIOUS
  <2> HIDE DEF B
  <2>. QED BY <1>1, <2>1, SmallestSubset
<1> DEFINE fun(U) == CHOOSE f : IsSum(g, U, f)
           rest(s) == s \ {Picked(s)}
           new == [s \in SUBSET T |-> IF s = {} THEN 0 ELSE g[Picked(s)] + fun(rest(s))[rest(s)]]
<1>3. \A U \in SUBSET T : U # T => IsSum(g, U, fun(U))
  BY <1>2
<1>4. \A s \in SUBSET T : s # {} => new[s] = g[Picked(s)] + fun(rest(s))[rest(s)]
  OBVIOUS
<1>5. ASSUME NEW s \in SUBSET T, s # {}
      PROVE  /\ rest(s) \in SUBSET T /\ rest(s) # T
             /\ fun(rest(s))[rest(s)] = new[rest(s)]
  <2> DEFINE r == rest(s)
  <2>1. r \in SUBSET T /\ r # T
    BY <1>5, PickedElement
  <2>2. IsSum(g, r, fun(r))
    BY <1>3, <2>1
  <2>3. CASE r = {}
    BY <2>1, <2>2, <2>3 DEF IsSum
  <2>4. CASE r # {}
    <3>1. fun(r)[r] = g[Picked(r)] + fun(r)[rest(r)]
      BY <2>2, <2>4 DEF IsSum
    <3>2. rest(r) \in SUBSET r /\ rest(r) # r
      BY <2>4, PickedElement
    <3>3. rest(r) \in SUBSET T /\ rest(r) # T
      BY <2>1, <3>2
    <3>4. IsSum(g, rest(r), fun(rest(r)))
      BY <1>3, <3>3
    <3>5. fun(r)[rest(r)] = fun(rest(r))[rest(r)]
      <4>1. r \in SUBSET S /\ rest(r) \in SUBSET S /\ rest(r) \in SUBSET (r \cap rest(r))
        BY <2>1, <3>2
      <4> HIDE DEF fun, rest, r
      <4>. QED BY <2>2, <3>4, <4>1, SumUnique
    <3>6. new[r] = g[Picked(r)] + fun(rest(r))[rest(r)]
      <4> HIDE DEF new, fun, rest, r
      <4>. QED BY <1>4, <2>1, <2>4
    <3>7. fun(r)[r] = new[r]
      <4> HIDE DEF new, fun, rest, r
      <4>. QED BY <3>1, <3>5, <3>6
    <3>. QED BY <2>1, <3>7
  <2>. QED BY <2>1, <2>3, <2>4
<1>6. IsSum(g, T, new)
  <2> HIDE DEF fun
  <2>1. \A s \in SUBSET T : new[s] = IF s = {} THEN 0 ELSE g[Picked(s)] + new[rest(s)]
    BY <1>5
  <2>2. new = [s \in SUBSET T |-> new[s]]
    OBVIOUS
  <2> HIDE DEF new
  <2>. QED BY <2>1, <2>2 DEF IsSum
<1>. QED BY <1>2, <1>6

Sum(g, S) == (CHOOSE f : IsSum(g, S, f))[S]

LEMMA SumIsThere ==
    ASSUME NEW S, IsFiniteSet(S), NEW g
    PROVE  \E f : IsSum(g, S, f) /\ Sum(g, S) = f[S]
<1>1. \E f : IsSum(g, S, f)
  BY SumExists
<1>2. IsSum(g, S, CHOOSE f : IsSum(g, S, f))
  BY <1>1
<1>. QED BY <1>2 DEF Sum

LEMMA SumIsNumber ==
    ASSUME NEW S, IsFiniteSet(S), NEW g \in [S -> Int], NEW f, IsSum(g, S, f)
    PROVE  \A s \in SUBSET S : f[s] \in Int
<1> DEFINE B == {s \in SUBSET S : f[s] \notin Int}
<1>1. SUFFICES ASSUME B # {} PROVE FALSE
  OBVIOUS
<1>2. PICK s \in B : \A r \in B : r \subseteq s => r = s
  <2>1. B \subseteq SUBSET S
    OBVIOUS
  <2> HIDE DEF B
  <2>. QED BY <1>1, <2>1, SmallestSubset
<1>3. s # {}
  BY DEF IsSum
<1>4. Picked(s) \in s
  BY <1>3, PickedElement
<1> DEFINE r == s \ {Picked(s)}
<1>5. f[r] \in Int
  BY <1>2, <1>4
<1>6. f[s] = g[Picked(s)] + f[r]
  BY <1>3 DEF IsSum
<1>7. g[Picked(s)] \in Int
  BY <1>4
<1>. QED BY <1>5, <1>6, <1>7

\* One value grows by d, and so does the sum.
LEMMA SumMoves ==
    ASSUME NEW S, IsFiniteSet(S), NEW g \in [S -> Int], NEW a \in S, NEW d \in Int,
           NEW h \in [S -> Int], h[a] = g[a] + d, \A b \in S \ {a} : h[b] = g[b],
           NEW f, NEW k, IsSum(g, S, f), IsSum(h, S, k)
    PROVE  k[S] = f[S] + d
<1> DEFINE B == {s \in SUBSET S : k[s] # f[s] + IF a \in s THEN d ELSE 0}
<1>1. B = {}
  <2> SUFFICES ASSUME B # {} PROVE FALSE
    OBVIOUS
  <2>2. PICK s \in B : \A r \in B : r \subseteq s => r = s
    <3>1. B \subseteq SUBSET S
      OBVIOUS
    <3> HIDE DEF B
    <3>. QED BY <3>1, SmallestSubset
  <2>3. s # {}
    BY DEF IsSum
  <2>4. Picked(s) \in s
    BY <2>3, PickedElement
  <2> DEFINE r == s \ {Picked(s)}
  <2>5. k[r] = f[r] + IF a \in r THEN d ELSE 0
    BY <2>2, <2>4
  <2>6. f[s] = g[Picked(s)] + f[r] /\ k[s] = h[Picked(s)] + k[r]
    BY <2>3 DEF IsSum
  <2>7. g[Picked(s)] \in Int /\ f[r] \in Int
    BY <2>4, SumIsNumber
  <2>8. k[s] = f[s] + IF a \in s THEN d ELSE 0
    BY <2>4, <2>5, <2>6, <2>7
  <2>. QED BY <2>8
<1>. QED BY <1>1

LEMMA SumOfZeros ==
    ASSUME NEW S, IsFiniteSet(S), NEW f, IsSum([a \in S |-> 0], S, f)
    PROVE  f[S] = 0
<1> DEFINE B == {s \in SUBSET S : f[s] # 0}
<1>1. B = {}
  <2> SUFFICES ASSUME B # {} PROVE FALSE
    OBVIOUS
  <2>2. PICK s \in B : \A r \in B : r \subseteq s => r = s
    <3>1. B \subseteq SUBSET S
      OBVIOUS
    <3> HIDE DEF B
    <3>. QED BY <3>1, SmallestSubset
  <2>3. s # {}
    BY DEF IsSum
  <2>4. Picked(s) \in s
    BY <2>3, PickedElement
  <2> DEFINE r == s \ {Picked(s)}
  <2>5. f[r] = 0
    BY <2>2, <2>4
  <2>6. f[s] = 0 + f[r]
    BY <2>3, <2>4 DEF IsSum
  <2>. QED BY <2>5, <2>6
<1>. QED BY <1>1

-----------------------------------------------------------------------------
(* The books balance.                                                      *)

SpentOn == MapThenSumSet(LAMBDA a : bookCost[a], Assets)

LEMMA SpentOnIsSum == SpentOn = Sum(bookCost, Assets) /\ SpentOn' = Sum(bookCost', Assets)
  BY DEF SpentOn, Sum, IsSum, Picked, MapThenSumSet, MapThenFoldSet

LEMMA FillCosts ==
    ASSUME BooksTypeOK, OrderUnderWay, Fill
    PROVE  SpentOn' = SpentOn + OrderNotional /\ SpentOn \in Int
<1> DEFINE a == order.asset
<1>1. a \in Assets /\ IsFiniteSet(Assets) /\ OrderNotional \in Int
  BY SignalFields, AssetsAssumption, PolicyAssumption DEF Fill, OrderUnderWay
<1>2. /\ bookCost' = [bookCost EXCEPT ![a] = @ + OrderNotional]
      /\ bookCost \in [Assets -> Int]
  BY DEF Fill, BooksTypeOK
<1>3. PICK f : IsSum(bookCost, Assets, f) /\ SpentOn = f[Assets]
  BY <1>1, SpentOnIsSum, SumIsThere
<1>4. PICK k : IsSum(bookCost', Assets, k) /\ SpentOn' = k[Assets]
  BY <1>1, SpentOnIsSum, SumIsThere
<1> HIDE DEF a
<1>5. PICK g, h : g = bookCost /\ h = bookCost'
  OBVIOUS
<1>6. k[Assets] = f[Assets] + OrderNotional
  <2>1. /\ g \in [Assets -> Int] /\ h \in [Assets -> Int]
        /\ h[a] = g[a] + OrderNotional /\ \A b \in Assets \ {a} : h[b] = g[b]
    BY <1>1, <1>2, <1>5
  <2>2. IsSum(g, Assets, f) /\ IsSum(h, Assets, k)
    BY <1>3, <1>4, <1>5
  <2>. QED BY <1>1, <2>1, <2>2, SumMoves
<1>7. f[Assets] \in Int
  BY <1>1, <1>2, <1>3, SumIsNumber
<1>. QED BY <1>3, <1>4, <1>6, <1>7

BooksInv == BooksTypeOK /\ OrderUnderWay /\ CashReconciles

LEMMA InitBooks == Init => BooksInv
<1> SUFFICES ASSUME Init PROVE BooksInv
  OBVIOUS
<1>1. BooksTypeOK /\ OrderUnderWay
  BY InitTypes DEF Init, OrderUnderWay
<1>2. bookCost = [a \in Assets |-> 0] /\ cash = StartingCash /\ costs = 0
      /\ StartingCash \in Int
  BY PolicyAssumption DEF Init
<1>3. PICK f : IsSum(bookCost, Assets, f) /\ SpentOn = f[Assets]
  BY AssetsAssumption, SpentOnIsSum, SumIsThere
<1>4. SpentOn = 0
  BY <1>2, <1>3, AssetsAssumption, SumOfZeros
<1>5. CashReconciles <=> cash + SpentOn + costs = StartingCash
  BY DEF CashReconciles, SpentOn
<1>. QED BY <1>1, <1>2, <1>4, <1>5 DEF BooksInv

LEMMA NextBooks ==
    ASSUME BooksInv, [Next]_vars
    PROVE  BooksInv'
<1>1. BooksTypeOK' /\ OrderUnderWay'
  BY NextTypes DEF BooksInv
<1>2. CASE UNCHANGED <<cash, bookCost, costs>>
  <2>1. CashReconciles'
    BY <1>2, SpentOnIsSum DEF BooksInv, CashReconciles, SpentOn
  <2>. QED BY <1>1, <2>1 DEF BooksInv
<1>3. CASE Fill
  <2>1. SpentOn' = SpentOn + OrderNotional /\ SpentOn \in Int
    BY <1>3, FillCosts DEF BooksInv
  <2>2. cash' = cash - (OrderNotional + Commission) /\ costs' = costs + Commission
    BY <1>3 DEF Fill
  <2>3. cash \in Int /\ costs \in Int /\ OrderNotional \in Int /\ Commission \in Int
    BY FundingAssumption, PolicyAssumption DEF BooksInv, BooksTypeOK
  <2>4. cash + SpentOn + costs = StartingCash
    BY DEF BooksInv, CashReconciles, SpentOn
  <2>5. cash' + SpentOn' + costs' = StartingCash
    BY <2>1, <2>2, <2>3, <2>4
  <2>. QED BY <1>1, <2>5 DEF BooksInv, CashReconciles, SpentOn
<1>4. UNCHANGED <<cash, bookCost, costs>> \/ Fill
  BY DEF Next, vars, Block, IssueOrder, Consider, Review, FailFill, CloseScenario, portfolio
<1>. QED BY <1>1, <1>2, <1>3, <1>4 DEF BooksInv

\* Whatever was filled, cash, the cost of the positions and the commissions add
\* up to the starting cash, for any number of assets.
THEOREM BooksBalance == Spec => []CashReconciles
<1>1. BooksInv => CashReconciles
  BY DEF BooksInv
<1>. QED BY <1>1, InitBooks, NextBooks, PTL DEF Spec

-----------------------------------------------------------------------------
(* Valuation: the drawdown is a number.                                    *)

Value == [a \in Assets |-> quantity[a] * lastPrice[a]]

\* MarketValue takes the same sum, of a product instead of an entry.
IsValue(f) ==
    f = [s \in SUBSET Assets |->
            IF s = {} THEN 0
            ELSE quantity[Picked(s)] * lastPrice[Picked(s)] + f[s \ {Picked(s)}]]

LEMMA MarketValueIsNumber ==
    ASSUME BooksTypeOK
    PROVE  MarketValue \in Int
<1>1. Value \in [Assets -> Int] /\ IsFiniteSet(Assets)
  BY AssetsAssumption DEF BooksTypeOK, Value
<1>2. MarketValue = (CHOOSE f : IsValue(f))[Assets]
  BY DEF MarketValue, MapThenSumSet, MapThenFoldSet, IsValue, Picked
<1>3. \A s \in SUBSET Assets : s # {} =>
         Value[Picked(s)] = quantity[Picked(s)] * lastPrice[Picked(s)]
  BY PickedElement DEF Value
<1>4. \A f : IsValue(f) <=> IsSum(Value, Assets, f)
  BY <1>3 DEF IsValue, IsSum
<1>5. \E f : IsSum(Value, Assets, f)
  BY <1>1, SumExists
<1>6. IsSum(Value, Assets, CHOOSE f : IsValue(f))
  BY <1>4, <1>5
<1>7. (CHOOSE f : IsValue(f))[Assets] \in Int
  BY <1>1, <1>6, SumIsNumber
<1>. QED BY <1>2, <1>7

LEMMA DrawdownIsNumber ==
    ASSUME BooksTypeOK
    PROVE  Drawdown \in Int
<1>1. Nav \in Int /\ NavBase \in Nat \ {0}
  BY MarketValueIsNumber, PolicyAssumption DEF Nav, BooksTypeOK
<1>2. (NavBase - Nav) * 10000 \in Int
  BY <1>1
<1>. QED BY <1>1, <1>2 DEF Drawdown

\* Every variable stays in its range, the drawdown measured at the end included.
THEOREM VariablesHold == Spec => []TypeOK
<1> DEFINE I == BooksTypeOK /\ OrderUnderWay /\ maxDrawdown \in Int
<1>1. Init => I
  BY InitTypes DEF Init, OrderUnderWay
<1>2. I /\ [Next]_vars => I'
  <2> SUFFICES ASSUME I, [Next]_vars PROVE I'
    OBVIOUS
  <2>1. BooksTypeOK' /\ OrderUnderWay'
    BY NextTypes
  <2>2. CASE CloseScenario
    BY <2>1, <2>2, DrawdownIsNumber DEF CloseScenario
  <2>3. CASE ~ CloseScenario
    BY <2>1, <2>3 DEF Next, vars, Block, IssueOrder, Consider, Review, FailFill, Fill, FinishFill
  <2>. QED BY <2>2, <2>3
<1>3. I => TypeOK
  BY DEF TypeOK
<1>. QED BY <1>1, <1>2, <1>3, PTL DEF Spec

-----------------------------------------------------------------------------
(* What the runs check, put together. *)

\* No cap is exceeded and cash never goes negative, for any signals and caps.
THEOREM CapsAreRespected == Spec => []CapsRespected
<1>1. ExposureWithinCaps /\ NoNegativeCash => CapsRespected
  BY DEF CapsRespected
<1>. QED BY <1>1, CapsHold, CashNeverNegative, PTL

\* Counters are those of the orders, and every order has its outcomes.
THEOREM OrdersHold == Spec => []OrdersSound
<1>1. ReservationsMatchOrders /\ OrdersAreFinished => OrdersSound
  BY DEF OrdersSound
<1>. QED BY <1>1, ReservationsMatch, OrdersFinish, PTL
=============================================================================
