----------------------------- MODULE MarketSignals -----------------------------
(***************************************************************************)
(* The demo dataset of application/services/cross_asset.py: a hundred      *)
(* events, the impacts they are taken to have, the signals made of the     *)
(* first eighty impacts, and what the validator of a signal package asks   *)
(* of them.  The dataset is fixed; its times are minutes, and the moment   *)
(* it is said to be generated is zero.                                     *)
(***************************************************************************)
EXTENDS Integers

Hour == 60
Day == 24 * Hour

EventIds == 1..100
ImpactIds == 1..240
SignalIds == 1..80

CrossAssetEvents ==
    [e \in EventIds |->
        [information_available_at |-> -(101 - e) * Hour, duplicate |-> e = 97]]

\* Three impacts of each of the first forty events, two of the others.
EventOf(impact) ==
    IF impact <= 120 THEN ((impact - 1) \div 3) + 1 ELSE ((impact - 121) \div 2) + 41

ImpactDirections == <<"positive", "negative", "mixed", "uncertain">>
RejectedImpacts == {14, 38, 80, 112, 160, 212}
ExpiredImpacts == {18, 89, 178}

Impacts ==
    [i \in ImpactIds |->
        LET event == CrossAssetEvents[EventOf(i)] IN
        [event_id |-> EventOf(i),
         direction |-> IF event.duplicate THEN "mixed"
                       ELSE ImpactDirections[((i - 1) % 4) + 1],
         confident |-> (i - 1) % 31 # 0,
         status |-> IF i \in RejectedImpacts THEN "rejected"
                    ELSE IF i \in ExpiredImpacts THEN "expired" ELSE "active",
         information_cutoff_at |-> event.information_available_at,
         created_at |-> event.information_available_at + 2,
         expires_at |-> event.information_available_at + 30 * Day]]

SignalStatusCycle == <<"informational", "research", "abstained", "rejected", "expired">>

\* The cycle, unless the impact is rejected or expired.
SignalStatus(i) ==
    IF Impacts[i].status = "active" THEN SignalStatusCycle[((i - 1) % 5) + 1]
    ELSE Impacts[i].status

Signals ==
    [i \in SignalIds |->
        [impact_id |-> i, event_id |-> Impacts[i].event_id,
         direction |-> Impacts[i].direction, confident |-> Impacts[i].confident,
         status |-> SignalStatus(i),
         information_cutoff_at |-> Impacts[i].information_cutoff_at,
         generated_at |-> Impacts[i].created_at + 1,
         expires_at |-> Impacts[i].expires_at]]

-----------------------------------------------------------------------------
(* validate_signal_package, past the hashes of the files.                  *)

ImpactRowValid(row) ==
    /\ row.information_cutoff_at <= row.created_at
    /\ row.created_at < row.expires_at

SignalRowValid(row, impacts) ==
    /\ row.impact_id \in DOMAIN impacts
    /\ \E i \in DOMAIN impacts : impacts[i].event_id = row.event_id
    /\ row.information_cutoff_at <= row.generated_at
    /\ row.generated_at < row.expires_at

PackageRowsValid(impacts, signals) ==
    /\ \A i \in DOMAIN impacts : ImpactRowValid(impacts[i])
    /\ \A s \in DOMAIN signals : SignalRowValid(signals[s], impacts)
=============================================================================
