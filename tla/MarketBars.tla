------------------------------ MODULE MarketBars ------------------------------
(***************************************************************************)
(* Rows of the contract finnews-market-bars-v1 and what                    *)
(* validate_market_bar_file accepts, application/services/                 *)
(* market_reaction.py.  A file is a sequence of rows.                      *)
(***************************************************************************)
EXTENDS Integers, Sequences

\* quote: what the prices are, "ordered" as OHLC must be, or not.
Quotes == {"ordered", "crossed", "notPositive", "negativeVolume"}

\* bar_id is the deterministic key of the row, origin its source_profile
\* and its provider_symbol.
Bar(id, asset, origin, start, end, first_seen, available, quote) ==
    [bar_id |-> id, asset_id |-> asset, origin |-> origin, bar_start_at |-> start,
     bar_end_at |-> end, first_seen_at |-> first_seen, available_at |-> available,
     quote |-> quote]

ImportRowValid(row) ==
    /\ row.bar_start_at < row.bar_end_at
    /\ row.bar_end_at <= row.available_at
    /\ row.first_seen_at <= row.available_at
    /\ row.quote = "ordered"

\* No key twice, and the bars of an asset in the order of their start.
MonotonicAndUnique(rows) ==
    \A i, j \in DOMAIN rows : i < j =>
        /\ rows[i].bar_id # rows[j].bar_id
        /\ rows[i].asset_id = rows[j].asset_id =>
              rows[i].bar_start_at <= rows[j].bar_start_at

MarketBarFileValid(rows) ==
    (\A i \in DOMAIN rows : ImportRowValid(rows[i])) /\ MonotonicAndUnique(rows)
=============================================================================
