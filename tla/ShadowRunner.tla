---------------------------- MODULE ShadowRunner ----------------------------
(***************************************************************************)
(* The stale-edge shadow runner: the loop of                               *)
(* scripts/run_shadow_stale_edge.py with the strategy of                   *)
(* strategies/stale_edge.py and the limits of risk/rules.py.               *)
(*                                                                         *)
(* One action is one turn of the loop.  The clock is read once per turn,   *)
(* before the price and the book are fetched, and advances by however long *)
(* the fetches, their retries and the sleep take.  The official price, or  *)
(* none, comes from whichever feed answers first, each with its own time   *)
(* stamp: stamps may go backwards from one turn to the next.  Time is in   *)
(* whole units, probabilities and quotes are in percent.                   *)
(***************************************************************************)
EXTENDS Integers, Sequences, FiniteSets

CONSTANTS
    Durations,      \* what a turn may take
    Feeds,          \* replies of the feeds: records with price, lag
    Books,          \* books of the venue: records with bid, ask
    Absent,         \* no reply, or one side of a book without a quote
    MarketEnd,      \* market_end_ts_ms, counted from the start of the loop
    LastTurn,       \* bound: the --minutes of the run
    Horizon,        \* model_horizon_sec
    Warmup,         \* model_warmup_samples
    MaxReturns,     \* RollingReturnModel.max_returns
    OfficialStale,  \* official_stale_sec
    FeedStaleAbort, \* feed_stale_abort_sec
    Cutoff,         \* time_to_end_cutoff_sec
    RateWindow,     \* window_ms of RateLimiter
    MaxOrders,      \* max_orders_per_min
    MaxCancels,     \* max_cancel_replace_per_min
    MaxTotal,       \* max_exposure_total
    MaxPerMarket,   \* max_exposure_per_market
    TradeSize,      \* min_trade_usd, the size of every order
    EdgeMin,        \* fees_est + spread_buffer + model_error_tax
    SpreadMax       \* spread_max

ASSUME RunnerAssumption ==
    /\ Durations \subseteq Nat \ {0}
    /\ \A f \in Feeds : f.price \in Nat \ {0} /\ f.lag \in Int
    /\ Absent \notin Feeds \cup Books \cup Int
    /\ {Horizon, Warmup, MaxReturns, MaxOrders, MaxCancels, RateWindow} \subseteq Nat \ {0}
    /\ {OfficialStale, FeedStaleAbort, Cutoff, MarketEnd, LastTurn,
        MaxTotal, MaxPerMarket, TradeSize} \subseteq Nat

\* No clock of a feed is ahead of ours by arbitrarily much.
ASSUME LagAssumption ==
    Feeds # {} => \E f \in Feeds : \A g \in Feeds : f.lag <= g.lag

VARIABLES
    now,            \* now_ms of the latest turn
    sourceKnown,    \* the rules text names a resolution source
    lastOfficialOk, \* last_official_ok_ms, start_ms before the first price
    feedAbort,      \* feed_abort, latched
    prices,         \* RollingReturnModel.prices
    returns,        \* RollingReturnModel.returns: did the price rise, over what span
    orderStamps,    \* order_limiter.timestamps
    cancelStamps,   \* cancel_limiter.timestamps
    exposure,       \* total_exposure and market_exposure of the one market
    orders,         \* history: when orders were placed
    cancels,        \* history: when exposure was cancelled
    silence         \* history: the longest silence of the feeds a turn has seen

vars == <<now, sourceKnown, lastOfficialOk, feedAbort, prices, returns,
          orderStamps, cancelStamps, exposure, orders, cancels, silence>>

------------------------------------------------------------------------------
\* popleft until one of these positions comes first.
Popped(queue, fresh) ==
    LET first == CHOOSE i \in fresh : \A j \in fresh : i <= j
    IN  IF fresh = {} THEN <<>> ELSE SubSeq(queue, first, Len(queue))

\* RateLimiter.allow: stamps older than the window go, then the rest is counted.
MutRecent(stamps, t) ==            \* the stamp at the edge of the window goes
    Popped(stamps, {i \in DOMAIN stamps : t - stamps[i] < RateWindow})
Recent(stamps, t) == Popped(stamps, {i \in DOMAIN stamps : t - stamps[i] <= RateWindow})

Allows(stamps, t, max) == Len(Recent(stamps, t)) < max

Stamped(stamps, t, max) ==
    IF Allows(stamps, t, max) THEN Append(Recent(stamps, t), t) ELSE Recent(stamps, t)

\* ExposureTracker.can_add, add and reset_market.
MutCanAdd == exposure.total < MaxTotal /\ exposure.market < MaxPerMarket
CanAdd ==
    /\ exposure.total + TradeSize <= MaxTotal
    /\ exposure.market + TradeSize <= MaxPerMarket

Added == [total |-> exposure.total + TradeSize, market |-> exposure.market + TradeSize]

Reset == [total |-> exposure.total - exposure.market, market |-> 0]

------------------------------------------------------------------------------
\* RollingReturnModel.update: samples are kept for twice the horizon, counted
\* from the head of the queue only.
MutPruned(samples, cutoff) == samples    \* nothing is pruned
Pruned(samples, cutoff) == Popped(samples, {i \in DOMAIN samples : samples[i].ts >= cutoff})

\* The latest arrival that is at least one horizon older than ts.
References(samples, ts) == {i \in DOMAIN samples : samples[i].ts <= ts - Horizon}

Bounded(seq) == IF Len(seq) > MaxReturns THEN Tail(seq) ELSE seq

UpdateModel(ts, price) ==
    LET kept == Pruned(Append(prices, [ts |-> ts, price |-> price]), ts - 2 * Horizon)
        refs == References(kept, ts)
        ref  == kept[CHOOSE i \in refs : \A j \in refs : j <= i]
    IN  /\ prices' = kept
        /\ returns' = IF refs = {} THEN returns
                      ELSE Bounded(Append(returns, [up   |-> price > ref.price,
                                                    span |-> ts - ref.ts]))

\* fair_up_prob times the number of returns, in percent.
Ups(rs) == 100 * Len(SelectSeq(rs, LAMBDA r : r.up))

\* evaluate: the better side, its edge over its ask and the spread of the book.
\* A book with a single side never leads to an order: the price or the spread
\* of the chosen side is missing.
WorthTrading(book, rs) ==
    LET n       == Len(rs)
        edgeYes == Ups(rs) - n * book.ask
        edgeNo  == n * book.bid - Ups(rs)
    IN  /\ n >= Warmup
        /\ book.bid # Absent
        /\ book.ask # Absent
        /\ edgeYes > n * EdgeMin \/ edgeNo > n * EdgeMin
        /\ book.ask - book.bid <= SpreadMax

------------------------------------------------------------------------------
Init ==
    /\ now = 0
    /\ sourceKnown \in BOOLEAN
    /\ lastOfficialOk = 0
    /\ feedAbort = FALSE
    /\ prices = <<>>
    /\ returns = <<>>
    /\ orderStamps = <<>>
    /\ cancelStamps = <<>>
    /\ exposure = [total |-> 0, market |-> 0]
    /\ orders = <<>>
    /\ cancels = <<>>
    /\ silence = 0

MutAborts(t, heard) ==              \* not latched
    t - heard > FeedStaleAbort
Aborts(t, heard) == feedAbort \/ t - heard > FeedStaleAbort

\* The first half of a turn: clock, official price, abort latch.
StartTurn(t, feed) ==
    /\ t <= LastTurn
    /\ feed # Absent => sourceKnown
    /\ now' = t
    /\ lastOfficialOk' = IF feed = Absent THEN lastOfficialOk ELSE t
    /\ feedAbort' = Aborts(t, lastOfficialOk')
    /\ silence' = IF t - lastOfficialOk' > silence THEN t - lastOfficialOk' ELSE silence
    /\ UNCHANGED sourceKnown

\* The decision is left to the strategy: main's own refusals did not apply.
Evaluated(book) == sourceKnown /\ ~ feedAbort' /\ book # Absent

Ended(t) == t >= MarketEnd

MutTradable(t, feed) ==         \* the cut-off before the end is forgotten
    /\ ~ Ended(t)
    /\ feed # Absent
    /\ feed.lag <= OfficialStale
Tradable(t, feed) ==
    /\ ~ Ended(t)
    /\ MarketEnd - t >= Cutoff
    /\ feed # Absent
    /\ feed.lag <= OfficialStale

\* NO_TRADE before the model is touched, for one of the seven reasons.
Refuse(t, feed, book) ==
    /\ StartTurn(t, feed)
    /\ Evaluated(book) => ~ Ended(t) /\ ~ Tradable(t, feed)
    /\ UNCHANGED <<prices, returns, orderStamps, cancelStamps, exposure, orders, cancels>>

\* END_TIME_ANOMALY: everything is cancelled, unless the limiter refuses.
Cancel(t, feed, book) ==
    /\ StartTurn(t, feed)
    /\ Evaluated(book)
    /\ Ended(t)
    /\ cancelStamps' = Stamped(cancelStamps, t, MaxCancels)
    /\ IF Allows(cancelStamps, t, MaxCancels)
       THEN exposure' = Reset /\ cancels' = Append(cancels, t)
       ELSE UNCHANGED <<exposure, cancels>>
    /\ UNCHANGED <<prices, returns, orderStamps, orders>>

\* MODEL_WARMUP, BOOK_INCOMPLETE and EDGE_TOO_SMALL: the model has been fed.
Pass(t, feed, book) ==
    /\ StartTurn(t, feed)
    /\ Evaluated(book)
    /\ Tradable(t, feed)
    /\ UpdateModel(t - feed.lag, feed.price)
    /\ ~ WorthTrading(book, returns')
    /\ UNCHANGED <<orderStamps, cancelStamps, exposure, orders, cancels>>

\* PLACE_ORDER through the rate limit, then through the exposure cap: an order
\* that the cap refuses has used its slot.
Trade(t, feed, book) ==
    /\ StartTurn(t, feed)
    /\ Evaluated(book)
    /\ Tradable(t, feed)
    /\ UpdateModel(t - feed.lag, feed.price)
    /\ WorthTrading(book, returns')
    /\ orderStamps' = Stamped(orderStamps, t, MaxOrders)
    /\ IF Allows(orderStamps, t, MaxOrders) /\ CanAdd
       THEN exposure' = Added /\ orders' = Append(orders, t)
       ELSE UNCHANGED <<exposure, orders>>
    /\ UNCHANGED <<cancelStamps, cancels>>

\* The loop ends with its time.
Done == (\A d \in Durations : now + d > LastTurn) /\ UNCHANGED vars

Next ==
    \/ \E d \in Durations, feed \in Feeds \cup {Absent}, book \in Books \cup {Absent} :
          \/ Refuse(now + d, feed, book)
          \/ Cancel(now + d, feed, book)
          \/ Pass(now + d, feed, book)
          \/ Trade(now + d, feed, book)
    \/ Done

Spec == Init /\ [][Next]_vars

------------------------------------------------------------------------------
InWindow(stamps, t) == Cardinality({i \in DOMAIN stamps : stamps[i] \in t..(t + RateWindow)})

\* Whatever stretch of RateWindow one looks at, both ends included, it holds no
\* more orders than max_orders_per_min and no more cancellations than
\* max_cancel_replace_per_min (RateLimiter.allow forgets stamps as it goes).
RatesHold ==
    \A t \in 0..now :
        /\ InWindow(orders, t) <= MaxOrders
        /\ InWindow(cancels, t) <= MaxCancels

\* The orders placed since the last cancellation.
OpenOrders == {i \in DOMAIN orders : \A j \in DOMAIN cancels : cancels[j] < orders[i]}

\* The tracker's two sums are the orders placed and not cancelled, and stay
\* within both caps, although limiter, cap and cancellation each may refuse.
ExposureIsOpenOrders ==
    /\ exposure.total = TradeSize * Cardinality(OpenOrders)
    /\ exposure.market = exposure.total
    /\ exposure.total <= MaxTotal
    /\ exposure.market <= MaxPerMarket

\* Once any turn has seen the feeds silent for longer than the limit, no order
\* is placed again in this run, even when the feeds come back.
SilenceIsFinal == [][orders' # orders => silence' <= FeedStaleAbort]_vars

\* No order is placed in the last stretch before the market's end or later, so
\* that a cancellation after the end finds everything and stays the last word.
EndIsFinal ==
    /\ \A i \in DOMAIN orders : orders[i] + Cutoff <= MarketEnd
    /\ cancels # <<>> => exposure.total = 0 /\ exposure.market = 0

\* A return compares prices at least one horizon apart and not much more than
\* two: only the head of the queue is pruned, so a sample stamped before an
\* earlier arrival can outlive the two horizons, by no more than stamps can
\* go backwards.
MaxLag == OfficialStale
MinLag == CHOOSE l \in {f.lag : f \in Feeds} : \A f \in Feeds : l <= f.lag
ReturnsSpanTheHorizon ==
    \A i \in DOMAIN returns :
        returns[i].span \in Horizon..(2 * Horizon + MaxLag - MinLag)
==============================================================================
