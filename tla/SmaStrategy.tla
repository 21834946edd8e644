----------------------------- MODULE SmaStrategy -----------------------------
(***************************************************************************)
(* The crossover rule of the strategy task: the loop body of               *)
(* run_strategy_task in engine-rust/src/strategy.rs, one step per tick.    *)
(* Module Pipeline leaves it open which ticks cross; this is the rule.     *)
(*                                                                         *)
(* Prices are integers (price steps, say).  The code compares the means of *)
(* two windows; here the windows' sums are weighted instead, which has the *)
(* same sign.  The rounding of f64 means is not modelled.                  *)
(***************************************************************************)
EXTENDS Integers, Sequences, Functions

CONSTANTS
    ShortWindow,        \* SMA_SHORT_WINDOW
    LongWindow,         \* SMA_LONG_WINDOW
    Prices,             \* the prices a tick may have
    MaxTicks            \* bound: ticks per run

ASSUME SmaAssumption ==
    /\ ShortWindow \in Nat \ {0} /\ LongWindow \in Nat
    /\ ShortWindow < LongWindow
    /\ Prices \subseteq Int /\ MaxTicks \in Nat

VARIABLES
    prices,             \* the VecDeque
    prevDiff,           \* Option<f64>: <<>> or <<difference>>
    signals,            \* history: [n, side] of the signals emitted
    history             \* history: the prices of all ticks

smaVars == <<prices, prevDiff, signals, history>>

\* The last n elements of s.
Recent(s, n) == SubSeq(s, Len(s) - n + 1, Len(s))

\* short_sma - long_sma of a full window, times both lengths.
Difference(window) ==
    LongWindow * SumFunction(Recent(window, ShortWindow))
        - ShortWindow * SumFunction(window)

\* push_back, and pop_front once the window is longer than LongWindow.
Pushed(price) ==
    LET all == Append(prices, price)
    IN  IF Len(all) > LongWindow THEN Tail(all) ELSE all

MutEagerEmitted(prev, diff) ==      \* a touch counts as a crossing
    CASE prev <= 0 /\ diff >= 0 -> {"BUY"}
      [] prev >= 0 /\ diff < 0 -> {"SELL"}
      [] OTHER -> {}

\* The side of the signal, if there is one.
Emitted(prev, diff) ==
    CASE prev <= 0 /\ diff > 0 -> {"BUY"}
      [] prev >= 0 /\ diff < 0 -> {"SELL"}
      [] OTHER -> {}

SmaInit == prices = <<>> /\ prevDiff = <<>> /\ signals = <<>> /\ history = <<>>

Receive(price) ==
    /\ Len(history) < MaxTicks
    /\ history' = Append(history, price)
    /\ prices' = Pushed(price)

\* WARMUP: the window is not full.
Warmup(price) ==
    /\ Receive(price)
    /\ Len(prices') < LongWindow
    /\ UNCHANGED <<prevDiff, signals>>

\* The first full window has nothing to be compared with.
FirstDifference(price) ==
    /\ Receive(price)
    /\ Len(prices') >= LongWindow /\ prevDiff = <<>>
    /\ prevDiff' = <<Difference(prices')>>
    /\ UNCHANGED signals

Compare(price) ==
    /\ Receive(price)
    /\ Len(prices') >= LongWindow /\ prevDiff # <<>>
    /\ prevDiff' = <<Difference(prices')>>
    /\ LET side == Emitted(prevDiff[1], prevDiff'[1])
       IN  \/ side = {} /\ UNCHANGED signals
           \/ \E s \in side :
                 signals' = Append(signals, [n |-> Len(history'), side |-> s])

SmaNext == \E p \in Prices : Warmup(p) \/ FirstDifference(p) \/ Compare(p)

SmaSpec == SmaInit /\ [][SmaNext]_smaVars

------------------------------------------------------------------------------

\* The difference after the n-th tick, defined over the whole price history.
DifferenceAt(n) == Difference(SubSeq(history, n - LongWindow + 1, n))

BuyAt(n) ==
    n > LongWindow /\ DifferenceAt(n - 1) <= 0 /\ DifferenceAt(n) > 0
SellAt(n) ==
    n > LongWindow /\ DifferenceAt(n - 1) >= 0 /\ DifferenceAt(n) < 0

\* S8: which signals are emitted is a function of the sequence of ticks alone,
\* the crossings of its two averages: the bounded window and the remembered
\* difference forget nothing that matters and there is no signal in warm-up.
SignalsAreTheCrossings ==
    \A n \in DOMAIN history :
        /\ BuyAt(n) <=> \E i \in DOMAIN signals :
                            signals[i] = [n |-> n, side |-> "BUY"]
        /\ SellAt(n) <=> \E i \in DOMAIN signals :
                            signals[i] = [n |-> n, side |-> "SELL"]
==============================================================================
