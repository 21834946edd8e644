--------------------------- MODULE ExposureTracker ---------------------------
(***************************************************************************)
(* The risk-cap bookkeeping of the execution task: struct ExposureTracker  *)
(* of engine-rust/src/execution.rs.                                        *)
(*                                                                         *)
(* The tracker keeps three numbers (total exposure, exposure per symbol,   *)
(* open orders).  check_and_update admits an order when none of the three  *)
(* caps would be exceeded, release gives an admitted order back.  The      *)
(* history variable "outstanding" holds the orders admitted and not yet    *)
(* given back; a caller releases only what it was admitted with, which is  *)
(* what run_execution_task does.  Amounts are integers (cents, say): the   *)
(* rounding of f64 additions is not modelled.                              *)
(***************************************************************************)
EXTENDS Integers, FiniteSets, Functions

CONSTANTS
    Orders,             \* the orders a run may see: records with symbol, amount
    MaxExposure,        \* RiskCaps.max_exposure_usd
    MaxSymbolExposure,  \* RiskCaps.max_symbol_exposure_usd
    MaxOpenOrders       \* RiskCaps.max_open_orders

\* Config::validate refuses caps that are not positive and an order size is
\* positive.
ASSUME CapsAssumption ==
    /\ MaxExposure \in Nat \ {0}
    /\ MaxSymbolExposure \in Nat \ {0}
    /\ MaxOpenOrders \in Nat \ {0}
    /\ \A o \in Orders : o.amount \in Nat \ {0}

VARIABLES
    exposure,           \* [total, symbol, open]: the struct's three fields
    outstanding         \* history: orders admitted and not released

trackerVars == <<exposure, outstanding>>

Symbols == {o.symbol : o \in Orders}

\* HashMap::get(..).unwrap_or(0.0): a symbol never admitted has no entry.
SymbolExposure(s) ==
    IF s \in DOMAIN exposure.symbol THEN exposure.symbol[s] ELSE 0

MutWithinCaps(o) ==                 \* only the total and the order count
    /\ exposure.total + o.amount <= MaxExposure
    /\ exposure.open < MaxOpenOrders

\* The three early returns of check_and_update.
WithinCaps(o) ==
    /\ exposure.total + o.amount <= MaxExposure
    /\ SymbolExposure(o.symbol) + o.amount <= MaxSymbolExposure
    /\ exposure.open < MaxOpenOrders

Reserved(o) ==
    [total  |-> exposure.total + o.amount,
     symbol |-> [s \in DOMAIN exposure.symbol \cup {o.symbol} |->
                    IF s = o.symbol THEN SymbolExposure(s) + o.amount
                                    ELSE exposure.symbol[s]],
     open   |-> exposure.open + 1]

MutReleased(o) ==                   \* the per-symbol entry is forgotten
    [total |-> exposure.total - o.amount, symbol |-> exposure.symbol,
     open |-> IF exposure.open > 0 THEN exposure.open - 1 ELSE 0]

Released(o) ==
    [total  |-> exposure.total - o.amount,
     symbol |-> [s \in DOMAIN exposure.symbol |->
                    IF s = o.symbol THEN exposure.symbol[s] - o.amount
                                    ELSE exposure.symbol[s]],
     open   |-> IF exposure.open > 0 THEN exposure.open - 1 ELSE 0]

Init ==
    /\ exposure = [total |-> 0, symbol |-> [s \in {} |-> 0], open |-> 0]
    /\ outstanding = {}

\* check_and_update returning Ok(()); a veto changes nothing.
CheckAndUpdate(o) ==
    /\ o \notin outstanding
    /\ WithinCaps(o)
    /\ exposure' = Reserved(o)
    /\ outstanding' = outstanding \cup {o}

\* release(symbol, exposure) by the holder of o.
Release(o) ==
    /\ o \in outstanding
    /\ exposure' = Released(o)
    /\ outstanding' = outstanding \ {o}

Next == \E o \in Orders : CheckAndUpdate(o) \/ Release(o)

Spec == Init /\ [][Next]_trackerVars

------------------------------------------------------------------------------

\* The fields are numbers and symbols have an entry once admitted.
TypeOK ==
    /\ exposure.total \in Int
    /\ exposure.open \in Nat
    /\ DOMAIN exposure.symbol \subseteq Symbols
    /\ \A s \in DOMAIN exposure.symbol : exposure.symbol[s] \in Int
    /\ DOMAIN exposure = {"total", "symbol", "open"}
    /\ outstanding \subseteq Orders

\* Contract I2: whatever the sequence of signals and fills, none of the three
\* caps is exceeded after check_and_update or release has returned.
CapsHold ==
    /\ exposure.total <= MaxExposure
    /\ \A s \in DOMAIN exposure.symbol : exposure.symbol[s] <= MaxSymbolExposure
    /\ exposure.open <= MaxOpenOrders

AmountOf(S) == SumFunctionOnSet([o \in Orders |-> o.amount], S)

\* The three counters of the tracker stay the sums over the orders that are
\* really outstanding: releases leave no residue and the per-symbol entries
\* add up to the total (execution.rs check_and_update and release).
CountersMatchOutstanding ==
    /\ exposure.total = AmountOf(outstanding)
    /\ exposure.open = Cardinality(outstanding)
    /\ \A s \in Symbols :
          SymbolExposure(s) = AmountOf({o \in outstanding : o.symbol = s})
==============================================================================
