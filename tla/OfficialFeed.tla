----------------------------- MODULE OfficialFeed -----------------------------
(***************************************************************************)
(* From the rules of a market to an official price:                        *)
(* sources/resolution_source.py, eligibility/kalshi_rules.py and           *)
(* feeds/router.py with its three feeds.                                   *)
(*                                                                         *)
(* A rules text is what it says of each exchange: a symbol with a base and *)
(* a quote, or Absent when the exchange is not named.  A feed answers      *)
(* "price", "none" (it gave up, after its retries where it has any), or    *)
(* "raises" when an error leaves it.                                       *)
(***************************************************************************)
EXTENDS Integers, FiniteSetsExt

CONSTANT Absent             \* nothing

Exchanges == <<"coinbase", "gemini", "binance">>

\* The first of some exchanges in this order, or Absent when there is none.
FirstExchange(some) ==
    LET these == {i \in DOMAIN Exchanges : Exchanges[i] \in some}
    IN  IF these = {} THEN Absent ELSE Exchanges[Min(these)]

\* parse_rules_text: wherever in the text they stand, Coinbase goes before
\* Gemini and Gemini before Binance.
Source(rules) ==
    LET venue == FirstExchange({e \in DOMAIN rules : rules[e] # Absent})
    IN  IF venue = Absent THEN Absent ELSE [venue |-> venue, symbol |-> rules[venue]]

MutProduct(symbol, exchange) ==     \* ETH/USDT routed like its neighbours
    CASE symbol = [base |-> "ETH", quote |-> "USDT"] -> [base |-> "BTC", quote |-> "USDT"]
      [] symbol.base \in {"BTC", "ETH"} /\ symbol.quote \in {"USD", "USDT"} ->
            [base |-> symbol.base, quote |-> IF exchange = "binance" THEN "USDT" ELSE "USD"]
      [] OTHER -> Absent
\* symbol_map: what stands for the symbol at an exchange.
Product(symbol, exchange) ==
    IF symbol.base \in {"BTC", "ETH"} /\ symbol.quote \in {"USD", "USDT"}
    THEN [base |-> symbol.base, quote |-> IF exchange = "binance" THEN "USDT" ELSE "USD"]
    ELSE Absent

\* What the feeds can do: Coinbase and Gemini catch every error.
Replies ==
    {r \in [{"coinbase", "gemini", "binance"} -> {"price", "none", "raises"}] :
        r["coinbase"] # "raises" /\ r["gemini"] # "raises"}

Asked(symbol, replies) ==
    FirstExchange({e \in DOMAIN replies : Product(symbol, e) # Absent /\ replies[e] # "none"})

\* get_official_price: whichever exchange the rules chose, the feeds are asked
\* in the fixed order.
OfficialPrice(symbol, replies) ==
    LET from == Asked(symbol, replies)
    IN  IF from = Absent THEN Absent ELSE [from |-> from, product |-> Product(symbol, from)]

FeedRaises(symbol, replies) ==
    Asked(symbol, replies) = "binance" /\ replies["binance"] = "raises"

\* is_market_open.
IsOpen(time, closes, buffer) == time < closes - buffer

\* check_kalshi_eligibility and the checks of main that follow it; Absent
\* stands for a close time that is missing or does not parse.
Eligible(meta, time, buffer) ==
    /\ Source(meta.rules) # Absent
    /\ meta.closes # Absent
    /\ IsOpen(time, meta.closes, buffer)
==============================================================================
