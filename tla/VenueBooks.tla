------------------------------ MODULE VenueBooks ------------------------------
(***************************************************************************)
(* From the answer of a venue to the verdict on its order book:            *)
(* parse_kalshi_book (venues/kalshi.py) and parse_polymarket_book          *)
(* (venues/polymarket.py).                                                 *)
(*                                                                         *)
(* A number of an answer is counted in hundredths: 0.45 is 45, and 45      *)
(* cents are 4500.  A normalised price is in ten-thousandths of a dollar.  *)
(* A side of an answer is a sequence of levels, Absent, or Malformed (a    *)
(* level without price, with two quantities, negative, of another shape).  *)
(***************************************************************************)
EXTENDS Integers, Sequences, FiniteSetsExt, Functions

CONSTANTS
    Absent,             \* no value
    Malformed,          \* a value _parse_levels refuses
    DepthNotionalMin,   \* KALSHI_DEPTH_NOTIONAL_MIN, in ten-thousandths
    DepthQtyMin,        \* PM_DEPTH_QTY_MIN
    SpreadMax           \* KALSHI_SPREAD_MAX and PM_SPREAD_MAX

One == 100              \* the number 1.0

Prices(levels) == {levels[i].price : i \in DOMAIN levels}
Quantity(levels) == SumFunction([i \in DOMAIN levels |-> levels[i].qty])
Notional(levels) == SumFunction([i \in DOMAIN levels |-> levels[i].price * levels[i].qty])

\* VenueBook: best quotes, or the reason for NO_TRADE.
Quotes(bid, ask) == [reason |-> "OK", bid |-> bid, ask |-> ask]
NoTrade(reason) == [reason |-> reason, bid |-> Absent, ask |-> Absent]

Normalised(levels, scale) ==
    [i \in DOMAIN levels |-> [levels[i] EXCEPT !.price = @ * (100 \div scale)]]

\* What the two parsers end with, in this order, on normalised levels.
Judged(bids, asks, deep) ==
    IF bids = <<>> \/ asks = <<>> THEN NoTrade("NO_BBO")
    ELSE LET bid == Max(Prices(bids))
             ask == Min(Prices(asks))
         IN  IF bid >= ask THEN NoTrade("PARSE_AMBIGUOUS")
             ELSE IF ~ deep THEN NoTrade("DEPTH_BELOW_THRESHOLD")
             ELSE IF ask - bid > SpreadMax THEN NoTrade("SPREAD_WIDE")
             ELSE Quotes(bid, ask)

OrEmpty(side) == IF side = Absent THEN <<>> ELSE side

\* parse_polymarket_book: prices are probabilities, depth is a quantity.
PolymarketBook(answer) ==
    IF \/ answer = Malformed
       \/ ~ answer.named
       \/ Malformed \in {answer.bids, answer.asks}
       \/ {answer.bids, answer.asks} = {Absent}
    THEN NoTrade("PARSE_AMBIGUOUS")
    ELSE LET bids == Normalised(OrEmpty(answer.bids), 1)
             asks == Normalised(OrEmpty(answer.asks), 1)
         IN  IF \E p \in Prices(bids \o asks) : p > 100 * One
             THEN NoTrade("PARSE_AMBIGUOUS")
             ELSE Judged(bids, asks, Quantity(bids \o asks) >= DepthQtyMin)

MutKalshiSide(answer, name) ==      \* only None counts as missing
    IF answer.flat[name] = Absent THEN answer.nested[name] ELSE answer.flat[name]
\* `payload.get("yes_bid") or ...`: an empty list counts as missing too.
KalshiSide(answer, name) ==
    IF answer.flat[name] \in {Absent, <<>>} THEN answer.nested[name] ELSE answer.flat[name]

KalshiSides == {"yesBid", "yesAsk", "noBid", "noAsk"}

\* _detect_scale: dollars or cents, or neither for certain.
Scale(prices) ==
    IF \/ prices = {}
       \/ (\E p \in prices : p <= One) /\ (\E p \in prices : p > One)
       \/ \E p \in prices : p > 100 * One
    THEN Absent
    ELSE IF \E p \in prices : p > One THEN 100 ELSE 1

MutComplement(levels, scale) == levels      \* the NO price taken for the YES price
\* A YES side from the other NO side: 1 - p or 100 - p.
Complement(levels, scale) ==
    [i \in DOMAIN levels |-> [levels[i] EXCEPT !.price = scale * One - @]]

\* parse_kalshi_book: the YES sides set the scale, the NO sides stand in for
\* a missing one, depth is money.
KalshiBook(answer) ==
    LET side == [name \in KalshiSides |-> KalshiSide(answer, name)]
        yes  == OrEmpty(side.yesBid) \o OrEmpty(side.yesAsk)
        no   == OrEmpty(side.noBid) \o OrEmpty(side.noAsk)
        scale == Scale(IF yes = <<>> THEN Prices(no) ELSE Prices(yes))
        stands(own, other) == own \in {Absent, <<>>} /\ OrEmpty(other) # <<>>
        broken(own, other) ==
            stands(own, other) /\ \E p \in Prices(other) : p > scale * One
        levels(own, other) ==
            Normalised(IF stands(own, other) THEN Complement(other, scale) ELSE OrEmpty(own),
                       scale)
        bids == levels(side.yesBid, side.noAsk)
        asks == levels(side.yesAsk, side.noBid)
    IN  IF \/ answer = Malformed
           \/ \E name \in KalshiSides : side[name] = Malformed
           \/ \A name \in KalshiSides : side[name] = Absent
        THEN NoTrade("PARSE_AMBIGUOUS")
        ELSE IF \/ scale = Absent
                \/ broken(side.yesBid, side.noAsk)
                \/ broken(side.yesAsk, side.noBid)
        THEN NoTrade("PARSE_AMBIGUOUS")
        ELSE Judged(bids, asks, Notional(bids \o asks) >= DepthNotionalMin)
==============================================================================
