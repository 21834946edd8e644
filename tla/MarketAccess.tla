----------------------------- MODULE MarketAccess -----------------------------
(***************************************************************************)
(* From a venue to the inputs of a shadow decision, in the three programs  *)
(* that go that way:                                                       *)
(*   "service"  run_shadow_prod_entrypoint.py: a Polymarket market is      *)
(*              selected, then shadowed by run_shadow_stale_edge.py;       *)
(*   "kalshi"   run_shadow_stale_edge.py --venue kalshi: the market is     *)
(*              given, its rules and close time are checked first;         *)
(*   "verify"   verify_shadow_pipeline.py: selection, a known-ready market *)
(*              that goes before it, one book, PASS or FAIL.               *)
(* ShadowRunner models what a turn does with the price and the book.       *)
(*                                                                         *)
(* `truth` is history: the book that the venue's answer encoded, Absent    *)
(* for an answer that encodes none.                                        *)
(***************************************************************************)
EXTENDS ClobReadiness

CONSTANTS
    DepthNotionalMin, DepthQtyMin, SpreadMax,
    TrueBooks,      \* the books of the venues: bids, asks, prices in cents
    KalshiEncodings,\* how Kalshi may put one: sides, place, scale
    BadAnswers,     \* answers of Kalshi that are no encoding of a book
    BadBooks,       \* the same of Polymarket
    Metas,          \* metadata of Kalshi markets: rules, closes
    KnownTokens,    \* --known-ready-token-id, Absent when not given
    MaxAttempts,    \* max_retries of fetch_book
    OpenBuffer      \* time_buffer_sec

INSTANCE VenueBooks
Feed == INSTANCE OfficialFeed

ASSUME AccessAssumption ==
    /\ KnownTokens \subseteq Tokens \cup {Absent}
    /\ \A meta \in Metas : meta.closes \in Nat \cup {Absent}
    /\ SpreadMax \in Nat

\* What stands for nothing and for nonsense is neither a list of levels nor an
\* answer made of them.
ASSUME MarksAssumption ==
    LET levels == Seq([price : Nat, qty : Nat])
        sides  == [KalshiSides -> levels \cup {Absent}]
    IN  /\ Absent # Malformed /\ Absent \notin levels \cup Nat /\ Malformed \notin levels
        /\ Malformed \notin [flat : sides, nested : sides]
        /\ Malformed \notin [named : BOOLEAN, bids : levels, asks : levels]

\* The book of a venue is not crossed, and no price is 0 or 1.  Kalshi sends each
\* half of it, on its own side or on the NO side that mirrors it, or on both.
ASSUME BooksAssumption ==
    LET levels == [price : 1..99, qty : Nat]
    IN  /\ TrueBooks \subseteq [bids : Seq(levels), asks : Seq(levels)]
        /\ \A book \in TrueBooks : \A i \in DOMAIN book.bids, j \in DOMAIN book.asks :
                book.bids[i].price < book.asks[j].price
        /\ KalshiEncodings \subseteq
                [sides : SUBSET KalshiSides, place : {"flat", "nested", "both"}, scale : {1, 100}]
        /\ \A encoding \in KalshiEncodings :
                /\ encoding.sides \cap {"yesBid", "noAsk"} # {}
                /\ encoding.sides \cap {"yesAsk", "noBid"} # {}
        /\ Absent \notin [book : TrueBooks, encoding : KalshiEncodings]

\* No encoding of a book: of another shape, on one side only, in two units, with
\* a price above a dollar, or crossed.
ASSUME BadAssumption ==
    LET sides == Seq([price : Nat, qty : Nat]) \cup {Absent, Malformed}
    IN  /\ BadBooks \subseteq [named : BOOLEAN, bids : sides, asks : sides] \cup {Malformed}
        /\ BadAnswers \subseteq
                [flat : [KalshiSides -> sides], nested : [KalshiSides -> sides]] \cup {Malformed}
        /\ \A a \in BadBooks :
            \/ a = Malformed \/ ~ a.named
            \/ Malformed \in {a.bids, a.asks}
            \/ {a.bids, a.asks} = {Absent}
            \/ \E p \in Prices(OrEmpty(a.bids) \o OrEmpty(a.asks)) : p > One
            \/ \E p \in Prices(OrEmpty(a.bids)), q \in Prices(OrEmpty(a.asks)) : p >= q
        /\ \A a \in BadAnswers :
            \/ a = Malformed
            \/ \E name \in KalshiSides : KalshiSide(a, name) = Malformed
            \/ \E half \in {{"yesBid", "noAsk"}, {"yesAsk", "noBid"}} :
                    \A name \in half : KalshiSide(a, name) \in {Absent, <<>>}
            \/ \E name \in {"yesBid", "yesAsk"} :
                    \E p, q \in Prices(OrEmpty(KalshiSide(a, name))) : p <= One /\ One < q

VARIABLES
    program, pc,
    known,          \* verify: the known-ready token
    rules,          \* the source that prices the market, Absent when unknown
    closes,         \* market_close_ts, Absent for Polymarket
    token,          \* the market whose book is fetched
    attempt,        \* of fetch_book
    turnAt,         \* now_ms of the turn
    price,          \* official price of the turn, or Absent
    vbook,          \* VenueBook of the turn
    truth,
    result          \* exit: "none" while running

accessVars == <<program, pc, known, rules, closes, token, attempt, turnAt, price, vbook, truth, result>>
vars == <<clobVars, accessVars>>

------------------------------------------------------------------------------
\* The default of --rules-text, whatever the market selected is about.
DefaultRules ==
    [e \in {"coinbase", "gemini", "binance"} |->
        IF e = "binance" THEN [base |-> "BTC", quote |-> "USDT"] ELSE Absent]

AccessInit ==
    /\ ClobInit
    /\ program \in {"service", "kalshi", "verify"}
    /\ pc = IF program = "kalshi" THEN "metadata" ELSE "select"
    /\ known \in IF program = "verify" THEN KnownTokens ELSE {Absent}
    /\ rules = IF program = "service" THEN Feed!Source(DefaultRules) ELSE Absent
    /\ closes = Absent
    /\ token = Absent /\ attempt = 0 /\ turnAt = 0
    /\ price = Absent /\ vbook = NoTrade("none") /\ truth = Absent
    /\ result = "none"

Exit(r) == pc' = "ended" /\ result' = r

\* Selection, and for verify the probe of the known-ready token, which shares
\* the cache.
Select ==
    /\ pc = "select"
    /\ SelectionStep
    /\ UNCHANGED accessVars

FetchBookOf(t) == token' = t /\ attempt' = 0 /\ pc' = "book" /\ UNCHANGED result

Selected ==
    /\ pc = "select" /\ stage \in {"done", "crashed"}
    /\ CASE stage = "crashed" ->
                Exit("FAIL") /\ UNCHANGED <<clobVars, token, attempt>>
         [] stage = "done" /\ program = "service" /\ chosen = Absent ->
                Exit("NO MARKET") /\ UNCHANGED <<clobVars, token, attempt>>
         [] stage = "done" /\ program = "service" /\ chosen # Absent ->
                /\ pc' = "turn" /\ token' = chosen.token
                /\ UNCHANGED <<clobVars, attempt, result>>
         [] stage = "done" /\ program = "verify" ->
                /\ pc' = "known"
                /\ IF known = Absent THEN UNCHANGED clobVars
                   ELSE /\ BeginProbe(known)
                        /\ UNCHANGED <<now, listing, queue, probes, chosen, stage, answered>>
                /\ UNCHANGED <<token, attempt, result>>
    /\ UNCHANGED <<program, known, rules, closes, turnAt, price, vbook, truth>>

KnownAsked ==
    /\ pc = "known"
    /\ \/ \E reply \in VenueReplies, d \in Delays : Reply(reply, d) /\ UNCHANGED accessVars
       \/ ReplyCrashes /\ Exit("FAIL")
          /\ UNCHANGED <<program, known, rules, closes, token, attempt, turnAt, price, vbook, truth>>

\* verify: the known-ready market when it is ready, else the selected one.
MutKnownIsReady == verdict # Absent     \* the tuple is tested, not its status
KnownIsReady == verdict # Absent /\ verdict.status = "READY"
Choose ==
    /\ pc = "known" /\ probe = Absent
    /\ IF KnownIsReady THEN FetchBookOf(known)
       ELSE IF chosen # Absent THEN FetchBookOf(chosen.token)
       ELSE Exit("FAIL") /\ UNCHANGED <<token, attempt>>
    /\ verdict' = Absent
    /\ UNCHANGED <<now, listing, queue, probes, probe, cache, chosen, stage, answered,
                   program, known, rules, closes, turnAt, price, vbook, truth>>

------------------------------------------------------------------------------
\* kalshi: fetch_market, once, Absent for each of its failures.
Metadata(meta, d) ==
    /\ pc = "metadata"
    /\ now' = Later(d)
    /\ IF meta # Absent /\ Feed!Eligible(meta, now', OpenBuffer)
       THEN /\ pc' = "turn" /\ rules' = Feed!Source(meta.rules) /\ closes' = meta.closes
            /\ UNCHANGED result
       ELSE Exit("FAIL") /\ UNCHANGED <<rules, closes>>
    /\ UNCHANGED <<listing, queue, probes, probe, cache, verdict, chosen, stage, answered,
                   program, known, token, attempt, turnAt, price, vbook, truth>>

ClosedAt(time) == closes # Absent /\ ~ Feed!IsOpen(time, closes, 0)

\* The first half of a turn: the clock, the official price and whether the
\* book is asked for at all.
Turn(replies, d) ==
    /\ pc = "turn" /\ now < LastMoment
    /\ turnAt' = now
    /\ now' = Later(d)
    /\ attempt' = 0
    /\ truth' = Absent
    /\ IF Feed!FeedRaises(rules.symbol, replies)
       THEN Exit("FAIL") /\ price' = Absent /\ vbook' = NoTrade("none")
       ELSE /\ price' = Feed!OfficialPrice(rules.symbol, replies)
            /\ pc' = IF ClosedAt(now) THEN "turn" ELSE "book"
            /\ vbook' = NoTrade(IF ClosedAt(now) THEN "MARKET_CLOSED" ELSE "none")
            /\ UNCHANGED result
    /\ UNCHANGED <<listing, queue, probes, probe, cache, verdict, chosen, stage, answered,
                   program, known, rules, closes, token>>

\* The loop ends with its time.
LoopEnds ==
    /\ pc = "turn" /\ now = LastMoment
    /\ Exit("DONE")
    /\ UNCHANGED <<clobVars, program, known, rules, closes, token, attempt, turnAt, price, vbook, truth>>

\* What Kalshi sends for a book.  A price of p cents is p or p / 100, a side
\* the YES side or the NO side that mirrors it.
Sent(levels, encoding, mirrored) ==
    [i \in DOMAIN levels |->
        [levels[i] EXCEPT !.price = encoding.scale * (IF mirrored THEN 100 - @ ELSE @)]]

KalshiAnswer(book, encoding) ==
    LET none  == [name \in KalshiSides |-> Absent]
        sides ==
            [name \in KalshiSides |->
                IF name \notin encoding.sides THEN Absent
                ELSE IF name \in {"yesBid", "noAsk"}
                     THEN Sent(book.bids, encoding, name = "noAsk")
                     ELSE Sent(book.asks, encoding, name = "noBid")]
    IN  CASE encoding.place = "flat"   -> [flat |-> sides, nested |-> none]
          [] encoding.place = "nested" -> [flat |-> none, nested |-> sides]
          [] encoding.place = "both"   -> [flat |-> [name \in KalshiSides |-> <<>>], nested |-> sides]

PolymarketAnswer(book) ==
    [named |-> TRUE, bids |-> book.bids, asks |-> book.asks]

\* parse_kalshi_book and parse_polymarket_book on an answer with status 200.
Parsed(book, encoding) ==
    IF program = "kalshi" THEN KalshiBook(KalshiAnswer(book, encoding))
    ELSE PolymarketBook(PolymarketAnswer(book))

ParsedBad == IF program = "kalshi" THEN {KalshiBook(a) : a \in BadAnswers}
             ELSE {PolymarketBook(a) : a \in BadBooks}

\* What verify accepts of a book.
IsUsable(v) == v.reason \in {"OK", "NO_BBO", "DEPTH_BELOW_THRESHOLD", "SPREAD_WIDE"}

\* A book has come, or fetch_book has given up.
BookIs(v, book) ==
    /\ vbook' = v
    /\ truth' = book
    /\ IF program = "verify" THEN Exit(IF IsUsable(v) THEN "PASS" ELSE "FAIL")
       ELSE pc' = "turn" /\ UNCHANGED result

FetchAgain(reply) == reply \in {"busy", "lost"} /\ attempt < MaxAttempts - 1

\* fetch_book: 429, timeouts and broken connections are tried again, every
\* other failure ends it.
Fetch(d) ==
    /\ pc = "book"
    /\ now' = Later(d)
    /\ \/ \E reply \in {"busy", "lost", "refused"} :
            IF FetchAgain(reply)
            THEN attempt' = attempt + 1 /\ UNCHANGED <<pc, vbook, truth, result>>
            ELSE BookIs(NoTrade("BOOK_UNAVAILABLE"), Absent) /\ UNCHANGED attempt
       \/ \E book \in TrueBooks, encoding \in KalshiEncodings :
            /\ BookIs(Parsed(book, encoding), [book |-> book, encoding |-> encoding])
            /\ UNCHANGED attempt
       \/ \E v \in ParsedBad : BookIs(v, Absent) /\ UNCHANGED attempt
    /\ UNCHANGED <<listing, queue, probes, probe, cache, verdict, chosen, stage, answered,
                   program, known, rules, closes, token, turnAt, price>>

Ended == pc = "ended" /\ UNCHANGED vars

Next ==
    \/ Select \/ Selected \/ KnownAsked \/ Choose
    \/ \E meta \in Metas \cup {Absent}, d \in Delays : Metadata(meta, d)
    \/ \E replies \in Feed!Replies, d \in Delays : Turn(replies, d)
    \/ LoopEnds
    \/ \E d \in Delays : Fetch(d)
    \/ Ended

Spec == AccessInit /\ [][Next]_vars

------------------------------------------------------------------------------
BestBid(book) == 100 * Max(Prices(book.bids))
BestAsk(book) == 100 * Min(Prices(book.asks))

\* Quotes that a runner works with are the venue's best quotes, whichever sides
\* it sent, in whichever unit, after however many attempts: nothing is guessed
\* from an answer that encodes no book.
AcceptedBooksAreTrue ==
    vbook.reason = "OK" =>
        /\ truth # Absent
        /\ vbook.bid = BestBid(truth.book)
        /\ vbook.ask = BestAsk(truth.book)

\* The scale shows: in dollars always, in cents when no deciding price is 1 cent.
ScaleShows(book, encoding) ==
    LET deciding == {"yesBid", "yesAsk"} \cap encoding.sides
        asked == IF deciding = {} THEN encoding.sides ELSE deciding
    IN  encoding.scale = 100 =>
            \A name \in asked :
                \A p \in Prices(IF name \in {"yesBid", "noAsk"} THEN book.bids ELSE book.asks) :
                    (IF name \in {"yesBid", "yesAsk"} THEN p ELSE 100 - p) > 1

\* Levels of a book as the parsers count them.
InTenThousandths(levels) ==
    [i \in DOMAIN levels |-> [levels[i] EXCEPT !.price = 100 * @]]

IsGood(book) ==
    /\ book.bids # <<>> /\ book.asks # <<>>
    /\ BestAsk(book) - BestBid(book) \in 1..SpreadMax
    /\ IF program = "kalshi"
       THEN Notional(InTenThousandths(book.bids \o book.asks)) >= DepthNotionalMin
       ELSE Quantity(book.bids \o book.asks) >= DepthQtyMin

\* A book that is deep and tight enough is never refused for the way it came.
GoodBooksAreAccepted ==
    truth # Absent /\ IsGood(truth.book)
        /\ (program = "kalshi" => ScaleShows(truth.book, truth.encoding))
    => vbook.reason = "OK"

\* PASS is earned: the venue's last word on the market whose book was fetched
\* is that it is ready, and its book came and made sense; the known-ready
\* market was passed over only if the venue refused it.
PassIsEarned ==
    result = "PASS" =>
        /\ answered[token] # Absent /\ answered[token].reply = "mid"
        /\ truth # Absent \/ vbook.reason = "NO_BBO"
        /\ token # known /\ known # Absent => answered[known].reply # "mid"

\* What the strategy is given, a price and a book, belongs together: the price
\* is of the asset the rules name, from the first exchange that answered in a
\* pair the feeds know, and the market was open when the turn began.
InputsAreFounded ==
    price # Absent /\ vbook.reason = "OK" =>
        /\ price.product.base = rules.symbol.base
        /\ {price.product.quote, rules.symbol.quote} \subseteq {"USD", "USDT"}
        /\ closes # Absent => turnAt < closes
==============================================================================
