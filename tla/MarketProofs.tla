---------------------------- MODULE MarketProofs ----------------------------
(***************************************************************************)
(* Theorems about MarketAccess: the selection and its cache, the three     *)
(* programs, and the books they read.                                      *)
(***************************************************************************)
EXTENDS MarketAccess, FiniteSetTheorems, SequenceTheorems, NaturalsInduction, TLAPS

StatusOf(t) == Status(answered[t].reply)

\* Whoever holds a probe or a verdict, and about which market.
Holder(t) ==
    \/ pc = "select" /\ stage = "probing" /\ queue # <<>> /\ t = Head(queue).token
    \/ pc = "known" /\ t = known

TypeInv ==
    /\ now \in 0..LastMoment
    /\ queue \in Seq(Markets)
    /\ cache \in [Tokens -> {Absent} \cup [status : Statuses, expires : Nat]]
    /\ answered \in [Tokens -> {Absent} \cup [reply : VenueReplies, at : 0..now]]
    /\ known \in Tokens \cup {Absent}

\* An entry of the cache is the venue's last word on its token.
CacheInv ==
    \A t \in Tokens : cache[t] # Absent =>
        /\ answered[t] # Absent
        /\ cache[t].status = StatusOf(t)
        /\ cache[t].expires = answered[t].at + Ttl(StatusOf(t))

\* A probe or a verdict belongs to whoever asked, and a verdict is cached.
ProbeInv ==
    /\ probe # Absent =>
        /\ probe \in [token : Tokens, attempt : Nat] /\ Holder(probe.token)
        /\ verdict = Absent
    /\ verdict # Absent =>
        /\ verdict \in [token : Tokens, status : Statuses] /\ Holder(verdict.token)
        /\ cache[verdict.token] # Absent

\* What was chosen was called ready, and the known-ready probe of the same token
\* finds it in the cache.
IsFresh(t) == Cached(t) /\ cache[t].status = "READY"
ChosenInv ==
    chosen # Absent =>
        /\ chosen.token \in Tokens
        /\ answered[chosen.token] # Absent /\ answered[chosen.token].reply = "mid"
        /\ pc = "select" => stage = "done" /\ IsFresh(chosen.token)
        /\ pc = "known" /\ known = chosen.token => probe = Absent

PhaseInv ==
    /\ pc \in {"select", "known", "metadata", "turn", "book", "ended"}
    /\ pc = "select" => program \in {"service", "verify"}
    /\ pc = "known" => program = "verify"
    /\ pc = "known" /\ known # Absent => probe # Absent \/ verdict # Absent
    /\ program = "verify" => closes = Absent /\ price = Absent /\ pc \notin {"metadata", "turn"}
    /\ pc \in {"select", "metadata"} => closes = Absent /\ price = Absent /\ vbook.reason = "none"
    /\ pc = "known" => vbook.reason = "none"
    /\ closes \in Nat \cup {Absent} /\ turnAt \in Nat
    /\ pc # "ended" => result = "none"
    /\ result = "PASS" => program = "verify"

\* The verifier's market was called ready, the one passed over was not.
TokenInv ==
    program = "verify" /\ (pc = "book" \/ result = "PASS") =>
        /\ token \in Tokens /\ answered[token] # Absent /\ answered[token].reply = "mid"
        /\ known # Absent /\ token # known => answered[known] # Absent /\ answered[known].reply # "mid"

BookInv ==
    /\ vbook.reason = "OK" =>
        /\ truth # Absent
        /\ vbook.bid = BestBid(truth.book) /\ vbook.ask = BestAsk(truth.book)
    /\ result = "PASS" => truth # Absent \/ vbook.reason = "NO_BBO"

\* A turn with a book began in time, and its price is of the asset of the rules.
TurnInv ==
    /\ pc = "book" \/ vbook.reason = "OK" => (closes # Absent => turnAt < closes)
    /\ price # Absent =>
        /\ price.product.base = rules.symbol.base
        /\ {price.product.quote, rules.symbol.quote} \subseteq {"USD", "USDT"}

\* The eligible markets of the listing in their order, by their places in it:
\* those before the queue are dealt with, the queue is the rest.
Line(places) ==
    LET done == Len(places) - Len(queue)
    IN  /\ places \in Seq(DOMAIN listing)
        /\ Len(queue) <= Len(places)
        /\ \A p \in 1..Len(queue) : queue[p] = listing[places[done + p]]
        /\ \A p \in DOMAIN places :
                places[p] \in Promising /\ listing[places[p]].ends >= MinExpiry
        /\ \A p, q \in DOMAIN places : p < q => <<places[p], places[q]>> \in Above(listing)
        /\ \A i \in Promising :
                listing[i].ends >= now + MinExpiry => \E p \in DOMAIN places : places[p] = i
        /\ \A p \in 1..done : Refused(places[p])
        /\ probes = IF probe = Absent /\ verdict = Absent THEN done ELSE done + 1

SelectInv ==
    /\ stage \in {"listing", "probing", "done", "crashed"}
    /\ pc = "known" => stage = "done"
    /\ stage = "listing" => probes = 0 /\ probe = Absent /\ verdict = Absent
    /\ stage = "probing" =>
        /\ pc = "select" /\ listing \in Listings
        /\ \E places : Line(places)

Inv == /\ TypeInv /\ CacheInv /\ ProbeInv /\ ChosenInv /\ PhaseInv
       /\ TokenInv /\ BookInv /\ TurnInv /\ SelectInv /\ VerdictIsRecent

------------------------------------------------------------------------------
(* The best of some prices. *)

LEMMA LeastExists ==
    ASSUME NEW these, these \subseteq Nat, these # {}
    PROVE  \E n \in these : \A m \in these : n <= m
<1> DEFINE R == {p \in Nat \X Nat : p[1] < p[2]}
<1>1. IsWellFoundedOn(R, Nat)
    BY NatLessThanWellFounded DEF OpToRel
<1>2. \A m, n \in Nat : <<m, n>> \in R <=> m < n
    OBVIOUS
<1> HIDE DEF R
<1>3. PICK n \in these : \A m \in these : ~ (<<m, n>> \in R)
    BY <1>1, WFMin
<1>4. \A m \in these : m \in Nat /\ n \in Nat /\ ~ (m < n)
    BY <1>2, <1>3
<1>5. QED BY <1>3, <1>4

LEMMA LeastIsMin ==
    ASSUME NEW P, P \subseteq Int, NEW least \in P, \A p \in P : least <= p
    PROVE  Min(P) = least
<1>1. \A x \in P : (\A y \in P : x <= y) => x = least
    BY SMT
<1>2. QED BY <1>1 DEF Min

LEMMA GreatestIsMax ==
    ASSUME NEW P, P \subseteq Int, NEW greatest \in P, \A p \in P : p <= greatest
    PROVE  Max(P) = greatest
<1>1. \A x \in P : (\A y \in P : x >= y) => x = greatest
    BY SMT
<1>2. \A y \in P : greatest >= y
    BY SMT
<1>3. QED BY <1>1, <1>2 DEF Max

\* Cents are counted in ten-thousandths without a change of order.
LEMMA BestInTenThousandths ==
    ASSUME NEW P, P \subseteq 1..99, P # {}
    PROVE  /\ Max({100 * p : p \in P}) = 100 * Max(P) /\ Max(P) \in P
           /\ Min({100 * p : p \in P}) = 100 * Min(P) /\ Min(P) \in P
<1> DEFINE Q == {100 * p : p \in P}
<1>0. P \subseteq Nat
    OBVIOUS
<1>1. PICK least \in P : \A p \in P : least <= p
    BY <1>0, LeastExists
<1>2. PICK greatest \in P : \A p \in P : p <= greatest
  <2> DEFINE gaps == {99 - p : p \in P}
  <2>1. gaps \subseteq Nat /\ gaps # {}
      OBVIOUS
  <2>2. PICK gap \in gaps : \A g \in gaps : gap <= g
      BY <2>1, LeastExists
  <2>3. PICK p \in P : gap = 99 - p
      BY <2>2
  <2>4. \A q \in P : 99 - q \in gaps
      OBVIOUS
  <2>5. \A q \in P : 99 - p <= 99 - q /\ p \in 1..99 /\ q \in 1..99
      BY <2>2, <2>3, <2>4
  <2>6. QED BY <2>5
<1>3. Q \subseteq Int /\ 100 * least \in Q /\ 100 * greatest \in Q
    OBVIOUS
<1>4. \A q \in Q : 100 * least <= q /\ q <= 100 * greatest
    BY <1>1, <1>2
<1>5. P \subseteq Int
    OBVIOUS
<1>6. Min(P) = least /\ Max(P) = greatest
    BY <1>1, <1>2, <1>5, LeastIsMin, GreatestIsMax
<1> HIDE DEF Q
<1>7. Min(Q) = 100 * least /\ Max(Q) = 100 * greatest
    BY <1>3, <1>4, LeastIsMin, GreatestIsMax
<1>8. QED BY <1>6, <1>7 DEF Q

------------------------------------------------------------------------------
(* Levels that change their price and nothing else. *)

Cents == [price : 1..99, qty : Nat]         \* levels of a book
Numbers == [price : Int, qty : Nat]         \* levels of an answer

LEMMA LevelsHavePrices ==
    ASSUME NEW levels \in Seq(Numbers)
    PROVE  /\ DOMAIN levels = 1..Len(levels) /\ Len(levels) \in Nat
           /\ \A i \in DOMAIN levels : levels[i] \in Numbers
           /\ Prices(levels) \subseteq Int
           /\ Prices(levels) = {} <=> levels = <<>>
<1>1. DOMAIN levels = 1..Len(levels) /\ Len(levels) \in Nat
    OBVIOUS
<1>2. \A i \in DOMAIN levels : levels[i] \in Numbers
    OBVIOUS
<1>3. \A level \in Numbers : level.price \in Int
    BY DEF Numbers
<1>4. Prices(levels) \subseteq Int
    BY <1>2, <1>3 DEF Prices
<1>5. Prices(levels) = {} <=> levels = <<>>
  <2>1. levels = <<>> <=> Len(levels) = 0
      BY EmptySeq
  <2>2. Len(levels) = 0 <=> DOMAIN levels = {}
    <3>1. \A n \in Nat : n = 0 <=> 1..n = {}
        OBVIOUS
    <3>2. QED BY <1>1, <3>1
  <2>3. Prices(levels) = {} <=> DOMAIN levels = {}
      BY DEF Prices
  <2>4. QED BY <2>1, <2>2, <2>3
<1>6. QED BY <1>1, <1>2, <1>4, <1>5

LEMMA CentsAreNumbers ==
    ASSUME NEW levels \in Seq(Cents)
    PROVE  /\ levels \in Seq(Numbers)
           /\ Prices(levels) \subseteq 1..99
           /\ Prices(levels) = {} <=> levels = <<>>
<1>1. Cents \subseteq Numbers
  <2>1. 1..99 \subseteq Int
      OBVIOUS
  <2>2. QED BY <2>1, Zenon DEF Cents, Numbers
<1>2. levels \in Seq(Numbers)
    BY <1>1, SeqMonotonic
<1>3. \A i \in DOMAIN levels : levels[i] \in Cents
    OBVIOUS
<1>4. Prices(levels) \subseteq 1..99
    BY <1>3 DEF Prices, Cents
<1>5. QED BY <1>2, <1>4, LevelsHavePrices

LEMMA Repriced ==
    ASSUME NEW levels \in Seq(Numbers), NEW new \in [DOMAIN levels -> Int], NEW changed,
           changed = [i \in DOMAIN levels |-> [levels[i] EXCEPT !.price = new[i]]]
    PROVE  /\ changed \in Seq(Numbers)
           /\ changed = <<>> <=> levels = <<>>
           /\ Prices(changed) = {new[i] : i \in DOMAIN levels}
<1>1. /\ DOMAIN levels = 1..Len(levels) /\ Len(levels) \in Nat
      /\ \A i \in DOMAIN levels : levels[i] \in Numbers
    BY LevelsHavePrices
<1>2. \A level \in Numbers, p \in Int :
        /\ [level EXCEPT !.price = p] \in Numbers
        /\ [level EXCEPT !.price = p].price = p
    BY DEF Numbers
<1>3. \A i \in DOMAIN levels : changed[i] \in Numbers /\ changed[i].price = new[i]
    BY <1>1, <1>2
<1>4. changed \in [1..Len(levels) -> Numbers]
    BY <1>1, <1>3
<1>5. changed \in Seq(Numbers) /\ DOMAIN changed = DOMAIN levels
    BY <1>1, <1>4
<1>6. changed = <<>> <=> levels = <<>>
    BY <1>1, <1>5
<1>7. Prices(changed) = {new[i] : i \in DOMAIN levels}
    BY <1>3, <1>5 DEF Prices
<1>8. QED BY <1>5, <1>6, <1>7

LEMMA NormalisedPrices ==
    ASSUME NEW levels \in Seq(Numbers), NEW scale \in {1, 100}
    PROVE  LET factor == IF scale = 1 THEN 100 ELSE 1
           IN  /\ Normalised(levels, scale) \in Seq(Numbers)
               /\ Normalised(levels, scale) = <<>> <=> levels = <<>>
               /\ Prices(Normalised(levels, scale)) = {factor * p : p \in Prices(levels)}
<1> DEFINE factor == IF scale = 1 THEN 100 ELSE 1
           new == [i \in DOMAIN levels |-> levels[i].price * (100 \div scale)]
<1>1. 100 \div scale = factor /\ factor \in Int
    BY 100 \div 1 = 100, 100 \div 100 = 1
<1>2. \A i \in DOMAIN levels : levels[i].price \in Int
    BY LevelsHavePrices DEF Numbers
<1>3. new \in [DOMAIN levels -> Int]
    BY <1>1, <1>2
<1>4. Normalised(levels, scale) =
        [i \in DOMAIN levels |-> [levels[i] EXCEPT !.price = new[i]]]
    BY DEF Normalised
<1>5. \A i \in DOMAIN levels : new[i] = factor * levels[i].price
    BY <1>1, <1>2
<1> HIDE DEF new
<1>6. /\ Normalised(levels, scale) \in Seq(Numbers)
      /\ Normalised(levels, scale) = <<>> <=> levels = <<>>
      /\ Prices(Normalised(levels, scale)) = {new[i] : i \in DOMAIN levels}
    BY <1>3, <1>4, Repriced
<1> HIDE DEF factor
<1>7. {new[i] : i \in DOMAIN levels} = {factor * p : p \in Prices(levels)}
    BY <1>5 DEF Prices
<1>8. QED BY <1>6, <1>7 DEF factor

LEMMA ComplementPrices ==
    ASSUME NEW levels \in Seq(Numbers), NEW scale \in {1, 100}
    PROVE  /\ Complement(levels, scale) \in Seq(Numbers)
           /\ Complement(levels, scale) = <<>> <=> levels = <<>>
           /\ Prices(Complement(levels, scale)) = {scale * 100 - p : p \in Prices(levels)}
<1> DEFINE new == [i \in DOMAIN levels |-> scale * One - levels[i].price]
<1>1. scale * One = scale * 100 /\ scale * One \in Int
    BY DEF One
<1>2. \A i \in DOMAIN levels : levels[i].price \in Int
    BY LevelsHavePrices DEF Numbers
<1>3. new \in [DOMAIN levels -> Int]
    BY <1>1, <1>2
<1>4. Complement(levels, scale) =
        [i \in DOMAIN levels |-> [levels[i] EXCEPT !.price = new[i]]]
    BY DEF Complement
<1>5. \A i \in DOMAIN levels : new[i] = scale * 100 - levels[i].price
    BY <1>1
<1> HIDE DEF new
<1>6. /\ Complement(levels, scale) \in Seq(Numbers)
      /\ Complement(levels, scale) = <<>> <=> levels = <<>>
      /\ Prices(Complement(levels, scale)) = {new[i] : i \in DOMAIN levels}
    BY <1>3, <1>4, Repriced
<1>7. {new[i] : i \in DOMAIN levels} = {scale * 100 - p : p \in Prices(levels)}
    BY <1>5 DEF Prices
<1>8. QED BY <1>6, <1>7

\* A price in cents, of the YES side or of the NO side, as it is sent.
SentPrice(p, encoding, mirrored) == encoding.scale * (IF mirrored THEN 100 - p ELSE p)

LEMMA SentPrices ==
    ASSUME NEW levels \in Seq(Cents), NEW encoding, encoding.scale \in {1, 100},
           NEW mirrored \in BOOLEAN
    PROVE  /\ Sent(levels, encoding, mirrored) \in Seq(Numbers)
           /\ Sent(levels, encoding, mirrored) = <<>> <=> levels = <<>>
           /\ Prices(Sent(levels, encoding, mirrored)) =
                {SentPrice(p, encoding, mirrored) : p \in Prices(levels)}
<1> DEFINE new == [i \in DOMAIN levels |->
                      encoding.scale * (IF mirrored THEN 100 - levels[i].price ELSE levels[i].price)]
<1>1. levels \in Seq(Numbers)
    BY CentsAreNumbers
<1>2. \A i \in DOMAIN levels : levels[i].price \in Int
    BY <1>1, LevelsHavePrices DEF Numbers
<1>3. new \in [DOMAIN levels -> Int]
    BY <1>2
<1>4. Sent(levels, encoding, mirrored) =
        [i \in DOMAIN levels |-> [levels[i] EXCEPT !.price = new[i]]]
    BY DEF Sent
<1>5. \A i \in DOMAIN levels : new[i] = SentPrice(levels[i].price, encoding, mirrored)
    BY DEF SentPrice
<1> HIDE DEF new
<1>6. /\ Sent(levels, encoding, mirrored) \in Seq(Numbers)
      /\ Sent(levels, encoding, mirrored) = <<>> <=> levels = <<>>
      /\ Prices(Sent(levels, encoding, mirrored)) = {new[i] : i \in DOMAIN levels}
    BY <1>1, <1>3, <1>4, Repriced
<1>7. {new[i] : i \in DOMAIN levels} = {SentPrice(p, encoding, mirrored) : p \in Prices(levels)}
    BY <1>5 DEF Prices
<1>8. QED BY <1>6, <1>7

------------------------------------------------------------------------------
(* What the parsers read out of the encoding of a book. *)

LEMMA JudgedQuotes ==
    ASSUME NEW bids, NEW asks, NEW deep, Judged(bids, asks, deep).reason = "OK"
    PROVE  /\ bids # <<>> /\ asks # <<>>
           /\ Judged(bids, asks, deep).bid = Max(Prices(bids))
           /\ Judged(bids, asks, deep).ask = Min(Prices(asks))
           /\ ~ (Max(Prices(bids)) >= Min(Prices(asks)))
<1>1. \A reason : NoTrade(reason).reason = reason
    BY DEF NoTrade
<1>2. Judged(bids, asks, deep) \notin
        {NoTrade("NO_BBO"), NoTrade("PARSE_AMBIGUOUS"), NoTrade("DEPTH_BELOW_THRESHOLD"),
         NoTrade("SPREAD_WIDE")}
    BY <1>1
<1>3. /\ bids # <<>> /\ asks # <<>>
      /\ Judged(bids, asks, deep) = Quotes(Max(Prices(bids)), Min(Prices(asks)))
      /\ ~ (Max(Prices(bids)) >= Min(Prices(asks)))
    BY <1>2 DEF Judged
<1>4. QED BY <1>3 DEF Quotes

LEMMA TrueBook ==
    ASSUME NEW book \in TrueBooks
    PROVE  /\ book.bids \in Seq(Cents) /\ book.asks \in Seq(Cents)
           /\ Prices(book.bids) \subseteq 1..99 /\ Prices(book.asks) \subseteq 1..99
           /\ \A p \in Prices(book.bids), q \in Prices(book.asks) : p < q
<1>1. book \in [bids : Seq(Cents), asks : Seq(Cents)]
    BY BooksAssumption DEF Cents
<1>2. book.bids \in Seq(Cents) /\ book.asks \in Seq(Cents)
    BY <1>1
<1>3. \A i \in DOMAIN book.bids, j \in DOMAIN book.asks :
        book.bids[i].price < book.asks[j].price
    BY BooksAssumption
<1>4. \A p \in Prices(book.bids), q \in Prices(book.asks) : p < q
    BY <1>3 DEF Prices
<1>5. QED BY <1>2, <1>4, CentsAreNumbers

LEMMA BestQuotes ==
    ASSUME NEW book \in TrueBooks, NEW bids, NEW asks, NEW deep,
           book.bids # <<>>, book.asks # <<>>,
           Prices(bids) = {100 * p : p \in Prices(book.bids)},
           Prices(asks) = {100 * p : p \in Prices(book.asks)},
           Judged(bids, asks, deep).reason = "OK"
    PROVE  /\ Judged(bids, asks, deep).bid = BestBid(book)
           /\ Judged(bids, asks, deep).ask = BestAsk(book)
<1>1. /\ Prices(book.bids) \subseteq 1..99 /\ Prices(book.bids) # {}
      /\ Prices(book.asks) \subseteq 1..99 /\ Prices(book.asks) # {}
    BY TrueBook, CentsAreNumbers
<1>2. /\ Max(Prices(bids)) = 100 * Max(Prices(book.bids))
      /\ Min(Prices(asks)) = 100 * Min(Prices(book.asks))
    BY <1>1, BestInTenThousandths
<1>3. /\ Judged(bids, asks, deep).bid = Max(Prices(bids))
      /\ Judged(bids, asks, deep).ask = Min(Prices(asks))
    BY JudgedQuotes
<1>4. QED BY <1>2, <1>3 DEF BestBid, BestAsk

LEMMA PolymarketReadsQuotes ==
    ASSUME NEW book \in TrueBooks,
           PolymarketBook(PolymarketAnswer(book)).reason = "OK"
    PROVE  /\ PolymarketBook(PolymarketAnswer(book)).bid = BestBid(book)
           /\ PolymarketBook(PolymarketAnswer(book)).ask = BestAsk(book)
<1> DEFINE bids == Normalised(OrEmpty(book.bids), 1)
           asks == Normalised(OrEmpty(book.asks), 1)
           deep == Quantity(bids \o asks) >= DepthQtyMin
<1>1. NoTrade("PARSE_AMBIGUOUS").reason # "OK"
    BY DEF NoTrade
<1>2. /\ PolymarketAnswer(book).bids = book.bids
      /\ PolymarketAnswer(book).asks = book.asks
    BY DEF PolymarketAnswer
<1>3. PolymarketBook(PolymarketAnswer(book)) \in
        {NoTrade("PARSE_AMBIGUOUS"), Judged(bids, asks, deep)}
    BY <1>2 DEF PolymarketBook
<1>4. PolymarketBook(PolymarketAnswer(book)) = Judged(bids, asks, deep)
    BY <1>1, <1>3
<1>5. Judged(bids, asks, deep).reason = "OK"
    BY <1>4
<1> HIDE DEF deep
<1>6. bids # <<>> /\ asks # <<>>
    BY <1>5, JudgedQuotes
<1>7. ASSUME NEW levels \in Seq(Cents), Normalised(OrEmpty(levels), 1) # <<>>
      PROVE  /\ levels # <<>>
             /\ Prices(Normalised(OrEmpty(levels), 1)) = {100 * p : p \in Prices(levels)}
  <2>1. <<>> \in Seq(Numbers) /\ levels \in Seq(Numbers)
      BY CentsAreNumbers
  <2>2. Normalised(<<>>, 1) = <<>> /\ (Normalised(levels, 1) = <<>> <=> levels = <<>>)
      BY <2>1, NormalisedPrices
  <2>3. OrEmpty(levels) = levels /\ levels # <<>>
      BY <1>7, <2>2 DEF OrEmpty
  <2>4. Prices(Normalised(levels, 1)) = {100 * p : p \in Prices(levels)}
      BY <2>1, NormalisedPrices
  <2>5. QED BY <2>3, <2>4
<1>8. /\ book.bids # <<>> /\ Prices(bids) = {100 * p : p \in Prices(book.bids)}
      /\ book.asks # <<>> /\ Prices(asks) = {100 * p : p \in Prices(book.asks)}
    BY <1>6, <1>7, TrueBook
<1> HIDE DEF bids, asks
<1>9. QED BY <1>4, <1>5, <1>8, BestQuotes

\* What is sent of one side of a book, by the name it is sent under.
SentSide(book, encoding, name) ==
    IF name \in {"yesBid", "noAsk"} THEN Sent(book.bids, encoding, name = "noAsk")
    ELSE Sent(book.asks, encoding, name = "noBid")

\* Wherever it is put, a side arrives as it was sent or not at all.
LEMMA KalshiSideArrives ==
    ASSUME NEW book, NEW encoding, encoding.place \in {"flat", "nested", "both"},
           NEW name \in KalshiSides
    PROVE  OrEmpty(KalshiSide(KalshiAnswer(book, encoding), name))
                \in {<<>>, SentSide(book, encoding, name)}
<1> DEFINE sides ==
        [n \in KalshiSides |->
            IF n \notin encoding.sides THEN Absent
            ELSE IF n \in {"yesBid", "noAsk"}
                 THEN Sent(book.bids, encoding, n = "noAsk")
                 ELSE Sent(book.asks, encoding, n = "noBid")]
           none == [n \in KalshiSides |-> Absent]
           answer == KalshiAnswer(book, encoding)
<1>1. sides[name] \in {Absent, SentSide(book, encoding, name)} /\ none[name] = Absent
    BY DEF SentSide
<1>2. answer = CASE encoding.place = "flat"   -> [flat |-> sides, nested |-> none]
                 [] encoding.place = "nested" -> [flat |-> none, nested |-> sides]
                 [] encoding.place = "both"   ->
                        [flat |-> [n \in KalshiSides |-> <<>>], nested |-> sides]
    BY DEF KalshiAnswer
<1> HIDE DEF answer, sides, none
<1>3. /\ answer.flat[name] \in {Absent, <<>>, SentSide(book, encoding, name)}
      /\ answer.nested[name] \in {Absent, SentSide(book, encoding, name)}
    BY <1>1, <1>2
<1>4. KalshiSide(answer, name) \in {Absent, SentSide(book, encoding, name)}
    BY <1>3 DEF KalshiSide
<1>5. QED BY <1>4 DEF answer, OrEmpty

\* One half of a book, from its own side or from the NO side that mirrors it.
Half(own, other, scale) ==
    Normalised(IF own = <<>> /\ other # <<>> THEN Complement(other, scale) ELSE own, scale)

\* The same prices, in ten-thousandths.
SamePrices(half, levels) == Prices(half) = {100 * p : p \in Prices(levels)}

\* What may have come of levels on their own side and on the one that mirrors it.
Came(levels, encoding, own, other) ==
    /\ own \in {<<>>, Sent(levels, encoding, FALSE)}
    /\ other \in {<<>>, Sent(levels, encoding, TRUE)}

\* The prices of a half of a book, when the scale is the one it was sent in.
LEMMA HalfInScale ==
    ASSUME NEW levels \in Seq(Cents), NEW encoding, encoding.scale \in {1, 100},
           NEW own, NEW other, Came(levels, encoding, own, other),
           Half(own, other, encoding.scale) # <<>>
    PROVE  levels # <<>> /\ SamePrices(Half(own, other, encoding.scale), levels)
<1> DEFINE half == Half(own, other, encoding.scale)
<1>0. /\ own \in {<<>>, Sent(levels, encoding, FALSE)}
      /\ other \in {<<>>, Sent(levels, encoding, TRUE)}
    BY DEF Came
<1>0a. half # <<>>
    OBVIOUS
<1> DEFINE scale == encoding.scale
           factor == IF scale = 1 THEN 100 ELSE 1
           P == Prices(levels)
<1>1. scale \in {1, 100} /\ factor \in {1, 100}
      /\ (scale = 1 => factor = 100) /\ (scale = 100 => factor = 1)
    OBVIOUS
<1>2. P \subseteq Int
  <2>1. P \subseteq 1..99
      BY CentsAreNumbers
  <2>2. 1..99 \subseteq Int
      OBVIOUS
  <2>3. QED BY <2>1, <2>2, Zenon
<1> HIDE DEF factor, scale, P
<1>3. ASSUME NEW mirrored \in BOOLEAN
      PROVE  /\ Sent(levels, encoding, mirrored) \in Seq(Numbers)
             /\ Sent(levels, encoding, mirrored) = <<>> <=> levels = <<>>
             /\ Prices(Sent(levels, encoding, mirrored)) = {SentPrice(p, encoding, mirrored) : p \in P}
    BY SentPrices DEF P
<1>4. ASSUME NEW sent \in Seq(Numbers)
      PROVE  /\ Normalised(sent, scale) = <<>> <=> sent = <<>>
             /\ Prices(Normalised(sent, scale)) = {factor * x : x \in Prices(sent)}
    BY <1>1, NormalisedPrices DEF factor
<1>5. half = Normalised(IF own = <<>> /\ other # <<>> THEN Complement(other, scale) ELSE own, scale)
    BY DEF scale, Half
<1> HIDE DEF half
<1>6. \A p \in P : /\ factor * SentPrice(p, encoding, FALSE) = 100 * p
                   /\ factor * (scale * 100 - SentPrice(p, encoding, TRUE)) = 100 * p
  <2>1. ASSUME NEW p \in Int
        PROVE  /\ SentPrice(p, encoding, FALSE) = scale * p
               /\ SentPrice(p, encoding, TRUE) = scale * (100 - p)
      BY DEF SentPrice, scale
  <2>2. ASSUME NEW p \in Int
        PROVE  factor * (scale * p) = 100 * p /\ factor * (scale * 100 - scale * (100 - p)) = 100 * p
    <3>1. CASE scale = 1
        BY <1>1, <3>1
    <3>2. CASE scale = 100
        BY <1>1, <3>2
    <3>3. QED BY <1>1, <3>1, <3>2
  <2>3. QED BY <1>2, <2>1, <2>2
<1>7. CASE own # <<>>
  <2>1. own = Sent(levels, encoding, FALSE) /\ half = Normalised(own, scale)
      BY <1>0, <1>5, <1>7
  <2>2. /\ Prices(half) = {factor * x : x \in Prices(own)}
        /\ Prices(own) = {SentPrice(p, encoding, FALSE) : p \in P}
        /\ levels # <<>>
      BY <1>3, <1>4, <1>7, <2>1
  <2>3. \A p \in P : SentPrice(p, encoding, FALSE) \in Prices(own)
      BY <2>2
  <2>4. \A p \in P : 100 * p \in Prices(half)
      BY <1>6, <2>2, <2>3
  <2>5. \A x \in Prices(own) : \E p \in P : factor * x = 100 * p
      BY <1>6, <2>2
  <2>6. Prices(half) = {100 * p : p \in P}
    <3> DEFINE prices == Prices(own)
    <3>1. /\ Prices(half) = {factor * x : x \in prices}
          /\ \A p \in P : 100 * p \in Prices(half)
          /\ \A x \in prices : \E p \in P : factor * x = 100 * p
        BY <2>2, <2>4, <2>5
    <3> HIDE DEF prices
    <3>2. QED BY <3>1
  <2>7. QED BY <2>2, <2>6 DEF P, SamePrices, half
<1>8. CASE own = <<>>
  <2>1. other # <<>>
    <3>1. <<>> \in Seq(Numbers)
        OBVIOUS
    <3>2. QED BY <1>0a, <1>4, <1>5, <1>8, <3>1
  <2>2. other = Sent(levels, encoding, TRUE) /\ half = Normalised(Complement(other, scale), scale)
      BY <1>0, <1>5, <1>8, <2>1
  <2>3. /\ other \in Seq(Numbers) /\ levels # <<>>
        /\ Prices(other) = {SentPrice(p, encoding, TRUE) : p \in P}
      BY <1>3, <2>1, <2>2
  <2>4. /\ Complement(other, scale) \in Seq(Numbers)
        /\ Prices(Complement(other, scale)) = {scale * 100 - x : x \in Prices(other)}
      BY <1>1, <2>3, ComplementPrices
  <2>5. Prices(half) = {factor * x : x \in Prices(Complement(other, scale))}
      BY <1>4, <2>2, <2>4
  <2>6. \A p \in P : scale * 100 - SentPrice(p, encoding, TRUE) \in Prices(Complement(other, scale))
    <3>1. \A p \in P : SentPrice(p, encoding, TRUE) \in Prices(other)
        BY <2>3
    <3>2. QED BY <2>4, <3>1
  <2>7. \A p \in P : 100 * p \in Prices(half)
    <3>1. \A p \in P : factor * (scale * 100 - SentPrice(p, encoding, TRUE)) \in Prices(half)
        BY <2>5, <2>6
    <3>2. QED BY <1>6, <3>1
  <2>8. \A x \in Prices(Complement(other, scale)) : \E p \in P : factor * x = 100 * p
    <3>1. \A x \in Prices(Complement(other, scale)) :
                \E p \in P : x = scale * 100 - SentPrice(p, encoding, TRUE)
        BY <2>3, <2>4
    <3>2. QED BY <1>6, <3>1
  <2>9. Prices(half) = {100 * p : p \in P}
    <3> DEFINE mirror == Prices(Complement(other, scale))
    <3>1. /\ Prices(half) = {factor * x : x \in mirror}
          /\ \A p \in P : 100 * p \in Prices(half)
          /\ \A x \in mirror : \E p \in P : factor * x = 100 * p
        BY <2>5, <2>7, <2>8
    <3> HIDE DEF mirror
    <3>2. QED BY <3>1
  <2>10. QED BY <2>3, <2>9 DEF P, SamePrices, half
<1>9. QED BY <1>7, <1>8

LEMMA PricesOfBoth ==
    ASSUME NEW s \in Seq(Numbers), NEW t \in Seq(Numbers)
    PROVE  /\ Prices(s \o t) = Prices(s) \cup Prices(t)
           /\ s \o t = <<>> <=> s = <<>> /\ t = <<>>
<1>1. /\ DOMAIN s = 1..Len(s) /\ DOMAIN t = 1..Len(t)
      /\ Len(s) \in Nat /\ Len(t) \in Nat
      /\ DOMAIN (s \o t) = 1..(Len(s) + Len(t))
    OBVIOUS
<1>2. \A i \in 1..Len(s) : (s \o t)[i] = s[i]
    BY <1>1, ConcatProperties
<1>3. \A i \in 1..Len(t) : (s \o t)[Len(s) + i] = t[i] /\ Len(s) + i \in 1..(Len(s) + Len(t))
    BY <1>1, ConcatProperties
<1>4. \A i \in 1..(Len(s) + Len(t)) :
        i \in 1..Len(s) \/ \E j \in 1..Len(t) : i = Len(s) + j
  <2>1. ASSUME NEW i \in 1..(Len(s) + Len(t)), i \notin 1..Len(s)
        PROVE  i - Len(s) \in 1..Len(t) /\ i = Len(s) + (i - Len(s))
      BY <1>1, <2>1
  <2>2. QED BY <2>1
<1>5. Prices(s \o t) \subseteq Prices(s) \cup Prices(t)
    BY <1>1, <1>2, <1>3, <1>4 DEF Prices
<1>6. Prices(s) \subseteq Prices(s \o t)
  <2>1. \A i \in 1..Len(s) : i \in 1..(Len(s) + Len(t))
      BY <1>1
  <2>2. QED BY <1>1, <1>2, <2>1 DEF Prices
<1>7. Prices(t) \subseteq Prices(s \o t)
    BY <1>1, <1>3 DEF Prices
<1>8. s \o t = <<>> <=> s = <<>> /\ t = <<>>
    BY ConcatEqualIffEmpty
<1>9. QED BY <1>5, <1>6, <1>7, <1>8

\* The scale that is detected is the one the prices are in.
LEMMA ScaleDetected ==
    ASSUME NEW prices, prices \subseteq Int, Scale(prices) # Absent
    PROVE  /\ Scale(prices) \in {1, 100} /\ prices # {}
           /\ Scale(prices) = 1 => \A p \in prices : p <= 100
           /\ Scale(prices) = 100 => \A p \in prices : p > 100
<1>1. /\ prices # {}
      /\ ~ ((\E p \in prices : p <= One) /\ (\E p \in prices : p > One))
      /\ Scale(prices) = IF \E p \in prices : p > One THEN 100 ELSE 1
    BY DEF Scale
<1>2. \A p \in prices : p <= 100 \/ p > 100
    OBVIOUS
<1>3. QED BY <1>1, <1>2 DEF One

\* What parse_kalshi_book makes of four lists of levels when it accepts them.
KalshiAccepts(yb, ya, nb, na, scale, bids, asks, deep) ==
    /\ scale = Scale(IF yb \o ya = <<>> THEN Prices(nb \o na) ELSE Prices(yb \o ya))
    /\ scale # Absent
    /\ yb = <<>> /\ na # <<>> => \A p \in Prices(na) : ~ (p > scale * One)
    /\ ya = <<>> /\ nb # <<>> => \A p \in Prices(nb) : ~ (p > scale * One)
    /\ bids = Half(yb, na, scale) /\ asks = Half(ya, nb, scale)
    /\ Judged(bids, asks, deep).reason = "OK"

LEMMA KalshiAccepted ==
    ASSUME NEW answer, KalshiBook(answer).reason = "OK"
    PROVE  LET side(name) == OrEmpty(KalshiSide(answer, name))
           IN  \E scale, bids, asks, deep :
                /\ KalshiAccepts(side("yesBid"), side("yesAsk"), side("noBid"), side("noAsk"),
                                 scale, bids, asks, deep)
                /\ KalshiBook(answer) = Judged(bids, asks, deep)
<1> DEFINE side == [name \in KalshiSides |-> KalshiSide(answer, name)]
           yb == OrEmpty(side.yesBid)
           ya == OrEmpty(side.yesAsk)
           nb == OrEmpty(side.noBid)
           na == OrEmpty(side.noAsk)
           yes == yb \o ya
           no == nb \o na
           scale == Scale(IF yes = <<>> THEN Prices(no) ELSE Prices(yes))
           stands(own, other) == own \in {Absent, <<>>} /\ OrEmpty(other) # <<>>
           broken(own, other) ==
                stands(own, other) /\ \E p \in Prices(other) : p > scale * One
           levels(own, other) ==
                Normalised(IF stands(own, other) THEN Complement(other, scale) ELSE OrEmpty(own),
                           scale)
           bids == levels(side.yesBid, side.noAsk)
           asks == levels(side.yesAsk, side.noBid)
           deep == Notional(bids \o asks) >= DepthNotionalMin
<1>1. NoTrade("PARSE_AMBIGUOUS").reason # "OK"
    BY DEF NoTrade
<1>2. KalshiBook(answer) =
        IF \/ answer = Malformed
           \/ \E name \in KalshiSides : side[name] = Malformed
           \/ \A name \in KalshiSides : side[name] = Absent
        THEN NoTrade("PARSE_AMBIGUOUS")
        ELSE IF \/ scale = Absent
                \/ broken(side.yesBid, side.noAsk)
                \/ broken(side.yesAsk, side.noBid)
        THEN NoTrade("PARSE_AMBIGUOUS")
        ELSE Judged(bids, asks, deep)
    BY DEF KalshiBook
<1> HIDE DEF bids, asks, deep, scale
<1>3. /\ scale # Absent
      /\ ~ broken(side.yesBid, side.noAsk) /\ ~ broken(side.yesAsk, side.noBid)
      /\ KalshiBook(answer) = Judged(bids, asks, deep)
    BY <1>1, <1>2
<1>4. /\ side.yesBid = KalshiSide(answer, "yesBid") /\ side.yesAsk = KalshiSide(answer, "yesAsk")
      /\ side.noBid = KalshiSide(answer, "noBid") /\ side.noAsk = KalshiSide(answer, "noAsk")
    BY DEF KalshiSides
<1> HIDE DEF side
<1>5. ASSUME NEW own, NEW other
      PROVE  /\ stands(own, other) <=> OrEmpty(own) = <<>> /\ OrEmpty(other) # <<>>
             /\ OrEmpty(other) # <<>> => OrEmpty(other) = other
    BY DEF OrEmpty
<1>6. bids = Half(yb, na, scale) /\ asks = Half(ya, nb, scale)
    BY <1>5 DEF bids, asks, Half
<1>7. /\ yb = <<>> /\ na # <<>> => \A p \in Prices(na) : ~ (p > scale * One)
      /\ ya = <<>> /\ nb # <<>> => \A p \in Prices(nb) : ~ (p > scale * One)
    BY <1>3, <1>5
<1>8. scale = Scale(IF yb \o ya = <<>> THEN Prices(nb \o na) ELSE Prices(yb \o ya))
    BY DEF scale
<1>9. Judged(bids, asks, deep).reason = "OK"
    BY <1>3
<1> HIDE DEF yb, ya, nb, na
<1>10. KalshiAccepts(yb, ya, nb, na, scale, bids, asks, deep)
    BY <1>3, <1>6, <1>7, <1>8, <1>9 DEF KalshiAccepts
<1>11. QED BY <1>3, <1>4, <1>10 DEF yb, ya, nb, na

\* Dollars are never taken for cents, and cents taken for dollars - a deciding
\* price of one cent - are seen by the other half or make a crossed book.
LEMMA KalshiReadsQuotes ==
    ASSUME NEW book \in TrueBooks, NEW encoding \in KalshiEncodings,
           KalshiBook(KalshiAnswer(book, encoding)).reason = "OK"
    PROVE  /\ KalshiBook(KalshiAnswer(book, encoding)).bid = BestBid(book)
           /\ KalshiBook(KalshiAnswer(book, encoding)).ask = BestAsk(book)
<1> DEFINE answer == KalshiAnswer(book, encoding)
           yb == OrEmpty(KalshiSide(answer, "yesBid"))
           ya == OrEmpty(KalshiSide(answer, "yesAsk"))
           nb == OrEmpty(KalshiSide(answer, "noBid"))
           na == OrEmpty(KalshiSide(answer, "noAsk"))
           P == Prices(book.bids)
           Q == Prices(book.asks)
<1>1. encoding.place \in {"flat", "nested", "both"} /\ encoding.scale \in {1, 100}
    BY BooksAssumption
<1>2. /\ yb \in {<<>>, Sent(book.bids, encoding, FALSE)}
      /\ ya \in {<<>>, Sent(book.asks, encoding, FALSE)}
      /\ nb \in {<<>>, Sent(book.asks, encoding, TRUE)}
      /\ na \in {<<>>, Sent(book.bids, encoding, TRUE)}
  <2>1. \A name \in KalshiSides :
            OrEmpty(KalshiSide(answer, name)) \in {<<>>, SentSide(book, encoding, name)}
      BY <1>1, KalshiSideArrives
  <2>2. /\ SentSide(book, encoding, "yesBid") = Sent(book.bids, encoding, FALSE)
        /\ SentSide(book, encoding, "yesAsk") = Sent(book.asks, encoding, FALSE)
        /\ SentSide(book, encoding, "noBid") = Sent(book.asks, encoding, TRUE)
        /\ SentSide(book, encoding, "noAsk") = Sent(book.bids, encoding, TRUE)
      BY DEF SentSide
  <2>3. /\ "yesBid" \in KalshiSides /\ "yesAsk" \in KalshiSides
        /\ "noBid" \in KalshiSides /\ "noAsk" \in KalshiSides
      BY DEF KalshiSides
  <2> HIDE DEF answer
  <2>4. QED BY <2>1, <2>2, <2>3
<1>3. PICK scale, bids, asks, deep :
        /\ KalshiAccepts(yb, ya, nb, na, scale, bids, asks, deep)
        /\ KalshiBook(answer) = Judged(bids, asks, deep)
    BY KalshiAccepted
<1> HIDE DEF answer, yb, ya, nb, na
<1>4. /\ book.bids \in Seq(Cents) /\ book.asks \in Seq(Cents)
      /\ P \subseteq 1..99 /\ Q \subseteq 1..99
      /\ \A p \in P, q \in Q : p < q
      /\ P = {} <=> book.bids = <<>>
      /\ Q = {} <=> book.asks = <<>>
    BY TrueBook, CentsAreNumbers
<1>5. ASSUME NEW mirrored \in BOOLEAN
      PROVE  /\ Sent(book.bids, encoding, mirrored) \in Seq(Numbers)
             /\ Sent(book.bids, encoding, mirrored) = <<>> <=> P = {}
             /\ Prices(Sent(book.bids, encoding, mirrored)) = {SentPrice(p, encoding, mirrored) : p \in P}
             /\ Sent(book.asks, encoding, mirrored) \in Seq(Numbers)
             /\ Sent(book.asks, encoding, mirrored) = <<>> <=> Q = {}
             /\ Prices(Sent(book.asks, encoding, mirrored)) = {SentPrice(p, encoding, mirrored) : p \in Q}
    BY <1>1, <1>4, SentPrices
<1>6. /\ yb \in Seq(Numbers) /\ ya \in Seq(Numbers) /\ nb \in Seq(Numbers) /\ na \in Seq(Numbers)
  <2>1. <<>> \in Seq(Numbers)
      OBVIOUS
  <2>2. QED BY <1>2, <1>5, <2>1
<1> DEFINE D == IF yb \o ya = <<>> THEN Prices(nb \o na) ELSE Prices(yb \o ya)
<1>7. D = IF yb = <<>> /\ ya = <<>> THEN Prices(nb) \cup Prices(na) ELSE Prices(yb) \cup Prices(ya)
    BY <1>6, PricesOfBoth
<1>8. D \subseteq Int
    BY <1>6, <1>7, LevelsHavePrices
<1>9. /\ scale = Scale(D) /\ scale # Absent
      /\ yb = <<>> /\ na # <<>> => \A p \in Prices(na) : ~ (p > scale * One)
      /\ ya = <<>> /\ nb # <<>> => \A p \in Prices(nb) : ~ (p > scale * One)
      /\ bids = Half(yb, na, scale) /\ asks = Half(ya, nb, scale)
      /\ Judged(bids, asks, deep).reason = "OK"
    BY <1>3 DEF KalshiAccepts
<1> HIDE DEF D, P, Q
<1>10. /\ scale \in {1, 100} /\ D # {}
       /\ scale = 1 => \A p \in D : p <= 100
       /\ scale = 100 => \A p \in D : p > 100
    BY <1>8, <1>9, ScaleDetected
<1>11. bids # <<>> /\ asks # <<>> /\ ~ (Max(Prices(bids)) >= Min(Prices(asks)))
    BY <1>9, JudgedQuotes
<1>12. \A p \in Int : /\ SentPrice(p, encoding, FALSE) = encoding.scale * p
                      /\ SentPrice(p, encoding, TRUE) = encoding.scale * (100 - p)
    BY DEF SentPrice
<1>13. /\ yb # <<>> => P # {} /\ Prices(yb) = {SentPrice(p, encoding, FALSE) : p \in P}
       /\ na # <<>> => P # {} /\ Prices(na) = {SentPrice(p, encoding, TRUE) : p \in P}
       /\ ya # <<>> => Q # {} /\ Prices(ya) = {SentPrice(p, encoding, FALSE) : p \in Q}
       /\ nb # <<>> => Q # {} /\ Prices(nb) = {SentPrice(p, encoding, TRUE) : p \in Q}
    BY <1>2, <1>5
<1>14. /\ yb = <<>> => na # <<>>
       /\ ya = <<>> => nb # <<>>
  <2>1. Normalised(<<>>, scale) = <<>>
    <3>1. <<>> \in Seq(Numbers)
        OBVIOUS
    <3>2. QED BY <1>10, <3>1, NormalisedPrices
  <2>2. QED BY <1>9, <1>11, <2>1 DEF Half
<1>15. CASE scale = encoding.scale
  <2>1. book.bids # <<>> /\ SamePrices(bids, book.bids)
    <3>1. Came(book.bids, encoding, yb, na) /\ Half(yb, na, encoding.scale) # <<>>
        BY <1>2, <1>9, <1>11, <1>15 DEF Came
    <3>2. QED BY <1>1, <1>4, <1>9, <1>15, <3>1, HalfInScale
  <2>2. book.asks # <<>> /\ SamePrices(asks, book.asks)
    <3>1. Came(book.asks, encoding, ya, nb) /\ Half(ya, nb, encoding.scale) # <<>>
        BY <1>2, <1>9, <1>11, <1>15 DEF Came
    <3>2. QED BY <1>1, <1>4, <1>9, <1>15, <3>1, HalfInScale
  <2>3. QED BY <1>3, <1>9, <2>1, <2>2, BestQuotes DEF answer, SamePrices
<1>16. CASE scale = 100 /\ encoding.scale = 1
  <2>1. ASSUME NEW S, S \subseteq 1..99, NEW mirrored \in BOOLEAN
        PROVE  \A x \in {SentPrice(p, encoding, mirrored) : p \in S} : ~ (x > 100)
    <3>1. \A p \in S : p \in 1..99 /\ p \in Int
        BY <2>1
    <3>2. \A p \in Int : SentPrice(p, encoding, mirrored) = 1 * (IF mirrored THEN 100 - p ELSE p)
        BY <1>16 DEF SentPrice
    <3>3. \A p \in 1..99 : ~ (1 * (IF mirrored THEN 100 - p ELSE p) > 100)
        OBVIOUS
    <3>4. \A p \in S : ~ (SentPrice(p, encoding, mirrored) > 100)
        BY <3>1, <3>2, <3>3
    <3>5. QED BY <3>4
  <2>2. \A s \in {yb, ya, nb, na} : s # <<>> => \A x \in Prices(s) : ~ (x > 100)
      BY <1>4, <1>13, <2>1
  <2>3. Prices(<<>>) = {}
      BY DEF Prices
  <2>4. \A x \in D : ~ (x > 100)
      BY <1>7, <2>2, <2>3
  <2>5. QED BY <1>10, <1>16, <2>4
<1>17. CASE scale = 1 /\ encoding.scale = 100
  <2>1. /\ \A p \in P : p \in 1..99 /\ p \in Int
        /\ \A q \in Q : q \in 1..99 /\ q \in Int
      BY <1>4
  <2>0. \A p \in Int : /\ SentPrice(p, encoding, FALSE) = 100 * p
                       /\ SentPrice(p, encoding, TRUE) = 100 * (100 - p)
      BY <1>17 DEF SentPrice
  <2>2. /\ yb # <<>> => \A p \in P : p = 1
        /\ ya # <<>> => \A q \in Q : q = 1
    <3>1. /\ yb # <<>> => \A p \in P : SentPrice(p, encoding, FALSE) \in D
          /\ ya # <<>> => \A q \in Q : SentPrice(q, encoding, FALSE) \in D
        BY <1>7, <1>13
    <3>2. \A p \in 1..99 : 100 * p <= 100 => p = 1
        OBVIOUS
    <3>3. /\ yb # <<>> => \A p \in P : 100 * p <= 100
          /\ ya # <<>> => \A q \in Q : 100 * q <= 100
        BY <1>10, <1>17, <2>0, <2>1, <3>1
    <3>4. QED BY <2>1, <3>2, <3>3
  <2>3. /\ yb = <<>> => \A p \in P : p = 99
        /\ ya = <<>> => \A q \in Q : q = 99
    <3>1. /\ yb = <<>> => \A p \in P : ~ (SentPrice(p, encoding, TRUE) > scale * One)
          /\ ya = <<>> => \A q \in Q : ~ (SentPrice(q, encoding, TRUE) > scale * One)
        BY <1>9, <1>13, <1>14
    <3>2. scale * One = 100
        BY <1>17 DEF One
    <3>3. \A p \in 1..99 : ~ (100 * (100 - p) > 100) => p = 99
        OBVIOUS
    <3>4. /\ yb = <<>> => \A p \in P : ~ (100 * (100 - p) > 100)
          /\ ya = <<>> => \A q \in Q : ~ (100 * (100 - q) > 100)
        BY <2>0, <2>1, <3>1, <3>2
    <3>5. QED BY <2>1, <3>3, <3>4
  <2>4. PICK p \in P, q \in Q : TRUE
      BY <1>13, <1>14
  <2>5. yb # <<>> /\ ya = <<>> /\ p = 1 /\ q = 99
      BY <1>4, <2>2, <2>3, <2>4
  <2>6. Prices(yb) = {100}
    <3>1. SentPrice(1, encoding, FALSE) = 100
        BY <1>17 DEF SentPrice
    <3>2. P = {1}
        BY <2>2, <2>4, <2>5
    <3>3. Prices(yb) = {SentPrice(r, encoding, FALSE) : r \in {1}}
        BY <1>13, <2>5, <3>2
    <3>4. QED BY <3>1, <3>3
  <2>7. Prices(nb) = {100}
    <3>1. SentPrice(99, encoding, TRUE) = 100
        BY <1>17 DEF SentPrice
    <3>2. Q = {99}
        BY <2>3, <2>4, <2>5
    <3>3. Prices(nb) = {SentPrice(r, encoding, TRUE) : r \in {99}}
        BY <1>13, <1>14, <2>5, <3>2
    <3>4. QED BY <3>1, <3>3
  <2>8. Prices(bids) = {10000}
    <3>1. bids = Normalised(yb, 1)
        BY <1>9, <1>17, <2>5 DEF Half
    <3>2. Prices(bids) = {100 * x : x \in Prices(yb)}
        BY <1>6, <3>1, NormalisedPrices
    <3>3. QED BY <2>6, <3>2
  <2>9. Prices(asks) = {0}
    <3>1. asks = Normalised(Complement(nb, 1), 1)
        BY <1>9, <1>14, <1>17, <2>5 DEF Half
    <3>2. /\ Complement(nb, 1) \in Seq(Numbers)
          /\ Prices(Complement(nb, 1)) = {1 * 100 - x : x \in Prices(nb)}
        BY <1>6, ComplementPrices
    <3>3. Prices(Complement(nb, 1)) = {0}
        BY <2>7, <3>2
    <3>4. Prices(asks) = {100 * x : x \in Prices(Complement(nb, 1))}
        BY <3>1, <3>2, NormalisedPrices
    <3>5. QED BY <3>3, <3>4
  <2>10. Max({10000}) = 10000 /\ Min({0}) = 0
      BY LeastIsMin, GreatestIsMax
  <2>11. QED BY <1>11, <2>8, <2>9, <2>10
<1>18. QED BY <1>1, <1>10, <1>15, <1>16, <1>17

------------------------------------------------------------------------------
(* The queue: the eligible markets, ranked. *)

Sorts(S, order) ==
    /\ \A x \in S : <<x, x>> \notin order
    /\ \A x, y, z \in S : <<x, y>> \in order /\ <<y, z>> \in order => <<x, z>> \in order
    /\ \A x, y \in S : x = y \/ <<x, y>> \in order \/ <<y, x>> \in order

LEMMA Interval ==
    ASSUME NEW n \in Nat
    PROVE  IsFiniteSet(1..n) /\ Cardinality(1..n) = n
<1>1. IsFiniteSet(1..n) /\ Cardinality(1..n) = IF 1 > n THEN 0 ELSE n - 1 + 1
    BY FS_Interval
<1>2. (IF 1 > n THEN 0 ELSE n - 1 + 1) = n
    OBVIOUS
<1>3. QED BY <1>1, <1>2

\* A smaller element has a smaller place.
LEMMA PlacesFollow ==
    ASSUME NEW S, IsFiniteSet(S), NEW order, Sorts(S, order)
    PROVE  /\ \A x \in S : Place(S, order, x) \in 1..Cardinality(S)
           /\ \A x, y \in S : <<x, y>> \in order => Place(S, order, x) < Place(S, order, y)
<1>1. Cardinality(S) \in Nat
    BY FS_CardinalityType
<1>2. ASSUME NEW x \in S
      PROVE  /\ IsFiniteSet(Before(S, order, x)) /\ Cardinality(Before(S, order, x)) \in Nat
             /\ Cardinality(Before(S, order, x)) < Cardinality(S)
  <2>1. Before(S, order, x) \in SUBSET S /\ x \notin Before(S, order, x)
      BY DEF Before, Sorts
  <2>2. /\ IsFiniteSet(Before(S, order, x))
        /\ Cardinality(Before(S, order, x)) <= Cardinality(S)
        /\ Cardinality(S) = Cardinality(Before(S, order, x)) => S = Before(S, order, x)
      BY <2>1, FS_Subset
  <2>3. Cardinality(Before(S, order, x)) \in Nat
      BY <2>2, FS_CardinalityType
  <2>4. QED BY <1>1, <2>1, <2>2, <2>3
<1>3. ASSUME NEW x \in S, NEW y \in S, <<x, y>> \in order
      PROVE  Cardinality(Before(S, order, x)) < Cardinality(Before(S, order, y))
  <2>1. Before(S, order, x) \in SUBSET Before(S, order, y)
      BY <1>3 DEF Before, Sorts
  <2>2. x \in Before(S, order, y) /\ x \notin Before(S, order, x)
      BY <1>3 DEF Before, Sorts
  <2>3. /\ Cardinality(Before(S, order, x)) <= Cardinality(Before(S, order, y))
        /\ Cardinality(Before(S, order, y)) = Cardinality(Before(S, order, x)) =>
                Before(S, order, y) = Before(S, order, x)
      BY <1>2, <2>1, FS_Subset
  <2>4. QED BY <1>2, <2>2, <2>3
<1>4. QED BY <1>1, <1>2, <1>3 DEF Place

\* A ranking has every element, at its place, and nothing else.
LEMMA RankingComplete ==
    ASSUME NEW S, IsFiniteSet(S), NEW order, Sorts(S, order)
    PROVE  LET ranking == Ranking(S, order) IN
           /\ DOMAIN ranking = 1..Cardinality(S)
           /\ \A p \in DOMAIN ranking :
                ranking[p] \in S /\ Place(S, order, ranking[p]) = p
           /\ \A x \in S : /\ Place(S, order, x) \in DOMAIN ranking
                           /\ ranking[Place(S, order, x)] = x
<1> DEFINE n == Cardinality(S)
           place == [x \in S |-> Place(S, order, x)]
           ranking == Ranking(S, order)
<1>1. n \in Nat /\ IsFiniteSet(1..n) /\ Cardinality(1..n) = n
    BY FS_CardinalityType, Interval
<1>2. /\ \A x \in S : Place(S, order, x) \in 1..n
      /\ \A x, y \in S : <<x, y>> \in order => Place(S, order, x) < Place(S, order, y)
    BY PlacesFollow
<1>3. \A x, y \in S : Place(S, order, x) = Place(S, order, y) => x = y
  <2>1. ASSUME NEW x \in S, NEW y \in S, Place(S, order, x) = Place(S, order, y)
        PROVE  x = y
    <3>1. Place(S, order, x) \in Int /\ Place(S, order, y) \in Int
        BY <1>2
    <3>2. <<x, y>> \notin order /\ <<y, x>> \notin order
        BY <1>2, <2>1, <3>1
    <3>3. QED BY <3>2 DEF Sorts
  <2>2. QED BY <2>1
<1>4. place \in Injection(S, 1..n)
    BY <1>2, <1>3 DEF Injection, IsInjective
<1>5. place \in Surjection(S, 1..n)
    BY <1>1, <1>4, FS_Injection
<1>6. \A p \in 1..n : \E x \in S : Place(S, order, x) = p
    BY <1>5 DEF Surjection
<1>7. ranking = [p \in 1..n |-> CHOOSE x \in S : Place(S, order, x) = p]
    BY DEF Ranking
<1>8. \A p \in 1..n : ranking[p] \in S /\ Place(S, order, ranking[p]) = p
    BY <1>6, <1>7
<1>9. DOMAIN ranking = 1..n
    BY <1>7
<1> HIDE DEF ranking, n
<1>10. \A x \in S : /\ Place(S, order, x) \in DOMAIN ranking
                    /\ ranking[Place(S, order, x)] = x
    BY <1>2, <1>3, <1>8, <1>9
<1>11. QED BY <1>8, <1>9, <1>10 DEF ranking, n


LEMMA MarketsSorted ==
    ASSUME NEW markets \in Seq(Markets)
    PROVE  /\ IsFiniteSet(DOMAIN markets)
           /\ Sorts(DOMAIN markets, Above(markets))
           /\ \A i, j \in DOMAIN markets :
                /\ <<i, j>> \in Above(markets) <=>
                        \/ markets[i].rank > markets[j].rank
                        \/ markets[i].rank = markets[j].rank /\ i < j
                /\ markets[i].rank \in Int
<1>1. DOMAIN markets = 1..Len(markets) /\ Len(markets) \in Nat
    OBVIOUS
<1>2. \A i \in DOMAIN markets : markets[i] \in Markets /\ i \in Int
    OBVIOUS
<1>3. \A m \in Markets : m.rank \in Int
    BY DEF Markets
<1>4. \A i \in DOMAIN markets : markets[i].rank \in Int /\ i \in Int
    BY <1>2, <1>3
<1>5. \A i, j \in DOMAIN markets :
        <<i, j>> \in Above(markets) <=>
            \/ markets[i].rank > markets[j].rank
            \/ markets[i].rank = markets[j].rank /\ i < j
    BY DEF Above
<1>6. Sorts(DOMAIN markets, Above(markets))
  <2>1. \A i \in DOMAIN markets : <<i, i>> \notin Above(markets)
      BY <1>4, <1>5
  <2>2. ASSUME NEW i \in DOMAIN markets, NEW j \in DOMAIN markets, NEW k \in DOMAIN markets,
               <<i, j>> \in Above(markets), <<j, k>> \in Above(markets)
        PROVE  <<i, k>> \in Above(markets)
      BY <1>4, <1>5, <2>2
  <2>3. ASSUME NEW i \in DOMAIN markets, NEW j \in DOMAIN markets
        PROVE  i = j \/ <<i, j>> \in Above(markets) \/ <<j, i>> \in Above(markets)
    <3>1. /\ markets[i].rank > markets[j].rank \/ markets[i].rank = markets[j].rank
                \/ markets[j].rank > markets[i].rank
          /\ i < j \/ i = j \/ j < i
        BY <1>4
    <3>2. QED BY <1>5, <3>1
  <2>4. QED BY <2>1, <2>2, <2>3 DEF Sorts
<1>7. QED BY <1>1, <1>4, <1>5, <1>6, Interval

\* The places of some markets of a listing, in their order.
Places(markets, some) == Ranking(some, Above(markets))

LEMMA PlacesInOrder ==
    ASSUME NEW markets \in Seq(Markets), NEW some \in SUBSET (DOMAIN markets)
    PROVE  /\ Places(markets, some) \in Seq(some)
           /\ \A i \in some : \E p \in DOMAIN Places(markets, some) : Places(markets, some)[p] = i
           /\ \A p, q \in DOMAIN Places(markets, some) :
                p < q => <<Places(markets, some)[p], Places(markets, some)[q]>> \in Above(markets)
<1> DEFINE places == Places(markets, some)
<1>1. IsFiniteSet(some) /\ Sorts(some, Above(markets)) /\ Cardinality(some) \in Nat
  <2>1. IsFiniteSet(some) /\ Cardinality(some) \in Nat
      BY MarketsSorted, FS_Subset, FS_CardinalityType
  <2>2. Sorts(DOMAIN markets, Above(markets))
      BY MarketsSorted
  <2>3. QED BY <2>1, <2>2, Zenon DEF Sorts
<1>2. /\ DOMAIN places = 1..Cardinality(some)
      /\ \A p \in DOMAIN places :
            places[p] \in some /\ Place(some, Above(markets), places[p]) = p
      /\ \A i \in some : /\ Place(some, Above(markets), i) \in DOMAIN places
                         /\ places[Place(some, Above(markets), i)] = i
    BY <1>1, RankingComplete DEF Places
<1>3. places = [p \in 1..Cardinality(some) |-> CHOOSE x \in some : Place(some, Above(markets), x) = p]
    BY DEF Places, Ranking
<1> HIDE DEF places
<1>4. places \in Seq(some)
    BY <1>1, <1>2, <1>3
<1>5. \A i \in some : \E p \in DOMAIN places : places[p] = i
    BY <1>2
<1>6. ASSUME NEW p \in DOMAIN places, NEW q \in DOMAIN places, p < q
      PROVE  <<places[p], places[q]>> \in Above(markets)
  <2>1. places[p] \in some /\ places[q] \in some /\ p \in Int /\ q \in Int
      BY <1>2
  <2>2. places[p] # places[q]
      BY <1>2, <1>6, <2>1
  <2>3. ~ (<<places[q], places[p]>> \in Above(markets))
    <3>1. <<places[q], places[p]>> \in Above(markets) =>
            Place(some, Above(markets), places[q]) < Place(some, Above(markets), places[p])
        BY <1>1, <2>1, PlacesFollow
    <3>2. QED BY <1>2, <1>6, <2>1, <3>1
  <2>4. QED BY <1>1, <2>1, <2>2, <2>3 DEF Sorts
<1>7. QED BY <1>4, <1>5, <1>6 DEF places

------------------------------------------------------------------------------
(* Records, statuses and the clock. *)

LEMMA Records ==
    /\ \A t \in Tokens, a \in Nat :
            /\ [token |-> t, attempt |-> a] \in [token : Tokens, attempt : Nat]
            /\ [token |-> t, attempt |-> a] # Absent
    /\ \A t \in Tokens, s \in Statuses :
            /\ [token |-> t, status |-> s] \in [token : Tokens, status : Statuses]
            /\ [token |-> t, status |-> s] # Absent
    /\ \A s \in Statuses, e \in Nat :
            /\ [status |-> s, expires |-> e] \in [status : Statuses, expires : Nat]
            /\ [status |-> s, expires |-> e] # Absent
    /\ \A r \in VenueReplies, n \in Nat :
            /\ [reply |-> r, at |-> n] \in [reply : VenueReplies, at : Nat]
            /\ [reply |-> r, at |-> n] # Absent
    /\ \A m \in Markets : m # Absent
BY AbsentIsNoRecord

LEMMA StatusFacts ==
    /\ \A reply \in VenueReplies :
            Status(reply) \in Statuses /\ (Status(reply) = "READY" <=> reply = "mid")
    /\ \A status \in Statuses : Ttl(status) \in Nat
    /\ Ttl("READY") \in Nat \ {0}
<1>1. \A reply \in VenueReplies :
            Status(reply) \in Statuses /\ (Status(reply) = "READY" <=> reply = "mid")
    BY DEF Status, VenueReplies, Statuses
<1>2. \A status \in Statuses : Ttl(status) \in {ReadyTtl, RetryableTtl, NotReadyTtl}
    BY DEF Ttl, Statuses
<1>3. Ttl("READY") = ReadyTtl
    BY DEF Ttl
<1>4. QED BY <1>1, <1>2, <1>3, ReadinessAssumption

LEMMA Clock ==
    ASSUME now \in 0..LastMoment, NEW d \in Delays
    PROVE  Later(d) \in 0..LastMoment /\ Later(d) \in Nat /\ now \in Nat /\ now <= Later(d)
<1>1. d \in Nat /\ LastMoment \in Nat
    BY ReadinessAssumption
<1>2. QED BY <1>1 DEF Later

------------------------------------------------------------------------------
(* Answers that encode no book. *)

Levels == [price : Nat, qty : Nat]      \* levels that are not Malformed

LEMMA PricesBounded ==
    ASSUME NEW levels \in Seq(Levels)
    PROVE  \E bound \in Nat : \A p \in Prices(levels) : p <= bound
<1> DEFINE n == Len(levels)
           Bounded(k) == \E bound \in Nat : \A i \in DOMAIN levels : i <= k => levels[i].price <= bound
           wrong == {k \in 0..n : ~ Bounded(k)}
<1>1. n \in Nat /\ DOMAIN levels = 1..n /\ \A i \in DOMAIN levels : levels[i].price \in Nat
  <2>1. n \in Nat /\ DOMAIN levels = 1..n
      OBVIOUS
  <2>2. \A i \in DOMAIN levels : levels[i] \in Levels
      OBVIOUS
  <2>3. \A level \in Levels : level.price \in Nat
      BY DEF Levels
  <2>4. QED BY <2>1, <2>2, <2>3
<1> HIDE DEF n
<1>2. wrong = {}
  <2>1. SUFFICES ASSUME wrong # {} PROVE FALSE
      OBVIOUS
  <2>2. wrong \subseteq Nat
      BY <1>1
  <2>3. PICK k \in wrong : \A m \in wrong : k <= m
      BY <2>1, <2>2, LeastExists
  <2>4. k \in 0..n /\ ~ Bounded(k)
      BY <2>3
  <2>5. k # 0
    <3>1. Bounded(0)
        BY <1>1
    <3>2. QED BY <2>4, <3>1
  <2>6. k - 1 \in 0..n /\ k \in DOMAIN levels /\ ~ (k <= k - 1) /\ k \in Nat
    <3>1. k \in 0..n
        BY <2>4
    <3>2. k - 1 \in 0..n /\ k \in 1..n /\ ~ (k <= k - 1) /\ k \in Nat
        BY <1>1, <2>5, <3>1
    <3>3. QED BY <1>1, <3>2
  <2>7. Bounded(k - 1)
      BY <2>3, <2>6
  <2>8. PICK bound \in Nat : \A i \in DOMAIN levels : i <= k - 1 => levels[i].price <= bound
      BY <2>7
  <2>9. PICK dearest \in Nat : dearest = levels[k].price
      BY <1>1, <2>6
  <2>10. PICK high \in Nat : bound <= high /\ dearest <= high
    <3>1. CASE bound <= dearest
        BY <3>1
    <3>2. CASE dearest <= bound
        BY <3>2
    <3>3. QED BY <3>1, <3>2
  <2>11. \A i \in DOMAIN levels : i <= k => levels[i].price <= high
    <3>1. \A i \in DOMAIN levels : i <= k => i <= k - 1 \/ i = k
      <4>1. \A i \in 1..n : i <= k => i <= k - 1 \/ i = k
          BY <1>1, <2>6
      <4>2. QED BY <1>1, <4>1
    <3>2. \A p \in Nat : p <= bound => p <= high
        BY <2>10
    <3>3. \A i \in DOMAIN levels : i <= k - 1 => levels[i].price <= high
        BY <1>1, <2>8, <3>2
    <3>4. QED BY <2>9, <2>10, <3>1, <3>3
  <2>12. QED BY <2>4, <2>11
<1>3. Bounded(n)
  <2>1. n \in 0..n
      BY <1>1
  <2>2. QED BY <1>2, <2>1
<1>4. PICK bound \in Nat : \A i \in DOMAIN levels : levels[i].price <= bound
  <2>1. \A i \in DOMAIN levels : i <= n
    <3>1. \A i \in 1..n : i <= n
        BY <1>1
    <3>2. QED BY <1>1, <3>1
  <2>2. QED BY <1>3, <2>1
<1>5. QED BY <1>4 DEF Prices

LEMMA BestExist ==
    ASSUME NEW P, P \subseteq Nat, P # {}, NEW bound \in Nat, \A p \in P : p <= bound
    PROVE  \A p \in P : p <= Max(P) /\ Min(P) <= p /\ Max(P) \in Nat /\ Min(P) \in Nat
<1>1. PICK least \in P : \A p \in P : least <= p
    BY LeastExists
<1> DEFINE gaps == {bound - p : p \in P}
<1>2. gaps \subseteq Nat /\ gaps # {} /\ \A p \in P : bound - p \in gaps
    OBVIOUS
<1> HIDE DEF gaps
<1>3. PICK gap \in gaps : \A g \in gaps : gap <= g
    BY <1>2, LeastExists
<1>4. PICK greatest \in P : gap = bound - greatest
    BY <1>3 DEF gaps
<1>5. \A p \in P : bound - greatest <= bound - p /\ p \in Nat /\ greatest \in Nat
    BY <1>2, <1>3, <1>4
<1>6. \A p \in P : p <= greatest
    BY <1>5
<1>7. P \subseteq Int
    OBVIOUS
<1>8. Min(P) = least /\ Max(P) = greatest
    BY <1>1, <1>6, <1>7, LeastIsMin, GreatestIsMax
<1>9. QED BY <1>1, <1>6, <1>8

\* A side of an answer that encodes no book.
Sides == Seq(Levels) \cup {Absent, Malformed}

LEMMA SideNormalised ==
    ASSUME NEW side \in Sides, side # Malformed
    PROVE  LET levels == OrEmpty(side) IN
           /\ levels \in Seq(Levels) /\ levels \in Seq(Numbers)
           /\ Prices(levels) \subseteq Nat
           /\ \E bound \in Nat : \A p \in Prices(levels) : p <= bound
           /\ Normalised(levels, 1) \in Seq(Numbers)
           /\ Normalised(levels, 1) = <<>> <=> levels = <<>>
           /\ Prices(Normalised(levels, 1)) = {100 * p : p \in Prices(levels)}
<1> DEFINE levels == OrEmpty(side)
<1>1. levels \in Seq(Levels)
  <2>1. <<>> \in Seq(Levels)
      OBVIOUS
  <2>2. side \in Seq(Levels) \/ side = Absent
      BY DEF Sides
  <2>3. QED BY <2>1, <2>2 DEF OrEmpty
<1>2. Levels \subseteq Numbers /\ \A level \in Levels : level.price \in Nat
    BY DEF Levels, Numbers
<1> HIDE DEF levels
<1>3. levels \in Seq(Numbers)
    BY <1>1, <1>2, SeqMonotonic
<1>4. \A i \in DOMAIN levels : levels[i] \in Levels
    BY <1>1
<1>5. Prices(levels) \subseteq Nat
    BY <1>2, <1>4 DEF Prices
<1>6. \E bound \in Nat : \A p \in Prices(levels) : p <= bound
    BY <1>1, PricesBounded
<1>7. /\ Normalised(levels, 1) \in Seq(Numbers)
      /\ Normalised(levels, 1) = <<>> <=> levels = <<>>
      /\ Prices(Normalised(levels, 1)) = {100 * p : p \in Prices(levels)}
    BY <1>3, NormalisedPrices
<1>8. QED BY <1>1, <1>3, <1>5, <1>6, <1>7 DEF levels

\* A crossed book, or one in another unit, is not judged to have quotes.
LEMMA BadBookRefused ==
    ASSUME NEW a \in BadBooks
    PROVE  PolymarketBook(a).reason \in {"PARSE_AMBIGUOUS", "NO_BBO"}
<1> DEFINE bids == Normalised(OrEmpty(a.bids), 1)
           asks == Normalised(OrEmpty(a.asks), 1)
           deep == Quantity(bids \o asks) >= DepthQtyMin
           shapeless == \/ a = Malformed
                        \/ ~ a.named
                        \/ Malformed \in {a.bids, a.asks}
                        \/ {a.bids, a.asks} = {Absent}
           overpriced == \E p \in Prices(bids \o asks) : p > 100 * One
<1>1. \A reason : NoTrade(reason).reason = reason
    BY DEF NoTrade
<1>2. PolymarketBook(a) = IF shapeless THEN NoTrade("PARSE_AMBIGUOUS")
                          ELSE IF overpriced THEN NoTrade("PARSE_AMBIGUOUS")
                          ELSE Judged(bids, asks, deep)
    BY DEF PolymarketBook
<1>3. SUFFICES ASSUME ~ shapeless, ~ overpriced
               PROVE  Judged(bids, asks, deep).reason \in {"PARSE_AMBIGUOUS", "NO_BBO"}
    BY <1>1, <1>2
<1>4. a.bids \in Sides \ {Malformed} /\ a.asks \in Sides \ {Malformed}
  <2>1. a \in [named : BOOLEAN, bids : Sides, asks : Sides]
      BY <1>3, BadAssumption DEF Sides, Levels
  <2>2. a.bids \in Sides /\ a.asks \in Sides
      BY <2>1
  <2>3. QED BY <1>3, <2>2
<1> DEFINE B == OrEmpty(a.bids)
           A == OrEmpty(a.asks)
<1>5. /\ B \in Seq(Numbers) /\ Prices(B) \subseteq Nat
      /\ \E bound \in Nat : \A p \in Prices(B) : p <= bound
      /\ bids \in Seq(Numbers) /\ (bids = <<>> <=> B = <<>>)
      /\ Prices(bids) = {100 * p : p \in Prices(B)}
    BY <1>4, SideNormalised
<1>6. /\ A \in Seq(Numbers) /\ Prices(A) \subseteq Nat
      /\ \E bound \in Nat : \A p \in Prices(A) : p <= bound
      /\ asks \in Seq(Numbers) /\ (asks = <<>> <=> A = <<>>)
      /\ Prices(asks) = {100 * p : p \in Prices(A)}
    BY <1>4, SideNormalised
<1>7. \/ \E p \in Prices(B \o A) : p > One
      \/ \E p \in Prices(B), q \in Prices(A) : p >= q
    BY <1>3, BadAssumption
<1>8. ~ \E p \in Prices(bids) \cup Prices(asks) : p > 10000
    BY <1>3, <1>5, <1>6, PricesOfBoth DEF One
<1>9. \A x \in Prices(B) \cup Prices(A) : x \in Nat /\ 100 * x \in Prices(bids) \cup Prices(asks)
    BY <1>5, <1>6
<1> HIDE DEF bids, asks, B, A, deep
<1>10. PICK p \in Prices(B), q \in Prices(A) : p >= q
  <2>1. \A x \in Nat : x > One => 100 * x > 10000
      BY DEF One
  <2>2. ~ \E x \in Prices(B) \cup Prices(A) : x > One
      BY <1>8, <1>9, <2>1
  <2>3. QED BY <1>5, <1>6, <1>7, <2>2, PricesOfBoth
<1>11. /\ 100 * p \in Prices(bids) /\ 100 * q \in Prices(asks)
       /\ p \in Nat /\ q \in Nat /\ 100 * p >= 100 * q
    BY <1>5, <1>6, <1>10
<1>12. ASSUME NEW S, S \subseteq Nat, NEW bound \in Nat, \A x \in S : x <= bound, NEW r \in S,
              NEW T, T = {100 * x : x \in S}
       PROVE  100 * r <= Max(T) /\ Min(T) <= 100 * r /\ Max(T) \in Nat /\ Min(T) \in Nat
  <2>1. T \subseteq Nat /\ 100 * r \in T /\ 100 * bound \in Nat
      BY <1>12
  <2>2. \A x \in Nat : x <= bound => 100 * x <= 100 * bound
      OBVIOUS
  <2>3. \A y \in T : y <= 100 * bound
      BY <1>12, <2>2
  <2>4. QED BY <2>1, <2>3, BestExist
<1>13. 100 * p <= Max(Prices(bids)) /\ Max(Prices(bids)) \in Nat
    BY <1>5, <1>10, <1>12
<1>14. Min(Prices(asks)) <= 100 * q /\ Min(Prices(asks)) \in Nat
    BY <1>6, <1>10, <1>12
<1>15. Max(Prices(bids)) >= Min(Prices(asks))
    BY <1>11, <1>13, <1>14
<1>16. QED BY <1>1, <1>15 DEF Judged

LEMMA BadAnswerRefused ==
    ASSUME NEW a \in BadAnswers
    PROVE  KalshiBook(a).reason # "OK"
<1>1. SUFFICES ASSUME KalshiBook(a).reason = "OK" PROVE FALSE
    OBVIOUS
<1> DEFINE side == [name \in KalshiSides |-> KalshiSide(a, name)]
<1>2. a # Malformed /\ \A name \in KalshiSides : KalshiSide(a, name) # Malformed
  <2>1. NoTrade("PARSE_AMBIGUOUS").reason # "OK"
      BY DEF NoTrade
  <2>2. ASSUME \/ a = Malformed \/ \E name \in KalshiSides : side[name] = Malformed
        PROVE  KalshiBook(a) = NoTrade("PARSE_AMBIGUOUS")
      BY <2>2 DEF KalshiBook
  <2>3. \A name \in KalshiSides : side[name] = KalshiSide(a, name)
      OBVIOUS
  <2>4. QED BY <1>1, <2>1, <2>2, <2>3
<1> DEFINE yb == OrEmpty(KalshiSide(a, "yesBid"))
           ya == OrEmpty(KalshiSide(a, "yesAsk"))
           nb == OrEmpty(KalshiSide(a, "noBid"))
           na == OrEmpty(KalshiSide(a, "noAsk"))
<1>3. PICK scale, bids, asks, deep :
        /\ KalshiAccepts(yb, ya, nb, na, scale, bids, asks, deep)
        /\ KalshiBook(a) = Judged(bids, asks, deep)
    BY <1>1, KalshiAccepted
<1>4. /\ scale = Scale(IF yb \o ya = <<>> THEN Prices(nb \o na) ELSE Prices(yb \o ya))
      /\ scale # Absent
      /\ bids = Half(yb, na, scale) /\ asks = Half(ya, nb, scale)
      /\ Judged(bids, asks, deep).reason = "OK"
    BY <1>3 DEF KalshiAccepts
<1>5. bids # <<>> /\ asks # <<>>
    BY <1>4, JudgedQuotes
<1>6. \A s : Normalised(<<>>, s) = <<>>
    BY DEF Normalised
<1>7. /\ yb # <<>> \/ na # <<>>
      /\ ya # <<>> \/ nb # <<>>
    BY <1>4, <1>5, <1>6 DEF Half
<1>8. ASSUME NEW half \in {{"yesBid", "noAsk"}, {"yesAsk", "noBid"}},
             \A name \in half : KalshiSide(a, name) \in {Absent, <<>>}
      PROVE  FALSE
  <2>1. \A name \in half : OrEmpty(KalshiSide(a, name)) = <<>>
      BY <1>8 DEF OrEmpty
  <2>2. QED BY <1>7, <1>8, <2>1
<1>9. PICK name \in {"yesBid", "yesAsk"} :
        \E p, q \in Prices(OrEmpty(KalshiSide(a, name))) : p <= One /\ One < q
    BY <1>2, <1>8, BadAssumption
<1>10. \A n \in KalshiSides : OrEmpty(KalshiSide(a, n)) \in Seq(Numbers)
  <2>1. a \in [flat : [KalshiSides -> Sides], nested : [KalshiSides -> Sides]]
      BY <1>2, BadAssumption DEF Sides, Levels
  <2>2. \A n \in KalshiSides : a.flat[n] \in Sides /\ a.nested[n] \in Sides
      BY <2>1
  <2>3. \A n \in KalshiSides : KalshiSide(a, n) \in Sides
      BY <2>2 DEF KalshiSide
  <2>4. QED BY <1>2, <2>3, SideNormalised
<1>11. /\ yb \in Seq(Numbers) /\ ya \in Seq(Numbers)
       /\ {"yesBid", "yesAsk"} \subseteq KalshiSides
    BY <1>10 DEF KalshiSides
<1>12. OrEmpty(KalshiSide(a, name)) \in {yb, ya}
    BY <1>9
<1> HIDE DEF yb, ya
<1>13. PICK p, q \in Prices(yb) \cup Prices(ya) : p <= One /\ One < q
    BY <1>9, <1>12
<1>14. /\ Prices(yb \o ya) = Prices(yb) \cup Prices(ya)
       /\ yb \o ya = <<>> => yb = <<>> /\ ya = <<>>
       /\ Prices(yb) \subseteq Int /\ Prices(ya) \subseteq Int
       /\ Prices(yb) = {} <=> yb = <<>>
       /\ Prices(ya) = {} <=> ya = <<>>
    BY <1>11, PricesOfBoth, LevelsHavePrices
<1>15. yb \o ya # <<>> /\ p \in Prices(yb \o ya) /\ q \in Prices(yb \o ya) /\ q \in Int
    BY <1>13, <1>14
<1>16. scale = Scale(Prices(yb \o ya)) /\ q > One
    BY <1>4, <1>13, <1>15 DEF yb, ya, One
<1>17. QED BY <1>4, <1>13, <1>15, <1>16 DEF Scale

------------------------------------------------------------------------------
(* The official price. *)

LEMMA PriceOfSymbol ==
    ASSUME NEW symbol, NEW replies \in Feed!Replies, Feed!OfficialPrice(symbol, replies) # Absent
    PROVE  LET product == Feed!OfficialPrice(symbol, replies).product IN
           /\ product.base = symbol.base
           /\ {product.quote, symbol.quote} \subseteq {"USD", "USDT"}
<1> DEFINE some == {e \in DOMAIN replies : Feed!Product(symbol, e) # Absent /\ replies[e] # "none"}
           these == {i \in DOMAIN Feed!Exchanges : Feed!Exchanges[i] \in some}
           from == Feed!Asked(symbol, replies)
<1>1. from = Feed!FirstExchange(some)
    BY DEF Feed!Asked
<1> HIDE DEF some
<1>2. from = IF these = {} THEN Absent ELSE Feed!Exchanges[Min(these)]
    BY <1>1 DEF Feed!FirstExchange, Feed!Min, Min
<1>3. from # Absent
  <2>1. from = Absent => Feed!OfficialPrice(symbol, replies) = Absent
      BY DEF Feed!OfficialPrice
  <2>2. QED BY <2>1
<1>4. Feed!OfficialPrice(symbol, replies) = [from |-> from, product |-> Feed!Product(symbol, from)]
    BY <1>3 DEF Feed!OfficialPrice
<1>5. these # {} /\ these \subseteq 1..3
    BY <1>2, <1>3 DEF Feed!Exchanges
<1>6. Min(these) \in these
  <2>1. these \subseteq Nat /\ these \subseteq Int
      BY <1>5
  <2>2. PICK least \in these : \A i \in these : least <= i
      BY <1>5, <2>1, LeastExists
  <2> HIDE DEF these
  <2>3. Min(these) = least
      BY <2>1, <2>2, LeastIsMin
  <2>4. QED BY <2>2, <2>3
<1>7. from \in some
    BY <1>2, <1>5, <1>6
<1>8. Feed!Product(symbol, from) # Absent
    BY <1>7 DEF some
<1>9. /\ Feed!Product(symbol, from).base = symbol.base
      /\ {Feed!Product(symbol, from).quote, symbol.quote} \subseteq {"USD", "USDT"}
    BY <1>8 DEF Feed!Product
<1>10. QED BY <1>4, <1>9

------------------------------------------------------------------------------
(* The invariant: it holds at first, and every action keeps it. *)

LEMMA InitInv == AccessInit => Inv
<1> SUFFICES ASSUME AccessInit PROVE Inv
    OBVIOUS
<1> USE DEF AccessInit, ClobInit
<1>1. TypeInv
  <2>1. now \in 0..LastMoment
      BY ReadinessAssumption
  <2>2. queue \in Seq(Markets)
      OBVIOUS
  <2>3. known \in Tokens \cup {Absent}
      BY AccessAssumption
  <2>4. QED BY <2>1, <2>2, <2>3 DEF TypeInv
<1>2. CacheInv /\ ProbeInv /\ ChosenInv /\ VerdictIsRecent
    BY DEF CacheInv, ProbeInv, ChosenInv, VerdictIsRecent
<1>3. vbook.reason = "none"
    BY DEF NoTrade
<1>4. PhaseInv /\ TokenInv /\ BookInv /\ TurnInv
    BY <1>3 DEF PhaseInv, TokenInv, BookInv, TurnInv
<1>5. SelectInv
    BY DEF SelectInv
<1>6. QED BY <1>1, <1>2, <1>4, <1>5 DEF Inv

\* What the selection cannot disturb while it runs.
LEMMA SelectKeepsAccess ==
    ASSUME Inv, pc = "select", UNCHANGED accessVars
    PROVE  (PhaseInv /\ TokenInv /\ BookInv /\ TurnInv)'
<1> USE DEF accessVars
<1>1. PhaseInv'
    BY DEF Inv, PhaseInv
<1>2. TokenInv'
    BY DEF Inv, PhaseInv, TokenInv
<1>3. BookInv' /\ TurnInv'
    BY DEF Inv, BookInv, TurnInv, BestBid, BestAsk
<1>4. QED BY <1>1, <1>2, <1>3

\* While a market is sought none is chosen, and the probe is of the first one.
LEMMA Seeking ==
    ASSUME Inv, stage = "probing"
    PROVE  /\ pc = "select" /\ chosen = Absent
           /\ probe # Absent \/ verdict # Absent => queue # <<>>
           /\ probe # Absent => probe.token = Head(queue).token /\ probe.token \in Tokens
           /\ verdict # Absent => verdict.token = Head(queue).token /\ verdict.token \in Tokens
<1>1. pc = "select" /\ chosen = Absent
    BY DEF Inv, SelectInv, ChosenInv
<1>2. QED BY <1>1 DEF Inv, ProbeInv, Holder

\* What discovery queues: the eligible markets by their places in the listing.
LEMMA Queued ==
    ASSUME now \in 0..LastMoment, NEW markets \in Listings, NEW d \in Delays, Discover(markets, d),
           ~ FilterCrashes(markets)
    PROVE  \E places \in Seq(DOMAIN markets) :
            /\ queue' \in Seq(Markets) /\ Len(queue') = Len(places)
            /\ \A p \in DOMAIN places :
                /\ queue'[p] = markets[places[p]]
                /\ Promised(markets[places[p]]) /\ markets[places[p]].ends >= MinExpiry
            /\ \A p, q \in DOMAIN places : p < q => <<places[p], places[q]>> \in Above(markets)
            /\ \A i \in DOMAIN markets :
                Promised(markets[i]) /\ markets[i].ends >= now' + MinExpiry
                    => \E p \in DOMAIN places : places[p] = i
<1> DEFINE some == {i \in DOMAIN markets : IsMarketEligible(markets[i])'}
           places == Places(markets, some)
<1>1. markets \in Seq(Markets) /\ some \in SUBSET (DOMAIN markets)
    BY ReadinessAssumption
<1>2. now' \in Nat /\ MinExpiry \in Nat
    BY Clock, ReadinessAssumption DEF Discover
<1>3. queue' = [p \in DOMAIN places |-> markets[places[p]]]
    BY DEF Discover, Ranked, Eligible, Places
<1>4. \A i \in DOMAIN markets :
        markets[i] \in Markets /\ (markets[i].open => markets[i].ends # DateOnly)
  <2>1. \A i \in DOMAIN markets : markets[i] \in Markets
      BY <1>1
  <2>2. QED BY <2>1 DEF FilterCrashes
<1>5. \A m \in Markets : m.ends \in Nat \cup {Absent, Malformed, DateOnly}
    BY DEF Markets
<1>6. \A m : IsMarketEligible(m)' <=>
                m.open /\ m.ends \notin {Absent, Malformed} /\ m.ends >= now' + MinExpiry
    BY DEF IsMarketEligible
<1>7. \A i \in some : /\ Promised(markets[i]) /\ markets[i].ends >= MinExpiry
                      /\ markets[i] \in Markets
  <2>1. ASSUME NEW i \in some
        PROVE  Promised(markets[i]) /\ markets[i].ends >= MinExpiry /\ markets[i] \in Markets
    <3>1. markets[i].open /\ markets[i].ends \in Nat /\ markets[i].ends >= now' + MinExpiry
        BY <1>4, <1>5, <1>6
    <3>2. \A e, n, m \in Nat : e >= n + m => e >= m
        OBVIOUS
    <3>3. markets[i].ends >= MinExpiry
        BY <1>2, <3>1, <3>2
    <3>4. QED BY <1>4, <3>1, <3>3 DEF Promised
  <2>2. QED BY <2>1
<1>8. \A i \in DOMAIN markets :
        Promised(markets[i]) /\ markets[i].ends >= now' + MinExpiry => i \in some
    BY <1>6, ReadinessAssumption DEF Promised
<1> HIDE DEF some
<1>9. /\ places \in Seq(some)
      /\ \A i \in some : \E p \in DOMAIN places : places[p] = i
      /\ \A p, q \in DOMAIN places : p < q => <<places[p], places[q]>> \in Above(markets)
    BY <1>1, PlacesInOrder
<1> HIDE DEF places
<1>10. \A p \in DOMAIN places : places[p] \in some
    BY <1>9
<1>11. places \in Seq(DOMAIN markets)
    BY <1>1, <1>9, SeqMonotonic
<1>12. DOMAIN places = 1..Len(places) /\ Len(places) \in Nat
    BY <1>9
<1>13. queue' \in [1..Len(places) -> Markets]
    BY <1>3, <1>7, <1>10, <1>12
<1>14. queue' \in Seq(Markets) /\ Len(queue') = Len(places)
  <2>1. queue' \in Seq(Markets)
      BY <1>12, <1>13
  <2>2. DOMAIN queue' = 1..Len(places)
      BY <1>13
  <2>3. QED BY <1>12, <2>1, <2>2
<1>15. \A p \in DOMAIN places : queue'[p] = markets[places[p]]
    BY <1>3
<1>16. QED BY <1>7, <1>8, <1>9, <1>10, <1>11, <1>14, <1>15

LEMMA DiscoverKeeps ==
    ASSUME Inv, pc = "select", NEW markets \in Listings, NEW d \in Delays, Discover(markets, d),
           UNCHANGED accessVars
    PROVE  Inv'
<1>1. /\ now \in 0..LastMoment /\ now' \in 0..LastMoment
      /\ now \in Nat /\ now' \in Nat /\ now <= now'
  <2>1. now \in 0..LastMoment /\ now' = Later(d)
      BY DEF Inv, TypeInv, Discover
  <2>2. QED BY <2>1, Clock
<1>2. /\ stage = "listing" /\ listing' = markets /\ stage' \in {"probing", "crashed"}
      /\ stage' = "probing" => ~ FilterCrashes(markets)
      /\ UNCHANGED <<probes, probe, cache, verdict, chosen, answered>>
      /\ UNCHANGED <<pc, known>>
    BY DEF Discover, accessVars
<1>3. probes = 0 /\ probe = Absent /\ verdict = Absent /\ chosen = Absent
    BY <1>2 DEF Inv, SelectInv, ChosenInv
<1>4. /\ queue' \in Seq(Markets)
      /\ stage' = "probing" => \E places : Line(places)'
  <2>1. CASE FilterCrashes(markets)
    <3>1. queue' = queue /\ stage' = "crashed"
        BY <2>1 DEF Discover
    <3>2. QED BY <3>1 DEF Inv, TypeInv
  <2>2. CASE ~ FilterCrashes(markets)
    <3>1. PICK places \in Seq(DOMAIN markets) :
            /\ queue' \in Seq(Markets) /\ Len(queue') = Len(places)
            /\ \A p \in DOMAIN places :
                /\ queue'[p] = markets[places[p]]
                /\ Promised(markets[places[p]]) /\ markets[places[p]].ends >= MinExpiry
            /\ \A p, q \in DOMAIN places : p < q => <<places[p], places[q]>> \in Above(markets)
            /\ \A i \in DOMAIN markets :
                Promised(markets[i]) /\ markets[i].ends >= now' + MinExpiry
                    => \E p \in DOMAIN places : places[p] = i
        BY <1>1, <2>2, Queued
    <3>2. /\ Len(places) \in Nat /\ DOMAIN places = 1..Len(places)
          /\ \A p \in DOMAIN places : places[p] \in DOMAIN markets
        BY <3>1
    <3>3. Promising' = {i \in DOMAIN markets : Promised(markets[i])}
        BY <1>2 DEF Promising
    <3>4. Len(places) - Len(queue') = 0
        BY <3>1, <3>2
    <3>5. /\ places \in Seq(DOMAIN listing') /\ Len(queue') <= Len(places)
          /\ \A p \in 1..Len(queue') : queue'[p] = listing'[places[0 + p]]
      <4>1. \A p \in 1..Len(queue') : 0 + p = p /\ p \in DOMAIN places
          BY <3>1, <3>2
      <4>2. Len(queue') <= Len(places)
          BY <3>1, <3>2
      <4>3. QED BY <1>2, <3>1, <4>1, <4>2
    <3>6. \A p \in DOMAIN places :
                places[p] \in Promising' /\ listing'[places[p]].ends >= MinExpiry
        BY <1>2, <3>1, <3>2, <3>3
    <3>7. \A p, q \in DOMAIN places : p < q => <<places[p], places[q]>> \in Above(listing')
        BY <1>2, <3>1
    <3>8. \A i \in Promising' :
                listing'[i].ends >= now' + MinExpiry => \E p \in DOMAIN places : places[p] = i
        BY <1>2, <3>1, <3>3
    <3>9. 1..0 = {}
        OBVIOUS
    <3>10. probes' = 0 /\ probe' = Absent /\ verdict' = Absent
        BY <1>2, <1>3
    <3>11. Line(places)'
        BY <3>4, <3>5, <3>6, <3>7, <3>8, <3>9, <3>10 DEF Line
    <3>12. QED BY <3>1, <3>11
  <2>3. QED BY <2>1, <2>2
<1>5. TypeInv'
  <2>1. answered \in [Tokens -> {Absent} \cup [reply : VenueReplies, at : 0..now']]
      BY <1>1 DEF Inv, TypeInv
  <2>2. QED BY <1>1, <1>2, <1>4, <2>1 DEF Inv, TypeInv
<1>6. CacheInv'
    BY <1>2 DEF Inv, CacheInv, StatusOf
<1>7. ProbeInv' /\ ChosenInv' /\ VerdictIsRecent'
    BY <1>2, <1>3 DEF ProbeInv, ChosenInv, VerdictIsRecent
<1>8. SelectInv'
    BY <1>2, <1>4 DEF SelectInv
<1>9. (PhaseInv /\ TokenInv /\ BookInv /\ TurnInv)'
    BY SelectKeepsAccess
<1>10. QED BY <1>5, <1>6, <1>7, <1>8, <1>9 DEF Inv

\* A probe begins: the cache answers, or a request is due.
LEMMA BeginProbeGives ==
    ASSUME Inv, NEW t \in Tokens, probe = Absent, verdict = Absent, BeginProbe(t),
           UNCHANGED <<now, answered>>
    PROVE  /\ cache' \in [Tokens -> {Absent} \cup [status : Statuses, expires : Nat]]
           /\ CacheInv'
           /\ VerdictIsRecent'
           /\ \/ /\ ~ Cached(t) /\ probe' = [token |-> t, attempt |-> 0] /\ verdict' = Absent
                 /\ probe' # Absent /\ probe' \in [token : Tokens, attempt : Nat]
                 /\ \A u \in Tokens \ {t} : cache'[u] = cache[u]
              \/ /\ Cached(t) /\ probe' = Absent /\ verdict' # Absent /\ UNCHANGED cache
                 /\ verdict' \in [token : Tokens, status : Statuses] /\ verdict'.token = t
                 /\ cache'[t] # Absent
<1>1. cache \in [Tokens -> {Absent} \cup [status : Statuses, expires : Nat]] /\ CacheInv
    BY DEF Inv, TypeInv
<1>2. CASE Cached(t)
  <2>1. /\ verdict' = [token |-> t, status |-> cache[t].status]
        /\ UNCHANGED <<probe, cache>>
      BY <1>2 DEF BeginProbe
  <2>2. cache[t] # Absent /\ now < cache[t].expires
      BY <1>2 DEF Cached
  <2>3. cache[t] \in [status : Statuses, expires : Nat]
      BY <1>1, <2>2
  <2>4. cache[t].status \in Statuses
      BY <2>3
  <2>5. /\ verdict' \in [token : Tokens, status : Statuses] /\ verdict' # Absent
        /\ verdict'.token = t /\ verdict'.status = cache[t].status
      BY <2>1, <2>4, Records
  <2>6. CacheInv'
      BY <1>1, <2>1 DEF CacheInv, StatusOf
  <2>7. VerdictIsRecent'
    <3>1. /\ answered[t] # Absent /\ cache[t].status = Status(answered[t].reply)
          /\ cache[t].expires = answered[t].at + Ttl(cache[t].status)
        BY <1>1, <2>2 DEF CacheInv, StatusOf
    <3>2. QED BY <2>2, <2>5, <3>1 DEF VerdictIsRecent
  <2>8. QED BY <1>1, <1>2, <2>1, <2>2, <2>5, <2>6, <2>7
<1>3. CASE ~ Cached(t)
  <2>1. /\ probe' = [token |-> t, attempt |-> 0]
        /\ cache' = [cache EXCEPT ![t] = Absent]
        /\ verdict' = Absent
      BY <1>3 DEF BeginProbe
  <2>2. probe' # Absent /\ probe' \in [token : Tokens, attempt : Nat]
      BY <2>1, Records
  <2>3. /\ cache' \in [Tokens -> {Absent} \cup [status : Statuses, expires : Nat]]
        /\ cache'[t] = Absent
        /\ \A u \in Tokens \ {t} : cache'[u] = cache[u]
      BY <1>1, <2>1
  <2>4. CacheInv'
      BY <1>1, <2>3 DEF CacheInv, StatusOf
  <2>5. VerdictIsRecent'
      BY <2>1 DEF VerdictIsRecent
  <2>6. QED BY <1>3, <2>1, <2>2, <2>3, <2>4, <2>5
<1>4. QED BY <1>2, <1>3

\* The queue moves on: its head is dealt with.
LEMMA LineAdvances ==
    ASSUME NEW places, Line(places), queue \in Seq(Markets), queue # <<>>,
           queue' = Tail(queue), probe' = Absent, verdict' = Absent,
           UNCHANGED <<now, listing, answered>>,
           probes' = Len(places) - Len(queue) + 1,
           LET head == places[Len(places) - Len(queue) + 1]
           IN  listing[head] = Head(queue) => Refused(head)
    PROVE  Line(places)'
<1> DEFINE done == Len(places) - Len(queue)
           len == Len(queue)
           total == Len(places)
<1>1. /\ len \in Nat /\ len > 0 /\ Len(queue') = len - 1
      /\ \A p \in 1..(len - 1) : queue'[p] = queue[p + 1]
      /\ Head(queue) = queue[1]
    BY EmptySeq
<1>2. /\ places \in Seq(DOMAIN listing) /\ len <= total
      /\ \A p \in 1..len : queue[p] = listing[places[done + p]]
      /\ \A p \in DOMAIN places : places[p] \in Promising /\ listing[places[p]].ends >= MinExpiry
      /\ \A p, q \in DOMAIN places : p < q => <<places[p], places[q]>> \in Above(listing)
      /\ \A i \in Promising :
                listing[i].ends >= now + MinExpiry => \E p \in DOMAIN places : places[p] = i
      /\ \A p \in 1..done : Refused(places[p])
    BY DEF Line
<1>3. total \in Nat
    BY <1>2
<1>4. Refused(places[done + 1])
    BY <1>1, <1>2
<1>5. /\ total - (len - 1) = done + 1 /\ done \in Nat /\ len - 1 <= total
    BY <1>1, <1>2, <1>3
<1>6. \A p \in 1..(len - 1) : queue'[p] = listing[places[(done + 1) + p]]
  <2>1. \A p \in 1..(len - 1) : p + 1 \in 1..len /\ done + (p + 1) = (done + 1) + p
      BY <1>1, <1>5
  <2>2. QED BY <1>1, <1>2, <2>1
<1>7. \A p \in 1..(done + 1) : Refused(places[p])
  <2>1. \A p \in 1..(done + 1) : p \in 1..done \/ p = done + 1
      BY <1>5
  <2>2. QED BY <1>2, <1>4, <2>1
<1>8. \A i : Refused(i)' = Refused(i)
    BY DEF Refused
<1>9. Promising' = Promising
    BY DEF Promising
<1>10. Len(places) - Len(queue') = done + 1 /\ Len(queue') <= Len(places)
    BY <1>1, <1>5
<1>11. \A p \in 1..Len(queue') : queue'[p] = listing[places[(done + 1) + p]]
    BY <1>1, <1>6
<1> HIDE DEF done, len, total
<1>12. probes' = done + 1
    BY DEF done
<1>13. QED BY <1>2, <1>7, <1>8, <1>9, <1>10, <1>11, <1>12 DEF Line

\* What the next step of a search takes the line to be.
LEMMA InLine ==
    ASSUME Inv, stage = "probing"
    PROVE  /\ queue \in Seq(Markets) /\ listing \in Listings /\ listing \in Seq(Markets)
           /\ \E places : Line(places)
           /\ queue # <<>> =>
                /\ Head(queue) \in Markets
                /\ Tail(queue) \in Seq(Markets)
<1>1. queue \in Seq(Markets) /\ listing \in Listings /\ \E places : Line(places)
    BY DEF Inv, TypeInv, SelectInv
<1>2. queue # <<>> => Head(queue) \in Markets /\ Tail(queue) \in Seq(Markets)
    BY <1>1, HeadTailProperties
<1>3. QED BY <1>1, <1>2, ReadinessAssumption

LEMMA ConsiderKeeps ==
    ASSUME Inv, pc = "select", Consider, UNCHANGED accessVars
    PROVE  Inv'
<1>1. /\ stage = "probing" /\ probe = Absent /\ verdict = Absent /\ queue # <<>>
      /\ UNCHANGED <<now, listing, chosen, stage, answered, pc, known>>
      /\ probes' = probes + 1
    BY DEF Consider, Idle, accessVars
<1>2. PICK places : Line(places)
    BY <1>1, InLine
<1>3. /\ queue \in Seq(Markets) /\ Head(queue) \in Markets /\ Tail(queue) \in Seq(Markets)
      /\ listing \in Listings /\ chosen = Absent
    BY <1>1, InLine, Seeking
<1>4. probes = Len(places) - Len(queue)
    BY <1>1, <1>2 DEF Line
<1>5. (PhaseInv /\ TokenInv /\ BookInv /\ TurnInv)'
    BY SelectKeepsAccess
<1>6. ChosenInv'
    BY <1>1, <1>3 DEF ChosenInv
<1>7. CASE Head(queue).token = Absent
  <2>1. /\ queue' = Tail(queue) /\ UNCHANGED <<probe, cache, verdict>>
      BY <1>7 DEF Consider
  <2>2. LET head == places[Len(places) - Len(queue) + 1]
        IN  listing[head] = Head(queue) => Refused(head)
      BY <1>7 DEF Refused
  <2>3. Line(places)'
      BY <1>1, <1>2, <1>3, <1>4, <2>1, <2>2, LineAdvances
  <2>4. TypeInv' /\ CacheInv' /\ ProbeInv' /\ VerdictIsRecent'
      BY <1>1, <1>3, <2>1 DEF Inv, TypeInv, CacheInv, StatusOf, ProbeInv, VerdictIsRecent
  <2>5. SelectInv'
      BY <1>1, <1>3, <2>3 DEF Inv, SelectInv
  <2>6. QED BY <1>5, <1>6, <2>4, <2>5 DEF Inv
<1>8. CASE Head(queue).token # Absent
  <2>1. PICK t \in Tokens : t = Head(queue).token
      BY <1>3, <1>8 DEF Markets
  <2>2. BeginProbe(t) /\ UNCHANGED queue
      BY <1>8, <2>1 DEF Consider
  <2>3. Holder(t)'
      BY <1>1, <2>1, <2>2 DEF Inv, SelectInv, Holder
  <2>4. /\ cache' \in [Tokens -> {Absent} \cup [status : Statuses, expires : Nat]]
        /\ CacheInv' /\ VerdictIsRecent'
        /\ \/ /\ probe' = [token |-> t, attempt |-> 0] /\ verdict' = Absent
              /\ probe' # Absent /\ probe' \in [token : Tokens, attempt : Nat]
           \/ /\ probe' = Absent /\ verdict' # Absent
              /\ verdict' \in [token : Tokens, status : Statuses] /\ verdict'.token = t
              /\ cache'[t] # Absent
      BY <1>1, <2>2, BeginProbeGives
  <2>5. TypeInv'
      BY <1>1, <1>3, <2>2, <2>4 DEF Inv, TypeInv
  <2>6. ProbeInv'
    <3>1. CASE /\ probe' = [token |-> t, attempt |-> 0] /\ verdict' = Absent
               /\ probe' # Absent /\ probe' \in [token : Tokens, attempt : Nat]
      <4>1. probe'.token = t
          BY <3>1
      <4>2. QED BY <2>3, <3>1, <4>1 DEF ProbeInv
    <3>2. CASE /\ probe' = Absent /\ verdict' # Absent
               /\ verdict' \in [token : Tokens, status : Statuses] /\ verdict'.token = t
               /\ cache'[t] # Absent
        BY <2>3, <3>2 DEF ProbeInv
    <3>3. QED BY <2>4, <3>1, <3>2
  <2>7. Line(places)'
    <3>1. ~ (probe' = Absent /\ verdict' = Absent)
        BY <2>4
    <3>2. Promising' = Promising /\ \A i : Refused(i)' = Refused(i)
        BY <1>1 DEF Promising, Refused
    <3>3. QED BY <1>1, <1>2, <1>4, <2>2, <3>1, <3>2 DEF Line
  <2>8. SelectInv'
      BY <1>1, <1>3, <2>7 DEF Inv, SelectInv
  <2>9. QED BY <1>5, <1>6, <2>4, <2>5, <2>6, <2>8 DEF Inv
<1>9. QED BY <1>7, <1>8

LEMMA JudgeKeeps ==
    ASSUME Inv, pc = "select", Judge, UNCHANGED accessVars
    PROVE  Inv'
<1>1. /\ stage = "probing" /\ verdict # Absent /\ verdict' = Absent /\ queue' = Tail(queue)
      /\ UNCHANGED <<now, listing, probes, probe, cache, answered, pc, known>>
    BY DEF Judge, accessVars
<1>2. PICK places : Line(places)
    BY <1>1, InLine
<1>3. /\ queue \in Seq(Markets) /\ queue # <<>> /\ Head(queue) \in Markets /\ Tail(queue) \in Seq(Markets)
      /\ listing \in Listings /\ chosen = Absent
      /\ verdict.token = Head(queue).token /\ verdict.token \in Tokens
    BY <1>1, InLine, Seeking
<1>4. probe = Absent /\ verdict \in [token : Tokens, status : Statuses] /\ cache[verdict.token] # Absent
    BY <1>1 DEF Inv, ProbeInv
<1>5. PICK t \in Tokens : t = verdict.token
    BY <1>3
<1>6. /\ answered[t] # Absent /\ answered[t].reply \in VenueReplies
      /\ verdict.status = Status(answered[t].reply)
      /\ answered[t].at = now \/ now < answered[t].at + Ttl(verdict.status)
      /\ answered[t].at \in Nat
  <2>1. answered[t] \in [reply : VenueReplies, at : 0..now]
      BY <1>1, <1>5 DEF Inv, TypeInv, VerdictIsRecent
  <2>2. answered[t].reply \in VenueReplies /\ answered[t].at \in 0..now
      BY <2>1
  <2>3. now \in Nat
      BY DEF Inv, TypeInv
  <2>4. QED BY <1>1, <1>5, <2>2, <2>3 DEF Inv, VerdictIsRecent
<1>7. (PhaseInv /\ TokenInv /\ BookInv /\ TurnInv)'
    BY SelectKeepsAccess
<1>8. TypeInv' /\ CacheInv' /\ ProbeInv' /\ VerdictIsRecent'
    BY <1>1, <1>3, <1>4 DEF Inv, TypeInv, CacheInv, StatusOf, ProbeInv, VerdictIsRecent
<1>9. CASE verdict.status = "READY"
  <2>1. chosen' = Head(queue) /\ stage' = "done"
      BY <1>9 DEF Judge
  <2>2. answered[t].reply = "mid"
      BY <1>6, <1>9, StatusFacts
  <2>3. /\ cache[t] # Absent /\ cache[t].status = "READY"
        /\ cache[t].expires = answered[t].at + Ttl("READY")
      BY <1>4, <1>5, <1>6, <1>9 DEF Inv, CacheInv, StatusOf
  <2>4. now < cache[t].expires
    <3>1. now \in Nat /\ Ttl("READY") \in Nat \ {0} /\ answered[t].at \in Nat
        BY <1>6, StatusFacts DEF Inv, TypeInv
    <3>2. CASE answered[t].at = now
      <4>1. \A n \in Nat, ttl \in Nat \ {0} : n < n + ttl
          OBVIOUS
      <4>2. QED BY <2>3, <3>1, <3>2, <4>1
    <3>3. CASE now < answered[t].at + Ttl(verdict.status)
        BY <1>9, <2>3, <3>3
    <3>4. QED BY <1>6, <3>2, <3>3
  <2>5. IsFresh(t)'
      BY <1>1, <2>3, <2>4 DEF IsFresh, Cached
  <2>6. chosen'.token = t
      BY <1>3, <1>5, <2>1
  <2>7. ChosenInv'
      BY <1>1, <1>4, <1>6, <2>1, <2>2, <2>5, <2>6 DEF ChosenInv
  <2>8. SelectInv'
      BY <1>1, <2>1 DEF SelectInv
  <2>9. QED BY <1>7, <1>8, <2>7, <2>8 DEF Inv
<1>10. CASE verdict.status # "READY"
  <2>1. UNCHANGED <<chosen, stage>>
      BY <1>10 DEF Judge
  <2>2. ChosenInv'
      BY <1>3, <2>1 DEF ChosenInv
  <2>3. answered[t].reply # "mid"
      BY <1>6, <1>10, StatusFacts
  <2>4. LET head == places[Len(places) - Len(queue) + 1]
        IN  listing[head] = Head(queue) => Refused(head)
      BY <1>3, <1>5, <1>6, <2>3 DEF Refused
  <2>5. probes = Len(places) - Len(queue) + 1
      BY <1>1, <1>2 DEF Line
  <2>6. Line(places)'
      BY <1>1, <1>2, <1>3, <1>4, <2>4, <2>5, LineAdvances
  <2>7. SelectInv'
      BY <1>1, <1>3, <2>1, <2>6 DEF Inv, SelectInv
  <2>8. QED BY <1>7, <1>8, <2>2, <2>7 DEF Inv
<1>11. QED BY <1>9, <1>10

LEMMA ExhaustedKeeps ==
    ASSUME Inv, pc = "select", Exhausted, UNCHANGED accessVars
    PROVE  Inv'
<1>1. /\ stage = "probing" /\ stage' = "done" /\ probe = Absent /\ verdict = Absent
      /\ UNCHANGED <<now, listing, queue, probes, probe, cache, verdict, chosen, answered, pc, known>>
    BY DEF Exhausted, Idle, accessVars
<1>2. chosen = Absent
    BY <1>1, Seeking
<1>3. (PhaseInv /\ TokenInv /\ BookInv /\ TurnInv)'
    BY SelectKeepsAccess
<1>4. TypeInv' /\ CacheInv' /\ ProbeInv' /\ ChosenInv' /\ VerdictIsRecent'
    BY <1>1, <1>2 DEF Inv, TypeInv, CacheInv, StatusOf, ProbeInv, ChosenInv, VerdictIsRecent
<1>5. SelectInv'
    BY <1>1 DEF SelectInv
<1>6. QED BY <1>3, <1>4, <1>5 DEF Inv

LEMMA SelectCrashKeeps ==
    ASSUME Inv, pc = "select", stage = "probing", ReplyCrashes, UNCHANGED accessVars
    PROVE  Inv'
<1>1. /\ probe # Absent /\ stage' = "crashed" /\ probe' = Absent
      /\ UNCHANGED <<now, listing, queue, probes, cache, verdict, chosen, answered, pc, known>>
    BY DEF ReplyCrashes, accessVars
<1>2. chosen = Absent /\ verdict = Absent
    BY <1>1, Seeking DEF Inv, ProbeInv
<1>3. (PhaseInv /\ TokenInv /\ BookInv /\ TurnInv)'
    BY SelectKeepsAccess
<1>4. TypeInv' /\ CacheInv' /\ ProbeInv' /\ ChosenInv' /\ VerdictIsRecent'
    BY <1>1, <1>2 DEF Inv, TypeInv, CacheInv, StatusOf, ProbeInv, ChosenInv, VerdictIsRecent
<1>5. SelectInv'
    BY <1>1 DEF SelectInv
<1>6. QED BY <1>3, <1>4, <1>5 DEF Inv

\* A reply: the probe goes on with another attempt, or ends with a verdict.
LEMMA ReplyGives ==
    ASSUME Inv, NEW reply \in VenueReplies, NEW d \in Delays, Reply(reply, d), UNCHANGED <<pc, known>>
    PROVE  /\ now \in Nat /\ now' \in Nat /\ now <= now' /\ probe.token \in Tokens
           /\ TypeInv' /\ CacheInv' /\ ProbeInv' /\ VerdictIsRecent'
           /\ probe' # Absent \/ verdict' # Absent
           /\ \A u \in Tokens : u # probe.token => answered'[u] = answered[u]
<1>1. /\ probe # Absent /\ now' = Later(d)
      /\ UNCHANGED <<listing, queue, probes, chosen, stage>>
    BY DEF Reply
<1>2. /\ probe \in [token : Tokens, attempt : Nat] /\ Holder(probe.token) /\ verdict = Absent
    BY <1>1 DEF Inv, ProbeInv
<1>3. PICK t \in Tokens, a \in Nat : probe = [token |-> t, attempt |-> a]
    BY <1>2
<1>4. probe.token = t /\ probe.attempt = a
    BY <1>3
<1>5. /\ now \in 0..LastMoment /\ now' \in 0..LastMoment /\ now \in Nat /\ now' \in Nat /\ now <= now'
  <2>1. now \in 0..LastMoment
      BY DEF Inv, TypeInv
  <2>2. QED BY <1>1, <2>1, Clock
<1>6. Holder(t)'
    BY <1>1, <1>2, <1>4 DEF Holder
<1>7. /\ queue \in Seq(Markets) /\ known \in Tokens \cup {Absent}
      /\ cache \in [Tokens -> {Absent} \cup [status : Statuses, expires : Nat]]
      /\ answered \in [Tokens -> {Absent} \cup [reply : VenueReplies, at : 0..now]]
      /\ CacheInv
    BY DEF Inv, TypeInv
<1>8. answered \in [Tokens -> {Absent} \cup [reply : VenueReplies, at : 0..now']]
  <2>1. 0..now \subseteq 0..now'
      BY <1>5
  <2>2. QED BY <1>7, <2>1
<1>9. CASE Retried(reply, a)
  <2>1. /\ probe' = [probe EXCEPT !.attempt = @ + 1]
        /\ UNCHANGED <<cache, verdict, answered>>
      BY <1>4, <1>9 DEF Reply
  <2>2. probe' = [token |-> t, attempt |-> a + 1] /\ a + 1 \in Nat
      BY <1>3, <2>1
  <2>3. probe' \in [token : Tokens, attempt : Nat] /\ probe' # Absent /\ probe'.token = t
      BY <2>2, Records
  <2>4. TypeInv' /\ CacheInv' /\ VerdictIsRecent'
      BY <1>1, <1>2, <1>5, <1>7, <1>8, <2>1 DEF TypeInv, CacheInv, StatusOf, VerdictIsRecent
  <2>5. ProbeInv'
      BY <1>2, <1>6, <2>1, <2>3 DEF ProbeInv
  <2>6. QED BY <1>4, <1>5, <2>1, <2>3, <2>4, <2>5
<1>10. CASE ~ Retried(reply, a)
  <2>1. PICK status \in Statuses : status = Status(reply)
      BY StatusFacts
  <2>2. PICK expires \in Nat : expires = now' + Ttl(status)
      BY <1>5, StatusFacts
  <2>3. /\ probe' = Absent
        /\ verdict' = [token |-> t, status |-> status]
        /\ cache' = [cache EXCEPT ![t] = [status |-> status, expires |-> expires]]
        /\ answered' = [answered EXCEPT ![t] = [reply |-> reply, at |-> now']]
      BY <1>4, <1>10, <2>1, <2>2 DEF Reply
  <2>4. /\ verdict' \in [token : Tokens, status : Statuses] /\ verdict' # Absent
        /\ verdict'.token = t /\ verdict'.status = status
      BY <2>3, Records
  <2>5. /\ cache'[t] = [status |-> status, expires |-> expires]
        /\ cache' \in [Tokens -> {Absent} \cup [status : Statuses, expires : Nat]]
        /\ \A u \in Tokens : u # t => cache'[u] = cache[u]
      BY <1>7, <2>3
  <2>6. now' \in 0..now'
      BY <1>5
  <2>7. /\ answered'[t] = [reply |-> reply, at |-> now']
        /\ answered' \in [Tokens -> {Absent} \cup [reply : VenueReplies, at : 0..now']]
        /\ \A u \in Tokens : u # t => answered'[u] = answered[u]
      BY <1>8, <2>3, <2>6
  <2>8. cache'[t] # Absent /\ answered'[t] # Absent
      BY <1>5, <2>5, <2>7, Records
  <2>9. answered'[t].reply = reply /\ answered'[t].at = now'
        /\ cache'[t].status = status /\ cache'[t].expires = expires
      BY <2>5, <2>7
  <2>10. TypeInv'
      BY <1>1, <1>5, <1>7, <2>5, <2>7 DEF TypeInv
  <2>11. CacheInv'
      BY <1>7, <2>1, <2>2, <2>5, <2>7, <2>8, <2>9 DEF CacheInv, StatusOf
  <2>12. VerdictIsRecent'
      BY <2>1, <2>4, <2>8, <2>9 DEF VerdictIsRecent
  <2>13. ProbeInv'
      BY <1>6, <2>3, <2>4, <2>8 DEF ProbeInv
  <2>14. QED BY <1>4, <1>5, <2>4, <2>7, <2>10, <2>11, <2>12, <2>13
<1>11. QED BY <1>9, <1>10

\* The places of a line are different places.
LEMMA PlacesDiffer ==
    ASSUME NEW places, Line(places), listing \in Seq(Markets),
           NEW p \in DOMAIN places, NEW q \in DOMAIN places, p < q
    PROVE  places[p] # places[q]
<1>1. places[p] \in DOMAIN listing /\ places[q] \in DOMAIN listing
      /\ <<places[p], places[q]>> \in Above(listing)
    BY DEF Line
<1>2. <<places[p], places[p]>> \notin Above(listing)
    BY <1>1, MarketsSorted DEF Sorts
<1>3. QED BY <1>1, <1>2

LEMMA SelectReplyKeeps ==
    ASSUME Inv, pc = "select", stage = "probing", NEW reply \in VenueReplies, NEW d \in Delays,
           Reply(reply, d), UNCHANGED accessVars
    PROVE  Inv'
<1>1. /\ probe # Absent /\ UNCHANGED <<listing, queue, probes, chosen, stage, pc, known>>
    BY DEF Reply, accessVars
<1>2. PICK places : Line(places)
    BY <1>1, InLine
<1>3. /\ queue \in Seq(Markets) /\ queue # <<>> /\ listing \in Listings /\ listing \in Seq(Markets)
      /\ chosen = Absent /\ probe.token = Head(queue).token
    BY <1>1, InLine, Seeking
<1>4. /\ now \in Nat /\ now' \in Nat /\ now <= now' /\ probe.token \in Tokens
      /\ TypeInv' /\ CacheInv' /\ ProbeInv' /\ VerdictIsRecent'
      /\ probe' # Absent \/ verdict' # Absent
      /\ \A u \in Tokens : u # probe.token => answered'[u] = answered[u]
    BY <1>1, ReplyGives
<1>5. (PhaseInv /\ TokenInv /\ BookInv /\ TurnInv)'
    BY SelectKeepsAccess
<1>6. ChosenInv'
    BY <1>1, <1>3 DEF ChosenInv
<1>7. Line(places)'
  <2> DEFINE done == Len(places) - Len(queue)
  <2>1. /\ places \in Seq(DOMAIN listing) /\ Len(queue) <= Len(places)
        /\ Len(places) \in Nat /\ Len(queue) \in Nat /\ Len(queue) > 0
        /\ DOMAIN places = 1..Len(places)
      BY <1>2, <1>3, EmptySeq DEF Line
  <2>2. Head(queue) = queue[1] /\ 1 \in 1..Len(queue)
      BY <1>3, <2>1
  <2>3. done + 1 \in DOMAIN places /\ done \in Nat
        /\ \A p \in 1..done : p \in DOMAIN places /\ p < done + 1
    <3>1. \A total, len \in Nat : len > 0 /\ len <= total =>
            /\ total - len + 1 \in 1..total /\ total - len \in Nat
            /\ \A p \in 1..(total - len) : p \in 1..total /\ p < total - len + 1
        OBVIOUS
    <3>2. QED BY <2>1, <3>1
  <2>4. probe.token = listing[places[done + 1]].token
      BY <1>2, <1>3, <2>2 DEF Line
  <2>5. ASSUME NEW p \in 1..done
        PROVE  Refused(places[p])'
    <3>1. Refused(places[p])
        BY <1>2 DEF Line
    <3>2. places[p] # places[done + 1]
        BY <1>2, <1>3, <2>3, PlacesDiffer
    <3>3. /\ places[p] \in Promising /\ places[done + 1] \in Promising
        BY <1>2, <2>3 DEF Line
    <3>4. listing[places[p]].token # Absent => listing[places[p]].token # probe.token
        BY <1>3, <2>4, <3>2, <3>3, TokensAreDistinct DEF Promising
    <3>5. listing[places[p]].token # Absent => listing[places[p]].token \in Tokens
      <4>1. listing[places[p]] \in Markets
          BY <1>3, <3>3 DEF Promising
      <4>2. QED BY <4>1 DEF Markets
    <3>6. QED BY <1>1, <1>4, <3>1, <3>4, <3>5 DEF Refused
  <2>6. \A i \in Promising :
            listing[i].ends >= now' + MinExpiry => \E p \in DOMAIN places : places[p] = i
    <3>1. \A i \in Promising : listing[i].ends \in Nat
        BY DEF Promising, Promised
    <3>2. \A e, n, m, x \in Nat : n <= m /\ e >= m + x => e >= n + x
        OBVIOUS
    <3>3. \A i \in Promising : listing[i].ends >= now' + MinExpiry => listing[i].ends >= now + MinExpiry
        BY <1>4, <3>1, <3>2, ReadinessAssumption
    <3>4. QED BY <1>2, <3>3 DEF Line
  <2>7. Promising' = Promising
      BY <1>1 DEF Promising
  <2>8. probes' = done + 1
      BY <1>1, <1>2 DEF Line
  <2>9. QED BY <1>1, <1>2, <1>4, <2>5, <2>6, <2>7, <2>8 DEF Line
<1>8. SelectInv'
    BY <1>1, <1>3, <1>7 DEF Inv, SelectInv
<1>9. QED BY <1>4, <1>5, <1>6, <1>8 DEF Inv

\* A reply on the known-ready token leaves the selected market alone.
LEMMA KnownReplyKeeps ==
    ASSUME Inv, pc = "known", NEW reply \in VenueReplies, NEW d \in Delays, Reply(reply, d),
           UNCHANGED accessVars
    PROVE  Inv'
<1>1. /\ probe # Absent /\ UNCHANGED <<listing, queue, probes, chosen, stage, pc, known>>
    BY DEF Reply, accessVars
<1>2. probe.token = known /\ stage = "done"
    BY <1>1 DEF Inv, ProbeInv, Holder, SelectInv
<1>3. /\ TypeInv' /\ CacheInv' /\ ProbeInv' /\ VerdictIsRecent'
      /\ probe' # Absent \/ verdict' # Absent
      /\ \A u \in Tokens : u # probe.token => answered'[u] = answered[u]
    BY <1>1, ReplyGives
<1>4. ChosenInv'
    BY <1>1, <1>2, <1>3 DEF Inv, ChosenInv
<1>5. PhaseInv'
    BY <1>1, <1>3 DEF Inv, PhaseInv, accessVars
<1>6. TokenInv' /\ BookInv' /\ TurnInv'
    BY <1>1 DEF Inv, PhaseInv, TokenInv, BookInv, TurnInv, BestBid, BestAsk, accessVars
<1>7. SelectInv'
    BY <1>1, <1>2 DEF Inv, SelectInv
<1>8. QED BY <1>3, <1>4, <1>5, <1>6, <1>7 DEF Inv

\* When nothing is probed any more, what the selection left stays as it is.
LEMMA SearchOver ==
    ASSUME Inv, stage # "probing", probe = Absent, now \in Nat, now' \in 0..LastMoment, now <= now',
           UNCHANGED <<listing, queue, probes, probe, cache, chosen, stage, answered, known>>,
           verdict' = Absent, pc' # "select", pc' = "known" => stage = "done"
    PROVE  TypeInv' /\ CacheInv' /\ ProbeInv' /\ ChosenInv' /\ VerdictIsRecent' /\ SelectInv'
<1>1. TypeInv'
  <2>1. 0..now \subseteq 0..now'
      OBVIOUS
  <2>2. answered \in [Tokens -> {Absent} \cup [reply : VenueReplies, at : 0..now']]
      BY <2>1 DEF Inv, TypeInv
  <2>3. QED BY <2>2 DEF Inv, TypeInv
<1>2. CacheInv'
    BY DEF Inv, CacheInv, StatusOf
<1>3. ProbeInv' /\ VerdictIsRecent'
    BY DEF ProbeInv, VerdictIsRecent
<1>4. ChosenInv'
    BY DEF Inv, ChosenInv
<1>5. SelectInv'
    BY DEF Inv, SelectInv
<1>6. QED BY <1>1, <1>2, <1>3, <1>4, <1>5

\* Nothing is probed but by the selection and for the known-ready market.
LEMMA Quiet ==
    ASSUME Inv, pc \notin {"select", "known"} \/ (pc = "select" /\ stage # "probing")
    PROVE  stage # "probing" /\ probe = Absent /\ verdict = Absent
<1>1. stage # "probing"
    BY DEF Inv, SelectInv
<1>2. QED BY <1>1 DEF Inv, ProbeInv, Holder

LEMMA Now == Inv => now \in Nat /\ now \in 0..LastMoment /\ now <= now
<1>1. \A n \in 0..LastMoment : n \in Nat /\ n <= n
    BY ReadinessAssumption
<1>2. QED BY <1>1 DEF Inv, TypeInv

LEMMA SelectedKeeps ==
    ASSUME Inv, Selected
    PROVE  Inv'
<1>1. /\ pc = "select" /\ stage \in {"done", "crashed"}
      /\ UNCHANGED <<program, known, rules, closes, turnAt, price, vbook, truth>>
      /\ UNCHANGED <<now, listing, queue, probes, chosen, stage, answered>>
      /\ pc' \in {"ended", "turn", "known"}
      /\ result' \in {result, "FAIL", "NO MARKET"}
      /\ pc' # "ended" => result' = result
      /\ pc' = "turn" => program # "verify"
      /\ pc' = "known" => program = "verify" /\ stage = "done"
      /\ pc' # "known" \/ known = Absent => UNCHANGED <<probe, cache, verdict>>
      /\ pc' = "known" /\ known # Absent => BeginProbe(known)
  <2>1. /\ pc = "select" /\ stage \in {"done", "crashed"} /\ program \in {"service", "verify"}
        /\ UNCHANGED <<program, known, rules, closes, turnAt, price, vbook, truth>>
      BY DEF Selected, Inv, PhaseInv
  <2>2. CASE stage = "crashed"
      BY <2>1, <2>2 DEF Selected, Exit, clobVars
  <2>3. CASE stage = "done" /\ program = "service" /\ chosen = Absent
      BY <2>1, <2>3 DEF Selected, Exit, clobVars
  <2>4. CASE stage = "done" /\ program = "service" /\ chosen # Absent
      BY <2>1, <2>4 DEF Selected, clobVars
  <2>5. CASE stage = "done" /\ program = "verify"
      BY <2>1, <2>5 DEF Selected, clobVars
  <2>6. QED BY <2>1, <2>2, <2>3, <2>4, <2>5
<1>2. probe = Absent /\ verdict = Absent /\ stage # "probing"
    BY <1>1, Quiet
<1>3. /\ closes = Absent /\ price = Absent /\ vbook.reason = "none" /\ result = "none"
      /\ turnAt \in Nat
    BY <1>1 DEF Inv, PhaseInv
<1>4. /\ result' \in {"none", "FAIL", "NO MARKET"}
      /\ pc' # "ended" => result' = "none"
    BY <1>1, <1>3
<1>5. BookInv' /\ TurnInv'
    BY <1>1, <1>3, <1>4 DEF BookInv, TurnInv
<1>6. TokenInv'
    BY <1>1, <1>4 DEF TokenInv
<1>7. CASE pc' # "known" \/ known = Absent
  <2>1. PhaseInv'
      BY <1>1, <1>3, <1>4, <1>7 DEF PhaseInv
  <2>2. TypeInv' /\ CacheInv' /\ ProbeInv' /\ ChosenInv' /\ VerdictIsRecent' /\ SelectInv'
      BY <1>1, <1>2, <1>4, <1>7, Now, SearchOver
  <2>3. QED BY <1>5, <1>6, <2>1, <2>2 DEF Inv
<1>8. CASE pc' = "known" /\ known # Absent
  <2>1. PICK t \in Tokens : t = known
      BY <1>8 DEF Inv, TypeInv
  <2>2. BeginProbe(t)
      BY <1>1, <1>8, <2>1
  <2>3. /\ cache' \in [Tokens -> {Absent} \cup [status : Statuses, expires : Nat]]
        /\ CacheInv' /\ VerdictIsRecent'
        /\ \/ /\ ~ Cached(t) /\ probe' = [token |-> t, attempt |-> 0] /\ verdict' = Absent
              /\ probe' # Absent /\ probe' \in [token : Tokens, attempt : Nat]
           \/ /\ Cached(t) /\ probe' = Absent /\ verdict' # Absent
              /\ verdict' \in [token : Tokens, status : Statuses] /\ verdict'.token = t
              /\ cache'[t] # Absent
      BY <1>1, <1>2, <2>2, BeginProbeGives
  <2>4. TypeInv'
      BY <1>1, <2>3 DEF Inv, TypeInv
  <2>5. Holder(t)'
      BY <1>1, <1>8, <2>1 DEF Holder
  <2>6. ProbeInv'
    <3>1. CASE /\ probe' = [token |-> t, attempt |-> 0] /\ verdict' = Absent
               /\ probe' # Absent /\ probe' \in [token : Tokens, attempt : Nat]
      <4>1. probe'.token = t
          BY <3>1
      <4>2. QED BY <2>5, <3>1, <4>1 DEF ProbeInv
    <3>2. CASE /\ probe' = Absent /\ verdict' # Absent
               /\ verdict' \in [token : Tokens, status : Statuses] /\ verdict'.token = t
               /\ cache'[t] # Absent
        BY <2>5, <3>2 DEF ProbeInv
    <3>3. QED BY <2>3, <3>1, <3>2
  <2>7. ChosenInv'
    <3>1. chosen # Absent /\ known = chosen.token => Cached(t)
        BY <1>1, <2>1 DEF Inv, ChosenInv, IsFresh
    <3>2. chosen # Absent /\ known = chosen.token => probe' = Absent
        BY <2>3, <3>1
    <3>3. QED BY <1>1, <1>8, <3>2 DEF Inv, ChosenInv
  <2>8. PhaseInv'
      BY <1>1, <1>3, <1>4, <1>8, <2>3 DEF PhaseInv
  <2>9. SelectInv'
      BY <1>1, <1>4, <1>8 DEF SelectInv
  <2>10. QED BY <1>5, <1>6, <2>3, <2>4, <2>6, <2>7, <2>8, <2>9 DEF Inv
<1>9. QED BY <1>7, <1>8

LEMMA KnownCrashKeeps ==
    ASSUME Inv, pc = "known", ReplyCrashes, Exit("FAIL"),
           UNCHANGED <<program, known, rules, closes, token, attempt, turnAt, price, vbook, truth>>
    PROVE  Inv'
<1>1. /\ probe # Absent /\ probe' = Absent /\ stage' = "crashed" /\ pc' = "ended" /\ result' = "FAIL"
      /\ UNCHANGED <<now, listing, queue, probes, cache, verdict, chosen, answered>>
    BY DEF ReplyCrashes, Exit
<1>2. verdict = Absent
    BY <1>1 DEF Inv, ProbeInv
<1>3. TypeInv' /\ CacheInv' /\ ProbeInv' /\ ChosenInv' /\ VerdictIsRecent' /\ SelectInv'
    BY <1>1, <1>2
       DEF Inv, TypeInv, CacheInv, StatusOf, ProbeInv, ChosenInv, VerdictIsRecent, SelectInv
<1>4. PhaseInv' /\ TokenInv'
    BY <1>1 DEF Inv, PhaseInv, TokenInv
<1>5. BookInv' /\ TurnInv'
    BY <1>1 DEF Inv, PhaseInv, BookInv, TurnInv, BestBid, BestAsk
<1>6. QED BY <1>3, <1>4, <1>5 DEF Inv

LEMMA ChooseKeeps ==
    ASSUME Inv, Choose
    PROVE  Inv'
<1>1. /\ pc = "known" /\ probe = Absent /\ verdict' = Absent
      /\ UNCHANGED <<now, listing, queue, probes, probe, cache, chosen, stage, answered,
                     program, known, rules, closes, turnAt, price, vbook, truth>>
    BY DEF Choose
<1>2. /\ program = "verify" /\ stage = "done" /\ closes = Absent /\ price = Absent
      /\ vbook.reason = "none" /\ result = "none" /\ turnAt \in Nat
      /\ known # Absent => verdict # Absent
    BY <1>1 DEF Inv, PhaseInv, SelectInv
<1>3. /\ pc' \in {"book", "ended"} /\ (pc' = "book" => result' = "none")
      /\ (pc' = "ended" => result' = "FAIL")
      /\ \/ pc' = "ended"
         \/ KnownIsReady /\ token' = known
         \/ ~ KnownIsReady /\ chosen # Absent /\ token' = chosen.token
  <2>1. CASE KnownIsReady
      BY <1>2, <2>1 DEF Choose, FetchBookOf
  <2>2. CASE ~ KnownIsReady /\ chosen # Absent
      BY <1>2, <2>2 DEF Choose, FetchBookOf
  <2>3. CASE ~ KnownIsReady /\ chosen = Absent
      BY <1>2, <2>3 DEF Choose, Exit
  <2>4. QED BY <2>1, <2>2, <2>3
<1>4. verdict # Absent =>
        /\ verdict.token = known /\ known \in Tokens /\ answered[known] # Absent
        /\ verdict.status = "READY" <=> answered[known].reply = "mid"
  <2>1. SUFFICES ASSUME verdict # Absent
                 PROVE  /\ verdict.token = known /\ known \in Tokens /\ answered[known] # Absent
                        /\ verdict.status = "READY" <=> answered[known].reply = "mid"
      OBVIOUS
  <2>2. verdict \in [token : Tokens, status : Statuses] /\ verdict.token = known
      BY <1>1, <2>1 DEF Inv, ProbeInv, Holder
  <2>3. known \in Tokens
      BY <2>2
  <2>4. answered[known] # Absent /\ verdict.status = Status(answered[known].reply)
      BY <2>1, <2>2 DEF Inv, VerdictIsRecent
  <2>5. answered[known] \in [reply : VenueReplies, at : 0..now]
      BY <2>3, <2>4 DEF Inv, TypeInv
  <2>6. answered[known].reply \in VenueReplies
      BY <2>5
  <2>7. QED BY <2>2, <2>3, <2>4, <2>6, StatusFacts
<1>5. chosen # Absent =>
        chosen.token \in Tokens /\ answered[chosen.token] # Absent /\ answered[chosen.token].reply = "mid"
    BY DEF Inv, ChosenInv
<1>6. TokenInv'
    BY <1>1, <1>2, <1>3, <1>4, <1>5 DEF TokenInv, KnownIsReady
<1>7. TypeInv' /\ CacheInv' /\ ProbeInv' /\ ChosenInv' /\ VerdictIsRecent' /\ SelectInv'
    BY <1>1, <1>2, <1>3, Now, SearchOver
<1>8. PhaseInv' /\ BookInv' /\ TurnInv'
    BY <1>1, <1>2, <1>3 DEF PhaseInv, BookInv, TurnInv
<1>9. QED BY <1>6, <1>7, <1>8 DEF Inv

\* Time passes for those who no longer probe.
LEMMA Waited ==
    ASSUME Inv, pc \notin {"select", "known"}, NEW d \in Delays, now' = Later(d),
           UNCHANGED <<listing, queue, probes, probe, cache, verdict, chosen, stage, answered, known>>,
           pc' \notin {"select", "known"}
    PROVE  TypeInv' /\ CacheInv' /\ ProbeInv' /\ ChosenInv' /\ VerdictIsRecent' /\ SelectInv'
<1>1. stage # "probing" /\ probe = Absent /\ verdict = Absent
    BY Quiet
<1>2. now \in Nat /\ now' \in 0..LastMoment /\ now <= now'
    BY Now, Clock
<1>3. QED BY <1>1, <1>2, SearchOver

LEMMA MetadataKeeps ==
    ASSUME Inv, NEW meta \in Metas \cup {Absent}, NEW d \in Delays, Metadata(meta, d)
    PROVE  Inv'
<1>1. /\ pc = "metadata" /\ now' = Later(d)
      /\ UNCHANGED <<listing, queue, probes, probe, cache, verdict, chosen, stage, answered,
                     program, known, token, attempt, turnAt, price, vbook, truth>>
      /\ pc' \in {"turn", "ended"} /\ (pc' = "turn" => result' = result)
      /\ (pc' = "ended" => result' = "FAIL" /\ closes' = closes)
      /\ (pc' = "turn" => meta # Absent /\ closes' = meta.closes)
    BY DEF Metadata, Exit
<1>2. /\ program # "verify" /\ closes = Absent /\ price = Absent /\ vbook.reason = "none"
      /\ result = "none" /\ turnAt \in Nat
    BY <1>1 DEF Inv, PhaseInv
<1>3. closes' \in Nat \cup {Absent}
    BY <1>1, <1>2, AccessAssumption
<1>4. TypeInv' /\ CacheInv' /\ ProbeInv' /\ ChosenInv' /\ VerdictIsRecent' /\ SelectInv'
    BY <1>1, Waited
<1>5. PhaseInv' /\ TokenInv' /\ BookInv' /\ TurnInv'
    BY <1>1, <1>2, <1>3 DEF PhaseInv, TokenInv, BookInv, TurnInv
<1>6. QED BY <1>4, <1>5 DEF Inv

LEMMA TurnKeeps ==
    ASSUME Inv, NEW replies \in Feed!Replies, NEW d \in Delays, Turn(replies, d)
    PROVE  Inv'
<1>1. /\ pc = "turn" /\ turnAt' = now /\ now' = Later(d) /\ truth' = Absent
      /\ UNCHANGED <<listing, queue, probes, probe, cache, verdict, chosen, stage, answered,
                     program, known, rules, closes, token>>
      /\ pc' \in {"turn", "book", "ended"} /\ (pc' # "ended" => result' = result)
      /\ (pc' = "ended" => result' = "FAIL")
      /\ vbook' \in {NoTrade("none"), NoTrade("MARKET_CLOSED")}
      /\ price' \in {Absent, Feed!OfficialPrice(rules.symbol, replies)}
      /\ (pc' = "book" => ~ ClosedAt(now))
  <2>1. CASE Feed!FeedRaises(rules.symbol, replies)
      BY <2>1 DEF Turn, Exit
  <2>2. CASE ~ Feed!FeedRaises(rules.symbol, replies)
      BY <2>2 DEF Turn
  <2>3. QED BY <2>1, <2>2
<1>2. /\ program # "verify" /\ result = "none" /\ closes \in Nat \cup {Absent} /\ now \in Nat
    BY <1>1, Now DEF Inv, PhaseInv
<1>3. vbook'.reason \in {"none", "MARKET_CLOSED"}
    BY <1>1 DEF NoTrade
<1>4. pc' = "book" => (closes # Absent => now < closes)
  <2>1. \A c \in Nat : now < c - 0 => now < c
      BY <1>2
  <2>2. QED BY <1>1, <1>2, <2>1 DEF ClosedAt, Feed!IsOpen
<1>5. price' # Absent =>
        /\ price'.product.base = rules.symbol.base
        /\ {price'.product.quote, rules.symbol.quote} \subseteq {"USD", "USDT"}
    BY <1>1, PriceOfSymbol
<1>6. TypeInv' /\ CacheInv' /\ ProbeInv' /\ ChosenInv' /\ VerdictIsRecent' /\ SelectInv'
    BY <1>1, Waited
<1>7. PhaseInv' /\ TokenInv' /\ BookInv'
    BY <1>1, <1>2, <1>3 DEF PhaseInv, TokenInv, BookInv
<1>8. TurnInv'
    BY <1>1, <1>3, <1>4, <1>5 DEF TurnInv
<1>9. QED BY <1>6, <1>7, <1>8 DEF Inv

LEMMA LoopEndsKeeps ==
    ASSUME Inv, LoopEnds
    PROVE  Inv'
<1>1. /\ pc = "turn" /\ pc' = "ended" /\ result' = "DONE"
      /\ UNCHANGED <<now, listing, queue, probes, probe, cache, verdict, chosen, stage, answered>>
      /\ UNCHANGED <<program, known, rules, closes, token, attempt, turnAt, price, vbook, truth>>
    BY DEF LoopEnds, Exit, clobVars
<1>2. stage # "probing" /\ probe = Absent /\ verdict = Absent
    BY <1>1, Quiet
<1>3. TypeInv' /\ CacheInv' /\ ProbeInv' /\ ChosenInv' /\ VerdictIsRecent' /\ SelectInv'
    BY <1>1, <1>2, Now, SearchOver
<1>4. PhaseInv' /\ TokenInv' /\ BookInv' /\ TurnInv'
    BY <1>1 DEF Inv, PhaseInv, TokenInv, BookInv, TurnInv, BestBid, BestAsk
<1>5. QED BY <1>3, <1>4 DEF Inv

\* What a book says of the answer it was parsed from.
BookSays(v, book) ==
    /\ v.reason = "OK" =>
        /\ book # Absent
        /\ v.bid = BestBid(book.book) /\ v.ask = BestAsk(book.book)
    /\ program # "kalshi" /\ IsUsable(v) => book # Absent \/ v.reason = "NO_BBO"

LEMMA FetchedBook ==
    ASSUME NEW d \in Delays, Fetch(d), Inv
    PROVE  \/ UNCHANGED <<pc, vbook, truth, result>>
           \/ \E v, book : BookIs(v, book) /\ BookSays(v, book)
<1>1. \/ UNCHANGED <<pc, vbook, truth, result>>
      \/ BookIs(NoTrade("BOOK_UNAVAILABLE"), Absent)
      \/ \E book \in TrueBooks, encoding \in KalshiEncodings :
            BookIs(Parsed(book, encoding), [book |-> book, encoding |-> encoding])
      \/ \E v \in ParsedBad : BookIs(v, Absent)
    BY DEF Fetch
<1>2. BookSays(NoTrade("BOOK_UNAVAILABLE"), Absent)
  <2>1. NoTrade("BOOK_UNAVAILABLE").reason = "BOOK_UNAVAILABLE"
      BY DEF NoTrade
  <2>2. QED BY <2>1 DEF BookSays, IsUsable
<1>3. ASSUME NEW book \in TrueBooks, NEW encoding \in KalshiEncodings
      PROVE  BookSays(Parsed(book, encoding), [book |-> book, encoding |-> encoding])
  <2>1. [book |-> book, encoding |-> encoding] # Absent
    <3>1. [book |-> book, encoding |-> encoding] \in [book : TrueBooks, encoding : KalshiEncodings]
        OBVIOUS
    <3>2. QED BY <3>1, BooksAssumption
  <2>2. [book |-> book, encoding |-> encoding].book = book
      OBVIOUS
  <2>3. CASE program = "kalshi"
    <3>1. Parsed(book, encoding) = KalshiBook(KalshiAnswer(book, encoding))
        BY <2>3 DEF Parsed
    <3>2. QED BY <2>1, <2>2, <3>1, KalshiReadsQuotes DEF BookSays
  <2>4. CASE program # "kalshi"
    <3>1. Parsed(book, encoding) = PolymarketBook(PolymarketAnswer(book))
        BY <2>4 DEF Parsed
    <3>2. QED BY <2>1, <2>2, <3>1, PolymarketReadsQuotes DEF BookSays
  <2>5. QED BY <2>3, <2>4
<1>4. ASSUME NEW v \in ParsedBad
      PROVE  BookSays(v, Absent)
  <2>1. CASE program = "kalshi"
      BY <2>1, BadAnswerRefused DEF ParsedBad, BookSays
  <2>2. CASE program # "kalshi"
    <3>1. v.reason \in {"PARSE_AMBIGUOUS", "NO_BBO"}
        BY <2>2, BadBookRefused DEF ParsedBad
    <3>2. QED BY <3>1 DEF BookSays, IsUsable
  <2>3. QED BY <2>1, <2>2
<1>5. QED BY <1>1, <1>2, <1>3, <1>4

LEMMA FetchKeeps ==
    ASSUME Inv, NEW d \in Delays, Fetch(d)
    PROVE  Inv'
<1>1. /\ pc = "book" /\ now' = Later(d)
      /\ UNCHANGED <<listing, queue, probes, probe, cache, verdict, chosen, stage, answered,
                     program, known, rules, closes, token, turnAt, price>>
    BY DEF Fetch
<1>2. result = "none"
    BY <1>1 DEF Inv, PhaseInv
<1>3. CASE UNCHANGED <<pc, vbook, truth, result>>
  <2>1. TypeInv' /\ CacheInv' /\ ProbeInv' /\ ChosenInv' /\ VerdictIsRecent' /\ SelectInv'
      BY <1>1, <1>3, Waited
  <2>2. PhaseInv' /\ TokenInv' /\ BookInv' /\ TurnInv'
      BY <1>1, <1>3 DEF Inv, PhaseInv, TokenInv, BookInv, TurnInv, BestBid, BestAsk
  <2>3. QED BY <2>1, <2>2 DEF Inv
<1>4. ASSUME NEW v, NEW book, BookIs(v, book), BookSays(v, book)
      PROVE  Inv'
  <2>1. /\ vbook' = v /\ truth' = book
        /\ \/ /\ program = "verify" /\ pc' = "ended"
              /\ result' = IF IsUsable(v) THEN "PASS" ELSE "FAIL"
           \/ program # "verify" /\ pc' = "turn" /\ result' = result
    <3>1. CASE program = "verify"
        BY <1>4, <3>1 DEF BookIs, Exit
    <3>2. CASE program # "verify"
        BY <1>4, <3>2 DEF BookIs
    <3>3. QED BY <3>1, <3>2
  <2>2. TypeInv' /\ CacheInv' /\ ProbeInv' /\ ChosenInv' /\ VerdictIsRecent' /\ SelectInv'
      BY <1>1, <2>1, Waited
  <2>3. PhaseInv' /\ TokenInv' /\ TurnInv'
      BY <1>1, <1>2, <2>1 DEF Inv, PhaseInv, TokenInv, TurnInv
  <2>4. BookInv'
      BY <1>2, <1>4, <2>1 DEF BookSays, BookInv, BestBid, BestAsk
  <2>5. QED BY <2>2, <2>3, <2>4 DEF Inv
<1>5. QED BY <1>3, <1>4, FetchedBook

LEMMA NextKeeps == Inv /\ [Next]_vars => Inv'
<1> SUFFICES ASSUME Inv, [Next]_vars PROVE Inv'
    OBVIOUS
<1>1. CASE Select
  <2>1. pc = "select" /\ SelectionStep /\ UNCHANGED accessVars
      BY <1>1 DEF Select
  <2>2. ASSUME NEW markets \in Listings, NEW d \in Delays, Discover(markets, d)
        PROVE  Inv'
      BY <2>1, <2>2, DiscoverKeeps
  <2>3. CASE Consider
      BY <2>1, <2>3, ConsiderKeeps
  <2>4. CASE Judge
      BY <2>1, <2>4, JudgeKeeps
  <2>5. CASE Exhausted
      BY <2>1, <2>5, ExhaustedKeeps
  <2>6. ASSUME stage = "probing", NEW reply \in VenueReplies, NEW d \in Delays, Reply(reply, d)
        PROVE  Inv'
      BY <2>1, <2>6, SelectReplyKeeps
  <2>7. CASE stage = "probing" /\ ReplyCrashes
      BY <2>1, <2>7, SelectCrashKeeps
  <2>8. QED BY <2>1, <2>2, <2>3, <2>4, <2>5, <2>6, <2>7 DEF SelectionStep
<1>2. CASE Selected
    BY <1>2, SelectedKeeps
<1>3. CASE KnownAsked
  <2>1. ASSUME NEW reply \in VenueReplies, NEW d \in Delays, Reply(reply, d), UNCHANGED accessVars
        PROVE  Inv'
      BY <1>3, <2>1, KnownReplyKeeps DEF KnownAsked
  <2>2. QED BY <1>3, <2>1, KnownCrashKeeps DEF KnownAsked
<1>4. CASE Choose
    BY <1>4, ChooseKeeps
<1>5. ASSUME NEW meta \in Metas \cup {Absent}, NEW d \in Delays, Metadata(meta, d)
      PROVE  Inv'
    BY <1>5, MetadataKeeps
<1>6. ASSUME NEW replies \in Feed!Replies, NEW d \in Delays, Turn(replies, d)
      PROVE  Inv'
    BY <1>6, TurnKeeps
<1>7. CASE LoopEnds
    BY <1>7, LoopEndsKeeps
<1>8. ASSUME NEW d \in Delays, Fetch(d)
      PROVE  Inv'
    BY <1>8, FetchKeeps
<1>9. CASE Ended \/ UNCHANGED vars
  <2>1. UNCHANGED vars
      BY <1>9 DEF Ended
  <2>2. /\ UNCHANGED <<now, listing, queue, probes, probe, cache, verdict, chosen, stage, answered>>
        /\ UNCHANGED <<program, pc, known, rules, closes, token, turnAt, price, vbook, truth, result>>
      BY <2>1 DEF vars, clobVars, accessVars
  <2>3. TypeInv' /\ CacheInv' /\ ProbeInv' /\ ChosenInv' /\ VerdictIsRecent'
      BY <2>2 DEF Inv, TypeInv, CacheInv, StatusOf, ProbeInv, Holder, ChosenInv, IsFresh, Cached,
                  VerdictIsRecent
  <2>4. PhaseInv' /\ TokenInv' /\ BookInv' /\ TurnInv'
      BY <2>2 DEF Inv, PhaseInv, TokenInv, BookInv, TurnInv, BestBid, BestAsk
  <2>5. SelectInv'
      BY <2>2 DEF Inv, SelectInv, Line, Refused, Promising
  <2>6. QED BY <2>3, <2>4, <2>5 DEF Inv
<1>10. QED
    BY <1>1, <1>2, <1>3, <1>4, <1>5, <1>6, <1>7, <1>8, <1>9 DEF Next

------------------------------------------------------------------------------
(* The theorems. *)

LEMMA Invariance == Spec => []Inv
<1>1. QED BY InitInv, NextKeeps, PTL DEF Spec

\* A verdict on a market is the venue's last word on it, and has not outlived
\* its kind, whether it comes from probe_clob_readiness or from _probe_cache.
THEOREM VerdictsAreRecent == Spec => []VerdictIsRecent
<1>1. Inv => VerdictIsRecent
    BY DEF Inv
<1>2. QED BY <1>1, Invariance, PTL

\* The quotes that parse_kalshi_book and parse_polymarket_book accept are the
\* best of the book the venue encoded, in whatever unit and on whatever sides.
THEOREM QuotesAreTrue == Spec => []AcceptedBooksAreTrue
<1>1. Inv => AcceptedBooksAreTrue
    BY DEF Inv, BookInv, AcceptedBooksAreTrue
<1>2. QED BY <1>1, Invariance, PTL

\* verify_shadow_pipeline.py ends with PASS only for a market the venue called
\* ready last, with a book that made sense of it.
THEOREM PassesAreEarned == Spec => []PassIsEarned
<1>1. Inv => PassIsEarned
    BY DEF Inv, PhaseInv, TokenInv, BookInv, PassIsEarned
<1>2. QED BY <1>1, Invariance, PTL

\* A turn that has a price and a book has the price of the asset of the rules,
\* and began before the market closed.
THEOREM InputsBelongTogether == Spec => []InputsAreFounded
<1>1. Inv => InputsAreFounded
    BY DEF Inv, TurnInv, InputsAreFounded
<1>2. QED BY <1>1, Invariance, PTL

\* The market that is selected: whatever ranks above it was refused.
LEMMA JudgedBest ==
    ASSUME Inv, Judge, stage' = "done"
    PROVE  /\ chosen' # Absent /\ answered[chosen'.token].reply = "mid"
           /\ chosen'.open /\ chosen'.ends >= MinExpiry
           /\ \A i \in Promising :
                listing[i].rank > chosen'.rank /\ listing[i].ends >= now + MinExpiry => Refused(i)
<1>1. /\ stage = "probing" /\ verdict # Absent /\ verdict.status = "READY" /\ chosen' = Head(queue)
    BY DEF Judge
<1>2. PICK places : Line(places)
    BY <1>1, InLine
<1>3. /\ queue \in Seq(Markets) /\ queue # <<>> /\ Head(queue) \in Markets /\ listing \in Seq(Markets)
      /\ verdict.token = Head(queue).token /\ verdict.token \in Tokens
    BY <1>1, InLine, Seeking
<1>4. chosen' # Absent
    BY <1>1, <1>3, Records
<1>5. answered[chosen'.token].reply = "mid"
  <2>1. answered[verdict.token] \in [reply : VenueReplies, at : 0..now]
      BY <1>1, <1>3 DEF Inv, TypeInv, VerdictIsRecent
  <2>2. answered[verdict.token].reply \in VenueReplies
      BY <2>1
  <2>3. Status(answered[verdict.token].reply) = "READY"
      BY <1>1 DEF Inv, VerdictIsRecent
  <2>4. QED BY <1>1, <1>3, <2>2, <2>3, StatusFacts
<1> DEFINE done == Len(places) - Len(queue)
           head == places[done + 1]
<1>6. /\ Len(places) \in Nat /\ DOMAIN places = 1..Len(places)
      /\ Len(queue) \in 1..Len(places)
      /\ Head(queue) = queue[1]
    BY <1>2, <1>3, EmptySeq DEF Line
<1>7. done + 1 \in DOMAIN places /\ 1 \in 1..Len(queue)
      /\ \A p \in DOMAIN places : p \in 1..done \/ p = done + 1 \/ done + 1 < p
    BY <1>6
<1>8. chosen' = listing[head] /\ head \in Promising /\ listing[head].ends >= MinExpiry
    BY <1>1, <1>2, <1>6, <1>7 DEF Line
<1>9. chosen'.open
    BY <1>8 DEF Promising, Promised
<1>10. ASSUME NEW i \in Promising, listing[i].rank > chosen'.rank, listing[i].ends >= now + MinExpiry
       PROVE  Refused(i)
  <2>1. PICK p \in DOMAIN places : places[p] = i
      BY <1>2, <1>10 DEF Line
  <2>2. /\ i \in DOMAIN listing /\ head \in DOMAIN listing
        /\ listing[i].rank \in Int /\ listing[head].rank \in Int
      BY <1>3, <1>8, MarketsSorted DEF Promising
  <2>3. CASE p \in 1..done
      BY <1>2, <2>1, <2>3 DEF Line
  <2>4. CASE p = done + 1
      BY <1>8, <1>10, <2>1, <2>2, <2>4
  <2>5. CASE done + 1 < p
    <3>1. <<head, i>> \in Above(listing)
        BY <1>2, <1>7, <2>1, <2>5 DEF Line
    <3>2. listing[head].rank > listing[i].rank \/ listing[head].rank = listing[i].rank
        BY <1>3, <2>2, <3>1, MarketsSorted
    <3>3. QED BY <1>8, <1>10, <2>2, <3>2
  <2>6. QED BY <1>7, <2>3, <2>4, <2>5
<1>11. QED BY <1>4, <1>5, <1>8, <1>9, <1>10

\* What waits behind others has at least as many better ones.
LEMMA BetterOnes ==
    ASSUME NEW places, Line(places), listing \in Seq(Markets),
           NEW q \in DOMAIN places, NEW n \in Nat, n < q
    PROVE  n <= Cardinality(Better(places[q])) /\ Cardinality(Better(places[q])) \in Nat
<1> DEFINE better == Better(places[q])
           f == [p \in 1..n |-> places[p]]
<1>1. /\ DOMAIN places = 1..Len(places) /\ Len(places) \in Nat
    BY DEF Line
<1>2. \A p \in 1..n : p \in DOMAIN places /\ p < q
    BY <1>1
<1>3. \A p \in 1..n : places[p] \in better
    BY <1>2 DEF Line, Better
<1>4. \A p, r \in 1..n : places[p] = places[r] => p = r
  <2>1. ASSUME NEW p \in 1..n, NEW r \in 1..n, p < r
        PROVE  places[p] # places[r]
      BY <1>2, <2>1, PlacesDiffer
  <2>2. \A p, r \in 1..n : p < r \/ r < p \/ p = r
      OBVIOUS
  <2>3. QED BY <2>1, <2>2
<1>5. IsFiniteSet(better)
  <2>1. better \in SUBSET (DOMAIN listing)
      BY DEF Better, Promising
  <2>2. QED BY <2>1, MarketsSorted, FS_Subset
<1> HIDE DEF better
<1>6. f \in Injection(1..n, better)
    BY <1>3, <1>4 DEF Injection, IsInjective
<1>7. Cardinality(1..n) <= Cardinality(better)
    BY <1>5, <1>6, FS_Injection
<1>8. Cardinality(1..n) = n
    BY Interval
<1>9. QED BY <1>5, <1>7, <1>8, FS_CardinalityType DEF better

LEMMA ExhaustedForGood ==
    ASSUME Inv, Exhausted, NEW i \in Promising, listing[i].ends >= now + MinExpiry,
           Cardinality(Better(i)) < MaxProbes
    PROVE  Refused(i)
<1>1. /\ stage = "probing" /\ probe = Absent /\ verdict = Absent
      /\ queue = <<>> \/ probes = MaxProbes
    BY DEF Exhausted, Idle
<1>2. PICK places : Line(places)
    BY <1>1, InLine
<1>3. queue \in Seq(Markets) /\ listing \in Seq(Markets)
    BY <1>1, InLine
<1> DEFINE done == Len(places) - Len(queue)
<1>4. /\ Len(places) \in Nat /\ DOMAIN places = 1..Len(places)
      /\ Len(queue) \in 0..Len(places) /\ (queue = <<>> => Len(queue) = 0)
    BY <1>2, <1>3 DEF Line
<1>5. done \in Nat /\ probes = done /\ (queue = <<>> => done = Len(places))
    BY <1>1, <1>2, <1>4 DEF Line
<1>6. PICK q \in DOMAIN places : places[q] = i
    BY <1>2 DEF Line
<1> HIDE DEF done
<1>7. q \in Nat /\ ~ (Len(places) < q) /\ (q \in 1..done \/ done < q)
  <2>1. \A total \in Nat : \A p \in 1..total : p \in Nat /\ ~ (total < p)
      OBVIOUS
  <2>2. \A n, p \in Nat : p >= 1 => p \in 1..n \/ n < p
      OBVIOUS
  <2>3. q \in 1..Len(places) /\ q >= 1
      BY <1>4
  <2>4. QED BY <1>4, <1>5, <2>1, <2>2, <2>3
<1>8. CASE q \in 1..done
    BY <1>2, <1>6, <1>8 DEF Line, done
<1>9. CASE done < q
  <2>1. done = MaxProbes
      BY <1>1, <1>5, <1>7, <1>9
  <2>2. done <= Cardinality(Better(i)) /\ Cardinality(Better(i)) \in Nat
      BY <1>2, <1>3, <1>5, <1>6, <1>9, BetterOnes
  <2>3. ~ (Cardinality(Better(i)) < done)
      BY <1>5, <2>2
  <2>4. QED BY <2>1, <2>3
<1>10. QED BY <1>7, <1>8, <1>9

\* select_best_clob_candidate ends with the best market that is ready, and with
\* none only when each of the first max_probes was refused by the venue.
THEOREM TheBestIsSelected == Spec => SelectionIsBest
<1> DEFINE Best ==
        stage = "probing" /\ stage' = "done" =>
            IF chosen' # Absent
            THEN /\ answered[chosen'.token].reply = "mid"
                 /\ chosen'.open /\ chosen'.ends >= MinExpiry
                 /\ \A i \in Promising :
                        listing[i].rank > chosen'.rank /\ listing[i].ends >= now + MinExpiry => Refused(i)
            ELSE \A i \in Promising :
                    listing[i].ends >= now + MinExpiry /\ Cardinality(Better(i)) < MaxProbes => Refused(i)
<1>1. Inv /\ [Next]_vars => [Best]_clobVars
  <2>1. SUFFICES ASSUME Inv, [Next]_vars, stage = "probing", stage' = "done"
                 PROVE  Best
      OBVIOUS
  <2>2. pc = "select" /\ chosen = Absent
      BY <2>1, Seeking
  <2>3. Judge \/ Exhausted
    <3>1. stage' # stage
        BY <2>1
    <3>2. Select
        BY <2>1, <2>2, <3>1 DEF Next, Selected, KnownAsked, Choose, Metadata, Turn, LoopEnds, Fetch,
                                Ended, vars, clobVars
    <3>3. QED BY <2>1, <3>1, <3>2 DEF Select, SelectionStep, Discover, Consider, Reply, ReplyCrashes
  <2>4. CASE Judge
      BY <2>1, <2>4, JudgedBest
  <2>5. CASE Exhausted
    <3>1. chosen' = Absent
        BY <2>2, <2>5 DEF Exhausted
    <3>2. QED BY <2>1, <2>5, <3>1, ExhaustedForGood
  <2>6. QED BY <2>3, <2>4, <2>5
<1>2. Spec => [][Best]_clobVars
    BY <1>1, Invariance, PTL DEF Spec
<1>3. QED BY <1>2 DEF SelectionIsBest

------------------------------------------------------------------------------
(* Books that are deep and tight enough. *)

LEMMA Reprice ==
    ASSUME NEW level \in Numbers, NEW p \in Int
    PROVE  /\ [level EXCEPT !.price = p] = [price |-> p, qty |-> level.qty]
           /\ [level EXCEPT !.price = p] \in Numbers
<1>1. level = [price |-> level.price, qty |-> level.qty] /\ level.qty \in Nat
    BY DEF Numbers
<1>2. [level EXCEPT !.price = p] = [price |-> p, qty |-> level.qty]
    BY <1>1
<1>3. [price |-> p, qty |-> level.qty] \in Numbers
    BY <1>1 DEF Numbers
<1>4. QED BY <1>2, <1>3

\* The levels of a book again, from either side, whatever their unit was.
LEMMA LevelsCameThrough ==
    ASSUME NEW levels \in Seq(Cents), NEW encoding, encoding.scale = 1 \/ encoding.scale = 100
    PROVE  LET scale == encoding.scale IN
           /\ Normalised(Sent(levels, encoding, FALSE), scale) = InTenThousandths(levels)
           /\ Normalised(Complement(Sent(levels, encoding, TRUE), scale), scale)
                = InTenThousandths(levels)
<1> DEFINE scale == encoding.scale
           own == Sent(levels, encoding, FALSE)
           other == Sent(levels, encoding, TRUE)
           mirror == Complement(other, scale)
           factor == 100 \div scale
<1>1. /\ scale \in {1, 100}
      /\ scale = 1 => factor = 100
      /\ scale = 100 => factor = 1
    BY 100 \div 1 = 100, 100 \div 100 = 1
<1>2. ASSUME NEW p \in Int
      PROVE  /\ scale * p \in Int /\ scale * (100 - p) \in Int
             /\ scale * One - scale * (100 - p) \in Int
             /\ (scale * p) * factor = 100 * p
             /\ (scale * One - scale * (100 - p)) * factor = 100 * p
             /\ 100 * p \in Int
  <2>1. CASE scale = 1
      BY <1>1, <2>1 DEF One
  <2>2. CASE scale = 100
      BY <1>1, <2>2 DEF One
  <2>3. QED BY <1>1, <2>1, <2>2
<1> HIDE DEF factor
<1>3. \A i \in DOMAIN levels : levels[i] \in Numbers /\ levels[i].price \in Int
    BY CentsAreNumbers, LevelsHavePrices DEF Numbers
<1>4. /\ own = [i \in DOMAIN levels |-> [levels[i] EXCEPT !.price = scale * levels[i].price]]
      /\ other = [i \in DOMAIN levels |->
                    [levels[i] EXCEPT !.price = scale * (100 - levels[i].price)]]
    BY DEF Sent
<1>5. /\ mirror = [i \in DOMAIN other |-> [other[i] EXCEPT !.price = scale * One - other[i].price]]
      /\ Normalised(own, scale) =
            [i \in DOMAIN own |-> [own[i] EXCEPT !.price = own[i].price * factor]]
      /\ Normalised(mirror, scale) =
            [i \in DOMAIN mirror |-> [mirror[i] EXCEPT !.price = mirror[i].price * factor]]
      /\ InTenThousandths(levels) =
            [i \in DOMAIN levels |-> [levels[i] EXCEPT !.price = 100 * levels[i].price]]
    BY DEF Complement, Normalised, InTenThousandths, factor
<1> HIDE DEF scale, own, other, mirror
<1>6. DOMAIN own = DOMAIN levels /\ DOMAIN other = DOMAIN levels /\ DOMAIN mirror = DOMAIN levels
    BY <1>4, <1>5
<1>7. ASSUME NEW i \in DOMAIN levels
      PROVE  /\ [own[i] EXCEPT !.price = own[i].price * factor]
                    = [levels[i] EXCEPT !.price = 100 * levels[i].price]
             /\ [mirror[i] EXCEPT !.price = mirror[i].price * factor]
                    = [levels[i] EXCEPT !.price = 100 * levels[i].price]
  <2> DEFINE p == levels[i].price
             q == levels[i].qty
             sent == scale * p
             mirrored == scale * (100 - p)
             back == scale * One - mirrored
  <2>1. p \in Int /\ levels[i] \in Numbers
      BY <1>3
  <2>2. /\ sent \in Int /\ mirrored \in Int /\ back \in Int /\ 100 * p \in Int
        /\ sent * factor = 100 * p /\ back * factor = 100 * p
      BY <1>2, <2>1
  <2>3. own[i] = [levels[i] EXCEPT !.price = sent]
      BY <1>4
  <2>4. other[i] = [levels[i] EXCEPT !.price = mirrored]
      BY <1>4
  <2>5. mirror[i] = [other[i] EXCEPT !.price = scale * One - other[i].price]
      BY <1>5, <1>6
  <2>6. back = scale * One - mirrored
      OBVIOUS
  <2> HIDE DEF p, q, sent, mirrored, back
  <2>7. [levels[i] EXCEPT !.price = 100 * p] = [price |-> 100 * p, qty |-> q]
      BY <2>1, <2>2, Reprice DEF q
  <2>8. [own[i] EXCEPT !.price = own[i].price * factor] = [price |-> 100 * p, qty |-> q]
    <3>1. own[i] = [price |-> sent, qty |-> q] /\ own[i] \in Numbers
        BY <2>1, <2>2, <2>3, Reprice DEF q
    <3>2. own[i].price * factor = 100 * p /\ own[i].qty = q
        BY <2>2, <3>1
    <3>3. QED BY <2>2, <3>1, <3>2, Reprice
  <2>9. [mirror[i] EXCEPT !.price = mirror[i].price * factor] = [price |-> 100 * p, qty |-> q]
    <3>1. other[i] = [price |-> mirrored, qty |-> q] /\ other[i] \in Numbers
        BY <2>1, <2>2, <2>4, Reprice DEF q
    <3>2. mirror[i] = [other[i] EXCEPT !.price = back] /\ other[i].qty = q
        BY <2>5, <2>6, <3>1
    <3>3. mirror[i] = [price |-> back, qty |-> q] /\ mirror[i] \in Numbers
        BY <2>2, <3>1, <3>2, Reprice
    <3>4. mirror[i].price * factor = 100 * p /\ mirror[i].qty = q
        BY <2>2, <3>3
    <3>5. QED BY <2>2, <3>3, <3>4, Reprice
  <2>10. QED BY <2>7, <2>8, <2>9 DEF p
<1>8. Normalised(own, scale) = InTenThousandths(levels)
    BY <1>5, <1>6, <1>7
<1>9. Normalised(mirror, scale) = InTenThousandths(levels)
  <2>1. Normalised(mirror, scale) =
            [i \in DOMAIN levels |-> [mirror[i] EXCEPT !.price = mirror[i].price * factor]]
      BY <1>5, <1>6
  <2>2. QED BY <1>5, <1>7, <2>1
<1>10. QED BY <1>8, <1>9 DEF scale, own, other, mirror

LEMMA InTenThousandthsOf ==
    ASSUME NEW levels \in Seq(Cents)
    PROVE  /\ InTenThousandths(levels) \in Seq(Numbers)
           /\ InTenThousandths(levels) = <<>> <=> levels = <<>>
           /\ SamePrices(InTenThousandths(levels), levels)
           /\ Normalised(levels, 1) = InTenThousandths(levels)
<1> DEFINE new == [i \in DOMAIN levels |-> 100 * levels[i].price]
<1>1. levels \in Seq(Numbers)
    BY CentsAreNumbers
<1>2. \A i \in DOMAIN levels : levels[i].price \in Int
    BY <1>1, LevelsHavePrices DEF Numbers
<1>3. new \in [DOMAIN levels -> Int]
    BY <1>2
<1>4. InTenThousandths(levels) = [i \in DOMAIN levels |-> [levels[i] EXCEPT !.price = new[i]]]
    BY DEF InTenThousandths
<1>5. \A i \in DOMAIN levels : new[i] = 100 * levels[i].price
    OBVIOUS
<1>6. Normalised(levels, 1) = InTenThousandths(levels)
  <2>1. \A i \in DOMAIN levels : levels[i].price * (100 \div 1) = 100 * levels[i].price
      BY <1>2, 100 \div 1 = 100
  <2>2. QED BY <2>1 DEF Normalised, InTenThousandths
<1> HIDE DEF new
<1>7. /\ InTenThousandths(levels) \in Seq(Numbers)
      /\ InTenThousandths(levels) = <<>> <=> levels = <<>>
      /\ Prices(InTenThousandths(levels)) = {new[i] : i \in DOMAIN levels}
    BY <1>1, <1>3, <1>4, Repriced
<1>8. {new[i] : i \in DOMAIN levels} = {100 * p : p \in Prices(levels)}
    BY <1>5 DEF Prices
<1>9. QED BY <1>6, <1>7, <1>8 DEF SamePrices

\* The two halves of a book, one after the other.
LEMMA BothInTenThousandths ==
    ASSUME NEW s \in Seq(Cents), NEW t \in Seq(Cents)
    PROVE  InTenThousandths(s) \o InTenThousandths(t) = InTenThousandths(s \o t)
<1> DEFINE H(u) == InTenThousandths(u)
           whole == s \o t
<1>1. /\ DOMAIN s = 1..Len(s) /\ DOMAIN t = 1..Len(t) /\ Len(s) \in Nat /\ Len(t) \in Nat
      /\ whole \in Seq(Cents) /\ DOMAIN whole = 1..(Len(s) + Len(t))
      /\ Len(whole) = Len(s) + Len(t)
    OBVIOUS
<1>2. \A u : DOMAIN H(u) = DOMAIN u /\ \A i \in DOMAIN u : H(u)[i] = [u[i] EXCEPT !.price = 100 * @]
    BY DEF InTenThousandths
<1>3. \A u \in Seq(Cents) : H(u) \in Seq(Numbers)
    BY InTenThousandthsOf
<1> HIDE DEF H
<1>4. /\ H(s) \in Seq(Numbers) /\ H(t) \in Seq(Numbers) /\ H(whole) \in Seq(Numbers)
      /\ Len(H(s)) = Len(s) /\ Len(H(t)) = Len(t) /\ Len(H(whole)) = Len(s) + Len(t)
  <2>1. ASSUME NEW u \in Seq(Cents) PROVE H(u) \in Seq(Numbers) /\ Len(H(u)) = Len(u)
    <3>1. DOMAIN u = 1..Len(u) /\ Len(u) \in Nat /\ DOMAIN H(u) = DOMAIN u
        BY <1>2
    <3>2. QED BY <1>3, <3>1
  <2>2. QED BY <1>1, <2>1
<1> DEFINE a == H(s)
           b == H(t)
<1>5. a \in Seq(Numbers) /\ b \in Seq(Numbers) /\ Len(a) = Len(s) /\ Len(b) = Len(t)
    BY <1>4
<1>6. /\ \A i \in 1..Len(s) : a[i] = [s[i] EXCEPT !.price = 100 * @]
      /\ \A i \in 1..Len(t) : b[i] = [t[i] EXCEPT !.price = 100 * @]
      /\ \A i \in 1..(Len(s) + Len(t)) : H(whole)[i] = [whole[i] EXCEPT !.price = 100 * @]
    BY <1>1, <1>2
<1> HIDE DEF a, b
<1>7. /\ a \o b \in Seq(Numbers) /\ Len(a \o b) = Len(s) + Len(t)
      /\ \A i \in 1..(Len(s) + Len(t)) :
            (a \o b)[i] = IF i <= Len(s) THEN a[i] ELSE b[i - Len(s)]
  <2>1. /\ a \o b \in Seq(Numbers) /\ Len(a \o b) = Len(a) + Len(b)
        /\ \A i \in 1 .. Len(a) + Len(b) :
              (a \o b)[i] = IF i <= Len(a) THEN a[i] ELSE b[i - Len(a)]
      BY <1>5, ConcatProperties
  <2>2. QED BY <1>5, <2>1, Zenon
<1>8. \A i \in 1..(Len(s) + Len(t)) : whole[i] = IF i <= Len(s) THEN s[i] ELSE t[i - Len(s)]
    BY <1>1, ConcatProperties
<1>9. ASSUME NEW i \in 1..(Len(s) + Len(t))
      PROVE  (a \o b)[i] = H(whole)[i]
  <2>1. CASE i <= Len(s)
    <3>1. i \in 1..Len(s)
        BY <1>1, <2>1
    <3>2. (a \o b)[i] = a[i] /\ whole[i] = s[i]
        BY <1>7, <1>8, <2>1
    <3> HIDE DEF whole
    <3>3. QED BY <1>6, <3>1, <3>2
  <2>2. CASE ~ (i <= Len(s))
    <3>1. i - Len(s) \in 1..Len(t)
        BY <1>1, <2>2
    <3>2. (a \o b)[i] = b[i - Len(s)] /\ whole[i] = t[i - Len(s)]
        BY <1>7, <1>8, <2>2
    <3> HIDE DEF whole
    <3>3. QED BY <1>6, <3>1, <3>2
  <2>3. QED BY <2>1, <2>2
<1> HIDE DEF whole
<1>10. a \o b = H(whole)
    BY <1>4, <1>7, <1>9, SeqEqual
<1>11. QED BY <1>10 DEF a, b, H, whole

\* The best quotes of a good book pass every test of the two parsers.
LEMMA GoodIsJudgedOK ==
    ASSUME NEW book \in TrueBooks, IsGood(book), NEW deep, deep = TRUE
    PROVE  Judged(InTenThousandths(book.bids), InTenThousandths(book.asks), deep).reason = "OK"
<1> DEFINE bids == InTenThousandths(book.bids)
           asks == InTenThousandths(book.asks)
<1>1. /\ book.bids \in Seq(Cents) /\ book.asks \in Seq(Cents)
      /\ Prices(book.bids) \subseteq 1..99 /\ Prices(book.asks) \subseteq 1..99
      /\ book.bids # <<>> /\ book.asks # <<>>
    BY TrueBook DEF IsGood
<1>2. /\ bids # <<>> /\ asks # <<>>
      /\ Prices(bids) = {100 * p : p \in Prices(book.bids)}
      /\ Prices(asks) = {100 * p : p \in Prices(book.asks)}
    BY <1>1, InTenThousandthsOf DEF SamePrices
<1> HIDE DEF bids, asks
<1>3. Prices(book.bids) # {} /\ Prices(book.asks) # {}
    BY <1>1, CentsAreNumbers
<1>4. /\ Max(Prices(bids)) = BestBid(book) /\ Min(Prices(asks)) = BestAsk(book)
      /\ Max(Prices(book.bids)) \in 1..99 /\ Min(Prices(book.asks)) \in 1..99
    BY <1>1, <1>2, <1>3, BestInTenThousandths DEF BestBid, BestAsk
<1>5. BestBid(book) \in Int /\ BestAsk(book) \in Int
    BY <1>4 DEF BestBid, BestAsk
<1>6. BestAsk(book) - BestBid(book) \in 1..SpreadMax /\ SpreadMax \in Nat
    BY AccessAssumption DEF IsGood
<1>7. ~ (BestBid(book) >= BestAsk(book)) /\ ~ (BestAsk(book) - BestBid(book) > SpreadMax)
    BY <1>5, <1>6
<1>8. Judged(bids, asks, deep) = Quotes(BestBid(book), BestAsk(book))
    BY <1>2, <1>4, <1>7 DEF Judged
<1>9. QED BY <1>8 DEF Quotes, bids, asks

LEMMA LevelsAreMarks ==
    ASSUME NEW levels \in Seq(Numbers), Prices(levels) \subseteq Nat
    PROVE  levels \in Seq([price : Nat, qty : Nat]) /\ levels # Absent /\ levels # Malformed
<1>1. DOMAIN levels = 1..Len(levels) /\ Len(levels) \in Nat
    OBVIOUS
<1>2. \A i \in DOMAIN levels : levels[i] \in [price : Nat, qty : Nat]
  <2>1. ASSUME NEW i \in DOMAIN levels PROVE levels[i] \in [price : Nat, qty : Nat]
    <3>1. levels[i] \in Numbers
        BY LevelsHavePrices
    <3>2. levels[i].price \in Nat
        BY DEF Prices
    <3>3. QED BY <3>1, <3>2 DEF Numbers
  <2>2. QED BY <2>1
<1>3. levels \in Seq([price : Nat, qty : Nat])
  <2> DEFINE S == [price : Nat, qty : Nat]
  <2>1. levels = [i \in 1..Len(levels) |-> levels[i]]
      BY <1>1
  <2>2. \A i \in 1..Len(levels) : levels[i] \in S
      BY <1>1, <1>2
  <2> HIDE DEF S
  <2>3. levels \in [1..Len(levels) -> S]
      BY <2>1, <2>2
  <2>4. levels \in Seq(S)
      BY <1>1, <2>3
  <2>5. QED BY <2>4 DEF S
<1>4. QED BY <1>3, MarksAssumption

LEMMA PolymarketTakesGood ==
    ASSUME NEW book \in TrueBooks, IsGood(book), program # "kalshi"
    PROVE  PolymarketBook(PolymarketAnswer(book)).reason = "OK"
<1> DEFINE answer == PolymarketAnswer(book)
           bids == Normalised(OrEmpty(answer.bids), 1)
           asks == Normalised(OrEmpty(answer.asks), 1)
           deep == Quantity(bids \o asks) >= DepthQtyMin
<1>1. /\ book.bids \in Seq(Cents) /\ book.asks \in Seq(Cents)
      /\ Prices(book.bids) \subseteq 1..99 /\ Prices(book.asks) \subseteq 1..99
    BY TrueBook
<1>2. /\ book.bids \in Seq([price : Nat, qty : Nat]) /\ book.bids # Absent /\ book.bids # Malformed
      /\ book.asks \in Seq([price : Nat, qty : Nat]) /\ book.asks # Absent /\ book.asks # Malformed
  <2>1. 1..99 \subseteq Nat
      OBVIOUS
  <2>2. QED BY <1>1, <2>1, CentsAreNumbers, LevelsAreMarks
<1>3. /\ answer = [named |-> TRUE, bids |-> book.bids, asks |-> book.asks]
      /\ answer.named /\ answer.bids = book.bids /\ answer.asks = book.asks
    BY DEF PolymarketAnswer
<1>4. answer # Malformed
  <2> DEFINE L == Seq([price : Nat, qty : Nat])
  <2>1. Malformed \notin [named : BOOLEAN, bids : L, asks : L]
      BY MarksAssumption
  <2>2. book.bids \in L /\ book.asks \in L
      BY <1>2
  <2> HIDE DEF L
  <2>3. answer \in [named : BOOLEAN, bids : L, asks : L]
      BY <1>3, <2>2
  <2>4. QED BY <2>1, <2>3
<1>5. bids = InTenThousandths(book.bids) /\ asks = InTenThousandths(book.asks)
    BY <1>1, <1>2, <1>3, InTenThousandthsOf DEF OrEmpty
<1>6. bids \o asks = InTenThousandths(book.bids \o book.asks)
    BY <1>1, <1>5, BothInTenThousandths
<1>7. ~ \E p \in Prices(bids \o asks) : p > 100 * One
  <2>1. Prices(bids \o asks) = Prices(bids) \cup Prices(asks)
      BY <1>1, <1>5, InTenThousandthsOf, PricesOfBoth
  <2>2. /\ Prices(bids) = {100 * p : p \in Prices(book.bids)}
        /\ Prices(asks) = {100 * p : p \in Prices(book.asks)}
      BY <1>1, <1>5, InTenThousandthsOf DEF SamePrices
  <2> HIDE DEF bids, asks
  <2>3. \A p \in 1..99 : ~ (100 * p > 100 * One)
      BY DEF One
  <2>4. \A x \in Prices(bids) \cup Prices(asks) : \E p \in 1..99 : x = 100 * p
      BY <1>1, <2>2
  <2>5. QED BY <2>1, <2>3, <2>4
<1>8. deep
  <2>1. Quantity(InTenThousandths(book.bids \o book.asks)) = Quantity(book.bids \o book.asks)
    <3> DEFINE u == book.bids \o book.asks
    <3>1. u \in Seq(Cents)
        BY <1>1
    <3>2. \A i \in DOMAIN u : u[i] \in Numbers /\ u[i].price \in Int
        BY <3>1, CentsAreNumbers, LevelsHavePrices DEF Numbers
    <3>3. \A i \in DOMAIN u : [u[i] EXCEPT !.price = 100 * u[i].price].qty = u[i].qty
        BY <3>2 DEF Numbers
    <3> HIDE DEF u
    <3>4. /\ DOMAIN InTenThousandths(u) = DOMAIN u
          /\ \A i \in DOMAIN u : InTenThousandths(u)[i] = [u[i] EXCEPT !.price = 100 * u[i].price]
        BY DEF InTenThousandths
    <3>5. [i \in DOMAIN InTenThousandths(u) |-> InTenThousandths(u)[i].qty]
            = [i \in DOMAIN u |-> u[i].qty]
        BY <3>3, <3>4
    <3>6. QED BY <3>5 DEF Quantity, u
  <2>2. Quantity(book.bids \o book.asks) >= DepthQtyMin
      BY DEF IsGood
  <2>3. QED BY <1>6, <2>1, <2>2
<1> HIDE DEF answer, bids, asks, deep
<1>9. PolymarketBook(answer) = Judged(bids, asks, deep)
  <2>1. Malformed \notin {answer.bids, answer.asks} /\ {answer.bids, answer.asks} # {Absent}
      BY <1>2, <1>3
  <2>2. QED BY <1>3, <1>4, <1>7, <2>1 DEF PolymarketBook, bids, asks, deep
<1>10. deep = TRUE
    BY <1>8 DEF deep
<1>11. QED BY <1>5, <1>9, <1>10, GoodIsJudgedOK DEF answer

\* A side that is sent and not empty arrives as it was sent, and no other does.
LEMMA KalshiSideIs ==
    ASSUME NEW book, NEW encoding, encoding.place \in {"flat", "nested", "both"},
           NEW name \in KalshiSides, SentSide(book, encoding, name) \notin {Absent, <<>>}
    PROVE  KalshiSide(KalshiAnswer(book, encoding), name) =
                IF name \in encoding.sides THEN SentSide(book, encoding, name) ELSE Absent
<1> DEFINE sides ==
        [n \in KalshiSides |->
            IF n \notin encoding.sides THEN Absent
            ELSE IF n \in {"yesBid", "noAsk"}
                 THEN Sent(book.bids, encoding, n = "noAsk")
                 ELSE Sent(book.asks, encoding, n = "noBid")]
           none == [n \in KalshiSides |-> Absent]
           empty == [n \in KalshiSides |-> <<>>]
           answer == KalshiAnswer(book, encoding)
<1>1. /\ sides[name] = IF name \in encoding.sides THEN SentSide(book, encoding, name) ELSE Absent
      /\ none[name] = Absent /\ empty[name] = <<>>
    BY DEF SentSide
<1>2. answer = CASE encoding.place = "flat"   -> [flat |-> sides, nested |-> none]
                 [] encoding.place = "nested" -> [flat |-> none, nested |-> sides]
                 [] encoding.place = "both"   -> [flat |-> empty, nested |-> sides]
    BY DEF KalshiAnswer
<1> HIDE DEF answer, sides, none, empty
<1>3. \/ answer.flat[name] = sides[name] /\ answer.nested[name] = Absent
      \/ answer.flat[name] \in {Absent, <<>>} /\ answer.nested[name] = sides[name]
    BY <1>1, <1>2
<1>4. KalshiSide(answer, name) = sides[name]
    BY <1>1, <1>3 DEF KalshiSide
<1>5. QED BY <1>1, <1>4 DEF answer

\* The encoding of a good book is an answer of the venue, well formed.
LEMMA KalshiAnswerIsNoMark ==
    ASSUME NEW book, NEW encoding, encoding.place \in {"flat", "nested", "both"},
           \A name \in KalshiSides :
                SentSide(book, encoding, name) \in Seq([price : Nat, qty : Nat])
    PROVE  KalshiAnswer(book, encoding) # Malformed
<1> DEFINE L == Seq([price : Nat, qty : Nat])
           S == [KalshiSides -> L \cup {Absent}]
           sides ==
        [n \in KalshiSides |->
            IF n \notin encoding.sides THEN Absent
            ELSE IF n \in {"yesBid", "noAsk"}
                 THEN Sent(book.bids, encoding, n = "noAsk")
                 ELSE Sent(book.asks, encoding, n = "noBid")]
           none == [n \in KalshiSides |-> Absent]
           empty == [n \in KalshiSides |-> <<>>]
<1>1. Malformed \notin [flat : S, nested : S]
    BY MarksAssumption
<1>2. <<>> \in L
    OBVIOUS
<1>3. \A n \in KalshiSides : SentSide(book, encoding, n) \in L
    OBVIOUS
<1> HIDE DEF L
<1>4. sides \in S /\ none \in S /\ empty \in S
  <2>1. \A n \in KalshiSides : sides[n] \in L \cup {Absent}
      BY <1>3 DEF SentSide
  <2>2. QED BY <1>2, <2>1
<1>5. KalshiAnswer(book, encoding) =
            CASE encoding.place = "flat"   -> [flat |-> sides, nested |-> none]
              [] encoding.place = "nested" -> [flat |-> none, nested |-> sides]
              [] encoding.place = "both"   -> [flat |-> empty, nested |-> sides]
    BY DEF KalshiAnswer
<1> HIDE DEF S, sides, none, empty
<1>6. KalshiAnswer(book, encoding) \in [flat : S, nested : S]
    BY <1>4, <1>5
<1>7. QED BY <1>1, <1>6

\* The unit is detected for what it is when the deciding prices show it.
LEMMA ScaleOfCents ==
    ASSUME NEW prices, prices # {}, \A p \in prices : p \in Nat /\ p <= 99
    PROVE  Scale(prices) = 1
<1>1. \A p \in prices : ~ (p > One) /\ ~ (p > 100 * One)
    BY DEF One
<1>2. QED BY <1>1 DEF Scale

LEMMA ScaleOfFractions ==
    ASSUME NEW prices, prices # {}, \A p \in prices : p \in Nat /\ p > 100 /\ p <= 9900
    PROVE  Scale(prices) = 100
<1>1. \A p \in prices : p > One /\ ~ (p <= One) /\ ~ (p > 100 * One)
    BY DEF One
<1>2. QED BY <1>1 DEF Scale

\* What is sent of a good book under one of the four names.
LEMMA SentOfGood ==
    ASSUME NEW book \in TrueBooks, IsGood(book), NEW encoding, encoding.scale \in {1, 100},
           NEW name \in KalshiSides
    PROVE  LET sent == SentSide(book, encoding, name)
           IN  /\ sent \in Seq(Numbers) /\ sent # <<>> /\ sent # Absent /\ sent # Malformed
               /\ sent \in Seq([price : Nat, qty : Nat])
               /\ Prices(sent) \subseteq Nat /\ Prices(sent) # {}
               /\ \A x \in Prices(sent) : x <= encoding.scale * 99
<1> DEFINE levels == IF name \in {"yesBid", "noAsk"} THEN book.bids ELSE book.asks
           mirrored == name \in {"noBid", "noAsk"}
           sent == SentSide(book, encoding, name)
           scale == encoding.scale
<1>1. /\ levels \in Seq(Cents) /\ Prices(levels) \subseteq 1..99 /\ levels # <<>>
      /\ mirrored \in BOOLEAN
  <2>1. /\ book.bids \in Seq(Cents) /\ Prices(book.bids) \subseteq 1..99 /\ book.bids # <<>>
        /\ book.asks \in Seq(Cents) /\ Prices(book.asks) \subseteq 1..99 /\ book.asks # <<>>
    <3>1. book.bids # <<>> /\ book.asks # <<>>
        BY DEF IsGood
    <3>2. /\ book.bids \in Seq(Cents) /\ Prices(book.bids) \subseteq 1..99
          /\ book.asks \in Seq(Cents) /\ Prices(book.asks) \subseteq 1..99
        BY TrueBook
    <3>3. QED BY <3>1, <3>2
  <2>2. levels = book.bids \/ levels = book.asks
      OBVIOUS
  <2>3. mirrored \in BOOLEAN
      OBVIOUS
  <2> HIDE DEF levels, mirrored
  <2>4. CASE levels = book.bids
      BY <2>1, <2>3, <2>4
  <2>5. CASE levels = book.asks
      BY <2>1, <2>3, <2>5
  <2>6. QED BY <2>2, <2>4, <2>5
<1>2. sent = Sent(levels, encoding, mirrored)
    BY DEF SentSide, KalshiSides
<1> HIDE DEF levels, mirrored, sent
<1>3. /\ sent \in Seq(Numbers) /\ sent # <<>>
      /\ Prices(sent) = {SentPrice(p, encoding, mirrored) : p \in Prices(levels)}
    BY <1>1, <1>2, SentPrices
<1>4. ASSUME NEW p \in 1..99
      PROVE  SentPrice(p, encoding, mirrored) \in Nat /\ SentPrice(p, encoding, mirrored) <= scale * 99
  <2>1. CASE scale = 1
      BY <2>1 DEF SentPrice
  <2>2. CASE scale = 100
      BY <2>2 DEF SentPrice
  <2>3. QED BY <2>1, <2>2
<1>5. Prices(sent) \subseteq Nat /\ \A x \in Prices(sent) : x <= scale * 99
    BY <1>1, <1>3, <1>4
<1>6. Prices(sent) # {}
    BY <1>3, LevelsHavePrices
<1>7. sent \in Seq([price : Nat, qty : Nat]) /\ sent # Absent /\ sent # Malformed
    BY <1>3, <1>5, LevelsAreMarks
<1>8. QED BY <1>3, <1>5, <1>6, <1>7 DEF sent

LEMMA SentPricesOfGood ==
    ASSUME NEW book \in TrueBooks, NEW encoding, encoding.scale \in {1, 100},
           NEW name \in KalshiSides, NEW x \in Prices(SentSide(book, encoding, name))
    PROVE  \E p \in Prices(IF name \in {"yesBid", "noAsk"} THEN book.bids ELSE book.asks) :
                x = encoding.scale * (IF name \in {"yesBid", "yesAsk"} THEN p ELSE 100 - p)
<1>1. book.bids \in Seq(Cents) /\ book.asks \in Seq(Cents)
    BY TrueBook
<1>2. ASSUME NEW half \in Seq(Cents), NEW mirrored \in BOOLEAN,
             SentSide(book, encoding, name) = Sent(half, encoding, mirrored)
      PROVE  \E p \in Prices(half) : x = encoding.scale * (IF mirrored THEN 100 - p ELSE p)
  <2>1. Prices(SentSide(book, encoding, name)) =
            {SentPrice(p, encoding, mirrored) : p \in Prices(half)}
      BY <1>2, SentPrices
  <2>2. QED BY <2>1 DEF SentPrice
<1>3. CASE name = "yesBid"
  <2>1. SentSide(book, encoding, name) = Sent(book.bids, encoding, FALSE)
      BY <1>3 DEF SentSide
  <2>2. \E p \in Prices(book.bids) : x = encoding.scale * p
      BY <1>1, <1>2, <2>1
  <2>3. QED BY <1>3, <2>2
<1>4. CASE name = "noAsk"
  <2>1. SentSide(book, encoding, name) = Sent(book.bids, encoding, TRUE)
      BY <1>4 DEF SentSide
  <2>2. \E p \in Prices(book.bids) : x = encoding.scale * (100 - p)
      BY <1>1, <1>2, <2>1
  <2>3. QED BY <1>4, <2>2
<1>5. CASE name = "yesAsk"
  <2>1. SentSide(book, encoding, name) = Sent(book.asks, encoding, FALSE)
      BY <1>5 DEF SentSide
  <2>2. \E p \in Prices(book.asks) : x = encoding.scale * p
      BY <1>1, <1>2, <2>1
  <2>3. QED BY <1>5, <2>2
<1>6. CASE name = "noBid"
  <2>1. SentSide(book, encoding, name) = Sent(book.asks, encoding, TRUE)
      BY <1>6 DEF SentSide
  <2>2. \E p \in Prices(book.asks) : x = encoding.scale * (100 - p)
      BY <1>1, <1>2, <2>1
  <2>3. QED BY <1>6, <2>2
<1>7. QED BY <1>3, <1>4, <1>5, <1>6 DEF KalshiSides

LEMMA KalshiTakesGood ==
    ASSUME NEW book \in TrueBooks, NEW encoding \in KalshiEncodings,
           IsGood(book), ScaleShows(book, encoding), program = "kalshi"
    PROVE  KalshiBook(KalshiAnswer(book, encoding)).reason = "OK"
<1> DEFINE answer == KalshiAnswer(book, encoding)
           side == [name \in KalshiSides |-> KalshiSide(answer, name)]
           yb == OrEmpty(side.yesBid)
           ya == OrEmpty(side.yesAsk)
           nb == OrEmpty(side.noBid)
           na == OrEmpty(side.noAsk)
           yes == yb \o ya
           no == nb \o na
           decisive == IF yes = <<>> THEN Prices(no) ELSE Prices(yes)
           scale == Scale(decisive)
           stands(own, other) == own \in {Absent, <<>>} /\ OrEmpty(other) # <<>>
           broken(own, other) ==
                stands(own, other) /\ \E p \in Prices(other) : p > scale * One
           levels(own, other) ==
                Normalised(IF stands(own, other) THEN Complement(other, scale) ELSE OrEmpty(own),
                           scale)
           bids == levels(side.yesBid, side.noAsk)
           asks == levels(side.yesAsk, side.noBid)
           deep == Notional(bids \o asks) >= DepthNotionalMin
           shapeless == \/ answer = Malformed
                        \/ \E name \in KalshiSides : side[name] = Malformed
                        \/ \A name \in KalshiSides : side[name] = Absent
           E == encoding.sides
           T(name) == SentSide(book, encoding, name)
<1>1. KalshiBook(answer) =
        IF shapeless THEN NoTrade("PARSE_AMBIGUOUS")
        ELSE IF \/ scale = Absent
                \/ broken(side.yesBid, side.noAsk)
                \/ broken(side.yesAsk, side.noBid)
        THEN NoTrade("PARSE_AMBIGUOUS")
        ELSE Judged(bids, asks, deep)
    BY DEF KalshiBook
<1>2. /\ encoding.place \in {"flat", "nested", "both"} /\ encoding.scale \in {1, 100}
      /\ "yesBid" \in E \/ "noAsk" \in E
      /\ "yesAsk" \in E \/ "noBid" \in E
      /\ E \subseteq KalshiSides
    BY BooksAssumption
<1>3. \A name \in KalshiSides :
        /\ T(name) \in Seq(Numbers) /\ T(name) # <<>> /\ T(name) # Absent /\ T(name) # Malformed
        /\ T(name) \in Seq([price : Nat, qty : Nat])
        /\ Prices(T(name)) \subseteq Nat /\ Prices(T(name)) # {}
        /\ \A x \in Prices(T(name)) : x <= encoding.scale * 99
    BY <1>2, SentOfGood
<1>4. answer # Malformed
    BY <1>2, <1>3, KalshiAnswerIsNoMark
<1>5. \A name \in KalshiSides : side[name] = IF name \in E THEN T(name) ELSE Absent
  <2>1. \A name \in KalshiSides : T(name) \notin {Absent, <<>>}
      BY <1>3
  <2>2. \A name \in KalshiSides :
            KalshiSide(answer, name) = IF name \in E THEN T(name) ELSE Absent
      BY <1>2, <2>1, KalshiSideIs
  <2>3. QED BY <2>2
<1>6. {"yesBid", "yesAsk", "noBid", "noAsk"} = KalshiSides
    BY DEF KalshiSides
<1> HIDE DEF answer, side, T
<1>7. ~ shapeless
  <2>1. Absent # Malformed
      BY MarksAssumption
  <2>2. \A name \in KalshiSides : side[name] # Malformed
      BY <1>3, <1>5, <2>1
  <2>3. \E name \in KalshiSides : side[name] # Absent
      BY <1>2, <1>3, <1>5
  <2>4. QED BY <1>4, <2>2, <2>3
<1>8. /\ yb = IF "yesBid" \in E THEN T("yesBid") ELSE <<>>
      /\ ya = IF "yesAsk" \in E THEN T("yesAsk") ELSE <<>>
      /\ nb = IF "noBid" \in E THEN T("noBid") ELSE <<>>
      /\ na = IF "noAsk" \in E THEN T("noAsk") ELSE <<>>
    BY <1>3, <1>5, <1>6 DEF OrEmpty
<1> HIDE DEF shapeless
<1>9. /\ yb \in Seq(Numbers) /\ ya \in Seq(Numbers) /\ nb \in Seq(Numbers) /\ na \in Seq(Numbers)
  <2>1. <<>> \in Seq(Numbers)
      OBVIOUS
  <2>2. QED BY <1>3, <1>6, <1>8, <2>1
<1>10. decisive = IF yb = <<>> /\ ya = <<>> THEN Prices(nb) \cup Prices(na)
                                            ELSE Prices(yb) \cup Prices(ya)
    BY <1>9, PricesOfBoth
<1>11. Prices(<<>>) = {}
    BY DEF Prices
<1> HIDE DEF yb, ya, nb, na, decisive
<1> DEFINE asked == IF {"yesBid", "yesAsk"} \cap E = {} THEN E ELSE {"yesBid", "yesAsk"} \cap E
<1>12. \A x \in decisive : \E name \in asked : x \in Prices(T(name))
  <2>1. CASE {"yesBid", "yesAsk"} \cap E = {}
      BY <1>8, <1>10, <1>11, <2>1
  <2>2. CASE {"yesBid", "yesAsk"} \cap E # {}
    <3>1. ~ (yb = <<>> /\ ya = <<>>)
        BY <1>3, <1>6, <1>8, <2>2
    <3>2. QED BY <1>8, <1>10, <1>11, <2>2, <3>1
  <2>3. QED BY <2>1, <2>2
<1>13. decisive # {}
  <2>1. \A name \in KalshiSides : Prices(T(name)) # {} /\ T(name) # <<>>
      BY <1>3
  <2>2. CASE yb = <<>> /\ ya = <<>>
    <3>1. "noAsk" \in E /\ na = T("noAsk")
        BY <1>2, <1>6, <1>8, <2>1, <2>2
    <3>2. QED BY <1>6, <1>10, <2>1, <2>2, <3>1
  <2>3. CASE yb # <<>>
    <3>1. yb = T("yesBid")
        BY <1>8, <2>3
    <3>2. QED BY <1>6, <1>10, <2>1, <2>3, <3>1
  <2>4. CASE ya # <<>>
    <3>1. ya = T("yesAsk")
        BY <1>8, <2>4
    <3>2. QED BY <1>6, <1>10, <2>1, <2>4, <3>1
  <2>5. QED BY <2>2, <2>3, <2>4
<1>14. asked \subseteq KalshiSides
    BY <1>2
<1>15. decisive \subseteq Nat /\ \A x \in decisive : x <= encoding.scale * 99
    BY <1>3, <1>12, <1>14
<1>16. encoding.scale = 100 => \A x \in decisive : x > One
  <2> SUFFICES ASSUME encoding.scale = 100, NEW name \in asked, NEW x \in Prices(T(name))
               PROVE  x > One
      BY <1>12
  <2> DEFINE half == IF name \in {"yesBid", "noAsk"} THEN book.bids ELSE book.asks
  <2>1. \A p \in Prices(half) : (IF name \in {"yesBid", "yesAsk"} THEN p ELSE 100 - p) > 1
      BY DEF ScaleShows
  <2>2. Prices(half) \subseteq 1..99
      BY TrueBook
  <2>3. name \in KalshiSides /\ encoding.scale \in {1, 100}
      BY <1>2, <1>14
  <2> HIDE DEF asked
  <2>4. PICK p \in Prices(half) :
            x = 100 * (IF name \in {"yesBid", "yesAsk"} THEN p ELSE 100 - p)
      BY <2>3, SentPricesOfGood DEF T
  <2> HIDE DEF half
  <2>5. p \in 1..99
      BY <2>2
  <2>6. QED BY <2>1, <2>4, <2>5 DEF One
<1> HIDE DEF asked
<1>17. scale = encoding.scale
  <2>2. CASE encoding.scale = 1
    <3>1. \A x \in decisive : x \in Nat /\ x <= 99
        BY <1>15, <2>2
    <3>2. Scale(decisive) = 1
        BY <1>13, <3>1, ScaleOfCents
    <3>3. QED BY <2>2, <3>2
  <2>3. CASE encoding.scale = 100
    <3>1. \A x \in decisive : x \in Nat /\ x > 100 /\ x <= 9900
        BY <1>15, <1>16, <2>3 DEF One
    <3>2. Scale(decisive) = 100
        BY <1>13, <3>1, ScaleOfFractions
    <3>3. QED BY <2>3, <3>2
  <2>4. QED BY <1>2, <2>2, <2>3
<1> HIDE DEF scale
<1>18. scale # Absent /\ scale * One = encoding.scale * 100
  <2>1. Absent # 1 /\ Absent # 100
      BY MarksAssumption
  <2>2. QED BY <1>2, <1>17, <2>1 DEF One
<1>19. \A name \in KalshiSides : ~ \E p \in Prices(T(name)) : p > scale * One
  <2>1. \A x \in Nat : x <= encoding.scale * 99 => ~ (x > encoding.scale * 100)
      BY <1>2
  <2>2. QED BY <1>3, <1>18, <2>1
<1>20. ASSUME NEW ownName \in KalshiSides, NEW otherName \in KalshiSides,
              ownName \in E \/ otherName \in E
       PROVE  /\ stands(side[ownName], side[otherName]) <=> ownName \notin E
              /\ ~ broken(side[ownName], side[otherName])
              /\ ownName \in E => OrEmpty(side[ownName]) = T(ownName)
              /\ ownName \notin E => side[otherName] = T(otherName)
  <2>1. /\ side[ownName] = IF ownName \in E THEN T(ownName) ELSE Absent
        /\ side[otherName] = IF otherName \in E THEN T(otherName) ELSE Absent
        /\ T(ownName) \notin {Absent, <<>>} /\ T(otherName) \notin {Absent, <<>>}
      BY <1>3, <1>5
  <2>2. stands(side[ownName], side[otherName]) <=> ownName \notin E
      BY <1>20, <2>1 DEF OrEmpty
  <2>3. ownName \notin E => side[otherName] = T(otherName)
      BY <1>20, <2>1
  <2>4. ~ broken(side[ownName], side[otherName])
      BY <1>19, <2>2, <2>3
  <2>5. QED BY <2>1, <2>2, <2>3, <2>4 DEF OrEmpty
<1>21. /\ T("yesBid") = Sent(book.bids, encoding, FALSE)
       /\ T("noAsk") = Sent(book.bids, encoding, TRUE)
       /\ T("yesAsk") = Sent(book.asks, encoding, FALSE)
       /\ T("noBid") = Sent(book.asks, encoding, TRUE)
    BY DEF T, SentSide
<1>22. book.bids \in Seq(Cents) /\ book.asks \in Seq(Cents)
    BY TrueBook
<1>23. /\ Normalised(T("yesBid"), scale) = InTenThousandths(book.bids)
       /\ Normalised(Complement(T("noAsk"), scale), scale) = InTenThousandths(book.bids)
       /\ Normalised(T("yesAsk"), scale) = InTenThousandths(book.asks)
       /\ Normalised(Complement(T("noBid"), scale), scale) = InTenThousandths(book.asks)
  <2>1. \A half \in Seq(Cents) :
            /\ Normalised(Sent(half, encoding, FALSE), encoding.scale) = InTenThousandths(half)
            /\ Normalised(Complement(Sent(half, encoding, TRUE), encoding.scale), encoding.scale)
                    = InTenThousandths(half)
    <3>1. encoding.scale = 1 \/ encoding.scale = 100
        BY <1>2
    <3>2. QED BY <3>1, LevelsCameThrough
  <2>2. QED BY <1>17, <1>21, <1>22, <2>1
<1>24. /\ side.yesBid = side["yesBid"] /\ side.yesAsk = side["yesAsk"]
       /\ side.noBid = side["noBid"] /\ side.noAsk = side["noAsk"]
    OBVIOUS
<1>25. bids = InTenThousandths(book.bids) /\ ~ broken(side["yesBid"], side["noAsk"])
    BY <1>2, <1>6, <1>20, <1>23
<1>26. asks = InTenThousandths(book.asks) /\ ~ broken(side["yesAsk"], side["noBid"])
    BY <1>2, <1>6, <1>20, <1>23
<1>27. KalshiBook(answer) = Judged(bids, asks, deep)
    BY <1>1, <1>7, <1>18, <1>24, <1>25, <1>26
<1> HIDE DEF bids, asks
<1>28. bids \o asks = InTenThousandths(book.bids \o book.asks)
    BY <1>22, <1>25, <1>26, BothInTenThousandths
<1>29. deep = TRUE
    BY <1>28 DEF IsGood
<1> HIDE DEF deep
<1>30. QED BY <1>25, <1>26, <1>27, <1>29, GoodIsJudgedOK DEF answer

------------------------------------------------------------------------------
\* The truth about a book is set with what was parsed from it, or taken back.
LEMMA TruthChanges ==
    ASSUME [Next]_vars
    PROVE  /\ program' = program
           /\ \/ UNCHANGED <<vbook, truth>>
              \/ truth' = Absent
              \/ \E d \in Delays : Fetch(d)
<1>1. CASE UNCHANGED vars
    BY <1>1 DEF vars, accessVars
<1>2. CASE Select
    BY <1>2 DEF Select, accessVars
<1>3. CASE Selected
    BY <1>3 DEF Selected
<1>4. CASE KnownAsked
    BY <1>4 DEF KnownAsked, accessVars
<1>5. CASE Choose
    BY <1>5 DEF Choose
<1>6. ASSUME NEW meta \in Metas \cup {Absent}, NEW d \in Delays, Metadata(meta, d)
      PROVE  UNCHANGED <<program, vbook, truth>>
    BY <1>6 DEF Metadata
<1>7. ASSUME NEW replies \in Feed!Replies, NEW d \in Delays, Turn(replies, d)
      PROVE  program' = program /\ truth' = Absent
    BY <1>7 DEF Turn
<1>8. CASE LoopEnds
    BY <1>8 DEF LoopEnds
<1>9. ASSUME NEW d \in Delays, Fetch(d)
      PROVE  program' = program
    BY <1>9 DEF Fetch
<1>10. CASE Ended
    BY <1>10 DEF Ended, vars, accessVars
<1>11. QED BY <1>1, <1>2, <1>3, <1>4, <1>5, <1>6, <1>7, <1>8, <1>9, <1>10 DEF Next

\* A book is parsed as what it is, or no truth is known.
LEMMA GoodBookFetched ==
    ASSUME NEW d \in Delays, Fetch(d)
    PROVE  \/ UNCHANGED <<vbook, truth>>
           \/ truth' = Absent
           \/ \E book \in TrueBooks, encoding \in KalshiEncodings :
                /\ vbook' = Parsed(book, encoding)
                /\ truth' = [book |-> book, encoding |-> encoding]
    BY DEF Fetch, BookIs

LEMMA GoodStep ==
    ASSUME GoodBooksAreAccepted, [Next]_vars
    PROVE  GoodBooksAreAccepted'
<1>1. program' = program
    BY TruthChanges
<1>2. CASE UNCHANGED <<vbook, truth>>
    BY <1>1, <1>2 DEF GoodBooksAreAccepted, IsGood, ScaleShows, BestBid, BestAsk
<1>3. CASE truth' = Absent
    BY <1>3 DEF GoodBooksAreAccepted
<1>4. ASSUME NEW book \in TrueBooks, NEW encoding \in KalshiEncodings,
             vbook' = Parsed(book, encoding),
             truth' = [book |-> book, encoding |-> encoding],
             IsGood(book), program = "kalshi" => ScaleShows(book, encoding)
      PROVE  vbook'.reason = "OK"
  <2>1. CASE program = "kalshi"
      BY <1>4, <2>1, KalshiTakesGood DEF Parsed
  <2>2. CASE program # "kalshi"
      BY <1>4, <2>2, PolymarketTakesGood DEF Parsed
  <2>3. QED BY <2>1, <2>2
<1>5. ASSUME NEW book \in TrueBooks, NEW encoding \in KalshiEncodings,
             vbook' = Parsed(book, encoding),
             truth' = [book |-> book, encoding |-> encoding]
      PROVE  GoodBooksAreAccepted'
  <2>1. /\ truth'.book = book /\ truth'.encoding = encoding
      BY <1>5
  <2>2. /\ IsGood(truth.book)' <=> IsGood(book)
        /\ ScaleShows(truth.book, truth.encoding)' <=> ScaleShows(book, encoding)
      BY <1>1, <2>1 DEF IsGood, ScaleShows, BestBid, BestAsk
  <2>3. QED BY <1>1, <1>4, <1>5, <2>2 DEF GoodBooksAreAccepted
<1>6. QED BY <1>2, <1>3, <1>5, TruthChanges, GoodBookFetched

\* A deep and tight book is accepted by parse_kalshi_book and by
\* parse_polymarket_book, whichever sides were sent and in whichever unit.
THEOREM GoodBooksPass == Spec => []GoodBooksAreAccepted
<1>1. AccessInit => GoodBooksAreAccepted
    BY DEF AccessInit, GoodBooksAreAccepted
<1>2. QED BY <1>1, GoodStep, PTL DEF Spec
==============================================================================
