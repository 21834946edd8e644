---------------------------- MODULE MCMarketAccess ----------------------------
(* Small instance of MarketAccess: two tokens to probe, listings with markets *)
(* closed, ending soon, without a token and with a bare date; books deep,     *)
(* thin, wide, one-sided and at a price of one cent.                          *)
EXTENDS MarketAccess

Market(open, ends, rank, t) == [open |-> open, ends |-> ends, rank |-> rank, token |-> t]
MCFirst == Market(TRUE, 20, 3, "t1")
MCSecond == Market(TRUE, 20, 2, "t2")
MCListings ==
    {<<>>,
     <<Market(FALSE, DateOnly, 9, "t2"), MCSecond, MCFirst>>,
     <<MCFirst, Market(TRUE, 2, 8, "t2"), Market(TRUE, Malformed, 9, "t2"), Market(TRUE, 20, 1, Absent)>>,
     <<MCSecond, Market(TRUE, 20, 5, Absent), MCFirst>>,
     <<MCFirst, Market(TRUE, 20, 3, Absent), Market(TRUE, 20, 3, "t2")>>,
     <<MCFirst, Market(TRUE, DateOnly, 1, "t2")>>}

Level(p, q) == [price |-> p, qty |-> q]
MCBooks ==
    {[bids |-> <<Level(46, 60), Level(47, 60)>>, asks |-> <<Level(50, 60), Level(49, 60)>>],
     [bids |-> <<Level(44, 1)>>, asks |-> <<Level(46, 1)>>],
     [bids |-> <<Level(20, 200)>>, asks |-> <<Level(60, 200)>>],
     [bids |-> <<Level(1, 900)>>, asks |-> <<Level(3, 2000)>>],
     [bids |-> <<Level(98, 100)>>, asks |-> <<Level(99, 100)>>],
     [bids |-> <<Level(44, 200)>>, asks |-> <<>>]}

Encoding(sides, place, scale) == [sides |-> sides, place |-> place, scale |-> scale]
MCEncodings ==
    {Encoding(sides, place, scale) :
        sides \in {{"yesBid", "yesAsk"}, {"noBid", "noAsk"}, {"yesBid", "noBid"}},
        place \in {"flat", "nested", "both"}, scale \in {1, 100}}

Side(name, levels) == [[n \in KalshiSides |-> Absent] EXCEPT ![name] = levels]
MCBadAnswers ==
    {Malformed,
     [flat |-> Side("yesBid", Malformed), nested |-> Side("yesAsk", <<Level(46, 900)>>)],
     [flat |-> Side("yesBid", <<Level(45, 900), Level(4400, 900)>>),
      nested |-> Side("noBid", <<Level(45, 900)>>)],
     [flat |-> Side("yesBid", <<>>), nested |-> Side("noBid", <<Level(45, 900)>>)]}
MCBadBooks ==
    {Malformed,
     [named |-> FALSE, bids |-> <<Level(44, 60)>>, asks |-> <<Level(46, 60)>>],
     [named |-> TRUE, bids |-> <<Level(4400, 60)>>, asks |-> <<Level(4600, 60)>>],
     [named |-> TRUE, bids |-> Absent, asks |-> Absent],
     [named |-> TRUE, bids |-> <<Level(46, 60)>>, asks |-> <<Level(44, 60)>>]}

Rules(c, g, b) == [e \in {"coinbase", "gemini", "binance"} |->
                      CASE e = "coinbase" -> c [] e = "gemini" -> g [] OTHER -> b]
Sym(base, quote) == [base |-> base, quote |-> quote]
MCMetas ==
    {[rules |-> r, closes |-> c] :
        r \in {Rules(Absent, Sym("ETH", "USDT"), Sym("BTC", "USDT")),
               Rules(Sym("SOL", "USD"), Absent, Absent),
               Rules(Absent, Absent, Absent)},
        c \in {Absent, 1, 4}}
MCKnown == {Absent, "t1", "t2"}
==============================================================================
