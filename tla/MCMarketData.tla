------------------------------ MODULE MCMarketData ------------------------------
(* Instances of MarketDataReplay for TLC.                                  *)
EXTENDS MarketDataReplay

TwoSymbols == {"AAPL", "MSFT"}

ThreeAndOne == [s \in TwoSymbols |-> IF s = "AAPL" THEN 3 ELSE 1]

BestBidAndOffer == {<<"BID", 1>>, <<"OFFER", 2>>}

Entry(action, type, price, size) ==
    [update_action |-> action, entry_type |-> type, price |-> price, size |-> size]

(* One that always fits, one that fits if there is a bid, one whose second *)
(* entry fits or not after the first has been applied, and a trade with it.*)
FewUpdates ==
    {<<Entry("NEW", "BID", 1, 5)>>,
     <<Entry("NEW", "BID", 1, 7), Entry("CHANGE", "OFFER", 2, 3)>>,
     <<Entry("NEW", "OFFER", 2, 4), Entry("NEW", "TRADE", 2, 1)>>,
     <<Entry("DELETE", "BID", 1, 0)>>}

===============================================================================
