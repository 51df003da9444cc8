----------------------------- MODULE MCExchange -----------------------------
(* Small exchanges: two traders, one with dollars and one with coins.      *)
EXTENDS Exchange

CONSTANTS u1, u2

Offer(u, s, p, q) == [user |-> u, side |-> s, price |-> p, qty |-> q]

Funded == [u \in Users |-> [a \in Assets |->
             IF u = u1 /\ a = "USD" THEN 5 ELSE IF u = u2 /\ a = "BTC" THEN 4 ELSE 0]]

\* Orders that fill in part, improve the price and rest behind each other.  With
\* Decimals = 2 the first is paid for in rounded parts, the second owes nothing.
Small == {Offer(u1, "BUY", 3, 2), Offer(u1, "BUY", 1, 1), Offer(u2, "SELL", 1, 1)}

OneCoin == {[user |-> u2, asset |-> "BTC", amount |-> 1]}

\* Two bids of one trader, one of them filled in part, and a large ask.
OnePrice == {Offer(u2, "SELL", 1, 1), Offer(u1, "BUY", 1, 2), Offer(u1, "BUY", 1, 1),
             Offer(u2, "SELL", 1, 3)}

NoDeposits == {}
=============================================================================
