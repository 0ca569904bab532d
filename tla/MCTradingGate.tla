---------------------------- MODULE MCTradingGate ----------------------------
(* TLC instances of TradingGate: 8 in cash and 2 shares of A at 1, B at 2.   *)
EXTENDS TradingGate

MCEngine == [maxNotional |-> 4, minCash |-> 30, maxWeight |-> 50, maxTop |-> 0]
MCPrice == [s \in Symbols |-> IF s = "A" THEN 1 ELSE 2]
MCShares == [s \in Symbols |-> IF s = "A" THEN 2 ELSE 0]

\* A's estimates are right, B's too low or missing.
Order(s, side, qty, unit) == [symbol |-> s, side |-> side, qty |-> qty, unit |-> unit]
MCProposed == {Order("A", "buy", 2, 1), Order("A", "buy", 3, 1), Order("A", "sell", 1, 1),
               Order("B", "buy", 1, 0), Order("B", "buy", 2, 1)}
==============================================================================
