------------------------------ MODULE RiskGate ------------------------------
(***************************************************************************)
(* The risk rules (risk/evaluate.go, risk/rules.go): what an order breaks, *)
(* given the state of the portfolio it would be made in.                   *)
(*                                                                         *)
(* Quantities and prices are integers and the ratios per cent, so that a   *)
(* ratio is compared by cross-multiplication; the code divides floats.     *)
(*                                                                         *)
(*   state     [cash, equity, shares, marks], shares over all symbols (0   *)
(*             where there is no position) and marks over some             *)
(*   proposal  [symbol, side, qty] with the mark it is judged at           *)
(***************************************************************************)
EXTENDS Integers, FiniteSetsExt

CONSTANTS
  Symbols,
  Engine      \* [maxNotional, minCash, maxWeight, maxTop]; 0: no maxTop

ASSUME EngineAssumption ==
  /\ IsFiniteSet(Symbols)
  /\ Engine \in [maxNotional : Nat, minCash : 0..100, maxWeight : 0..100, maxTop : 0..100]

\* fillNotionalAndCashImpact.
Notional(p, mark) == p.qty * mark
CashImpact(p, mark) == IF p.side = "buy" THEN -Notional(p, mark) ELSE Notional(p, mark)

\* The positions after the trade.
SharesAfter(state, p) ==
  [state.shares EXCEPT ![p.symbol] = IF p.side = "buy" THEN @ + p.qty ELSE @ - p.qty]

\* What a symbol is counted at: the traded one at its fill price; another one
\* at its mark, and at the traded one's price if it has none.
MarkOf(state, s, p, mark) ==
  IF (s = p.symbol /\ mark > 0) \/ s \notin DOMAIN state.marks THEN mark
  ELSE state.marks[s]

\* What is held of a symbol after the trade, in money, and all of it.
ValueAfter(state, s, p, mark) ==
  SharesAfter(state, p)[s] * MarkOf(state, s, p, mark)
EquityAfter(state, p, mark) ==
  state.cash + CashImpact(p, mark)
    + SumFunction([s \in Symbols |-> ValueAfter(state, s, p, mark)])

\* Mutant of Breaches: the single name is weighed as it is before the trade.
BreachesBefore(state, p, mark) ==
  {rule \in {"max_order_notional", "min_cash_ratio", "max_single_name_weight"} :
     CASE rule = "max_order_notional" -> Notional(p, mark) > Engine.maxNotional
       [] rule = "min_cash_ratio" ->
            /\ CashImpact(p, mark) < 0 /\ state.equity > 0
            /\ (state.cash + CashImpact(p, mark)) * 100 < Engine.minCash * state.equity
       [] rule = "max_single_name_weight" ->
            /\ p.side = "buy" /\ EquityAfter(state, p, mark) > 0
            /\ state.shares[p.symbol] * mark * 100
                 > Engine.maxWeight * EquityAfter(state, p, mark)}

\* Engine.Evaluate: the rules the order breaks.
Breaches(state, p, mark) ==
  LET after == EquityAfter(state, p, mark)
      Over(s, limit) == ValueAfter(state, s, p, mark) * 100 > limit * after
  IN {rule \in {"max_order_notional", "min_cash_ratio", "max_single_name_weight",
                "max_concentration"} :
        CASE rule = "max_order_notional" -> Notional(p, mark) > Engine.maxNotional
          [] rule = "min_cash_ratio" ->
               /\ CashImpact(p, mark) < 0 /\ state.equity > 0
               /\ (state.cash + CashImpact(p, mark)) * 100 < Engine.minCash * state.equity
          [] rule = "max_single_name_weight" ->
               p.side = "buy" /\ after > 0 /\ Over(p.symbol, Engine.maxWeight)
          [] rule = "max_concentration" ->
               Engine.maxTop > 0 /\ after > 0 /\ \E s \in Symbols : Over(s, Engine.maxTop)}

AutoExecute(state, p, mark) == Breaches(state, p, mark) = {}
=============================================================================
