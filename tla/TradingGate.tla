---------------------------- MODULE TradingGate ----------------------------
(***************************************************************************)
(* The gate at work: the loop of finishProposalsAndFills over a run's      *)
(* proposals with the numbers it computes from, read through the broker    *)
(* cache, which the pages of the web application read through as well      *)
(* (Overview, Portfolio) and which another run's snapshot has filled.      *)
(* RunStore's modules leave the verdict open; here it is Breaches.         *)
(*                                                                         *)
(* A share is worth its Price at Alpaca, always; an order fills at it.     *)
(* asOf counts the fills an answer of Alpaca contains.                     *)
(***************************************************************************)
EXTENDS RiskGate, BrokerCache, Sequences

CONSTANTS
  Viewers,        \* requests that read account and positions
  Price,          \* what a share is worth
  OpeningCash, OpeningShares,
  Proposed,       \* what the portfolio agent may propose: [symbol, side, qty,
                  \* unit], unit its estimated notional by quantity, 0: none
  MaxProposals,   \* bound: proposals of the run
  GateModes       \* execution modes: "gated" or "bypass_risk"

Runner == "runner"

ASSUME GateAssumption ==
  /\ Readers = Viewers \cup {Runner} /\ Runner \notin Viewers
  /\ Price \in [Symbols -> Nat \ {0}]
  /\ OpeningCash \in Nat /\ OpeningShares \in [Symbols -> Nat]
  /\ Proposed \subseteq [symbol : Symbols, side : {"buy", "sell"}, qty : Nat, unit : Nat]
  /\ MaxProposals \in Nat
  /\ GateModes \subseteq {"gated", "bypass_risk"}

VARIABLES
  cash, shares,  \* the account at Alpaca
  open,          \* the orders open there (their numbers in the run)
  fills,         \* how many were filled
  at,            \* where the runner is
  mode,          \* the run's execution mode
  proposals,     \* the run's proposals
  i,             \* the one being handled
  marks,         \* the marks the gate judges at, taken once
  state,         \* the portfolio state the gate judges in
  noticed,       \* history: the fills the runner's polls have seen
  bought,        \* history: the symbols whose buys the gate let through
  excuses        \* history: what the runner cannot know: "viewer", a page read
                 \* the account while an order was under way; "late", "lost",
                 \* orders that stayed open or unknown; "estimate", a wrong mark

alpacaVars == <<cash, shares, open, fills>>
runVars == <<at, mode, proposals, i, marks, state, noticed, bought, excuses>>
gateVars == <<cacheVars, alpacaVars, runVars>>

Worth(s) == Price[s] * shares[s]
Equity == cash + SumFunction([s \in Symbols |-> Worth(s)])

\* What Alpaca answers at this moment.
Now(e) ==
  IF e = "account" THEN [cash |-> cash, equity |-> Equity, asOf |-> fills]
  ELSE [shares |-> shares, asOf |-> fills]

Places == {"marks", "account", "positions", "judge", "send", "reply", "poll", "end"}
NoState == [asOf |-> 0]

GateTypeOK ==
  /\ \A r \in Readers : reading[r] # Nothing => reading[r].of \in Endpoints
  /\ cash \in Int /\ shares \in [Symbols -> Int]
  /\ i \in 1..(Len(proposals) + 1)
  /\ open \subseteq 1..Len(proposals)
  /\ fills \in 0..Len(proposals)
  /\ at \in Places
  /\ at \in {"judge", "send", "reply", "poll"} => i <= Len(proposals)
  /\ DOMAIN marks \subseteq Symbols
  /\ noticed <= fills
  /\ bought \subseteq Symbols
  /\ excuses \subseteq {"viewer", "late", "lost", "estimate"}

GateInit ==
  /\ CacheInit
  /\ cash = OpeningCash
  /\ shares = OpeningShares
  /\ open = {}
  /\ fills = 0
  /\ at = "marks"
  /\ mode \in GateModes
  /\ \E n \in 1..MaxProposals : proposals \in [1..n -> Proposed]
  /\ i = 1
  /\ marks = <<>>
  /\ state = NoState
  /\ noticed = 0
  /\ bought = {}
  /\ excuses = {}

----------------------------------------------------------------------------
(* Reads of the others, and Alpaca *)

\* An order of the run is under way: sent, and the runner has not yet come to
\* the account again.
UnderWay == at \in {"reply", "poll"}

ViewerFetches(v, e) ==
  /\ Fetch(v, e, Now(e))
  /\ excuses' = IF UnderWay THEN excuses \cup {"viewer"} ELSE excuses
  /\ UNCHANGED <<alpacaVars, at, mode, proposals, i, marks, state, noticed, bought>>

ViewerGets(v) ==
  /\ reading[v] # Nothing
  /\ Got(v, reading[v].of, reading[v].value)
  /\ UNCHANGED <<alpacaVars, runVars>>

CacheExpires == \E e \in Endpoints : Expire(e) /\ UNCHANGED <<alpacaVars, runVars>>

\* An open order fills at the price.
AlpacaFills(n) ==
  LET p == proposals[n]
      signed == IF p.side = "buy" THEN p.qty ELSE -p.qty
  IN /\ n \in open
     /\ open' = open \ {n}
     /\ fills' = fills + 1
     /\ cash' = cash - signed * Price[p.symbol]
     /\ shares' = [shares EXCEPT ![p.symbol] = @ + signed]
     /\ UNCHANGED <<cacheVars, runVars>>

\* An open order ends without a trade.
AlpacaCancels(n) ==
  /\ n \in open
  /\ open' = open \ {n}
  /\ UNCHANGED <<cacheVars, cash, shares, fills, runVars>>

----------------------------------------------------------------------------
(* The runner's reads *)

RunnerFetches ==
  /\ \/ at = "account" /\ Fetch(Runner, "account", Now("account"))
     \/ at \in {"marks", "positions"} /\ Fetch(Runner, "positions", Now("positions"))
  /\ UNCHANGED <<alpacaVars, runVars>>

\* The marks: Alpaca's price for what is held, for the rest of the proposals
\* what the agent's estimate makes of a share.  The first estimate counts.
MarksFrom(held) ==
  LET given(s) == {n \in DOMAIN proposals : proposals[n].symbol = s
                                            /\ proposals[n].unit > 0 /\ proposals[n].qty > 0}
      known == {s \in Symbols : s \in held \/ given(s) # {}}
  IN [s \in known |-> IF s \in held THEN Price[s] ELSE proposals[Min(given(s))].unit]

Held(snapshot) == {s \in Symbols : snapshot.shares[s] # 0}

\* mergeBrokerMarks and the estimates.  A failing read leaves the estimates.
TakeMarks ==
  /\ at = "marks"
  /\ \/ \E v \in {cached["positions"], reading[Runner]} \ {Nothing} :
          /\ Got(Runner, "positions", v.value)
          /\ marks' = MarksFrom(Held(v.value))
     \/ ReadFails(Runner, "positions") /\ marks' = MarksFrom({})
  /\ at' = "account"
  /\ UNCHANGED <<alpacaVars, mode, proposals, i, state, noticed, bought, excuses>>

\* portfolioStateFromBroker, the account.
TakeAccount ==
  /\ at = "account"
  /\ \E v \in {cached["account"], reading[Runner]} \ {Nothing} :
       /\ Got(Runner, "account", v.value)
       /\ state' = v.value
  /\ at' = "positions"
  /\ UNCHANGED <<alpacaVars, mode, proposals, i, marks, noticed, bought, excuses>>

\* portfolioStateFromBroker, the positions, with Alpaca's prices over the marks.
TakePositions ==
  /\ at = "positions"
  /\ \E v \in {cached["positions"], reading[Runner]} \ {Nothing} :
       /\ Got(Runner, "positions", v.value)
       /\ LET held == Held(v.value) IN
          state' = [cash |-> state.cash, equity |-> state.equity,
                    asOf |-> Min({state.asOf, v.value.asOf}),
                    shares |-> v.value.shares,
                    marks |-> [s \in DOMAIN marks \cup held |->
                                 IF s \in held THEN Price[s] ELSE marks[s]]]
  /\ at' = IF i <= Len(proposals) THEN "judge" ELSE "end"
  /\ UNCHANGED <<alpacaVars, mode, proposals, i, marks, noticed, bought, excuses>>

\* A read of the state fails: the run fails.
StateFails ==
  /\ \/ at = "account" /\ ReadFails(Runner, "account")
     \/ at = "positions" /\ ReadFails(Runner, "positions")
  /\ at' = "end"
  /\ UNCHANGED <<alpacaVars, mode, proposals, i, marks, state, noticed, bought, excuses>>

----------------------------------------------------------------------------
(* The gate and the order *)

Current == proposals[i]

\* Mutant of SkipToNext: the last proposal has a successor.
SkipPastTheLast ==
  /\ i' = i + 1
  /\ at' = IF i <= Len(proposals) THEN "judge" ELSE "end"

\* To the next proposal without reading the account again.
SkipToNext ==
  /\ i' = i + 1
  /\ at' = IF i < Len(proposals) THEN "judge" ELSE "end"

\* The verdict on the proposal: no mark ends the run, a breach (rejected or
\* handed to a human) goes on to the next, what is within the rules is sent.
Judge ==
  /\ at = "judge"
  /\ LET p == Current
         mark == marks[p.symbol]
         allowed == IF mode = "bypass_risk" THEN p.qty > 0
                    ELSE AutoExecute(state, p, mark)
     IN IF p.symbol \notin DOMAIN marks
        THEN at' = "end" /\ UNCHANGED <<i, bought, excuses>>
        ELSE IF ~allowed THEN SkipToNext /\ UNCHANGED <<bought, excuses>>
        ELSE /\ at' = "send"
             /\ bought' = IF p.side = "buy" THEN bought \cup {p.symbol} ELSE bought
             /\ excuses' = IF mark # Price[p.symbol] THEN excuses \cup {"estimate"}
                           ELSE excuses
             /\ UNCHANGED i
  /\ UNCHANGED <<cacheVars, alpacaVars, mode, proposals, marks, state, noticed>>

\* SubmitOrder reaches Alpaca.  An answer a page has fetched and not yet stored
\* is from before the order.
SendOrder ==
  /\ at = "send"
  /\ open' = open \cup {i}
  /\ at' = "reply"
  /\ excuses' = IF \E v \in Viewers : reading[v] # Nothing THEN excuses \cup {"viewer"}
                ELSE excuses
  /\ UNCHANGED <<cacheVars, cash, shares, fills, mode, proposals, i, marks, state,
                 noticed, bought>>

\* SubmitOrder fails before the order exists: the proposal is rejected, the next
\* one is judged in the same state.
OrderRefused ==
  /\ at = "send"
  /\ SkipToNext
  /\ UNCHANGED <<cacheVars, alpacaVars, mode, proposals, marks, state, noticed,
                 bought, excuses>>

\* Mutant of ReplyArrives: the cache is not told of the order.
ReplyArrivesQuietly ==
  /\ at = "reply"
  /\ at' = "poll"
  /\ UNCHANGED <<cacheVars, alpacaVars, mode, proposals, i, marks, state, noticed,
                 bought, excuses>>

\* The reply of SubmitOrder: the cache is emptied.
ReplyArrives ==
  /\ at = "reply"
  /\ Invalidate
  /\ at' = "poll"
  /\ UNCHANGED <<alpacaVars, mode, proposals, i, marks, state, noticed, bought, excuses>>

\* The reply is lost: an error like a refusal; the cache keeps what it has.
ReplyLost ==
  /\ at = "reply"
  /\ SkipToNext
  /\ excuses' = excuses \cup {"lost"}
  /\ UNCHANGED <<cacheVars, alpacaVars, mode, proposals, marks, state, noticed, bought>>

\* The poll finds the order ended; the state is read again for the next one.
OrderEnds ==
  /\ at = "poll"
  /\ i \notin open
  /\ noticed' = fills
  /\ i' = i + 1
  /\ at' = "account"
  /\ UNCHANGED <<cacheVars, alpacaVars, mode, proposals, marks, state, bought, excuses>>

\* The poll's deadline passes with the order open; the state is read again.
PollTimeout ==
  /\ at = "poll"
  /\ i \in open
  /\ i' = i + 1
  /\ at' = "account"
  /\ excuses' = excuses \cup {"late"}
  /\ UNCHANGED <<cacheVars, alpacaVars, mode, proposals, marks, state, noticed, bought>>

\* GetOrder fails: the run fails.
PollFails ==
  /\ at = "poll"
  /\ at' = "end"
  /\ UNCHANGED <<cacheVars, alpacaVars, mode, proposals, i, marks, state, noticed,
                 bought, excuses>>

GateStep ==
  \/ RunnerFetches
  \/ TakeMarks
  \/ TakeAccount
  \/ TakePositions
  \/ StateFails
  \/ Judge
  \/ SendOrder
  \/ OrderRefused
  \/ ReplyArrives
  \/ ReplyLost
  \/ OrderEnds
  \/ PollTimeout
  \/ PollFails

GateNext ==
  \/ GateStep
  \/ \E v \in Viewers : ViewerGets(v) \/ \E e \in Endpoints : ViewerFetches(v, e)
  \/ CacheExpires
  \/ \E n \in open : AlpacaFills(n) \/ AlpacaCancels(n)

GateSpec == GateInit /\ [][GateNext]_gateVars

----------------------------------------------------------------------------
(* Properties *)

\* "Refresh state for subsequent proposals in the same run": a proposal is
\* judged in a state that contains every fill the run's polls have seen.
OwnFillsSeen == at = "judge" => state.asOf >= noticed

\* It does, unless a page read the account while the order was under way.
OwnFillsSeenAlone == "viewer" \notin excuses => OwnFillsSeen

\* What the rules are for: whatever the gate lets through in a row leaves the
\* account within the cash and the single-name limit, if the marks were right,
\* no order stayed open or unknown and no page read in between.
LimitsKept ==
  mode = "gated" /\ excuses = {} /\ open = {} /\ fills > 0 /\ bought # {} =>
    /\ cash * 100 >= Engine.minCash * Equity
    /\ \A s \in bought : Worth(s) * 100 <= Engine.maxWeight * Equity
=============================================================================
