----------------------------- MODULE GateProofs -----------------------------
(***************************************************************************)
(* TradingGate for every number of proposals, pages, symbols, prices and   *)
(* rules: its types, that the runner is judged by its own fills            *)
(* (OwnFillsSeenAlone), and that what the gate lets through keeps the      *)
(* account within the limits (LimitsKept).                                 *)
(***************************************************************************)
EXTENDS TradingGate, SetSums, TLAPS

\* Where the state the gate judges in must be up to date.
JudgesSoon == {"positions", "judge", "send", "reply"}

CountsTyped ==
  /\ fills \in Int /\ noticed \in Int /\ noticed <= fills
  /\ state.asOf \in Int

AnswersTyped ==
  /\ DOMAIN cached = Endpoints /\ DOMAIN reading = Readers
  /\ \A e \in Endpoints : cached[e] # Nothing => cached[e].value.asOf \in Int
  /\ \A r \in Readers : reading[r] # Nothing =>
       reading[r].of \in Endpoints /\ reading[r].value.asOf \in Int

\* The runner has read what it asked for before it goes on.
RunnerInv == at \notin {"marks", "account", "positions"} => reading[Runner] = Nothing

\* No answer in the cache or on its way, and no state the gate will judge in,
\* is older than the last fill a poll has seen.
FreshInv ==
  /\ \A e \in Endpoints : cached[e] # Nothing => cached[e].value.asOf >= noticed
  /\ \A r \in Readers : reading[r] # Nothing => reading[r].value.asOf >= noticed
  /\ at \in JudgesSoon => state.asOf >= noticed

\* An order under way leaves no answer of before it: none is on its way, and
\* after the reply none is cached.
EmptyInv ==
  /\ at \in {"reply", "poll"} => \A r \in Readers : reading[r] = Nothing
  /\ at = "poll" => \A e \in Endpoints : cached[e] = Nothing

GateInv ==
  /\ CountsTyped
  /\ AnswersTyped
  /\ RunnerInv
  /\ "viewer" \notin excuses => FreshInv /\ EmptyInv

----------------------------------------------------------------------------
LEMMA MinOfPair ==
  ASSUME NEW a \in Int, NEW b \in Int
  PROVE  Min({a, b}) \in {a, b}
<1>1. \E x \in {a, b} : \A y \in {a, b} : x <= y
  <2>1. CASE a <= b
    BY <2>1
  <2>2. CASE b <= a
    BY <2>2
  <2> QED
    BY <2>1, <2>2
<1> QED
  BY <1>1 DEF Min

LEMMA NowIsOfNow == ASSUME NEW e PROVE Now(e).asOf = fills
BY DEF Now

LEMMA NothingIsNoAnswer == Nothing.of \notin Endpoints
BY DEF Nothing, Endpoints

\* A reader that has got an answer leaves answers as they were: cached, or lost.
LEMMA GotKeeps ==
  ASSUME AnswersTyped, NEW r \in Readers, NEW e \in Endpoints, NEW v, Got(r, e, v)
  PROVE  /\ AnswersTyped'
         /\ reading'[r] = Nothing
         /\ \A q \in Readers : reading'[q] \in {reading[q], Nothing}
         /\ \A f \in Endpoints : cached'[f] \in {cached[f], reading[r]}
<1>1. CASE reading[r] = Nothing /\ UNCHANGED cacheVars
  BY <1>1 DEF cacheVars, AnswersTyped
<1>2. CASE /\ reading[r].of = e
           /\ cached' = [cached EXCEPT ![e] = reading[r]]
           /\ reading' = [reading EXCEPT ![r] = Nothing]
  <2>1. reading[r] # Nothing
    BY <1>2, NothingIsNoAnswer
  <2>2. /\ DOMAIN cached' = Endpoints /\ DOMAIN reading' = Readers
        /\ \A f \in Endpoints : cached'[f] = IF f = e THEN reading[r] ELSE cached[f]
        /\ \A q \in Readers : reading'[q] = IF q = r THEN Nothing ELSE reading[q]
    BY <1>2 DEF AnswersTyped
  <2> QED
    BY <2>1, <2>2 DEF AnswersTyped
<1> QED
  BY <1>1, <1>2 DEF Got

LEMMA FetchKeeps ==
  ASSUME AnswersTyped, NEW r \in Readers, NEW e \in Endpoints, NEW now,
         now.asOf \in Int, Fetch(r, e, now)
  PROVE  /\ AnswersTyped'
         /\ cached' = cached
         /\ reading'[r].value.asOf = now.asOf
         /\ \A q \in Readers : q # r => reading'[q] = reading[q]
<1>1. /\ DOMAIN reading' = Readers
      /\ \A q \in Readers : reading'[q] = IF q = r THEN [of |-> e, value |-> now]
                                          ELSE reading[q]
      /\ cached' = cached
  BY DEF Fetch, AnswersTyped
<1> QED
  BY <1>1 DEF AnswersTyped

----------------------------------------------------------------------------
(* The actions *)

LEMMA GateInvInit == GateInit => GateInv
BY GateAssumption
   DEF GateInit, CacheInit, GateInv, CountsTyped, AnswersTyped, RunnerInv, FreshInv,
       EmptyInv, JudgesSoon, NoState

\* Another reader: its answer is of now; an answer from during an order is the
\* page's excuse.
LEMMA ViewerSteps ==
  ASSUME GateInv, NEW v \in Viewers, NEW e \in Endpoints,
         ViewerGets(v) \/ ViewerFetches(v, e)
  PROVE  GateInv'
<1> USE GateAssumption
<1>1. v \in Readers /\ v # Runner /\ Runner \in Readers
  OBVIOUS
<1>2. CASE ViewerFetches(v, e)
  <2>1. /\ Fetch(v, e, Now(e)) /\ UNCHANGED <<alpacaVars, at, state, noticed>>
        /\ excuses' = IF UnderWay THEN excuses \cup {"viewer"} ELSE excuses
    BY <1>2 DEF ViewerFetches
  <2>2. /\ AnswersTyped' /\ cached' = cached
        /\ reading'[v].value.asOf = fills
        /\ \A q \in Readers : q # v => reading'[q] = reading[q]
    BY <1>1, <2>1, FetchKeeps, NowIsOfNow DEF GateInv, CountsTyped
  <2> QED
    BY <1>1, <2>1, <2>2
    DEF GateInv, CountsTyped, RunnerInv, FreshInv, EmptyInv, UnderWay, alpacaVars
<1>3. CASE ViewerGets(v)
  <2>1. /\ reading[v] # Nothing /\ Got(v, reading[v].of, reading[v].value)
        /\ UNCHANGED <<alpacaVars, at, state, noticed, excuses>>
    BY <1>3 DEF ViewerGets, runVars
  <2>2. /\ AnswersTyped' /\ reading'[v] = Nothing
        /\ \A q \in Readers : reading'[q] \in {reading[q], Nothing}
        /\ \A f \in Endpoints : cached'[f] \in {cached[f], reading[v]}
    <3>1. reading[v].of \in Endpoints
      BY <1>1, <2>1 DEF GateInv, AnswersTyped
    <3> QED
      BY <1>1, <2>1, <3>1, GotKeeps DEF GateInv
  <2> QED
    BY <1>1, <2>1, <2>2
    DEF GateInv, CountsTyped, RunnerInv, FreshInv, EmptyInv, alpacaVars
<1> QED
  BY <1>2, <1>3

LEMMA CacheExpiryStep == ASSUME GateInv, CacheExpires PROVE GateInv'
<1>1. PICK e \in Endpoints : Expire(e) /\ UNCHANGED <<alpacaVars, runVars>>
  BY DEF CacheExpires
<1>2. /\ UNCHANGED reading /\ DOMAIN cached' = Endpoints
      /\ \A f \in Endpoints : cached'[f] \in {cached[f], Nothing}
  BY <1>1 DEF Expire, GateInv, AnswersTyped
<1> QED
  BY <1>1, <1>2
  DEF GateInv, CountsTyped, AnswersTyped, RunnerInv, FreshInv, EmptyInv, alpacaVars, runVars

LEMMA AlpacaSteps ==
  ASSUME GateInv, NEW n, AlpacaFills(n) \/ AlpacaCancels(n)
  PROVE  GateInv'
<1>1. UNCHANGED <<cacheVars, runVars>> /\ fills' \in {fills, fills + 1}
  BY DEF AlpacaFills, AlpacaCancels
<1> QED
  BY <1>1
  DEF GateInv, CountsTyped, AnswersTyped, RunnerInv, FreshInv, EmptyInv, cacheVars, runVars

\* The runner's reads.
LEMMA RunnerFetchStep == ASSUME GateInv, RunnerFetches PROVE GateInv'
<1> USE GateAssumption
<1>1. /\ UNCHANGED <<alpacaVars, runVars>> /\ at \in {"marks", "account", "positions"}
      /\ \E e \in Endpoints : Fetch(Runner, e, Now(e))
  BY DEF RunnerFetches, Endpoints
<1>2. /\ AnswersTyped' /\ cached' = cached
      /\ reading'[Runner].value.asOf = fills
      /\ \A q \in Readers : q # Runner => reading'[q] = reading[q]
  BY <1>1, FetchKeeps, NowIsOfNow DEF GateInv, CountsTyped
<1> QED
  BY <1>1, <1>2
  DEF GateInv, CountsTyped, RunnerInv, FreshInv, EmptyInv, alpacaVars, runVars

\* What the runner reads is as fresh as what is cached and on its way.
LEMMA RunnerGot ==
  ASSUME GateInv, NEW e \in Endpoints,
         NEW v \in {cached[e], reading[Runner]} \ {Nothing}, Got(Runner, e, v.value)
  PROVE  /\ AnswersTyped' /\ reading'[Runner] = Nothing
         /\ \A q \in Readers : reading'[q] \in {reading[q], Nothing}
         /\ \A f \in Endpoints : cached'[f] \in {cached[f], reading[Runner]}
         /\ v.value.asOf \in Int
         /\ "viewer" \notin excuses => v.value.asOf >= noticed
<1>1. Runner \in Readers /\ AnswersTyped
  BY GateAssumption DEF GateInv
<1>2. /\ AnswersTyped' /\ reading'[Runner] = Nothing
      /\ \A q \in Readers : reading'[q] \in {reading[q], Nothing}
      /\ \A f \in Endpoints : cached'[f] \in {cached[f], reading[Runner]}
  BY <1>1, GotKeeps
<1> QED
  BY <1>1, <1>2 DEF GateInv, AnswersTyped, FreshInv

LEMMA TakeMarksStep == ASSUME GateInv, TakeMarks PROVE GateInv'
<1> USE GateAssumption
<1>1. at = "marks" /\ at' = "account" /\ UNCHANGED <<alpacaVars, state, noticed, excuses>>
  BY DEF TakeMarks
<1>2. CASE ReadFails(Runner, "positions")
  BY <1>1, <1>2
  DEF ReadFails, GateInv, CountsTyped, AnswersTyped, RunnerInv, FreshInv, EmptyInv,
      JudgesSoon, alpacaVars, cacheVars
<1>3. CASE \E v \in {cached["positions"], reading[Runner]} \ {Nothing} :
             Got(Runner, "positions", v.value)
  <2>1. PICK v \in {cached["positions"], reading[Runner]} \ {Nothing} :
          Got(Runner, "positions", v.value)
    BY <1>3
  <2>2. "positions" \in Endpoints
    BY DEF Endpoints
  <2> QED
    BY <1>1, <2>1, <2>2, RunnerGot
    DEF GateInv, CountsTyped, RunnerInv, FreshInv, EmptyInv, JudgesSoon, alpacaVars
<1> QED
  BY <1>2, <1>3 DEF TakeMarks

LEMMA TakeAccountStep == ASSUME GateInv, TakeAccount PROVE GateInv'
<1> USE GateAssumption
<1>1. /\ at = "account" /\ at' = "positions"
      /\ UNCHANGED <<alpacaVars, noticed, excuses>>
  BY DEF TakeAccount
<1>2. PICK v \in {cached["account"], reading[Runner]} \ {Nothing} :
        Got(Runner, "account", v.value) /\ state' = v.value
  BY DEF TakeAccount
<1>3. "account" \in Endpoints
  BY DEF Endpoints
<1> QED
  BY <1>1, <1>2, <1>3, RunnerGot
  DEF GateInv, CountsTyped, RunnerInv, FreshInv, EmptyInv, JudgesSoon, alpacaVars

\* The older of the two answers counts.
LEMMA TakePositionsStep == ASSUME GateInv, TakePositions PROVE GateInv'
<1> USE GateAssumption
<1>1. /\ at = "positions" /\ at' \in {"judge", "end"}
      /\ UNCHANGED <<alpacaVars, noticed, excuses>>
  BY DEF TakePositions
<1>2. PICK v \in {cached["positions"], reading[Runner]} \ {Nothing} :
        /\ Got(Runner, "positions", v.value)
        /\ state'.asOf = Min({state.asOf, v.value.asOf})
  <2>1. PICK v \in {cached["positions"], reading[Runner]} \ {Nothing} :
          /\ Got(Runner, "positions", v.value)
          /\ \E new : state' = [cash |-> state.cash, equity |-> state.equity,
                               asOf |-> Min({state.asOf, v.value.asOf}),
                               shares |-> v.value.shares, marks |-> new]
    BY Zenon DEF TakePositions
  <2>2. state'.asOf = Min({state.asOf, v.value.asOf})
    BY <2>1
  <2> QED
    BY <2>1, <2>2
<1>3. "positions" \in Endpoints
  BY DEF Endpoints
<1>4. /\ AnswersTyped' /\ reading'[Runner] = Nothing
      /\ \A q \in Readers : reading'[q] \in {reading[q], Nothing}
      /\ \A f \in Endpoints : cached'[f] \in {cached[f], reading[Runner]}
      /\ v.value.asOf \in Int
      /\ "viewer" \notin excuses => v.value.asOf >= noticed
  BY <1>2, <1>3, RunnerGot
<1>5. state'.asOf \in {state.asOf, v.value.asOf}
  BY <1>2, <1>4, MinOfPair DEF GateInv, CountsTyped
<1> QED
  BY <1>1, <1>4, <1>5
  DEF GateInv, CountsTyped, RunnerInv, FreshInv, EmptyInv, JudgesSoon, alpacaVars

\* Steps that touch no answer: at the end of a run nothing is asked of it, the
\* gate's verdict leaves the state as it is.
LEMMA QuietSteps ==
  ASSUME GateInv, StateFails \/ Judge \/ OrderRefused \/ ReplyLost \/ PollTimeout \/ PollFails
  PROVE  GateInv'
<1> USE GateAssumption
<1> DEFINE same == UNCHANGED <<cached, reading, fills, state, noticed>>
<1>1. CASE StateFails
  BY <1>1
  DEF StateFails, ReadFails, GateInv, CountsTyped, AnswersTyped, RunnerInv, FreshInv,
      EmptyInv, JudgesSoon, alpacaVars, cacheVars
<1>2. CASE Judge
  <2>1. /\ same /\ at = "judge" /\ at' \in {"judge", "send", "end"}
        /\ "viewer" \in excuses => "viewer" \in excuses'
    BY <1>2 DEF Judge, SkipToNext, alpacaVars, cacheVars
  <2> QED
    BY <2>1
    DEF GateInv, CountsTyped, AnswersTyped, RunnerInv, FreshInv, EmptyInv, JudgesSoon
<1>3. CASE OrderRefused \/ ReplyLost
  <2>1. /\ same /\ at \in {"send", "reply"} /\ at' \in {"judge", "end"}
        /\ "viewer" \in excuses => "viewer" \in excuses'
    BY <1>3 DEF OrderRefused, ReplyLost, SkipToNext, alpacaVars, cacheVars
  <2> QED
    BY <2>1
    DEF GateInv, CountsTyped, AnswersTyped, RunnerInv, FreshInv, EmptyInv, JudgesSoon
<1>4. CASE PollTimeout \/ PollFails
  <2>1. /\ same /\ at = "poll" /\ at' \in {"account", "end"}
        /\ "viewer" \in excuses => "viewer" \in excuses'
    BY <1>4 DEF PollTimeout, PollFails, alpacaVars, cacheVars
  <2> QED
    BY <2>1
    DEF GateInv, CountsTyped, AnswersTyped, RunnerInv, FreshInv, EmptyInv, JudgesSoon
<1> QED
  BY <1>1, <1>2, <1>3, <1>4

\* An order is sent with nothing on its way, or a page has its excuse; the reply
\* empties the cache; so the poll that sees the fill finds nothing older.
LEMMA OrderSteps ==
  ASSUME GateInv, SendOrder \/ ReplyArrives \/ OrderEnds
  PROVE  GateInv'
<1> USE GateAssumption
<1>1. CASE SendOrder
  <2>1. /\ UNCHANGED <<cached, reading, fills, state, noticed>> /\ at = "send" /\ at' = "reply"
        /\ "viewer" \notin excuses' =>
             "viewer" \notin excuses /\ \A v \in Viewers : reading[v] = Nothing
    BY <1>1 DEF SendOrder, cacheVars
  <2> QED
    BY <2>1
    DEF GateInv, CountsTyped, AnswersTyped, RunnerInv, FreshInv, EmptyInv, JudgesSoon
<1>2. CASE ReplyArrives
  <2>1. /\ UNCHANGED <<reading, fills, state, noticed, excuses>> /\ at = "reply" /\ at' = "poll"
        /\ DOMAIN cached' = Endpoints /\ \A e \in Endpoints : cached'[e] = Nothing
    BY <1>2 DEF ReplyArrives, Invalidate, alpacaVars
  <2> QED
    BY <2>1
    DEF GateInv, CountsTyped, AnswersTyped, RunnerInv, FreshInv, EmptyInv, JudgesSoon
<1>3. CASE OrderEnds
  <2>1. /\ UNCHANGED <<cached, reading, fills, state, excuses>> /\ at = "poll"
        /\ at' = "account" /\ noticed' = fills
    BY <1>3 DEF OrderEnds, alpacaVars, cacheVars
  <2> QED
    BY <2>1
    DEF GateInv, CountsTyped, AnswersTyped, RunnerInv, FreshInv, EmptyInv, JudgesSoon
<1> QED
  BY <1>1, <1>2, <1>3

LEMMA GateInvStep == GateInv /\ [GateNext]_gateVars => GateInv'
<1> SUFFICES ASSUME GateInv, [GateNext]_gateVars
             PROVE  GateInv'
  OBVIOUS
<1>1. CASE GateStep
  BY <1>1, RunnerFetchStep, TakeMarksStep, TakeAccountStep, TakePositionsStep, QuietSteps,
     OrderSteps
  DEF GateStep
<1>2. CASE \E v \in Viewers : ViewerGets(v) \/ \E e \in Endpoints : ViewerFetches(v, e)
  <2>1. "account" \in Endpoints
    BY DEF Endpoints
  <2> QED
    BY <1>2, <2>1, ViewerSteps
<1>3. CASE CacheExpires
  BY <1>3, CacheExpiryStep
<1>4. CASE \E n \in open : AlpacaFills(n) \/ AlpacaCancels(n)
  BY <1>4, AlpacaSteps
<1>5. CASE UNCHANGED gateVars
  BY <1>5
  DEF GateInv, CountsTyped, AnswersTyped, RunnerInv, FreshInv, EmptyInv, JudgesSoon,
      gateVars, cacheVars, alpacaVars, runVars
<1> QED
  BY <1>1, <1>2, <1>3, <1>4, <1>5 DEF GateNext

\* With any number of proposals and pages: unless a page has read the account
\* while an order was under way, the gate judges a proposal in a state that
\* contains every fill the run's polls have seen.
THEOREM RunsSeeTheirFills == GateSpec => []OwnFillsSeenAlone
<1>1. GateInv => OwnFillsSeenAlone
  BY DEF GateInv, FreshInv, JudgesSoon, OwnFillsSeenAlone, OwnFillsSeen
<1> QED
  BY <1>1, GateInvInit, GateInvStep, PTL DEF GateSpec

----------------------------------------------------------------------------
(* Types *)

\* The orders the run has sent, at most: one for each proposal it has left, and
\* the one it waits for.
SentAtMost ==
  IF at \in {"reply", "poll"} THEN i ELSE IF at = "end" THEN Len(proposals) ELSE i - 1

OrdersTyped ==
  /\ i \in 1..(Len(proposals) + 1)
  /\ at \in Places
  /\ at \in {"judge", "send", "reply", "poll"} => i <= Len(proposals)
  /\ open \subseteq 1..Len(proposals) /\ fills \in Nat
  /\ fills + Cardinality(open) <= SentAtMost

AccountTyped ==
  /\ proposals \in Seq(Proposed) /\ mode \in GateModes
  /\ cash \in Int /\ shares \in [Symbols -> Int]

MarksTyped == DOMAIN marks \subseteq Symbols /\ \A s \in DOMAIN marks : marks[s] \in Int

GateTypeInv ==
  /\ AccountTyped
  /\ OrdersTyped
  /\ MarksTyped
  /\ bought \subseteq Symbols
  /\ excuses \subseteq {"viewer", "late", "lost", "estimate"}

LEMMA ProposalFields ==
  ASSUME NEW p \in Proposed
  PROVE  /\ p.symbol \in Symbols /\ p.side \in {"buy", "sell"} /\ p.qty \in Nat
         /\ Price[p.symbol] \in Nat \ {0}
<1>1. p \in [symbol : Symbols, side : {"buy", "sell"}, qty : Nat, unit : Nat]
  BY GateAssumption
<1>2. p.symbol \in Symbols /\ p.side \in {"buy", "sell"} /\ p.qty \in Nat
  BY <1>1
<1> QED
  BY <1>2, GateAssumption

LEMMA OrdersFinite ==
  ASSUME OrdersTyped, AccountTyped
  PROVE  IsFiniteSet(open) /\ Cardinality(open) \in Nat /\ Len(proposals) \in Nat
<1>1. Len(proposals) \in Nat
  BY DEF AccountTyped
<1>2. IsFiniteSet(1..Len(proposals))
  BY <1>1, FS_Interval
<1>3. IsFiniteSet(open)
  BY <1>2, FS_Subset DEF OrdersTyped
<1> QED
  BY <1>1, <1>3, FS_CardinalityType

\* Steps that leave the orders and the account alone.
LEMMA RunnerStepTypes ==
  ASSUME GateTypeInv,
         StateFails \/ Judge \/ OrderRefused \/ ReplyArrives \/ ReplyLost \/ OrderEnds
           \/ PollTimeout \/ PollFails
  PROVE  OrdersTyped' /\ AccountTyped'
<1>1. /\ open' = open /\ fills' = fills /\ proposals' = proposals /\ mode' = mode
      /\ cash' = cash /\ shares' = shares
  BY DEF StateFails, Judge, OrderRefused, ReplyArrives, ReplyLost, OrderEnds, PollTimeout,
         PollFails, alpacaVars, SkipToNext
<1>2. AccountTyped'
  BY <1>1 DEF GateTypeInv, AccountTyped
<1>3. \/ i' = i /\ at' = "end"
      \/ i' = i /\ at = "judge" /\ at' = "send"
      \/ i' = i /\ at = "reply" /\ at' = "poll"
      \/ /\ i' = i + 1 /\ at \in {"judge", "send", "reply"}
         /\ at' = IF i < Len(proposals) THEN "judge" ELSE "end"
      \/ i' = i + 1 /\ at = "poll" /\ at' = "account"
  BY DEF StateFails, Judge, OrderRefused, ReplyArrives, ReplyLost, OrderEnds, PollTimeout,
         PollFails, SkipToNext
<1>4. /\ OrdersTyped /\ Cardinality(open) \in Nat /\ Len(proposals) \in Nat
  BY OrdersFinite DEF GateTypeInv
<1> DEFINE card == Cardinality(open)  len == Len(proposals)
<1>5. /\ Cardinality(open') = card /\ Len(proposals') = len
      /\ card \in Nat /\ len \in Nat
  BY <1>1, <1>4
<1>6. /\ i \in 1..(len + 1) /\ at \in Places /\ fills \in Nat
      /\ at \in {"judge", "send", "reply", "poll"} => i <= len
      /\ open \subseteq 1..len
      /\ fills + card <= IF at \in {"reply", "poll"} THEN i
                         ELSE IF at = "end" THEN len ELSE i - 1
  BY <1>4 DEF OrdersTyped, SentAtMost
<1> HIDE DEF card, len
<1>7. /\ i' \in 1..(len + 1) /\ at' \in Places
      /\ at' \in {"judge", "send", "reply", "poll"} => i' <= len
      /\ fills + card <= IF at' \in {"reply", "poll"} THEN i'
                         ELSE IF at' = "end" THEN len ELSE i' - 1
  <2> USE <1>5, <1>6 DEF Places
  <2>1. CASE i' = i /\ at' = "end"
    BY <2>1
  <2>2. CASE i' = i /\ at = "judge" /\ at' = "send"
    BY <2>2
  <2>3. CASE i' = i /\ at = "reply" /\ at' = "poll"
    BY <2>3
  <2>4. CASE /\ i' = i + 1 /\ at \in {"judge", "send", "reply"}
             /\ at' = IF i < len THEN "judge" ELSE "end"
    BY <2>4
  <2>5. CASE i' = i + 1 /\ at = "poll" /\ at' = "account"
    BY <2>5
  <2> QED
    BY <1>3, <2>1, <2>2, <2>3, <2>4, <2>5 DEF len
<1> QED
  BY <1>1, <1>2, <1>5, <1>6, <1>7 DEF OrdersTyped, SentAtMost, card, len

\* An order more, or one filled or canceled.
LEMMA OrderTypes ==
  ASSUME GateTypeInv, NEW n,
         SendOrder \/ AlpacaFills(n) \/ AlpacaCancels(n)
  PROVE  OrdersTyped' /\ AccountTyped'
<1>1. /\ OrdersTyped /\ AccountTyped
      /\ IsFiniteSet(open) /\ Cardinality(open) \in Nat /\ Len(proposals) \in Nat
  BY OrdersFinite DEF GateTypeInv
<1> DEFINE len == Len(proposals)
<1>2. /\ i \in 1..(len + 1) /\ at \in Places /\ fills \in Nat
      /\ at \in {"judge", "send", "reply", "poll"} => i <= len
      /\ open \subseteq 1..len
      /\ fills + Cardinality(open) <= IF at \in {"reply", "poll"} THEN i
                                      ELSE IF at = "end" THEN len ELSE i - 1
      /\ len \in Nat
  BY <1>1 DEF OrdersTyped, SentAtMost
<1>3. CASE SendOrder
  <2>1. /\ at = "send" /\ at' = "reply" /\ open' = open \cup {i}
        /\ UNCHANGED <<cash, shares, fills, mode, proposals, i>>
    BY <1>3 DEF SendOrder
  <2>2. Cardinality(open') \in {Cardinality(open), Cardinality(open) + 1}
    BY <1>1, <2>1, FS_AddElement
  <2>3. open' \subseteq 1..len
    BY <1>2, <2>1
  <2>4. AccountTyped'
    BY <1>1, <2>1 DEF AccountTyped
  <2>5. Len(proposals') = len
    BY <2>1
  <2> HIDE DEF len
  <2>6. fills' + Cardinality(open') <= i'
    BY <1>1, <1>2, <2>1, <2>2
  <2> QED
    BY <1>2, <2>1, <2>3, <2>4, <2>5, <2>6 DEF OrdersTyped, SentAtMost, Places
<1>4. CASE AlpacaFills(n) \/ AlpacaCancels(n)
  <2>1. /\ n \in open /\ open' = open \ {n} /\ fills' \in {fills, fills + 1}
        /\ UNCHANGED <<at, mode, proposals, i>>
    BY <1>4 DEF AlpacaFills, AlpacaCancels, runVars
  <2>2. Cardinality(open') = Cardinality(open) - 1 /\ Cardinality(open') \in Nat
    BY <1>1, <2>1, FS_RemoveElement, FS_CardinalityType
  <2>3. Len(proposals') = len
    BY <2>1
  <2> HIDE DEF len
  <2>4. fills' \in Nat /\ fills' + Cardinality(open') <= fills + Cardinality(open)
    BY <1>1, <1>2, <2>1, <2>2
  <2>5. OrdersTyped'
    <3> DEFINE most == IF at \in {"reply", "poll"} THEN i
                       ELSE IF at = "end" THEN len ELSE i - 1
               new == fills' + Cardinality(open')
               old == fills + Cardinality(open)
    <3>1. most \in Int /\ new \in Int /\ old \in Int /\ new <= old /\ old <= most
      BY <1>1, <1>2, <2>2, <2>4
    <3> HIDE DEF most, new, old
    <3>2. new <= most
      BY <3>1
    <3>3. fills' + Cardinality(open') <= most
      BY <3>2 DEF new
    <3> QED
      BY <1>2, <2>1, <2>3, <2>4, <3>3 DEF OrdersTyped, SentAtMost, most
  <2>6. AccountTyped'
    <3>1. CASE AlpacaFills(n)
      <4> DEFINE p == proposals[n]
                 signed == IF p.side = "buy" THEN p.qty ELSE -p.qty
                 sym == p.symbol
                 price == Price[sym]
      <4>1. p \in Proposed
        BY <1>1, <1>2, <2>1 DEF AccountTyped, len
      <4>2. sym \in Symbols /\ signed \in Int /\ price \in Int
        BY <4>1, ProposalFields
      <4>3. /\ cash' = cash - signed * price
            /\ shares' = [shares EXCEPT ![sym] = @ + signed]
        BY <3>1 DEF AlpacaFills
      <4> HIDE DEF signed, sym, price
      <4>4. cash' \in Int /\ shares' \in [Symbols -> Int]
        BY <1>1, <4>2, <4>3 DEF AccountTyped
      <4> QED
        BY <1>1, <2>1, <4>4 DEF AccountTyped
    <3>2. CASE AlpacaCancels(n)
      BY <1>1, <2>1, <3>2 DEF AlpacaCancels, AccountTyped
    <3> QED
      BY <1>4, <3>1, <3>2
  <2> QED
    BY <2>5, <2>6
<1> QED
  BY <1>3, <1>4

\* Reads move the runner on, and leave orders and account alone.
LEMMA ReadTypes ==
  ASSUME GateTypeInv,
         \/ RunnerFetches \/ TakeMarks \/ TakeAccount \/ TakePositions \/ CacheExpires
         \/ \E v \in Viewers : ViewerGets(v) \/ \E e \in Endpoints : ViewerFetches(v, e)
         \/ UNCHANGED gateVars
  PROVE  OrdersTyped' /\ AccountTyped'
<1>1. /\ open' = open /\ fills' = fills /\ proposals' = proposals /\ mode' = mode
      /\ cash' = cash /\ shares' = shares /\ i' = i
      /\ \/ at' = at
         \/ at = "marks" /\ at' = "account"
         \/ at = "account" /\ at' = "positions"
         \/ at = "positions" /\ at' = IF i <= Len(proposals) THEN "judge" ELSE "end"
  <2>1. CASE RunnerFetches
    BY <2>1 DEF RunnerFetches, alpacaVars, runVars
  <2>2. CASE TakeMarks
    BY <2>2 DEF TakeMarks, alpacaVars
  <2>3. CASE TakeAccount
    BY <2>3 DEF TakeAccount, alpacaVars
  <2>4. CASE TakePositions
    BY <2>4 DEF TakePositions, alpacaVars
  <2>5. CASE CacheExpires
    BY <2>5 DEF CacheExpires, alpacaVars, runVars
  <2>6. CASE \E v \in Viewers : ViewerGets(v) \/ \E e \in Endpoints : ViewerFetches(v, e)
    BY <2>6 DEF ViewerGets, ViewerFetches, alpacaVars, runVars
  <2>7. CASE UNCHANGED gateVars
    BY <2>7 DEF gateVars, alpacaVars, runVars
  <2> QED
    BY <2>1, <2>2, <2>3, <2>4, <2>5, <2>6, <2>7
<1>2. /\ OrdersTyped /\ AccountTyped
      /\ Cardinality(open) \in Nat /\ Len(proposals) \in Nat
  BY OrdersFinite DEF GateTypeInv
<1>3. AccountTyped'
  BY <1>1, <1>2 DEF AccountTyped
<1> DEFINE card == Cardinality(open)  len == Len(proposals)
<1>4. Cardinality(open') = card /\ Len(proposals') = len
  BY <1>1
<1>5. /\ i \in 1..(len + 1) /\ at \in Places /\ fills \in Nat
      /\ at \in {"judge", "send", "reply", "poll"} => i <= len
      /\ open \subseteq 1..len
      /\ fills + card <= IF at \in {"reply", "poll"} THEN i
                         ELSE IF at = "end" THEN len ELSE i - 1
      /\ card \in Nat /\ len \in Nat
  BY <1>2 DEF OrdersTyped, SentAtMost
<1> HIDE DEF card
<1>6. /\ at' \in Places
      /\ at' \in {"judge", "send", "reply", "poll"} => i <= len
      /\ fills + card <= IF at' \in {"reply", "poll"} THEN i
                         ELSE IF at' = "end" THEN len ELSE i - 1
  <2>1. CASE at' = at
    BY <1>5, <2>1
  <2>2. CASE at \in {"marks", "account"} /\ at' \in {"account", "positions"}
    BY <1>5, <2>2 DEF Places
  <2>3. CASE at = "positions" /\ at' = IF i <= len THEN "judge" ELSE "end"
    <3> HIDE DEF len
    <3> QED
      BY <1>5, <2>3 DEF Places
  <2> QED
    BY <1>1, <2>1, <2>2, <2>3
<1> HIDE DEF len
<1> QED
  BY <1>1, <1>3, <1>4, <1>5, <1>6 DEF OrdersTyped, SentAtMost, card, len

\* The estimate that counts is one there is.
LEMMA MarksFromTyped ==
  ASSUME AccountTyped, NEW held
  PROVE  /\ DOMAIN MarksFrom(held) \subseteq Symbols
         /\ \A s \in DOMAIN MarksFrom(held) : MarksFrom(held)[s] \in Int
<1> DEFINE given(s) == {n \in DOMAIN proposals : proposals[n].symbol = s
                                                 /\ proposals[n].unit > 0 /\ proposals[n].qty > 0}
           known == {s \in Symbols : s \in held \/ given(s) # {}}
<1>1. MarksFrom(held) =
        [s \in known |-> IF s \in held THEN Price[s] ELSE proposals[Min(given(s))].unit]
  BY DEF MarksFrom
<1>2. ASSUME NEW s \in known
      PROVE  (IF s \in held THEN Price[s] ELSE proposals[Min(given(s))].unit) \in Int
  <2>1. CASE s \in held
    BY <2>1, GateAssumption
  <2>2. CASE s \notin held
    <3> DEFINE g == given(s)
    <3>1. DOMAIN proposals \subseteq Nat
      BY DEF AccountTyped
    <3>2. g \in SUBSET Nat /\ g # {} /\ g \subseteq DOMAIN proposals
      BY <2>2, <3>1
    <3> HIDE DEF g
    <3>3. Min(g) \in g
      <4>1. \E m \in g : \A y \in g : m <= y
        BY <3>2, LeastNatural
      <4> QED
        BY <4>1 DEF Min
    <3>4. proposals[Min(g)] \in Proposed
      <4> DEFINE m == Min(g)
      <4>1. m \in DOMAIN proposals /\ proposals \in Seq(Proposed)
        BY <3>2, <3>3 DEF AccountTyped
      <4> HIDE DEF m
      <4>2. proposals[m] \in Proposed
        BY <4>1
      <4> QED
        BY <4>2 DEF m
    <3>5. proposals[Min(g)].unit \in Nat
      <4>1. Proposed \subseteq [symbol : Symbols, side : {"buy", "sell"}, qty : Nat, unit : Nat]
        BY GateAssumption
      <4>2. proposals[Min(g)] \in
              [symbol : Symbols, side : {"buy", "sell"}, qty : Nat, unit : Nat]
        BY <3>4, <4>1
      <4> QED
        BY <4>2
    <3> QED
      BY <2>2, <3>5 DEF g
  <2> QED
    BY <2>1, <2>2
<1> HIDE DEF given
<1> QED
  BY <1>1, <1>2

\* The rest of the run: what it has let through and what excuses it.
LEMMA HistoryTypes ==
  ASSUME GateTypeInv, [GateNext]_gateVars
  PROVE  /\ MarksTyped'
         /\ (bought \subseteq Symbols)'
         /\ (excuses \subseteq {"viewer", "late", "lost", "estimate"})'
<1>1. /\ \/ marks' = marks
         \/ \E held : marks' = MarksFrom(held)
      /\ \/ bought' = bought
         \/ at = "judge" /\ bought' = bought \cup {Current.symbol}
      /\ \E x \in {"viewer", "late", "lost", "estimate"} : excuses' \in {excuses, excuses \cup {x}}
  <2>1. CASE StateFails \/ Judge
    BY <2>1 DEF StateFails, Judge, SkipToNext
  <2>2. CASE SendOrder \/ OrderRefused \/ ReplyArrives \/ ReplyLost
    BY <2>2 DEF SendOrder, OrderRefused, ReplyArrives, ReplyLost
  <2>3. CASE OrderEnds \/ PollTimeout \/ PollFails
    BY <2>3 DEF OrderEnds, PollTimeout, PollFails
  <2>4. CASE RunnerFetches \/ TakeMarks
    BY <2>4 DEF RunnerFetches, TakeMarks, runVars
  <2>5. CASE TakeAccount \/ TakePositions
    BY <2>5 DEF TakeAccount, TakePositions
  <2>6. CASE \/ CacheExpires
             \/ \E v \in Viewers : ViewerGets(v) \/ \E e \in Endpoints : ViewerFetches(v, e)
    BY <2>6 DEF CacheExpires, ViewerGets, ViewerFetches, runVars
  <2>7. CASE \E n \in open : AlpacaFills(n) \/ AlpacaCancels(n)
    BY <2>7 DEF AlpacaFills, AlpacaCancels, runVars
  <2>8. CASE UNCHANGED gateVars
    BY <2>8 DEF gateVars, runVars
  <2> QED
    BY <2>1, <2>2, <2>3, <2>4, <2>5, <2>6, <2>7, <2>8 DEF GateNext, GateStep
<1>2. at = "judge" => Current.symbol \in Symbols
  <2> SUFFICES ASSUME at = "judge" PROVE Current.symbol \in Symbols
    OBVIOUS
  <2>1. i \in 1..Len(proposals) /\ proposals \in Seq(Proposed)
    <3>1. Len(proposals) \in Nat
      BY DEF GateTypeInv, AccountTyped
    <3> QED
      BY <3>1 DEF GateTypeInv, OrdersTyped, AccountTyped
  <2>2. proposals[i] \in Proposed
    BY <2>1
  <2> QED
    BY <2>2, ProposalFields DEF Current
<1> QED
  <2>1. MarksTyped'
    BY <1>1, MarksFromTyped DEF GateTypeInv, MarksTyped
  <2> QED
    BY <1>1, <1>2, <2>1 DEF GateTypeInv

LEMMA GateTypeInit == GateInit => GateTypeInv
<1> SUFFICES ASSUME GateInit PROVE GateTypeInv
  OBVIOUS
<1>1. PICK n \in 1..MaxProposals : proposals \in [1..n -> Proposed]
  BY DEF GateInit
<1>2. proposals \in Seq(Proposed) /\ Len(proposals) = n /\ n \in Nat
  BY <1>1, GateAssumption
<1>3. AccountTyped
  BY <1>2, GateAssumption DEF GateInit, AccountTyped
<1>4. OrdersTyped
  BY <1>2, FS_EmptySet DEF GateInit, OrdersTyped, SentAtMost, Places
<1> QED
  BY <1>3, <1>4 DEF GateInit, GateTypeInv, MarksTyped

LEMMA GateTypeStep == GateTypeInv /\ [GateNext]_gateVars => GateTypeInv'
<1> SUFFICES ASSUME GateTypeInv, [GateNext]_gateVars PROVE GateTypeInv'
  OBVIOUS
<1>1. OrdersTyped' /\ AccountTyped'
  BY RunnerStepTypes, OrderTypes, ReadTypes DEF GateNext, GateStep
<1> QED
  BY <1>1, HistoryTypes DEF GateTypeInv

\* The runner's counters never leave their proposals, an order is one of them,
\* and there is no more than one fill for a proposal.
THEOREM GateTypeCorrect == GateSpec => []GateTypeOK
<1>1. GateInv /\ GateTypeInv => GateTypeOK
  <2> SUFFICES ASSUME GateInv, GateTypeInv PROVE GateTypeOK
    OBVIOUS
  <2>1. fills \in 0..Len(proposals)
    <3>1. /\ OrdersTyped /\ Cardinality(open) \in Nat /\ Len(proposals) \in Nat
      BY OrdersFinite DEF GateTypeInv
    <3> QED
      BY <3>1 DEF OrdersTyped, SentAtMost
  <2> QED
    BY <2>1
    DEF GateInv, CountsTyped, AnswersTyped, GateTypeInv, OrdersTyped, AccountTyped,
        MarksTyped, GateTypeOK
<1> QED
  BY <1>1, GateInvInit, GateInvStep, GateTypeInit, GateTypeStep, PTL DEF GateSpec

----------------------------------------------------------------------------
(* The limits.  At the prices of GateAssumption, which do not move, no trade *)
(* changes what the account is worth: the limits are shares of a constant.   *)

ValueIn(h, s) == Price[s] * h[s]
TotalIn(h) == SumFunction([s \in Symbols |-> ValueIn(h, s)])
OpeningEquity == OpeningCash + TotalIn(OpeningShares)

\* The account with p traded.
Signed(p) == IF p.side = "buy" THEN p.qty ELSE -p.qty
CashWith(p) == cash - Signed(p) * Price[p.symbol]
SharesWith(p) == [shares EXCEPT ![p.symbol] = @ + Signed(p)]

\* Cash c and shares h are within the limits the gate has applied.
Within(c, h) ==
  bought # {} =>
    /\ c * 100 >= Engine.minCash * OpeningEquity
    /\ \A s \in bought : ValueIn(h, s) * 100 <= Engine.maxWeight * OpeningEquity
PendingWithin(p) == Within(CashWith(p), SharesWith(p))

\* The proposals that may still be traded: open, or let through and not yet sent.
Undecided == {proposals[n] : n \in open \cup IF at = "send" THEN {i} ELSE {}}

\* The account is within the limits, and stays so whether or not what is
\* undecided is traded.
KeptInv ==
  /\ Within(cash, shares)
  /\ \A p \in Undecided : PendingWithin(p)

\* What a price makes of a trade.
LEMMA PriceTimes ==
  ASSUME NEW a \in Nat, NEW h \in Int, NEW g \in Int
  PROVE  a * h \in Int /\ a * g \in Int /\ a * (h + g) = a * h + a * g
OBVIOUS

LEMMA NegativeTimes ==
  ASSUME NEW a \in Nat, NEW q \in Nat
  PROVE  a * q \in Nat /\ q * a = a * q /\ (-q) * a = -(a * q) /\ a * (-q) = -(a * q)
OBVIOUS

LEMMA PositiveTimes ==
  ASSUME NEW a \in Nat \ {0}, NEW q \in Nat, q > 0
  PROVE  a * q > 0
OBVIOUS

\* A trade of w moves w between cash and the traded symbol.
LEMMA TradeMoves ==
  ASSUME AccountTyped, NEW p \in Proposed
  PROVE  \E w \in Nat :
           /\ p.qty > 0 => w > 0
           /\ w = p.qty * Price[p.symbol]
           /\ cash \in Int /\ CashWith(p) = IF p.side = "buy" THEN cash - w ELSE cash + w
           /\ SharesWith(p) \in [Symbols -> Int]
           /\ \A s \in Symbols :
                /\ ValueIn(shares, s) \in Int
                /\ ValueIn(SharesWith(p), s) =
                     IF s # p.symbol THEN ValueIn(shares, s)
                     ELSE IF p.side = "buy" THEN ValueIn(shares, s) + w
                     ELSE ValueIn(shares, s) - w
<1> DEFINE q == p.qty  sym == p.symbol  a == Price[sym]  g == Signed(p)
<1>1. /\ sym \in Symbols /\ q \in Nat /\ a \in Nat \ {0}
      /\ cash \in Int /\ shares \in [Symbols -> Int]
      /\ \A s \in Symbols : Price[s] \in Nat
  BY ProposalFields, GateAssumption DEF AccountTyped
<1>2. g = (IF p.side = "buy" THEN q ELSE -q) /\ g \in Int
  BY <1>1 DEF Signed
<1>3. SharesWith(p) = [shares EXCEPT ![sym] = @ + g] /\ CashWith(p) = cash - g * a
  BY DEF SharesWith, CashWith
<1> HIDE DEF q, sym, a, g
<1>4. /\ SharesWith(p) \in [Symbols -> Int] /\ SharesWith(p)[sym] = shares[sym] + g
      /\ \A s \in Symbols : s # sym => SharesWith(p)[s] = shares[s]
  BY <1>1, <1>2, <1>3
<1> DEFINE w == a * q
<1>5. w \in Nat /\ q * a = w /\ (-q) * a = -w /\ a * (-q) = -w
  BY <1>1, NegativeTimes
<1>6. q > 0 => w > 0
  BY <1>1, PositiveTimes
<1>7. a * g = IF p.side = "buy" THEN w ELSE -w
  BY <1>2, <1>5
<1>8. g * a = IF p.side = "buy" THEN w ELSE -w
  BY <1>2, <1>5
<1>9. a * (shares[sym] + g) = a * shares[sym] + a * g /\ a * shares[sym] \in Int
  BY <1>1, <1>2, PriceTimes
<1> HIDE DEF w
<1>10. CashWith(p) = IF p.side = "buy" THEN cash - w ELSE cash + w
  BY <1>1, <1>3, <1>5, <1>8
<1>11. ValueIn(SharesWith(p), sym) =
         IF p.side = "buy" THEN ValueIn(shares, sym) + w ELSE ValueIn(shares, sym) - w
  <2> DEFINE x == a * shares[sym]
  <2>1. ValueIn(shares, sym) = x /\ ValueIn(SharesWith(p), sym) = x + a * g
    BY <1>4, <1>9 DEF ValueIn, a
  <2>2. x \in Int
    BY <1>9
  <2> HIDE DEF x
  <2> QED
    BY <1>5, <1>7, <2>1, <2>2
<1>12. \A s \in Symbols : ValueIn(shares, s) \in Int
  <2> SUFFICES ASSUME NEW s \in Symbols PROVE ValueIn(shares, s) \in Int
    OBVIOUS
  <2>1. Price[s] \in Nat /\ shares[s] \in Int
    BY <1>1
  <2> QED
    BY <2>1, PriceTimes DEF ValueIn
<1>13. \A s \in Symbols : s # sym => ValueIn(SharesWith(p), s) = ValueIn(shares, s)
  BY <1>4 DEF ValueIn
<1>14. w = p.qty * Price[p.symbol]
  BY <1>5 DEF q, a, sym
<1> QED
  BY <1>1, <1>4, <1>5, <1>6, <1>10, <1>11, <1>12, <1>13, <1>14 DEF q, sym

\* So it changes what cash and shares are worth by nothing.
LEMMA TradeKeepsTotal ==
  ASSUME AccountTyped, NEW p \in Proposed
  PROVE  /\ TotalIn(shares) \in Int /\ TotalIn(SharesWith(p)) \in Int
         /\ CashWith(p) + TotalIn(SharesWith(p)) = cash + TotalIn(shares)
<1> DEFINE h == [s \in Symbols |-> ValueIn(shares, s)]
           k == [s \in Symbols |-> ValueIn(SharesWith(p), s)]
           sym == p.symbol
<1>1. PICK w \in Nat :
        /\ cash \in Int /\ CashWith(p) = IF p.side = "buy" THEN cash - w ELSE cash + w
        /\ \A s \in Symbols :
             /\ ValueIn(shares, s) \in Int
             /\ ValueIn(SharesWith(p), s) =
                  IF s # p.symbol THEN ValueIn(shares, s)
                  ELSE IF p.side = "buy" THEN ValueIn(shares, s) + w
                  ELSE ValueIn(shares, s) - w
  BY TradeMoves
<1>2. sym \in Symbols /\ IsFiniteSet(Symbols)
  BY ProposalFields, EngineAssumption
<1>3. /\ DOMAIN h = Symbols /\ DOMAIN k = Symbols
      /\ \A s \in Symbols : h[s] \in Int /\ k[s] \in Int
      /\ \A s \in Symbols : s # sym => k[s] = h[s]
      /\ k[sym] = IF p.side = "buy" THEN h[sym] + w ELSE h[sym] - w
  BY <1>1, <1>2
<1>4. TotalIn(shares) = SumFunction(h) /\ TotalIn(SharesWith(p)) = SumFunction(k)
  BY DEF TotalIn
<1> HIDE DEF h, k, sym
<1>5. SumFunction(k) = SumFunction(h) + (k[sym] - h[sym])
  BY <1>2, <1>3, TotalChanges
<1>6. SumFunction(h) \in Int /\ SumFunction(k) \in Int
  BY <1>2, <1>3, TotalInt
<1> QED
  BY <1>1, <1>2, <1>3, <1>4, <1>5, <1>6

LEMMA EquityIs == Equity = cash + TotalIn(shares)
<1>1. [s \in Symbols |-> Worth(s)] = [s \in Symbols |-> ValueIn(shares, s)]
  BY DEF Worth, ValueIn
<1> QED
  BY <1>1 DEF Equity, TotalIn

LEMMA EquityInit == GateInit => Equity = OpeningEquity
BY EquityIs DEF GateInit, OpeningEquity

\* An order of the run that fills is one of its proposals, traded.
LEMMA FillTrades ==
  ASSUME GateTypeInv, NEW n \in open, AlpacaFills(n)
  PROVE  /\ proposals[n] \in Proposed
         /\ cash' = CashWith(proposals[n]) /\ shares' = SharesWith(proposals[n])
<1>1. proposals[n] \in Proposed
  <2>1. n \in 1..Len(proposals) /\ proposals \in Seq(Proposed)
    BY DEF GateTypeInv, OrdersTyped, AccountTyped
  <2> QED
    BY <2>1
<1> QED
  BY <1>1 DEF AlpacaFills, CashWith, SharesWith, Signed

\* Only a fill moves cash or shares.
LEMMA OnlyFillsTrade ==
  ASSUME [GateNext]_gateVars
  PROVE  \/ cash' = cash /\ shares' = shares /\ fills' = fills
         \/ \E n \in open : AlpacaFills(n)
<1>1. CASE GateStep
  BY <1>1
  DEF GateStep, RunnerFetches, TakeMarks, TakeAccount, TakePositions, StateFails, Judge,
      SendOrder, OrderRefused, ReplyArrives, ReplyLost, OrderEnds, PollTimeout, PollFails,
      alpacaVars
<1>2. CASE \E v \in Viewers : ViewerGets(v) \/ \E e \in Endpoints : ViewerFetches(v, e)
  BY <1>2 DEF ViewerGets, ViewerFetches, alpacaVars
<1>3. CASE CacheExpires
  BY <1>3 DEF CacheExpires, alpacaVars
<1>4. CASE \E n \in open : AlpacaFills(n) \/ AlpacaCancels(n)
  BY <1>4 DEF AlpacaCancels
<1>5. CASE UNCHANGED gateVars
  BY <1>5 DEF gateVars, alpacaVars
<1> QED
  BY <1>1, <1>2, <1>3, <1>4, <1>5 DEF GateNext

LEMMA EquityStep ==
  ASSUME GateTypeInv, Equity = OpeningEquity, [GateNext]_gateVars
  PROVE  Equity' = OpeningEquity
<1>1. Equity' = cash' + TotalIn(shares')
  <2>1. [s \in Symbols |-> Worth(s)'] = [s \in Symbols |-> ValueIn(shares', s)]
    BY DEF Worth, ValueIn
  <2> QED
    BY <2>1 DEF Equity, TotalIn
<1>2. CASE cash' = cash /\ shares' = shares
  BY <1>1, <1>2, EquityIs
<1>3. CASE \E n \in open : AlpacaFills(n)
  <2>1. PICK n \in open : AlpacaFills(n)
    BY <1>3
  <2>2. /\ proposals[n] \in Proposed
        /\ cash' = CashWith(proposals[n]) /\ shares' = SharesWith(proposals[n])
    BY <2>1, FillTrades
  <2>3. AccountTyped
    BY DEF GateTypeInv
  <2>4. CashWith(proposals[n]) + TotalIn(SharesWith(proposals[n])) = cash + TotalIn(shares)
    BY <2>2, <2>3, TradeKeepsTotal
  <2> QED
    BY <1>1, <2>2, <2>4, EquityIs
<1> QED
  BY <1>2, <1>3, OnlyFillsTrade

----------------------------------------------------------------------------
(* The state the gate judges in is the account, as long as nothing excuses   *)
(* it: while it reads and judges no order of the run is open, and every      *)
(* answer, cached or on its way, is what Alpaca would answer now.            *)

AnswersNow ==
  /\ \A e \in Endpoints : cached[e] # Nothing => cached[e].value = Now(e)
  /\ \A r \in Readers : reading[r] # Nothing => reading[r].value = Now(reading[r].of)

Settled == at \notin {"reply", "poll", "end"}

StateNow ==
  /\ at \in {"positions", "judge", "send"} => state.cash = cash /\ state.equity = Equity
  /\ at \in {"judge", "send"} =>
       /\ state.shares = shares
       /\ \A s \in Symbols :
            shares[s] # 0 => s \in DOMAIN state.marks /\ state.marks[s] = Price[s]
       /\ \A s \in DOMAIN state.marks : state.marks[s] \in Int

CurrentInv ==
  /\ open \subseteq IF Settled THEN {} ELSE {i}
  /\ Settled => AnswersNow
  /\ StateNow

LEMMA NowStays ==
  ASSUME cash' = cash, shares' = shares, fills' = fills
  PROVE  Equity' = Equity /\ \A e : Now(e)' = Now(e)
<1>1. [s \in Symbols |-> Worth(s)]' = [s \in Symbols |-> Worth(s)]
  BY DEF Worth
<1>2. Equity' = Equity
  BY <1>1 DEF Equity
<1> QED
  BY <1>2 DEF Now

\* Whoever gets an answer gets what Alpaca would answer.
LEMMA GotNow ==
  ASSUME AnswersTyped, AnswersNow, NEW r \in Readers, NEW e \in Endpoints, NEW v, Got(r, e, v),
         UNCHANGED alpacaVars
  PROVE  v = Now(e) /\ AnswersNow'
<1>1. \A f : Now(f)' = Now(f)
  BY NowStays DEF alpacaVars
<1>2. CASE /\ reading[r] = Nothing /\ cached[e] # Nothing
           /\ v = cached[e].value /\ UNCHANGED cacheVars
  BY <1>1, <1>2 DEF AnswersNow, cacheVars
<1>3. CASE /\ reading[r].of = e /\ v = reading[r].value
           /\ cached' = [cached EXCEPT ![e] = reading[r]]
           /\ reading' = [reading EXCEPT ![r] = Nothing]
  <2>1. reading[r] # Nothing
    BY <1>3, NothingIsNoAnswer
  <2>2. v = Now(e)
    BY <1>3, <2>1 DEF AnswersNow
  <2>3. /\ \A f \in Endpoints : cached'[f] = IF f = e THEN reading[r] ELSE cached[f]
        /\ \A q \in Readers : reading'[q] = IF q = r THEN Nothing ELSE reading[q]
    BY <1>3 DEF AnswersTyped
  <2>4. AnswersNow'
    BY <1>1, <1>3, <2>2, <2>3 DEF AnswersNow
  <2> QED
    BY <2>2, <2>4
<1> QED
  BY <1>2, <1>3 DEF Got

LEMMA FetchNow ==
  ASSUME AnswersTyped, AnswersNow, NEW r \in Readers, NEW e \in Endpoints,
         Fetch(r, e, Now(e)), UNCHANGED alpacaVars
  PROVE  AnswersNow'
<1>1. \A f : Now(f)' = Now(f)
  BY NowStays DEF alpacaVars
<1>2. /\ \A q \in Readers : reading'[q] = IF q = r THEN [of |-> e, value |-> Now(e)]
                                          ELSE reading[q]
      /\ cached' = cached
  BY DEF Fetch, AnswersTyped
<1> QED
  BY <1>1, <1>2 DEF AnswersNow

\* Nothing that excuses the run is forgotten.
LEMMA ExcusesStay ==
  ASSUME [GateNext]_gateVars, excuses' = {}
  PROVE  excuses = {}
<1>1. excuses \subseteq excuses'
  <2>1. CASE GateStep
    BY <2>1
    DEF GateStep, RunnerFetches, TakeMarks, TakeAccount, TakePositions, StateFails, Judge,
        SendOrder, OrderRefused, ReplyArrives, ReplyLost, OrderEnds, PollTimeout, PollFails,
        runVars, SkipToNext
  <2>2. CASE \E v \in Viewers : ViewerGets(v) \/ \E e \in Endpoints : ViewerFetches(v, e)
    BY <2>2 DEF ViewerGets, ViewerFetches, runVars
  <2>3. CASE CacheExpires
    BY <2>3 DEF CacheExpires, runVars
  <2>4. CASE \E n \in open : AlpacaFills(n) \/ AlpacaCancels(n)
    BY <2>4 DEF AlpacaFills, AlpacaCancels, runVars
  <2>5. CASE UNCHANGED gateVars
    BY <2>5 DEF gateVars, runVars
  <2> QED
    BY <2>1, <2>2, <2>3, <2>4, <2>5 DEF GateNext
<1> QED
  BY <1>1

LEMMA CurrentInit == GateInit => CurrentInv
BY DEF GateInit, CacheInit, CurrentInv, AnswersNow, StateNow, Settled

\* Reads of the pages and of the runner, and answers that expire.
LEMMA ReadersKeepCurrent ==
  ASSUME GateInv, CurrentInv, excuses' = {},
         \/ CacheExpires \/ RunnerFetches
         \/ \E v \in Viewers : ViewerGets(v) \/ \E e \in Endpoints : ViewerFetches(v, e)
         \/ UNCHANGED gateVars
  PROVE  CurrentInv'
<1>1. /\ UNCHANGED alpacaVars /\ at' = at /\ i' = i /\ state' = state
  BY DEF CacheExpires, RunnerFetches, ViewerGets, ViewerFetches, gateVars, runVars
<1>2. Equity' = Equity /\ \A e : Now(e)' = Now(e)
  BY <1>1, NowStays DEF alpacaVars
<1>3. StateNow'
  BY <1>1, <1>2 DEF CurrentInv, StateNow, alpacaVars
<1>4. Settled => AnswersNow'
  <2> SUFFICES ASSUME Settled PROVE AnswersNow'
    OBVIOUS
  <2>1. AnswersNow /\ AnswersTyped /\ Runner \in Readers /\ Viewers \subseteq Readers
    BY GateAssumption DEF CurrentInv, GateInv
  <2>2. CASE CacheExpires
    <3>1. PICK e \in Endpoints : Expire(e)
      BY <2>2 DEF CacheExpires
    <3>2. reading' = reading /\ \A f \in Endpoints : cached'[f] \in {cached[f], Nothing}
      BY <2>1, <3>1 DEF Expire, AnswersTyped
    <3> QED
      BY <1>2, <2>1, <3>2 DEF AnswersNow
  <2>3. CASE RunnerFetches
    <3>1. \E e \in Endpoints : Fetch(Runner, e, Now(e))
      BY <2>3 DEF RunnerFetches, Endpoints
    <3> QED
      BY <1>1, <2>1, <3>1, FetchNow
  <2>4. CASE \E v \in Viewers, e \in Endpoints : ViewerFetches(v, e)
    <3>1. \E v \in Readers, e \in Endpoints : Fetch(v, e, Now(e))
      BY <2>1, <2>4 DEF ViewerFetches
    <3> QED
      BY <1>1, <2>1, <3>1, FetchNow
  <2>5. CASE \E v \in Viewers : ViewerGets(v)
    <3>1. PICK v \in Viewers : /\ reading[v] # Nothing
                               /\ Got(v, reading[v].of, reading[v].value)
      BY <2>5 DEF ViewerGets
    <3>2. v \in Readers /\ reading[v].of \in Endpoints
      BY <2>1, <3>1 DEF AnswersTyped
    <3> QED
      BY <1>1, <2>1, <3>1, <3>2, GotNow
  <2>6. CASE UNCHANGED gateVars
    BY <1>2, <2>1, <2>6 DEF AnswersNow, gateVars, cacheVars
  <2> QED
    BY <2>2, <2>3, <2>4, <2>5, <2>6
<1> QED
  BY <1>1, <1>3, <1>4 DEF CurrentInv, Settled, alpacaVars

\* The runner takes account and positions as they are.
LEMMA TakesAreCurrent ==
  ASSUME GateInv, GateTypeInv, CurrentInv, TakeMarks \/ TakeAccount \/ TakePositions
  PROVE  CurrentInv'
<1>1. /\ UNCHANGED alpacaVars /\ i' = i
      /\ at \in {"marks", "account", "positions"}
      /\ at' \in {"account", "positions", "judge", "end"}
  BY DEF TakeMarks, TakeAccount, TakePositions
<1>2. Equity' = Equity /\ \A e : Now(e)' = Now(e)
  BY <1>1, NowStays DEF alpacaVars
<1>3. AnswersNow /\ AnswersTyped /\ Runner \in Readers /\ open = {}
      /\ "account" \in Endpoints /\ "positions" \in Endpoints
  BY <1>1, GateAssumption DEF CurrentInv, Settled, GateInv, Endpoints
<1>4. CASE TakeMarks
  <2>1. AnswersNow'
    <3>1. CASE ReadFails(Runner, "positions")
      BY <1>2, <1>3, <3>1 DEF ReadFails, AnswersNow, cacheVars
    <3>2. CASE \E v : Got(Runner, "positions", v)
      BY <1>1, <1>3, <3>2, GotNow
    <3> QED
      BY <1>4, <3>1, <3>2 DEF TakeMarks
  <2>2. at' = "account"
    BY <1>4 DEF TakeMarks
  <2> QED
    BY <1>1, <1>3, <2>1, <2>2 DEF CurrentInv, StateNow, alpacaVars
<1>5. CASE TakeAccount
  <2>1. PICK v : Got(Runner, "account", v) /\ state' = v
    BY <1>5 DEF TakeAccount
  <2>2. v = Now("account") /\ AnswersNow'
    BY <1>1, <1>3, <2>1, GotNow
  <2>3. state'.cash = cash /\ state'.equity = Equity
    BY <2>1, <2>2 DEF Now
  <2>4. at' = "positions"
    BY <1>5 DEF TakeAccount
  <2> QED
    BY <1>1, <1>2, <1>3, <2>2, <2>3, <2>4 DEF CurrentInv, StateNow, alpacaVars
<1>6. CASE TakePositions
  <2>1. PICK v \in {cached["positions"], reading[Runner]} \ {Nothing} :
          /\ Got(Runner, "positions", v.value)
          /\ state' = [cash |-> state.cash, equity |-> state.equity,
                       asOf |-> Min({state.asOf, v.value.asOf}),
                       shares |-> v.value.shares,
                       marks |-> [s \in DOMAIN marks \cup Held(v.value) |->
                                    IF s \in Held(v.value) THEN Price[s] ELSE marks[s]]]
    BY <1>6, Zenon DEF TakePositions
  <2>2. v.value = Now("positions") /\ AnswersNow'
    BY <1>1, <1>3, <2>1, GotNow
  <2>3. v.value.shares = shares
    BY <2>2 DEF Now
  <2>4. Held(v.value) = {s \in Symbols : shares[s] # 0}
    BY <2>3 DEF Held
  <2>5. /\ state'.cash = state.cash /\ state'.equity = state.equity
        /\ state'.shares = shares
        /\ state'.marks = [s \in DOMAIN marks \cup Held(v.value) |->
                             IF s \in Held(v.value) THEN Price[s] ELSE marks[s]]
    BY <2>1, <2>3
  <2>6. \A s \in Symbols :
          shares[s] # 0 => s \in DOMAIN state'.marks /\ state'.marks[s] = Price[s]
    BY <2>4, <2>5
  <2>7. \A s \in DOMAIN state'.marks : state'.marks[s] \in Int
    <3>1. \A s \in Symbols : Price[s] \in Int
      BY GateAssumption
    <3> QED
      BY <2>4, <2>5, <3>1 DEF GateTypeInv, MarksTyped
  <2>8. state.cash = cash /\ state.equity = Equity
    BY <1>6 DEF TakePositions, CurrentInv, StateNow
  <2>9. at' \in {"judge", "end"}
    BY <1>6 DEF TakePositions
  <2> QED
    BY <1>1, <1>2, <1>3, <2>2, <2>5, <2>6, <2>7, <2>8, <2>9 DEF CurrentInv, StateNow, alpacaVars
<1> QED
  BY <1>4, <1>5, <1>6

\* The gate's verdict, and an order from its sending to its end.  The poll that
\* sees the end finds the cache empty, and no order open.
LEMMA OrdersKeepCurrent ==
  ASSUME GateInv, CurrentInv, excuses = {}, excuses' = {},
         \/ StateFails \/ Judge \/ SendOrder \/ OrderRefused \/ ReplyArrives \/ ReplyLost
         \/ OrderEnds \/ PollTimeout \/ PollFails
         \/ \E n \in open : AlpacaFills(n) \/ AlpacaCancels(n)
  PROVE  CurrentInv'
<1>1. CASE StateFails
  BY <1>1 DEF StateFails, CurrentInv, Settled, StateNow, alpacaVars
<1>2. CASE Judge \/ OrderRefused
  <2>1. /\ UNCHANGED alpacaVars /\ UNCHANGED cacheVars /\ state' = state
        /\ at \in {"judge", "send"} /\ at' \in {"judge", "send", "end"}
    BY <1>2 DEF Judge, OrderRefused, SkipToNext
  <2>2. Equity' = Equity /\ \A e : Now(e)' = Now(e)
    BY <2>1, NowStays DEF alpacaVars
  <2>3. open = {} /\ AnswersNow
    BY <2>1 DEF CurrentInv, Settled
  <2>4. AnswersNow'
    BY <2>1, <2>2, <2>3 DEF AnswersNow, cacheVars
  <2>5. StateNow'
    BY <2>1, <2>2 DEF CurrentInv, StateNow, alpacaVars
  <2> QED
    BY <2>1, <2>3, <2>4, <2>5 DEF CurrentInv, alpacaVars
<1>3. CASE SendOrder
  BY <1>3 DEF SendOrder, CurrentInv, Settled, StateNow
<1>4. CASE ReplyArrives \/ PollFails
  <2>1. /\ open' = open /\ i' = i /\ at \in {"reply", "poll"} /\ at' \in {"poll", "end"}
    BY <1>4 DEF ReplyArrives, PollFails, alpacaVars
  <2> QED
    BY <2>1 DEF CurrentInv, Settled, StateNow
<1>5. CASE OrderEnds
  <2>1. /\ at = "poll" /\ at' = "account" /\ i \notin open /\ open' = open
        /\ UNCHANGED cacheVars
    BY <1>5 DEF OrderEnds, alpacaVars
  <2>2. open = {}
    BY <2>1 DEF CurrentInv, Settled
  <2>3. /\ \A r \in Readers : reading[r] = Nothing
        /\ \A e \in Endpoints : cached[e] = Nothing
    BY <2>1 DEF GateInv, EmptyInv
  <2>4. AnswersNow'
    BY <2>1, <2>3 DEF AnswersNow, cacheVars
  <2> QED
    BY <2>1, <2>2, <2>4 DEF CurrentInv, StateNow
<1>6. CASE ReplyLost \/ PollTimeout
  BY <1>6 DEF ReplyLost, PollTimeout
<1>7. CASE \E n \in open : AlpacaFills(n) \/ AlpacaCancels(n)
  <2>1. open # {} /\ open' \subseteq open /\ at' = at /\ i' = i
    BY <1>7 DEF AlpacaFills, AlpacaCancels, runVars
  <2> QED
    BY <2>1 DEF CurrentInv, Settled, StateNow
<1> QED
  BY <1>1, <1>2, <1>3, <1>4, <1>5, <1>6, <1>7

LEMMA CurrentStep ==
  ASSUME GateInv, GateTypeInv, excuses = {} => CurrentInv, [GateNext]_gateVars
  PROVE  excuses' = {} => CurrentInv'
<1> SUFFICES ASSUME excuses' = {} PROVE CurrentInv'
  OBVIOUS
<1>1. excuses = {} /\ CurrentInv
  BY ExcusesStay
<1> QED
  BY <1>1, ReadersKeepCurrent, TakesAreCurrent, OrdersKeepCurrent DEF GateNext, GateStep

----------------------------------------------------------------------------
(* What the gate lets through keeps within the limits *)

\* The two rules a buy that is let through has passed.
LEMMA AllowedRules ==
  ASSUME NEW st, NEW p, NEW mark, AutoExecute(st, p, mark)
  PROVE  /\ ~(/\ CashImpact(p, mark) < 0 /\ st.equity > 0
              /\ (st.cash + CashImpact(p, mark)) * 100 < Engine.minCash * st.equity)
         /\ ~(/\ p.side = "buy" /\ EquityAfter(st, p, mark) > 0
              /\ ValueAfter(st, p.symbol, p, mark) * 100
                   > Engine.maxWeight * EquityAfter(st, p, mark))
<1>1. "min_cash_ratio" \notin Breaches(st, p, mark)
  BY DEF AutoExecute
<1>2. "max_single_name_weight" \notin Breaches(st, p, mark)
  BY DEF AutoExecute
<1>3. ~(/\ CashImpact(p, mark) < 0 /\ st.equity > 0
        /\ (st.cash + CashImpact(p, mark)) * 100 < Engine.minCash * st.equity)
  BY <1>1 DEF Breaches
<1>4. ~(/\ p.side = "buy" /\ EquityAfter(st, p, mark) > 0
        /\ ValueAfter(st, p.symbol, p, mark) * 100
             > Engine.maxWeight * EquityAfter(st, p, mark))
  BY <1>2 DEF Breaches
<1> QED
  BY <1>3, <1>4

\* In a state that is the account, at the right price, the gate computes what the
\* account will be.
LEMMA GateForesees ==
  ASSUME AccountTyped, NEW p \in Proposed, NEW mark, mark = Price[p.symbol],
         state.cash = cash, state.shares = shares,
         \A s \in Symbols : shares[s] # 0 => s \in DOMAIN state.marks /\ state.marks[s] = Price[s],
         \A s \in DOMAIN state.marks : state.marks[s] \in Int
  PROVE  /\ state.cash + CashImpact(p, mark) = CashWith(p)
         /\ \A s \in Symbols : ValueAfter(state, s, p, mark) = ValueIn(SharesWith(p), s)
         /\ EquityAfter(state, p, mark) = CashWith(p) + TotalIn(SharesWith(p))
<1>1. /\ p.symbol \in Symbols /\ p.qty \in Nat /\ mark \in Nat /\ mark > 0
      /\ cash \in Int /\ shares \in [Symbols -> Int]
      /\ \A s \in Symbols : Price[s] \in Nat
  BY ProposalFields, GateAssumption DEF AccountTyped
<1>2. PICK w \in Nat :
        /\ w = p.qty * Price[p.symbol]
        /\ CashWith(p) = IF p.side = "buy" THEN cash - w ELSE cash + w
        /\ SharesWith(p) \in [Symbols -> Int]
  BY TradeMoves
<1>3. state.cash + CashImpact(p, mark) = CashWith(p)
  <2>1. Notional(p, mark) = w
    BY <1>2 DEF Notional
  <2> QED
    BY <1>1, <1>2, <2>1 DEF CashImpact
<1>4. SharesAfter(state, p) = SharesWith(p)
  <2> DEFINE q == p.qty  sym == p.symbol
  <2>1. q \in Int /\ sym \in Symbols /\ shares[sym] \in Int
    BY <1>1
  <2>2. shares[sym] - q = shares[sym] + (-q)
    <3> HIDE DEF q, sym
    <3> QED
      BY <2>1
  <2>3. (IF p.side = "buy" THEN shares[sym] + q ELSE shares[sym] - q) = shares[sym] + Signed(p)
    BY <2>2 DEF Signed
  <2>4. SharesAfter(state, p) =
          [shares EXCEPT ![sym] = IF p.side = "buy" THEN shares[sym] + q ELSE shares[sym] - q]
    BY DEF SharesAfter
  <2> QED
    BY <2>3, <2>4 DEF SharesWith
<1>5. ASSUME NEW s \in Symbols
      PROVE  ValueAfter(state, s, p, mark) = ValueIn(SharesWith(p), s)
  <2> DEFINE k == SharesWith(p)[s]  a == Price[s]  m == MarkOf(state, s, p, mark)
  <2>1. k \in Int /\ a \in Nat
    BY <1>1, <1>2
  <2>2. ValueAfter(state, s, p, mark) = k * m /\ ValueIn(SharesWith(p), s) = a * k
    BY <1>4 DEF ValueAfter, ValueIn
  <2>3. m = a \/ (k = 0 /\ m \in Int)
    <3>1. CASE s = p.symbol
      BY <1>1, <3>1 DEF MarkOf
    <3>2. CASE s # p.symbol /\ s \notin DOMAIN state.marks
      <4>1. k = shares[s] /\ shares[s] = 0
        BY <1>1, <3>2 DEF SharesWith
      <4>2. m = mark
        BY <3>2 DEF MarkOf
      <4> QED
        BY <1>1, <4>1, <4>2
    <3>3. CASE s # p.symbol /\ s \in DOMAIN state.marks /\ shares[s] # 0
      BY <3>3 DEF MarkOf
    <3>4. CASE s # p.symbol /\ shares[s] = 0
      <4>1. k = 0
        BY <1>1, <3>4 DEF SharesWith
      <4>2. m \in Int
        BY <1>1 DEF MarkOf
      <4> QED
        BY <4>1, <4>2
    <3> QED
      BY <3>1, <3>2, <3>3, <3>4
  <2> HIDE DEF k, a, m
  <2>4. k * m = a * k
    BY <2>1, <2>3
  <2> QED
    BY <2>2, <2>4
<1>6. EquityAfter(state, p, mark) = CashWith(p) + TotalIn(SharesWith(p))
  <2>1. [s \in Symbols |-> ValueAfter(state, s, p, mark)]
          = [s \in Symbols |-> ValueIn(SharesWith(p), s)]
    BY <1>5
  <2> QED
    BY <1>3, <2>1 DEF EquityAfter, TotalIn
<1> QED
  BY <1>3, <1>5, <1>6

\* The account on which the limits say anything: one worth something, and
\* orders of some size.  The cash rule asks nothing of an account worth nothing
\* and of an order for nothing.
Limited == OpeningEquity > 0 /\ \A p \in Proposed : p.qty > 0

LEMMA LimitsAreNumbers ==
  /\ OpeningEquity \in Int
  /\ Engine.minCash * OpeningEquity \in Int /\ Engine.maxWeight * OpeningEquity \in Int
<1>1. \A s \in Symbols : ValueIn(OpeningShares, s) \in Int
  <2> SUFFICES ASSUME NEW s \in Symbols PROVE ValueIn(OpeningShares, s) \in Int
    OBVIOUS
  <2>1. Price[s] \in Nat /\ OpeningShares[s] \in Int
    BY GateAssumption
  <2> QED
    BY <2>1, PriceTimes DEF ValueIn
<1>2. TotalIn(OpeningShares) \in Int
  <2> DEFINE h == [s \in Symbols |-> ValueIn(OpeningShares, s)]
  <2>1. IsFiniteSet(DOMAIN h) /\ \A s \in DOMAIN h : h[s] \in Int
    BY <1>1, EngineAssumption
  <2> HIDE DEF h
  <2>2. SumFunction(h) \in Int
    BY <2>1, TotalInt
  <2> QED
    BY <2>2 DEF TotalIn, h
<1>3. OpeningEquity \in Int
  BY <1>2, GateAssumption DEF OpeningEquity
<1>4. Engine.minCash \in Nat /\ Engine.maxWeight \in Nat
  BY EngineAssumption
<1> QED
  BY <1>3, <1>4, PriceTimes

\* What the gate lets through leaves the account within the limits, as it is
\* already: more of its cash and less of the symbol it holds before a buy.
LEMMA JudgeKeeps ==
  ASSUME Limited, GateTypeInv, CurrentInv, Within(cash, shares), Equity = OpeningEquity,
         at = "judge", NEW p, p = Current,
         AutoExecute(state, p, marks[p.symbol]), marks[p.symbol] = Price[p.symbol],
         cash' = cash, shares' = shares,
         bought' = IF p.side = "buy" THEN bought \cup {p.symbol} ELSE bought
  PROVE  Within(cash, shares)' /\ PendingWithin(p)'
<1> DEFINE mark == marks[p.symbol]
           low == Engine.minCash * OpeningEquity  high == Engine.maxWeight * OpeningEquity
           value(s) == ValueIn(shares, s)  after(s) == ValueIn(SharesWith(p), s)
<1>1. p \in Proposed /\ AccountTyped
  <2>1. Len(proposals) \in Nat /\ proposals \in Seq(Proposed)
    BY DEF GateTypeInv, AccountTyped
  <2>2. i \in 1..Len(proposals)
    BY <2>1 DEF GateTypeInv, OrdersTyped
  <2> QED
    BY <2>1, <2>2 DEF Current, GateTypeInv
<1>2. p.symbol \in Symbols /\ p.qty > 0
  BY <1>1, ProposalFields DEF Limited
<1>3. PICK w \in Nat :
        /\ w > 0
        /\ cash \in Int /\ CashWith(p) = IF p.side = "buy" THEN cash - w ELSE cash + w
        /\ \A s \in Symbols :
             /\ value(s) \in Int
             /\ after(s) = IF s # p.symbol THEN value(s)
                           ELSE IF p.side = "buy" THEN value(s) + w ELSE value(s) - w
  BY <1>1, <1>2, TradeMoves
<1>4. state.cash = cash /\ state.equity = OpeningEquity /\ state.shares = shares
  BY DEF CurrentInv, StateNow
<1>5. /\ state.cash + CashImpact(p, mark) = CashWith(p)
      /\ ValueAfter(state, p.symbol, p, mark) = after(p.symbol)
      /\ EquityAfter(state, p, mark) = CashWith(p) + TotalIn(SharesWith(p))
  <2>1. /\ mark = Price[p.symbol]
        /\ \A s \in Symbols :
             shares[s] # 0 => s \in DOMAIN state.marks /\ state.marks[s] = Price[s]
        /\ \A s \in DOMAIN state.marks : state.marks[s] \in Int
    BY DEF CurrentInv, StateNow
  <2> HIDE DEF mark
  <2> QED
    BY <1>1, <1>2, <1>4, <2>1, GateForesees
<1>6. EquityAfter(state, p, mark) = OpeningEquity
  BY <1>1, <1>5, TradeKeepsTotal, EquityIs
<1>7. p.side = "buy" => CashImpact(p, mark) < 0
  <2>1. p.qty \in Nat /\ Price[p.symbol] \in Nat \ {0} /\ mark = Price[p.symbol]
    BY <1>1, ProposalFields
  <2> DEFINE q == p.qty  a == Price[p.symbol]  x == a * q
  <2>2. q \in Nat /\ a \in Nat \ {0} /\ q > 0 /\ mark = a
    BY <1>2, <2>1
  <2> HIDE DEF q, a
  <2>3. x \in Nat /\ q * a = x /\ x > 0
    BY <2>2, NegativeTimes, PositiveTimes
  <2>4. Notional(p, mark) = q * a
    BY <2>2 DEF Notional, q
  <2> HIDE DEF x, mark
  <2>5. Notional(p, mark) \in Nat /\ Notional(p, mark) > 0
    BY <2>3, <2>4
  <2> QED
    BY <2>5 DEF CashImpact
<1>8. AutoExecute(state, p, mark)
  OBVIOUS
<1> HIDE DEF mark
<1>9. p.side = "buy" => CashWith(p) * 100 >= low /\ after(p.symbol) * 100 <= high
  <2> SUFFICES ASSUME p.side = "buy"
               PROVE  CashWith(p) * 100 >= low /\ after(p.symbol) * 100 <= high
    OBVIOUS
  <2>1. OpeningEquity > 0
    BY DEF Limited
  <2>2. ~((state.cash + CashImpact(p, mark)) * 100 < Engine.minCash * state.equity)
    BY <1>4, <1>7, <1>8, <2>1, AllowedRules
  <2>3. ~(ValueAfter(state, p.symbol, p, mark) * 100
            > Engine.maxWeight * EquityAfter(state, p, mark))
    BY <1>6, <1>8, <2>1, AllowedRules
  <2>4. ~(CashWith(p) * 100 < low)
    BY <1>4, <1>5, <2>2
  <2>5. ~(after(p.symbol) * 100 > high)
    BY <1>5, <1>6, <2>3
  <2>6. CashWith(p) \in Int /\ after(p.symbol) \in Int /\ low \in Int /\ high \in Int
    BY <1>2, <1>3, LimitsAreNumbers
  <2> HIDE DEF low, high, after
  <2> QED
    BY <2>4, <2>5, <2>6
<1>10. bought \subseteq Symbols /\ low \in Int /\ high \in Int
  BY LimitsAreNumbers DEF GateTypeInv
<1>11. bought # {} => cash * 100 >= low /\ \A s \in bought : value(s) * 100 <= high
  BY DEF Within
<1>12. bought' = IF p.side = "buy" THEN bought \cup {p.symbol} ELSE bought
  OBVIOUS
<1>13. /\ \A s \in Symbols : after(s) \in Int
       /\ CashWith(p) \in Int
  BY <1>3
<1> HIDE DEF low, high, value, after
<1>14. ASSUME bought' # {}
       PROVE  cash * 100 >= low /\ CashWith(p) * 100 >= low
  BY <1>3, <1>9, <1>10, <1>11, <1>12, <1>13, <1>14
<1>15. ASSUME NEW s \in bought'
       PROVE  value(s) * 100 <= high /\ after(s) * 100 <= high
  <2>1. s \in Symbols /\ value(s) \in Int /\ after(s) \in Int
    BY <1>2, <1>3, <1>10, <1>12, <1>13
  <2>2. CASE s = p.symbol /\ p.side = "buy"
    BY <1>3, <1>9, <1>10, <2>1, <2>2
  <2>3. CASE s \in bought /\ ~(s = p.symbol /\ p.side = "buy")
    BY <1>3, <1>10, <1>11, <2>1, <2>3
  <2> QED
    BY <1>12, <2>2, <2>3
<1>16. bought' # {} =>
         /\ cash' * 100 >= low
         /\ \A s \in bought' : ValueIn(shares', s) * 100 <= high
  <2>1. \A s : ValueIn(shares', s) = value(s)
    BY DEF ValueIn, value
  <2> QED
    BY <1>14, <1>15, <2>1
<1>17. bought' # {} =>
         /\ CashWith(p)' * 100 >= low
         /\ \A s \in bought' : ValueIn(SharesWith(p)', s) * 100 <= high
  <2>1. CashWith(p)' = CashWith(p) /\ SharesWith(p)' = SharesWith(p)
    BY DEF CashWith, SharesWith
  <2>2. \A s : ValueIn(SharesWith(p)', s) = after(s)
    BY <2>1 DEF ValueIn, after
  <2> QED
    BY <1>14, <1>15, <2>1, <2>2
<1>18. Within(cash, shares)'
  BY <1>16 DEF Within, low, high, ValueIn
<1>19. PendingWithin(p)'
  BY <1>17 DEF PendingWithin, Within, low, high, ValueIn
<1> QED
  BY <1>18, <1>19

LEMMA KeptInit == GateInit => KeptInv
BY DEF GateInit, KeptInv, Within, Undecided

\* Steps that neither trade nor let anything through.
LEMMA KeptStays ==
  ASSUME KeptInv, cash' = cash, shares' = shares, bought' = bought, Undecided' \subseteq Undecided
  PROVE  KeptInv'
<1>1. Within(cash, shares)'
  BY DEF KeptInv, Within, ValueIn
<1>2. ASSUME NEW p \in Undecided'
      PROVE  PendingWithin(p)'
  <2>1. PendingWithin(p)
    BY <1>2 DEF KeptInv
  <2> QED
    BY <2>1 DEF PendingWithin, Within, CashWith, SharesWith, ValueIn
<1> QED
  BY <1>1, <1>2 DEF KeptInv

LEMMA UndecidedShrinks ==
  ASSUME [GateNext]_gateVars, ~Judge
  PROVE  bought' = bought /\ Undecided' \subseteq Undecided
<1>1. CASE StateFails \/ SendOrder \/ OrderRefused \/ ReplyArrives \/ ReplyLost
  BY <1>1
  DEF StateFails, SendOrder, OrderRefused, ReplyArrives, ReplyLost, SkipToNext, alpacaVars,
      Undecided
<1>2. CASE OrderEnds \/ PollTimeout \/ PollFails
  BY <1>2 DEF OrderEnds, PollTimeout, PollFails, alpacaVars, Undecided
<1>3. CASE RunnerFetches \/ TakeMarks \/ TakeAccount \/ TakePositions
  BY <1>3
  DEF RunnerFetches, TakeMarks, TakeAccount, TakePositions, alpacaVars, runVars, Undecided
<1>4. CASE \/ CacheExpires
           \/ \E v \in Viewers : ViewerGets(v) \/ \E e \in Endpoints : ViewerFetches(v, e)
  BY <1>4 DEF CacheExpires, ViewerGets, ViewerFetches, alpacaVars, runVars, Undecided
<1>5. CASE \E n \in open : AlpacaFills(n) \/ AlpacaCancels(n)
  BY <1>5 DEF AlpacaFills, AlpacaCancels, runVars, Undecided
<1>6. CASE UNCHANGED gateVars
  BY <1>6 DEF gateVars, alpacaVars, runVars, Undecided
<1> QED
  BY <1>1, <1>2, <1>3, <1>4, <1>5, <1>6 DEF GateNext, GateStep

LEMMA JudgeStep ==
  ASSUME Limited, GateTypeInv, CurrentInv, KeptInv, Equity = OpeningEquity, mode = "gated",
         excuses' = {}, Judge
  PROVE  KeptInv'
<1>1. /\ at = "judge" /\ open' = open /\ proposals' = proposals
      /\ cash' = cash /\ shares' = shares
  BY DEF Judge, alpacaVars
<1>2. open = {}
  BY <1>1 DEF CurrentInv, Settled
<1>3. CASE at' # "send"
  <2>1. bought' = bought
    BY <1>3 DEF Judge
  <2>2. Undecided' = {}
    BY <1>1, <1>2, <1>3 DEF Undecided
  <2> QED
    BY <1>1, <2>1, <2>2, KeptStays
<1>4. CASE at' = "send"
  <2> DEFINE p == Current
  <2>1. /\ i' = i
        /\ AutoExecute(state, p, marks[p.symbol])
        /\ bought' = IF p.side = "buy" THEN bought \cup {p.symbol} ELSE bought
        /\ marks[p.symbol] = Price[p.symbol]
    BY <1>4 DEF Judge, SkipToNext
  <2>2. PICK q : q = p
    OBVIOUS
  <2>3. Within(cash, shares)' /\ PendingWithin(q)'
    <3> HIDE DEF p
    <3>1. Within(cash, shares) /\ q = p
      BY <2>2 DEF KeptInv
    <3> QED
      BY <1>1, <2>1, <3>1, JudgeKeeps DEF p
  <2>4. Undecided' = {q}
    BY <1>1, <1>2, <1>4, <2>1, <2>2 DEF Undecided, Current
  <2> QED
    BY <2>3, <2>4 DEF KeptInv
<1> QED
  BY <1>3, <1>4

LEMMA KeptStep ==
  ASSUME Limited, GateTypeInv, CurrentInv, KeptInv, Equity = OpeningEquity, mode = "gated",
         excuses' = {}, [GateNext]_gateVars
  PROVE  KeptInv'
<1>1. CASE Judge
  BY <1>1, JudgeStep
<1>2. CASE \E n \in open : AlpacaFills(n)
  <2>1. PICK n \in open : AlpacaFills(n)
    BY <1>2
  <2>2. PICK p : p = proposals[n]
    OBVIOUS
  <2>3. cash' = CashWith(p) /\ shares' = SharesWith(p)
    BY <2>1, <2>2, FillTrades
  <2>4. /\ bought' = bought /\ at' = at /\ open' = open \ {n} /\ i' = i
        /\ proposals' = proposals
    BY <2>1 DEF AlpacaFills, runVars
  <2>5. open = {n} /\ at # "send"
    BY DEF CurrentInv, Settled
  <2>6. Undecided' = {}
    BY <2>4, <2>5 DEF Undecided
  <2>7. p \in Undecided
    BY <2>2 DEF Undecided
  <2>8. Within(CashWith(p), SharesWith(p))
    BY <2>7 DEF KeptInv, PendingWithin
  <2>9. Within(cash, shares)'
    BY <2>3, <2>4, <2>8 DEF Within, ValueIn
  <2> QED
    BY <2>6, <2>9 DEF KeptInv
<1>3. CASE ~Judge /\ cash' = cash /\ shares' = shares
  BY <1>3, UndecidedShrinks, KeptStays
<1> QED
  BY <1>1, <1>2, <1>3, OnlyFillsTrade

LEMMA ModeStays == ASSUME [GateNext]_gateVars PROVE mode' = mode
<1>1. CASE GateStep
  BY <1>1
  DEF GateStep, RunnerFetches, TakeMarks, TakeAccount, TakePositions, StateFails, Judge,
      SendOrder, OrderRefused, ReplyArrives, ReplyLost, OrderEnds, PollTimeout, PollFails,
      runVars
<1>2. CASE ~GateStep
  BY <1>2
  DEF GateNext, ViewerGets, ViewerFetches, CacheExpires, AlpacaFills, AlpacaCancels, gateVars,
      runVars
<1> QED
  BY <1>1, <1>2

LimitsInv ==
  /\ GateInv /\ GateTypeInv
  /\ Equity = OpeningEquity
  /\ excuses = {} => CurrentInv
  /\ excuses = {} /\ mode = "gated" => KeptInv

\* In an account worth something, whatever else it holds and however many
\* proposals a run makes, all that the gate lets through leaves the account
\* within the cash and the single-name limit, unless a mark was wrong, an order
\* stayed open or unknown, or a page read in between.
THEOREM TradesKeepTheLimits ==
  ASSUME Limited
  PROVE  GateSpec => []LimitsKept
<1>1. GateInit => LimitsInv
  BY GateInvInit, GateTypeInit, EquityInit, CurrentInit, KeptInit DEF LimitsInv
<1>2. LimitsInv /\ [GateNext]_gateVars => LimitsInv'
  <2> SUFFICES ASSUME LimitsInv, [GateNext]_gateVars PROVE LimitsInv'
    OBVIOUS
  <2>1. GateInv' /\ GateTypeInv'
    BY GateInvStep, GateTypeStep DEF LimitsInv
  <2>2. Equity' = OpeningEquity
    BY EquityStep DEF LimitsInv
  <2>3. excuses' = {} => CurrentInv'
    BY CurrentStep DEF LimitsInv
  <2>4. excuses' = {} /\ mode' = "gated" => KeptInv'
    <3> SUFFICES ASSUME excuses' = {}, mode' = "gated" PROVE KeptInv'
      OBVIOUS
    <3>1. excuses = {} /\ mode = "gated"
      BY ExcusesStay, ModeStays
    <3> QED
      BY <3>1, KeptStep, Limited DEF LimitsInv
  <2> QED
    BY <2>1, <2>2, <2>3, <2>4 DEF LimitsInv
<1>3. LimitsInv => LimitsKept
  <2> SUFFICES ASSUME LimitsInv, mode = "gated", excuses = {}, bought # {}
               PROVE  /\ cash * 100 >= Engine.minCash * Equity
                      /\ \A s \in bought : Worth(s) * 100 <= Engine.maxWeight * Equity
    BY DEF LimitsKept
  <2> QED
    BY DEF LimitsInv, KeptInv, Within, ValueIn, Worth
<1> QED
  BY <1>1, <1>2, <1>3, PTL DEF GateSpec
=============================================================================
