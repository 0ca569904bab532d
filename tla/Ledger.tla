------------------------------- MODULE Ledger -------------------------------
(***************************************************************************)
(* The local books (ledger/ledger.go): ApplyFill as the database sees it,  *)
(* a transaction that takes row locks (SELECT ... FOR UPDATE) and keeps    *)
(* them until it commits or rolls back, and the day's NAV snapshot that    *)
(* a run (workflow.upsertNAV) or an approval (upsertNAVWithMarks) stores,  *)
(* from the broker's account or, when that cannot be had, from the books.  *)
(*                                                                         *)
(* A buy locks the account, then the position; a sell the position, then   *)
(* the account.  What a transaction writes is seen by others once it       *)
(* commits.  One account and one trade date; a share has one price, which  *)
(* is the fill price and the mark.                                         *)
(***************************************************************************)
EXTENDS Integers, Sequences, FiniteSetsExt

CONSTANTS
  Symbols,         \* the symbols traded
  Price,           \* the price of each
  Fills,           \* the calls of ApplyFill
  Requests,        \* what they may ask: [side, symbol, qty]
  InitialCash,     \* the seeded account
  Opening,         \* the quantity of each symbol held at first
  Upserts,         \* the calls that store a NAV
  BrokerAccounts   \* what GetAccount may answer: [cash, equity, value]

Free == "free"

ASSUME LedgerAssumption ==
  /\ IsFiniteSet(Symbols)
  /\ Free \notin Fills
  /\ Price \in [Symbols -> Nat \ {0}]
  /\ Requests \subseteq [side : {"buy", "sell"}, symbol : Symbols, qty : Nat \ {0}]
  /\ InitialCash \in Nat
  /\ Opening \in [Symbols -> Nat]
  /\ BrokerAccounts \subseteq [cash : Int, equity : Nat, value : Nat]

VARIABLES
  books,        \* the account's cash
  rows,         \* per symbol its position rows (their quantities, oldest first)
  orders,       \* the calls whose order row is committed
  accountLock,  \* the call that holds the account's row lock, or Free
  rowLock,      \* per symbol the call that holds its position's row lock
  filling,      \* each call of ApplyFill: where it is and what it has read
  snapshot,     \* the day's row of nav_snapshots, or NoSnapshot
  upserting     \* each call that stores a NAV

ledgerVars ==
  <<books, rows, orders, accountLock, rowLock, filling, snapshot, upserting>>

NoRequest == [side |-> "none"]
NoSnapshot == [nav |-> -1]

Snapshots == [cash : Int, equity : Nat, nav : Int]

LedgerTypeOK ==
  /\ books \in Int
  /\ rows \in [Symbols -> Seq(Nat)]
  /\ orders \subseteq Fills
  /\ accountLock \in Fills \cup {Free}
  /\ rowLock \in [Symbols -> Fills \cup {Free}]
  /\ filling \in [Fills -> [at : {"none", "begin", "second", "save", "done", "failed"},
                            request : Requests \cup {NoRequest},
                            cash : Int, qty : Nat]]
  /\ snapshot \in Snapshots \cup {NoSnapshot}
  /\ upserting \in [Upserts -> [at : {"begin", "cash", "positions", "find", "create",
                                      "save", "done", "failed"},
                                source : {"none", "broker", "books"}, cash : Int,
                                steady : BOOLEAN,
                                snap : Snapshots \cup {NoSnapshot}]]

LedgerInit ==
  /\ books = InitialCash
  /\ rows = [s \in Symbols |-> IF Opening[s] > 0 THEN <<Opening[s]>> ELSE <<>>]
  /\ orders = {}
  /\ accountLock = Free
  /\ rowLock = [s \in Symbols |-> Free]
  /\ filling = [f \in Fills |->
       [at |-> "none", request |-> NoRequest, cash |-> 0, qty |-> 0]]
  /\ snapshot = NoSnapshot
  /\ upserting = [u \in Upserts |-> [at |-> "begin", source |-> "none", cash |-> 0,
                                     steady |-> TRUE, snap |-> NoSnapshot]]

Asked(f) == filling[f].request
Notional(r) == r.qty * Price[r.symbol]

----------------------------------------------------------------------------
(* ApplyFill *)

BeginFill(f) ==
  /\ filling[f].at = "none"
  /\ \E r \in Requests :
       filling' = [filling EXCEPT ![f].at = "begin", ![f].request = r]
  /\ UNCHANGED <<books, rows, orders, accountLock, rowLock, snapshot, upserting>>

\* The transaction ends without effect and its locks are free again.
Unlock(f) ==
  /\ accountLock' = IF accountLock = f THEN Free ELSE accountLock
  /\ rowLock' = [s \in Symbols |-> IF rowLock[s] = f THEN Free ELSE rowLock[s]]

\* Mutant of RollBack: the caller who owns the transaction leaves it open.
RollBackForgotten(f) ==
  /\ filling' = [filling EXCEPT ![f] = [at |-> "failed", request |-> NoRequest,
                                        cash |-> 0, qty |-> 0]]
  /\ UNCHANGED <<accountLock, rowLock, books, rows, orders, snapshot, upserting>>

RollBack(f) ==
  /\ filling' = [filling EXCEPT ![f] = [at |-> "failed", request |-> NoRequest,
                                        cash |-> 0, qty |-> 0]]
  /\ Unlock(f)
  /\ UNCHANGED <<books, rows, orders, snapshot, upserting>>

\* Mutant of BuyTakesAccount: the account is read without a lock.
BuyReadsAccount(f) ==
  /\ filling[f].at = "begin"
  /\ Asked(f).side = "buy"
  /\ IF books < Notional(Asked(f)) THEN RollBack(f)
     ELSE /\ filling' = [filling EXCEPT ![f].at = "second", ![f].cash = books]
          /\ UNCHANGED <<books, rows, orders, accountLock, rowLock, snapshot, upserting>>

\* A buy locks and reads the account: insufficient cash ends it.
BuyTakesAccount(f) ==
  /\ filling[f].at = "begin"
  /\ Asked(f).side = "buy"
  /\ accountLock = Free
  /\ IF books < Notional(Asked(f)) THEN RollBack(f)
     ELSE /\ filling' = [filling EXCEPT ![f].at = "second", ![f].cash = books]
          /\ accountLock' = f
          /\ UNCHANGED <<books, rows, orders, rowLock, snapshot, upserting>>

\* Then it locks the position, if there is one to lock.
BuyTakesPosition(f) ==
  LET s == Asked(f).symbol IN
  /\ filling[f].at = "second"
  /\ Asked(f).side = "buy"
  /\ IF rows[s] = <<>>
     THEN filling' = [filling EXCEPT ![f].at = "save"] /\ UNCHANGED rowLock
     ELSE /\ rowLock[s] = Free
          /\ filling' = [filling EXCEPT ![f].at = "save", ![f].qty = Head(rows[s])]
          /\ rowLock' = [rowLock EXCEPT ![s] = f]
  /\ UNCHANGED <<books, rows, orders, accountLock, snapshot, upserting>>

\* A sell locks and reads the position: none, or too few shares, ends it.
SellTakesPosition(f) ==
  LET s == Asked(f).symbol IN
  /\ filling[f].at = "begin"
  /\ Asked(f).side = "sell"
  /\ \/ /\ rows[s] = <<>>
        /\ RollBack(f)
     \/ /\ rows[s] # <<>>
        /\ rowLock[s] = Free
        /\ IF Head(rows[s]) < Asked(f).qty THEN RollBack(f)
           ELSE /\ filling' = [filling EXCEPT ![f].at = "second", ![f].qty = Head(rows[s])]
                /\ rowLock' = [rowLock EXCEPT ![s] = f]
                /\ UNCHANGED <<books, rows, orders, accountLock, snapshot, upserting>>

\* Then it locks and reads the account.
SellTakesAccount(f) ==
  /\ filling[f].at = "second"
  /\ Asked(f).side = "sell"
  /\ accountLock = Free
  /\ filling' = [filling EXCEPT ![f].at = "save", ![f].cash = books]
  /\ accountLock' = f
  /\ UNCHANGED <<books, rows, orders, rowLock, snapshot, upserting>>

\* The position's rows after the fill: what was read is saved over the first
\* row, a position that was not there is created, an empty one deleted.
RowsAfter(f) ==
  LET old == rows[Asked(f).symbol]
      qty == filling[f].qty
      left == IF Asked(f).side = "buy" THEN qty + Asked(f).qty ELSE qty - Asked(f).qty
  IN IF qty = 0 THEN Append(old, left)
     ELSE IF left = 0 THEN Tail(old)
     ELSE <<left>> \o Tail(old)

\* The account, the position and the order row are written and committed.  A
\* NAV that has read the cash and not yet the positions will mix two states.
Commit(f) ==
  /\ filling[f].at = "save"
  /\ books' = IF Asked(f).side = "buy" THEN filling[f].cash - Notional(Asked(f))
              ELSE filling[f].cash + Notional(Asked(f))
  /\ rows' = [rows EXCEPT ![Asked(f).symbol] = RowsAfter(f)]
  /\ orders' = orders \cup {f}
  /\ filling' = [filling EXCEPT ![f].at = "done", ![f].cash = 0, ![f].qty = 0]
  /\ Unlock(f)
  /\ upserting' = [u \in Upserts |->
       IF upserting[u].at = "positions" THEN [upserting[u] EXCEPT !.steady = FALSE]
       ELSE upserting[u]]
  /\ UNCHANGED snapshot

\* A statement of the transaction fails.
StatementFails(f) ==
  /\ filling[f].at \in {"begin", "second", "save"}
  /\ RollBack(f)

\* f waits for a lock of g.
WaitsFor(f, g) ==
  LET wantsAccount == \/ filling[f].at = "begin" /\ Asked(f).side = "buy"
                      \/ filling[f].at = "second" /\ Asked(f).side = "sell"
      wantsRow == \/ filling[f].at = "begin" /\ Asked(f).side = "sell"
                  \/ filling[f].at = "second" /\ Asked(f).side = "buy"
  IN \/ wantsAccount /\ accountLock = g
     \/ wantsRow /\ rowLock[Asked(f).symbol] = g

\* The database finds two transactions waiting for each other and fails one.
DeadlockVictim(f) ==
  /\ \E g \in Fills \ {f} : WaitsFor(f, g) /\ WaitsFor(g, f)
  /\ RollBack(f)

FillStep(f) ==
  \/ BuyTakesAccount(f)
  \/ BuyTakesPosition(f)
  \/ SellTakesPosition(f)
  \/ SellTakesAccount(f)
  \/ Commit(f)

----------------------------------------------------------------------------
(* The day's NAV *)

\* What is stored of the broker's account: its equity, or its portfolio value
\* where the equity is missing, and what of it is not cash.
BrokerTotals(a) ==
  LET nav == IF a.equity = 0 /\ a.value > 0 THEN a.value ELSE a.equity
  IN [cash |-> a.cash, nav |-> nav, equity |-> Max({nav - a.cash, 0})]

\* GetAccount answers, or it fails and the books must do.
ReadAccount(u) ==
  /\ upserting[u].at = "begin"
  /\ \/ \E a \in BrokerAccounts :
          upserting' = [upserting EXCEPT ![u].at = "find", ![u].source = "broker",
                                         ![u].snap = BrokerTotals(a)]
     \/ upserting' = [upserting EXCEPT ![u].at = "cash", ![u].source = "books"]
  /\ UNCHANGED <<books, rows, orders, accountLock, rowLock, filling, snapshot>>

ReadCash(u) ==
  /\ upserting[u].at = "cash"
  /\ upserting' = [upserting EXCEPT ![u].at = "positions", ![u].cash = books]
  /\ UNCHANGED <<books, rows, orders, accountLock, rowLock, filling, snapshot>>

\* The shares held of a symbol, and what those of the given symbols are worth.
Quantity(s) == SumFunction(rows[s])
Worth(symbols) == SumFunction([s \in symbols |-> Price[s] * Quantity(s)])

\* Mutant of ReadPositions: a position without a mark is passed over.
ReadMarkedPositions(u) ==
  /\ upserting[u].at = "positions"
  /\ \E marked \in SUBSET Symbols :
       upserting' = [upserting EXCEPT ![u].at = "find", ![u].snap =
           [cash |-> upserting[u].cash, equity |-> Worth(marked),
            nav |-> upserting[u].cash + Worth(marked)]]
  /\ UNCHANGED <<books, rows, orders, accountLock, rowLock, filling, snapshot>>

\* The positions are read and marked; one without a mark fails the call.
ReadPositions(u) ==
  /\ upserting[u].at = "positions"
  /\ \E marked \in SUBSET Symbols :
       IF \E s \in Symbols \ marked : rows[s] # <<>>
       THEN upserting' = [upserting EXCEPT ![u].at = "failed"]
       ELSE upserting' = [upserting EXCEPT ![u].at = "find", ![u].snap =
           [cash |-> upserting[u].cash, equity |-> Worth(marked),
            nav |-> upserting[u].cash + Worth(marked)]]
  /\ UNCHANGED <<books, rows, orders, accountLock, rowLock, filling, snapshot>>

\* Is there a row of the day yet?
FindSnapshot(u) ==
  /\ upserting[u].at = "find"
  /\ upserting' = [upserting EXCEPT ![u].at =
       IF snapshot = NoSnapshot THEN "create" ELSE "save"]
  /\ UNCHANGED <<books, rows, orders, accountLock, rowLock, filling, snapshot>>

\* trade_date is unique: who creates second fails.
StoreSnapshot(u) ==
  /\ upserting[u].at \in {"create", "save"}
  /\ IF upserting[u].at = "create" /\ snapshot # NoSnapshot
     THEN upserting' = [upserting EXCEPT ![u].at = "failed"] /\ UNCHANGED snapshot
     ELSE /\ upserting' = [upserting EXCEPT ![u].at = "done"]
          /\ snapshot' = upserting[u].snap
  /\ UNCHANGED <<books, rows, orders, accountLock, rowLock, filling>>

LedgerNext ==
  \/ \E f \in Fills : \/ BeginFill(f) \/ FillStep(f)
                      \/ StatementFails(f) \/ DeadlockVictim(f)
  \/ \E u \in Upserts : \/ ReadAccount(u) \/ ReadCash(u) \/ ReadPositions(u)
                        \/ FindSnapshot(u) \/ StoreSnapshot(u)

LedgerSpec == LedgerInit /\ [][LedgerNext]_ledgerVars

----------------------------------------------------------------------------
(* Properties *)

Signed(f) == IF Asked(f).side = "buy" THEN Asked(f).qty ELSE -Asked(f).qty

\* "Locks the account (and existing position) with SELECT FOR UPDATE to prevent
\* concurrent overspend": however fills interleave, the cash and every position
\* are what the committed orders make of the opening ones, no fill is lost or
\* counted twice, the cash never goes below zero and a symbol never has two rows.
BooksMatchOrders ==
  /\ books >= 0
  /\ books = InitialCash - SumFunction([f \in orders |-> Signed(f) * Price[Asked(f).symbol]])
  /\ \A s \in Symbols :
       /\ Len(rows[s]) <= 1
       /\ Quantity(s) = Opening[s]
            + SumFunction([f \in {g \in orders : Asked(g).symbol = s} |-> Signed(f)])

\* Buys and sells lock in opposite order, and yet every fill ends: the database
\* breaks the deadlock and the victim gives its locks back.
FillsEnd ==
  \A f \in Fills :
    filling[f].at \in {"begin", "second", "save"} ~> filling[f].at \in {"done", "failed"}

\* A NAV taken from the books while no fill committed counts all of them: at
\* constant prices trading neither makes nor loses money.  A NAV taken from the
\* broker is never zero while the account is worth something, and adds up
\* unless the account is short.
NavIsWhole ==
  \A u \in Upserts : upserting[u].snap # NoSnapshot =>
    LET snap == upserting[u].snap IN
    IF upserting[u].source = "books"
    THEN upserting[u].steady =>
           snap.nav = InitialCash + SumFunction([s \in Symbols |-> Price[s] * Opening[s]])
    ELSE /\ snap.nav = 0 => \E a \in BrokerAccounts : a.equity = 0 /\ a.value = 0
         /\ snap.nav >= snap.cash => snap.nav = snap.cash + snap.equity
=============================================================================
